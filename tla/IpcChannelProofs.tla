-------------------------- MODULE IpcChannelProofs --------------------------
(***************************************************************************)
(* Proofs of the safety properties of IpcChannel, for any number of        *)
(* processes, channels, descriptors and frames, and any programs: the      *)
(* invariant, the steps that keep it without taking a descriptor (those    *)
(* inside a call, closing a handle, a worker's death), the two that take   *)
(* some (channel_open and spawn_worker), and the properties it gives.      *)
(***************************************************************************)
EXTENDS IpcChannel, TLAPS, FiniteSetTheorems, WellFoundedInduction

-----------------------------------------------------------------------------
(* The invariant. *)

\* p sends on pipe <<c, k>> and receives on the other pipe of c, and has the
\* two unused ends open as well.
Faces(p, c, k) ==
  /\ fd[p][handle[p][c].o0] = <<<<c, k>>, "r">>
  /\ fd[p][handle[p][c].o4] = <<<<c, k>>, "w">>
  /\ fd[p][handle[p][c].o8] = <<<<c, 3 - k>>, "r">>
  /\ fd[p][handle[p][c].o12] = <<<<c, 3 - k>>, "w">>

IsOpen(p, c) == handle[p][c] # NoHandle /\ c \notin closed[p]

\* An open handle leads to the four ends of its channel.
HandlesLead ==
  \A p \in Procs, c \in Channels : IsOpen(p, c) => Faces(p, c, 1) \/ Faces(p, c, 2)

\* Every descriptor belongs to an open handle.
EndsOwned ==
  \A p \in Procs, f \in Fds :
    fd[p][f] # NoEnd =>
      LET c == fd[p][f][1][1] IN IsOpen(p, c) /\ f \in HandleFds(handle[p][c])

\* A channel that is not opened yet is nowhere.
NotOpened ==
  \A c \in Channels : c > opened =>
    /\ \A p \in Procs : handle[p][c] = NoHandle
    /\ \A k \in {1, 2} : buf[<<c, k>>] = <<>>

\* The registry and the history of closes speak of handles p was given.
HandlesKnown ==
  \A p \in Procs :
    /\ \A i \in DOMAIN registry[p] : handle[p][registry[p][i]] # NoHandle
    /\ \A c \in closed[p] : handle[p][c] # NoHandle

\* A process that was not spawned yet is in no call, sent nothing and
\* spawned nobody.
Unborn ==
  \A p \in Procs : state[p] = "unborn" =>
    /\ call[p] = Idle
    /\ \A q \in Pipe : \A i \in DOMAIN buf[q] : buf[q][i].from # p
    /\ \A w \in Workers : w # p => spawner[w] # p

\* The argument of a call is a handle p was given, or a worker.
ArgKnown ==
  \A p \in Procs :
    /\ call[p].op \in Sends \cup Blocking \cup Nonblocking =>
         call[p].arg \in Channels /\ handle[p][call[p].arg] # NoHandle
    /\ call[p].op = "wait_worker" => call[p].arg \in Workers

\* A call that will number a frame or advance the protocol has room to.
Counted ==
  \A p \in Procs :
    /\ call[p].op \in Sends => seq[p] < MaxSeq
    /\ call[p].op = "recv_proto" => proto[p] < MaxProto

\* A frame that was sent with an open handle is in the pipe its sender, if it
\* lives and still has the handle open, sends on.
SentOnOwnSide ==
  \A q \in Pipe : \A i \in DOMAIN buf[q] :
    LET p == buf[q][i].from IN
    ~buf[q][i].stale /\ IsOpen(p, q[1]) => Faces(p, q[1], q[2])

\* channel_recv reads a pipe it made non-blocking.
Flagged ==
  \A p \in Procs :
    /\ call[p].op = "recv" /\ call[p].at = "read"
    /\ call[p].arg \notin closed[p]
    => PipeOf(p, RecvFd(p, call[p].arg)) \in nonblock

ChanInv ==
  /\ TypeOK /\ HandlesLead /\ EndsOwned /\ NotOpened /\ HandlesKnown
  /\ Unborn /\ ArgKnown /\ Counted /\ SentOnOwnSide /\ Flagged /\ Paired

-----------------------------------------------------------------------------
(* The initial state, and the steps inside a call. *)

LEMMA NoneIsEmpty ==
  /\ \A h \in Handle : h # NoHandle
  /\ \A e \in End : e # NoEnd
BY DEF Handle, NoHandle, End, NoEnd

LEMMA IdleIsCall == Idle \in Call /\ Idle.op = "idle" /\ Idle.at = ""
BY ChannelAssumption, Zenon DEF Idle, Call

LEMMA InitInv == Init => ChanInv
<1> SUFFICES ASSUME Init PROVE ChanInv
  BY Zenon
<1> USE DEF Init, KernelInit
<1>1. TypeOK
  <2>1. PipeCap \in Nat /\ MaxOpens \in Nat /\ MaxSeq \in Nat /\ MaxProto \in Nat
    BY PipesAssumption, ChannelAssumption, Zenon
  <2>2. buf \in [Pipe -> Seq(Frame)] /\ \A q \in Pipe : Len(buf[q]) <= PipeCap
    BY <2>1
  <2>3. registry \in [Procs -> Seq(Channels)] /\ program \in [Procs -> SUBSET Builtins]
    BY ChannelAssumption
  <2>4. fd \in [Procs -> [Fds -> End \cup {NoEnd}]] /\ opened \in 0..MaxOpens
        /\ nonblock \subseteq Pipe
    BY <2>1
  <2>5. /\ state \in [Procs -> {"unborn", "running", "zombie", "reaped"}]
        /\ spawner \in [Workers -> Procs]
        /\ handle \in [Procs -> [Channels -> Handle \cup {NoHandle}]]
    BY Zenon DEF Workers
  <2>6. /\ seq \in [Procs -> 0..MaxSeq]
        /\ proto \in [Procs -> 0..MaxProto]
        /\ call \in [Procs -> Call]
        /\ closed \in [Procs -> SUBSET Channels]
    <3>1. 0 \in 0..MaxSeq /\ 0 \in 0..MaxProto
      BY <2>1
    <3> QED BY <3>1, IdleIsCall, Zenon
  <2> QED BY <2>2, <2>3, <2>4, <2>5, <2>6, Zenon DEF TypeOK
<1>2. HandlesLead /\ EndsOwned /\ NotOpened /\ HandlesKnown
  <2>1. \A q \in Pipe : DOMAIN buf[q] = {}
    OBVIOUS
  <2> QED BY DEF HandlesLead, EndsOwned, NotOpened, HandlesKnown, IsOpen, Pipe
<1>3. Unborn /\ ArgKnown /\ Counted /\ SentOnOwnSide /\ Flagged
  <2>1. \A q \in Pipe : DOMAIN buf[q] = {}
    OBVIOUS
  <2> QED
    BY <2>1, IdleIsCall, ChannelAssumption, Zenon
    DEF Unborn, ArgKnown, Counted, SentOnOwnSide, Flagged, Sends, Blocking, Nonblocking, Workers
<1>4. Paired
  BY ChannelAssumption, Zenon DEF Paired, Workers
<1> QED BY <1>1, <1>2, <1>3, <1>4, Zenon DEF ChanInv

\* What does not touch descriptors, handles and registries leaves the
\* structure alone.
LEMMA StructureKept ==
  ASSUME ChanInv, UNCHANGED <<fd, handle, registry, closed, opened, spawner>>,
         \A p \in Procs : state'[p] = "running" => state[p] = "running"
  PROVE  HandlesLead' /\ EndsOwned' /\ HandlesKnown' /\ Paired'
<1>0. ASSUME NEW p \in Procs, NEW c, NEW k
      PROVE  (IsOpen(p, c)' <=> IsOpen(p, c)) /\ (Faces(p, c, k)' <=> Faces(p, c, k))
  BY Zenon DEF IsOpen, Faces
<1>1. HandlesLead' /\ HandlesKnown'
  BY <1>0, Zenon DEF ChanInv, HandlesLead, HandlesKnown
<1>3. EndsOwned'
  BY ZenonT(40) DEF ChanInv, EndsOwned, IsOpen, HandleFds
<1>2. Paired'
  <2>1. \A w \in Workers : w \in Procs /\ spawner[w] \in Procs
    BY Zenon DEF ChanInv, TypeOK, Workers
  <2>2. Paired
    BY Zenon DEF ChanInv
  <2>3. /\ \A p \in Procs : Swapped(p)' = Swapped(p)
        /\ \A p \in Procs, c \in Channels :
             /\ PipeOf(p, SendFd(p, c))' = PipeOf(p, SendFd(p, c))
             /\ PipeOf(p, RecvFd(p, c))' = PipeOf(p, RecvFd(p, c))
    BY Zenon DEF Swapped, PipeOf, SendFd, RecvFd
  <2> QED BY <2>1, <2>2, <2>3 DEF Paired
<1> QED BY <1>1, <1>2, <1>3, Zenon

\* A step of p that does nothing but change its call, and set flags.
LEMMA CallChanged ==
  ASSUME ChanInv, NEW p \in Procs, NEW r \in Call,
         state[p] = "running",
         call' = [call EXCEPT ![p] = r],
         UNCHANGED <<fd, buf, opened, state, spawner, privateVars, program>>,
         nonblock \subseteq nonblock', nonblock' \subseteq Pipe,
         r.op \in Sends \cup Blocking \cup Nonblocking =>
           r.arg \in Channels /\ handle[p][r.arg] # NoHandle,
         r.op = "wait_worker" => r.arg \in Workers,
         r.op \in Sends => seq[p] < MaxSeq,
         r.op = "recv_proto" => proto[p] < MaxProto,
         r.op = "recv" /\ r.at = "read" /\ r.arg \notin closed[p] =>
           PipeOf(p, RecvFd(p, r.arg)) \in nonblock'
  PROVE  ChanInv'
<1> USE DEF privateVars
<1>1. TypeOK'
  BY Zenon DEF ChanInv, TypeOK
<1>2. HandlesLead' /\ EndsOwned' /\ HandlesKnown' /\ Paired'
  BY StructureKept, Zenon
<1>3. NotOpened' /\ SentOnOwnSide'
  BY ZenonT(40) DEF ChanInv, NotOpened, SentOnOwnSide, IsOpen, Faces
<1>4. call \in [Procs -> Call]
  BY Zenon DEF ChanInv, TypeOK
<1>5. Unborn'
  BY <1>4, Zenon DEF ChanInv, Unborn
<1>6. ArgKnown'
  BY <1>4, Zenon DEF ChanInv, ArgKnown
<1>7. Counted'
  BY <1>4, Zenon DEF ChanInv, Counted
<1>8. Flagged'
  BY <1>4, Zenon DEF ChanInv, Flagged, PipeOf, RecvFd
<1> QED BY <1>1, <1>2, <1>3, <1>5, <1>6, <1>7, <1>8, Zenon DEF ChanInv

LEMMA StutterInv == ASSUME ChanInv, UNCHANGED vars PROVE ChanInv'
<1>1. HandlesLead' /\ EndsOwned' /\ HandlesKnown' /\ Paired'
  BY StructureKept, Zenon DEF vars
<1>2. TypeOK' /\ NotOpened' /\ Unborn'
  BY Zenon DEF vars, ChanInv, TypeOK, NotOpened, Unborn
<1>3. ArgKnown' /\ Counted' /\ SentOnOwnSide' /\ Flagged'
  BY ZenonT(40) DEF vars, ChanInv, ArgKnown, Counted, SentOnOwnSide, Flagged, IsOpen, Faces,
         PipeOf, RecvFd
<1> QED BY <1>1, <1>2, <1>3, Zenon DEF ChanInv

LEMMA PairIs ==
  ASSUME NEW q, NEW e
  PROVE  <<q, e>> # NoEnd /\ <<q, e>>[1] = q /\ <<q, e>>[2] = e
BY Zenon DEF NoEnd

LEMMA EndPipe == ASSUME NEW a, NEW q, NEW e, a = <<q, e>> PROVE a[1] = q
BY Zenon

\* The descriptors of an open handle.
LEMMA OpenEnds ==
  ASSUME ChanInv, NEW p \in Procs, NEW c \in Channels, IsOpen(p, c)
  PROVE  \E k \in {1, 2} :
           /\ Faces(p, c, k)
           /\ Writable(p, SendFd(p, c)) /\ PipeOf(p, SendFd(p, c)) = <<c, k>>
           /\ Readable(p, RecvFd(p, c)) /\ PipeOf(p, RecvFd(p, c)) = <<c, 3 - k>>
           /\ <<c, k>> \in Pipe /\ <<c, 3 - k>> \in Pipe
<1>1. PICK k \in {1, 2} : Faces(p, c, k)
  BY Zenon DEF ChanInv, HandlesLead
<1>2. fd[p][SendFd(p, c)] = <<<<c, k>>, "w">> /\ fd[p][RecvFd(p, c)] = <<<<c, 3 - k>>, "r">>
  BY <1>1, Zenon DEF Faces, SendFd, RecvFd
<1>3. Writable(p, SendFd(p, c)) /\ PipeOf(p, SendFd(p, c)) = <<c, k>>
  BY <1>2, PairIs DEF Writable, PipeOf
<1>4. Readable(p, RecvFd(p, c)) /\ PipeOf(p, RecvFd(p, c)) = <<c, 3 - k>>
  BY <1>2, PairIs DEF Readable, PipeOf
<1>5. <<c, k>> \in Pipe /\ <<c, 3 - k>> \in Pipe
  <2>1. 3 - k \in {1, 2}
    BY SMT
  <2> QED BY <2>1, Zenon DEF Pipe
<1> QED
  BY <1>1, <1>3, <1>4, <1>5, Zenon

LEMMA EnterInv ==
  ASSUME ChanInv, NEW p \in Procs, NEW op \in Builtins, NEW arg \in Channels \cup Procs,
         NEW at \in {"write", "poll", "read", "wait4"},
         Enter(p, op, arg, at),
         UNCHANGED <<fd, buf, opened, state, spawner, privateVars, program>>,
         nonblock \subseteq nonblock', nonblock' \subseteq Pipe,
         op \in Sends \cup Blocking \cup Nonblocking =>
           arg \in Channels /\ handle[p][arg] # NoHandle,
         op = "wait_worker" => arg \in Workers,
         op \in Sends => seq[p] < MaxSeq,
         op = "recv_proto" => proto[p] < MaxProto,
         op = "recv" /\ at = "read" /\ arg \notin closed[p] =>
           PipeOf(p, RecvFd(p, arg)) \in nonblock'
  PROVE  ChanInv'
<1> DEFINE r == [op |-> op, arg |-> arg, at |-> at, poll |-> FALSE]
<1>1. r \in Call /\ r.op = op /\ r.arg = arg /\ r.at = at
  BY Zenon DEF Call
<1>2. state[p] = "running" /\ call' = [call EXCEPT ![p] = r]
  BY Zenon DEF Enter, CanCall
<1> HIDE DEF r
<1> QED BY <1>1, <1>2, CallChanged, Zenon

LEMMA SendsInv ==
  ASSUME ChanInv, NEW p \in Procs, NEW c \in Channels, NEW op \in Sends,
         BeginSend(p, c, op)
  PROVE  ChanInv'
<1>1. nonblock' = nonblock /\ nonblock \subseteq Pipe
  BY Zenon DEF BeginSend, kernelVars, ChanInv, TypeOK
<1>2. op \in Builtins /\ op # "wait_worker" /\ op # "recv_proto" /\ op # "recv"
  BY Zenon DEF Builtins, Sends
<1> QED BY <1>1, <1>2, EnterInv, Zenon DEF BeginSend, kernelVars

LEMMA NonblockingInv ==
  ASSUME ChanInv, NEW p \in Procs, NEW c \in Channels, BeginNonblocking(p, c)
  PROVE  ChanInv'
<1>1. PICK op \in Nonblocking, at \in {"poll", "read"} :
        BeginRecv(p, c, op, at) /\ SetNonblocking(p, c)
  BY Zenon DEF BeginNonblocking, Nonblocking
<1>2. nonblock \subseteq nonblock' /\ nonblock' \subseteq Pipe
  BY <1>1, Zenon DEF SetNonblocking, ChanInv, TypeOK
<1>3. op \in Builtins /\ op # "wait_worker" /\ op # "recv_proto" /\ op \notin Sends
  BY Zenon DEF Builtins, Sends, Nonblocking
<1>4. handle[p][c] # NoHandle
  BY <1>1, Zenon DEF BeginRecv
<1>5. c \notin closed[p] => PipeOf(p, RecvFd(p, c)) \in nonblock'
  BY <1>1, <1>4, OpenEnds, ZenonT(40) DEF SetNonblocking, IsOpen
<1> QED BY <1>1, <1>2, <1>3, <1>4, <1>5, EnterInv, Zenon DEF BeginRecv

LEMMA BlockingInv ==
  ASSUME ChanInv, NEW p \in Procs, NEW c \in Channels,
         BeginRecvResult(p, c) \/ \E e \in 0..(MaxProto - 1) : BeginRecvProto(p, c, e)
  PROVE  ChanInv'
<1>1. nonblock \subseteq Pipe
  BY Zenon DEF ChanInv, TypeOK
<1>2. "recv_result" \in Builtins /\ "recv_proto" \in Builtins
      /\ "recv_result" \notin Sends /\ "recv_proto" \notin Sends
  BY Zenon DEF Builtins, Sends, Blocking
<1>3. ASSUME BeginRecvResult(p, c) PROVE ChanInv'
  BY <1>1, <1>2, <1>3, EnterInv, Zenon DEF BeginRecvResult, BeginRecv
<1>4. ASSUME NEW e, BeginRecvProto(p, c, e), proto[p] = e PROVE ChanInv'
  BY <1>1, <1>2, <1>4, EnterInv, Zenon DEF BeginRecvProto, BeginRecv
<1>5. ASSUME NEW e, BeginRecvProto(p, c, e), proto[p] # e PROVE ChanInv'
  BY <1>5, StutterInv, Zenon DEF BeginRecvProto
<1> QED BY <1>3, <1>4, <1>5, Zenon

LEMMA BeginWaitInv ==
  ASSUME ChanInv, NEW p \in Procs, NEW w \in Workers, BeginWait(p, w)
  PROVE  ChanInv'
<1>1. nonblock' = nonblock /\ nonblock \subseteq Pipe /\ w \in Procs
  BY Zenon DEF BeginWait, kernelVars, ChanInv, TypeOK, Workers
<1>2. "wait_worker" \in Builtins
      /\ "wait_worker" \notin Sends \cup Blocking \cup Nonblocking
  BY Zenon DEF Builtins, Sends, Blocking, Nonblocking
<1> QED BY <1>1, <1>2, EnterInv, Zenon DEF BeginWait, kernelVars

LEMMA FcntlInv ==
  ASSUME ChanInv, NEW p \in Procs, Fcntl(p)
  PROVE  ChanInv'
<1> DEFINE c == call[p].arg
           r == [call[p] EXCEPT !.at = "read"]
<1>0. call \in [Procs -> Call] /\ call[p] \in Call /\ nonblock \subseteq Pipe
  BY Zenon DEF ChanInv, TypeOK
<1>1. state[p] = "running" /\ call[p].op = "recv" /\ SetNonblocking(p, c)
      /\ call' = [call EXCEPT ![p] = r]
  BY <1>0, Zenon DEF Fcntl, At
<1>2. r \in Call /\ r.op = "recv" /\ r.arg = c /\ r.at = "read"
  BY <1>0, <1>1, Zenon DEF Call
<1>3. c \in Channels /\ handle[p][c] # NoHandle
  BY <1>1, Zenon DEF ChanInv, ArgKnown, Nonblocking
<1>4. nonblock \subseteq nonblock' /\ nonblock' \subseteq Pipe
  BY <1>0, <1>1, Zenon DEF SetNonblocking
<1> HIDE DEF c, r
<1>5. c \notin closed[p] => PipeOf(p, RecvFd(p, c)) \in nonblock'
  BY <1>1, <1>3, OpenEnds, Zenon DEF SetNonblocking, IsOpen
<1>6. r.op \notin Sends
  BY <1>2, Zenon DEF Sends
<1> QED BY <1>1, <1>2, <1>3, <1>4, <1>5, <1>6, CallChanged, Zenon DEF Fcntl

LEMMA PollInv ==
  ASSUME ChanInv, NEW p \in Procs, Poll(p)
  PROVE  ChanInv'
<1> DEFINE b == PollWorks /\ PollReady(p, RecvFd(p, call[p].arg))
           r == [call[p] EXCEPT !.at = "read", !.poll = b]
<1>0. call \in [Procs -> Call] /\ call[p] \in Call /\ nonblock \subseteq Pipe
  BY DEF ChanInv, TypeOK
<1>b. b \in BOOLEAN
  BY Zenon
<1>1. /\ state[p] = "running" /\ call[p].op \in {"try_recv", "recv_timeout"}
      /\ call' = [call EXCEPT ![p].at = "read", ![p].poll = b]
      /\ UNCHANGED <<kernelVars, state, spawner, privateVars, program>>
  BY Zenon DEF Poll, At
<1> HIDE DEF b
<1>2. call' = [call EXCEPT ![p] = r]
  BY <1>0, <1>1, Zenon
<1>3. r \in Call /\ r.op = call[p].op /\ r.arg = call[p].arg
  BY <1>0, <1>b, Zenon DEF Call
<1> HIDE DEF r
<1>4. r.op \notin Sends /\ r.op # "wait_worker" /\ r.op # "recv_proto" /\ r.op # "recv"
  BY <1>1, <1>3, Zenon DEF Sends
<1>5. r.arg \in Channels /\ handle[p][r.arg] # NoHandle
  BY <1>1, <1>3, Zenon DEF ChanInv, ArgKnown, Nonblocking
<1> QED BY <1>0, <1>1, <1>2, <1>3, <1>4, <1>5, CallChanged, Zenon DEF kernelVars

LEMMA WaitWorkerInv ==
  ASSUME ChanInv, NEW p \in Procs, WaitWorker(p)
  PROVE  ChanInv'
<1> DEFINE w == call[p].arg
<1>1. /\ state[p] = "running" /\ call[p].op = "wait_worker" /\ state[w] = "zombie"
      /\ call' = [call EXCEPT ![p] = Idle]
      /\ state' = [state EXCEPT ![w] = "reaped"]
      /\ UNCHANGED <<fd, buf, opened, nonblock, spawner, privateVars, program>>
  BY Zenon DEF WaitWorker, At, Return, kernelVars
<1>2. w \in Workers /\ w \in Procs
  BY <1>1, Zenon DEF ChanInv, ArgKnown, Workers
<1> HIDE DEF w
<1> USE DEF privateVars
<1>3. /\ call \in [Procs -> Call]
      /\ state \in [Procs -> {"unborn", "running", "zombie", "reaped"}]
  BY Zenon DEF ChanInv, TypeOK
<1>4. TypeOK'
  BY <1>1, <1>2, IdleIsCall, Zenon DEF ChanInv, TypeOK
<1>5. HandlesLead' /\ EndsOwned' /\ HandlesKnown' /\ Paired'
  <2>1. \A x \in Procs : state'[x] = "running" => state[x] = "running"
    BY <1>1, <1>2, <1>3, Zenon
  <2> QED BY <1>1, <2>1, StructureKept, Zenon
<1>6. NotOpened' /\ SentOnOwnSide'
  BY <1>1, ZenonT(40) DEF ChanInv, NotOpened, SentOnOwnSide, IsOpen, Faces
<1>7. Unborn'
  BY <1>1, <1>2, <1>3, Zenon DEF ChanInv, Unborn
<1>8. ArgKnown' /\ Counted'
  BY <1>1, <1>3, IdleIsCall, ZenonT(40) DEF ChanInv, ArgKnown, Counted, Sends, Blocking, Nonblocking
<1>9. Flagged'
  BY <1>1, <1>3, IdleIsCall, Zenon DEF ChanInv, Flagged, PipeOf, RecvFd
<1> QED BY <1>4, <1>5, <1>6, <1>7, <1>8, <1>9, Zenon DEF ChanInv

LEMMA EmptyIs == ASSUME NEW S, NEW s \in Seq(S), DOMAIN s = {} PROVE s = <<>>
<1>1. DOMAIN s = 1..Len(s) /\ Len(s) \in Nat
  OBVIOUS
<1>2. Len(s) = 0
  <2>1. 1 \notin 1..Len(s)
    BY <1>1, Zenon
  <2> QED BY <1>1, <2>1
<1> QED BY <1>2

\* A step of p that changes its call, its counters and what the pipes hold:
\* every frame is one that was there, or one of p's in a pipe it may use.
LEMMA BufChanged ==
  ASSUME ChanInv, NEW p \in Procs, NEW r \in Call,
         state[p] = "running",
         call' = [call EXCEPT ![p] = r],
         UNCHANGED <<fd, opened, nonblock, state, spawner, handle, registry, closed, program>>,
         buf' \in [Pipe -> Seq(Frame)], \A q \in Pipe : Len(buf'[q]) <= PipeCap,
         \A q \in Pipe : \A i \in DOMAIN buf'[q] :
           \/ \E j \in DOMAIN buf[q] : buf'[q][i] = buf[q][j]
           \/ /\ buf'[q][i].from = p /\ ~(q[1] > opened)
              /\ ~buf'[q][i].stale /\ IsOpen(p, q[1]) => Faces(p, q[1], q[2]),
         seq' \in [Procs -> 0..MaxSeq], \A x \in Procs : x # p => seq'[x] = seq[x],
         proto' \in [Procs -> 0..MaxProto], \A x \in Procs : x # p => proto'[x] = proto[x],
         r.op \notin Sends \cup Blocking, r.op # "wait_worker", r.at # "read",
         r.op \in Nonblocking => r.arg \in Channels /\ handle[p][r.arg] # NoHandle
  PROVE  ChanInv'
<1>1. call \in [Procs -> Call] /\ buf \in [Pipe -> Seq(Frame)]
  BY Zenon DEF ChanInv, TypeOK
<1>2. TypeOK'
  BY Zenon DEF ChanInv, TypeOK
<1>3. HandlesLead' /\ EndsOwned' /\ HandlesKnown' /\ Paired'
  BY StructureKept, Zenon
<1>4. NotOpened'
  <2>1. SUFFICES ASSUME NEW c \in Channels, c > opened, NEW k \in {1, 2}
                 PROVE  buf'[<<c, k>>] = <<>>
    BY Zenon DEF ChanInv, NotOpened
  <2>2. <<c, k>> \in Pipe /\ <<c, k>>[1] = c
    BY Zenon DEF Pipe
  <2>3. buf[<<c, k>>] = <<>>
    BY <2>1, Zenon DEF ChanInv, NotOpened
  <2>4. DOMAIN buf'[<<c, k>>] = {}
    BY <2>1, <2>2, <2>3, SMTT(30)
  <2>5. buf'[<<c, k>>] \in Seq(Frame)
    BY <2>2, Zenon
  <2> QED BY <2>4, <2>5, EmptyIs, Zenon
<1>5. Unborn'
  <2>1. ASSUME NEW x \in Procs, state[x] = "unborn", NEW q \in Pipe,
               NEW i \in DOMAIN buf'[q]
        PROVE  buf'[q][i].from # x
    <3>1. x # p
      BY <2>1, Zenon
    <3>2. \A j \in DOMAIN buf[q] : buf[q][j].from # x
      BY <2>1, Zenon DEF ChanInv, Unborn
    <3> QED BY <2>1, <3>1, <3>2
  <2>2. \A x \in Procs : state[x] = "unborn" => call'[x] = Idle
    BY <1>1, Zenon DEF ChanInv, Unborn
  <2> QED BY <2>1, <2>2, Zenon DEF ChanInv, Unborn
<1>6. ArgKnown'
  BY <1>1, Zenon DEF ChanInv, ArgKnown
<1>7. Counted'
  BY <1>1, Zenon DEF ChanInv, Counted, Blocking
<1>8. SentOnOwnSide'
  <2>1. SUFFICES ASSUME NEW q \in Pipe, NEW i \in DOMAIN buf'[q],
                        ~buf'[q][i].stale, IsOpen(buf'[q][i].from, q[1])
                 PROVE  Faces(buf'[q][i].from, q[1], q[2])
    BY ZenonT(40) DEF SentOnOwnSide, IsOpen, Faces
  <2> QED BY <2>1, Zenon DEF ChanInv, SentOnOwnSide
<1>9. Flagged'
  BY <1>1, Zenon DEF ChanInv, Flagged, PipeOf, RecvFd
<1> QED BY <1>2, <1>3, <1>4, <1>5, <1>6, <1>7, <1>8, <1>9, Zenon DEF ChanInv

\* The descriptor of a handle that p was given names no pipe but one of Pipe.
LEMMA HandlePipe ==
  ASSUME ChanInv, NEW p \in Procs, NEW c \in Channels, handle[p][c] # NoHandle
  PROVE  /\ SendFd(p, c) \in Fds /\ RecvFd(p, c) \in Fds
         /\ Writable(p, SendFd(p, c)) => PipeOf(p, SendFd(p, c)) \in Pipe
         /\ Readable(p, RecvFd(p, c)) => PipeOf(p, RecvFd(p, c)) \in Pipe
<1>1. handle[p][c] \in Handle /\ \A f \in Fds : fd[p][f] \in End \cup {NoEnd}
  BY DEF ChanInv, TypeOK
<1>2. SendFd(p, c) \in Fds /\ RecvFd(p, c) \in Fds
  BY <1>1, Zenon DEF SendFd, RecvFd, Handle
<1>3. \A e \in End : e[1] \in Pipe
  BY Zenon DEF End
<1> QED BY <1>1, <1>2, <1>3, Zenon DEF Writable, Readable, PipeOf

LEMMA ReadInv ==
  ASSUME ChanInv, NEW p \in Procs, NEW op \in Blocking \cup Nonblocking, Read(p, op),
         \/ proto' = proto
         \/ op = "recv_proto" /\ proto' = [proto EXCEPT ![p] = @ + 1]
  PROVE  ChanInv'
<1> DEFINE f == RecvFd(p, call[p].arg)
           q0 == PipeOf(p, f)
<1>1. /\ state[p] = "running" /\ call[p].op = op
      /\ call' = [call EXCEPT ![p] = Idle]
      /\ UNCHANGED <<fd, opened, nonblock, state, spawner, handle, registry, seq, closed,
                     program>>
  BY Zenon DEF Read, At, Return
<1>2. call[p].arg \in Channels /\ handle[p][call[p].arg] # NoHandle
  BY <1>1, Zenon DEF ChanInv, ArgKnown
<1>3. buf \in [Pipe -> Seq(Frame)] /\ (\A q \in Pipe : Len(buf[q]) <= PipeCap)
      /\ PipeCap \in Nat
  BY PipesAssumption, Zenon DEF ChanInv, TypeOK
<1>4. ASSUME ReadRet(p, f) = "frame"
      PROVE  q0 \in Pipe /\ buf[q0] # <<>> /\ buf' = [buf EXCEPT ![q0] = Tail(@)]
  <2>1. Readable(p, f) /\ buf[q0] # <<>>
    BY <1>4, Zenon DEF ReadRet
  <2> QED BY <1>2, <1>4, <2>1, HandlePipe, Zenon DEF Read
<1>5. ReadRet(p, f) # "frame" => buf' = buf
  BY Zenon DEF Read
<1> HIDE DEF f, q0
<1>6. buf' \in [Pipe -> Seq(Frame)] /\ \A q \in Pipe : Len(buf'[q]) <= PipeCap
  <2>1. CASE ReadRet(p, f) = "frame"
    <3>1. buf[q0] \in Seq(Frame) /\ buf[q0] # <<>> /\ Len(buf[q0]) <= PipeCap
      BY <1>3, <1>4, <2>1, Zenon
    <3>2. Tail(buf[q0]) \in Seq(Frame) /\ Len(Tail(buf[q0])) <= PipeCap
      BY <1>3, <3>1
    <3> QED BY <1>3, <1>4, <2>1, <3>2, Zenon
  <2>2. CASE ReadRet(p, f) # "frame"
    BY <1>3, <1>5, <2>2, Zenon
  <2> QED BY <2>1, <2>2, Zenon
<1>7. ASSUME NEW q \in Pipe, NEW i \in DOMAIN buf'[q]
      PROVE  \E j \in DOMAIN buf[q] : buf'[q][i] = buf[q][j]
  <2>1. CASE buf'[q] = buf[q]
    BY <2>1, Zenon
  <2>2. CASE buf'[q] # buf[q]
    <3>1. buf[q] \in Seq(Frame) /\ buf[q] # <<>> /\ buf'[q] = Tail(buf[q])
      BY <1>3, <1>4, <1>5, <2>2, Zenon
    <3>2. i + 1 \in DOMAIN buf[q] /\ buf'[q][i] = buf[q][i + 1]
      BY <3>1, <1>7
    <3> QED BY <3>2, Zenon
  <2> QED BY <2>1, <2>2, Zenon
<1>8. seq' \in [Procs -> 0..MaxSeq] /\ \A x \in Procs : x # p => seq'[x] = seq[x]
  BY <1>1, Zenon DEF ChanInv, TypeOK
<1>9. proto' \in [Procs -> 0..MaxProto] /\ \A x \in Procs : x # p => proto'[x] = proto[x]
  <2>1. proto \in [Procs -> 0..MaxProto] /\ MaxProto \in Nat
    BY ChannelAssumption, Zenon DEF ChanInv, TypeOK
  <2>2. op = "recv_proto" => proto[p] < MaxProto
    BY <1>1, Zenon DEF ChanInv, Counted
  <2> QED BY <2>1, <2>2
<1>10. /\ Idle.op \notin Sends \cup Blocking \cup Nonblocking
       /\ Idle.op # "wait_worker" /\ Idle.at # "read" /\ Idle \in Call
  BY IdleIsCall, Zenon DEF Sends, Blocking, Nonblocking
<1>11. \A q \in Pipe : \A i \in DOMAIN buf'[q] :
         \/ \E j \in DOMAIN buf[q] : buf'[q][i] = buf[q][j]
         \/ /\ buf'[q][i].from = p /\ ~(q[1] > opened)
            /\ ~buf'[q][i].stale /\ IsOpen(p, q[1]) => Faces(p, q[1], q[2])
  BY <1>7, Zenon
<1>12. Idle.op \in Nonblocking =>
         Idle.arg \in Channels /\ handle[p][Idle.arg] # NoHandle
  BY <1>10, Zenon
<1> QED BY <1>1, <1>6, <1>8, <1>9, <1>10, <1>11, <1>12, BufChanged, Zenon

LEMMA WriteInv ==
  ASSUME ChanInv, NEW p \in Procs, Write(p)
  PROVE  ChanInv'
<1> DEFINE c == call[p].arg
           f == SendFd(p, c)
           q0 == PipeOf(p, f)
           frame == [from |-> p, seq |-> seq[p], stale |-> c \in closed[p]]
<1>1. /\ state[p] = "running" /\ call[p].op \in Sends
      /\ seq' = [seq EXCEPT ![p] = @ + 1]
      /\ UNCHANGED <<fd, opened, nonblock, state, spawner, handle, registry, proto, closed,
                     program>>
      /\ AfterWrite(p)
  BY Zenon DEF Write, At
<1>2. call[p].arg \in Channels /\ handle[p][call[p].arg] # NoHandle /\ seq[p] < MaxSeq
  BY <1>1, Zenon DEF ChanInv, ArgKnown, Counted
<1>3. /\ buf \in [Pipe -> Seq(Frame)] /\ \A q \in Pipe : Len(buf[q]) <= PipeCap
      /\ PipeCap \in Nat /\ MaxSeq \in Nat /\ seq \in [Procs -> 0..MaxSeq]
      /\ call[p] \in Call /\ call \in [Procs -> Call]
  BY PipesAssumption, ChannelAssumption, Zenon DEF ChanInv, TypeOK
<1>4. ASSUME Writable(p, f)
      PROVE  /\ q0 \in Pipe /\ Len(buf[q0]) < PipeCap
             /\ buf' = [buf EXCEPT ![q0] = Append(@, frame)]
  BY <1>2, <1>4, HandlePipe, Zenon DEF Write
<1>5. ~Writable(p, f) => buf' = buf
  BY Zenon DEF Write
<1>6. frame \in Frame /\ frame.from = p /\ (~frame.stale <=> c \notin closed[p])
  <2> DEFINE b == c \in closed[p]
  <2>1. b \in BOOLEAN /\ seq[p] \in 0..(MaxSeq - 1)
    BY <1>2, <1>3
  <2>2. frame.from = p /\ frame.stale = b
    BY Zenon
  <2> HIDE DEF b
  <2>3. [from |-> p, seq |-> seq[p], stale |-> b] \in Frame
    BY <2>1, Zenon DEF Frame
  <2> QED BY <2>2, <2>3, Zenon DEF b
<1>7. ASSUME Writable(p, f) PROVE ~(q0[1] > opened)
  <2>1. f \in Fds /\ q0 \in Pipe
    BY <1>2, <1>7, HandlePipe, Zenon
  <2>2. handle[p][q0[1]] # NoHandle /\ q0[1] \in Channels
    BY <1>7, <2>1, Zenon DEF ChanInv, EndsOwned, IsOpen, Writable, PipeOf, Pipe
  <2> QED BY <2>2, Zenon DEF ChanInv, NotOpened
<1>8. ASSUME ~frame.stale PROVE Faces(p, q0[1], q0[2])
  <2>1. IsOpen(p, c)
    BY <1>2, <1>6, <1>8, Zenon DEF IsOpen
  <2>2. PICK k \in {1, 2} : Faces(p, c, k) /\ q0 = <<c, k>>
    BY <1>2, <2>1, OpenEnds, Zenon
  <2> QED BY <2>2
<1>9. PICK r \in Call :
        /\ call' = [call EXCEPT ![p] = r]
        /\ r = Idle \/ (r.op = "recv" /\ r.at = "fcntl" /\ r.arg = c)
  <2>1. CASE call[p].op = "channel_send"
    BY <1>1, <2>1, IdleIsCall, Zenon DEF AfterWrite, Return
  <2>2. CASE call[p].op # "channel_send"
    <3> DEFINE r == [call[p] EXCEPT !.op = "recv", !.at = "fcntl"]
    <3>1. call' = [call EXCEPT ![p] = r]
      BY <1>1, <1>3, <2>2, Zenon DEF AfterWrite
    <3>2. r \in Call /\ r.op = "recv" /\ r.at = "fcntl" /\ r.arg = c
      BY <1>3, Zenon DEF Call, Builtins, Nonblocking
    <3> QED BY <3>1, <3>2, Zenon
  <2> QED BY <2>1, <2>2, Zenon
<1>c. c \in Channels /\ handle[p][c] # NoHandle
  BY <1>2, Zenon
<1> HIDE DEF c, f, q0, frame
<1>10. buf' \in [Pipe -> Seq(Frame)] /\ \A q \in Pipe : Len(buf'[q]) <= PipeCap
  <2>1. CASE Writable(p, f)
    <3>1. Append(buf[q0], frame) \in Seq(Frame) /\ Len(Append(buf[q0], frame)) <= PipeCap
      BY <1>3, <1>4, <1>6, <2>1
    <3> QED BY <1>3, <1>4, <2>1, <3>1, Zenon
  <2>2. CASE ~Writable(p, f)
    BY <1>3, <1>5, <2>2, Zenon
  <2> QED BY <2>1, <2>2, Zenon
<1>11. ASSUME NEW q \in Pipe, NEW i \in DOMAIN buf'[q]
       PROVE  \/ \E j \in DOMAIN buf[q] : buf'[q][i] = buf[q][j]
              \/ Writable(p, f) /\ q = q0 /\ buf'[q][i] = frame
  <2>1. CASE buf'[q] = buf[q]
    BY <2>1, Zenon
  <2>2. CASE buf'[q] # buf[q]
    <3>1. Writable(p, f) /\ q = q0 /\ buf[q] \in Seq(Frame) /\ buf'[q] = Append(buf[q], frame)
      BY <1>3, <1>4, <1>5, <2>2, Zenon
    <3>2. CASE i = Len(buf[q]) + 1
      BY <3>1, <3>2
    <3>3. CASE i # Len(buf[q]) + 1
      <4>1. i \in DOMAIN buf[q] /\ buf'[q][i] = buf[q][i]
        BY <3>1, <3>3, <1>6, <1>11
      <4> QED BY <4>1, Zenon
    <3> QED BY <3>2, <3>3, Zenon
  <2> QED BY <2>1, <2>2, Zenon
<1>12. \A q \in Pipe : \A i \in DOMAIN buf'[q] :
         \/ \E j \in DOMAIN buf[q] : buf'[q][i] = buf[q][j]
         \/ /\ buf'[q][i].from = p /\ ~(q[1] > opened)
            /\ ~buf'[q][i].stale /\ IsOpen(p, q[1]) => Faces(p, q[1], q[2])
  BY <1>6, <1>7, <1>8, <1>11, Zenon
<1>13. seq' \in [Procs -> 0..MaxSeq] /\ \A x \in Procs : x # p => seq'[x] = seq[x]
  BY <1>1, <1>2, <1>3
<1>14. proto' \in [Procs -> 0..MaxProto] /\ \A x \in Procs : x # p => proto'[x] = proto[x]
  BY <1>1, Zenon DEF ChanInv, TypeOK
<1>15. /\ r.op \notin Sends \cup Blocking /\ r.op # "wait_worker" /\ r.at # "read"
       /\ r.op \in Nonblocking => r.arg \in Channels /\ handle[p][r.arg] # NoHandle
  BY <1>c, <1>9, IdleIsCall, Zenon DEF Sends, Blocking, Nonblocking
<1> QED BY <1>1, <1>9, <1>10, <1>12, <1>13, <1>14, <1>15, BufChanged, Zenon

-----------------------------------------------------------------------------
(* The steps that change descriptors and handles. *)

LEMMA SameProcess ==
  ASSUME NEW x \in Procs, fd'[x] = fd[x], handle'[x] = handle[x], closed'[x] = closed[x],
         NEW c
  PROVE  /\ IsOpen(x, c)' <=> IsOpen(x, c)
         /\ \A k : Faces(x, c, k)' <=> Faces(x, c, k)
         /\ PipeOf(x, SendFd(x, c))' = PipeOf(x, SendFd(x, c))
         /\ PipeOf(x, RecvFd(x, c))' = PipeOf(x, RecvFd(x, c))
BY Zenon DEF IsOpen, Faces, PipeOf, SendFd, RecvFd

\* A handle that faces the same way leads to the same pipes.
LEMMA SamePipes ==
  ASSUME NEW x \in Procs, NEW c \in Channels, NEW k, Faces(x, c, k), Faces(x, c, k)'
  PROVE  /\ PipeOf(x, SendFd(x, c))' = PipeOf(x, SendFd(x, c))
         /\ PipeOf(x, RecvFd(x, c))' = PipeOf(x, RecvFd(x, c))
<1>1. /\ fd[x][SendFd(x, c)] = <<<<c, k>>, "w">> /\ fd[x][RecvFd(x, c)] = <<<<c, 3 - k>>, "r">>
      /\ fd[x][SendFd(x, c)]' = <<<<c, k>>, "w">> /\ fd[x][RecvFd(x, c)]' = <<<<c, 3 - k>>, "r">>
  BY Zenon DEF Faces, SendFd, RecvFd
<1> QED BY <1>1, Zenon DEF PipeOf

LEMMA PairedKept ==
  ASSUME ChanInv, UNCHANGED spawner,
         \A x \in Procs : state'[x] = "running" => state[x] = "running",
         \A x \in Procs, d \in Channels :
           state'[x] = "running" /\ d \in Swapped(x)' \ closed'[x] =>
             \/ /\ d \in Swapped(x) \ closed[x]
                /\ PipeOf(x, SendFd(x, d))' = PipeOf(x, SendFd(x, d))
                /\ PipeOf(x, RecvFd(x, d))' = PipeOf(x, RecvFd(x, d))
             \/ \A y \in Procs : y # x => d \notin Swapped(y)'
  PROVE  Paired'
<1>1. SUFFICES ASSUME NEW w \in Workers, NEW c \in Channels, NEW s, s = spawner[w],
                      s # w, state'[w] = "running", state'[s] = "running",
                      c \in Swapped(s)' \ closed'[s], c \in Swapped(w)' \ closed'[w]
               PROVE  /\ PipeOf(w, SendFd(w, c))' = PipeOf(s, RecvFd(s, c))'
                      /\ PipeOf(s, SendFd(s, c))' = PipeOf(w, RecvFd(w, c))'
  BY SMTT(30) DEF Paired
<1>2. w \in Procs /\ s \in Procs
  BY <1>1, Zenon DEF ChanInv, TypeOK, Workers
<1>3. /\ c \in Swapped(s) \ closed[s] /\ c \in Swapped(w) \ closed[w]
      /\ PipeOf(w, SendFd(w, c))' = PipeOf(w, SendFd(w, c))
      /\ PipeOf(w, RecvFd(w, c))' = PipeOf(w, RecvFd(w, c))
      /\ PipeOf(s, SendFd(s, c))' = PipeOf(s, SendFd(s, c))
      /\ PipeOf(s, RecvFd(s, c))' = PipeOf(s, RecvFd(s, c))
  BY <1>1, <1>2, Zenon
<1>4. /\ PipeOf(w, SendFd(w, c)) = PipeOf(s, RecvFd(s, c))
      /\ PipeOf(s, SendFd(s, c)) = PipeOf(w, RecvFd(w, c))
  BY <1>1, <1>2, <1>3, Zenon DEF ChanInv, Paired
<1> QED BY <1>3, <1>4, Zenon

LEMMA FlaggedKept ==
  ASSUME ChanInv, nonblock' = nonblock,
         \A x \in Procs : \/ call'[x].op # "recv"
                         \/ /\ call'[x] = call[x] /\ fd'[x] = fd[x]
                            /\ handle'[x] = handle[x] /\ closed'[x] = closed[x]
  PROVE  Flagged'
<1>1. SUFFICES ASSUME NEW x \in Procs, call'[x].op = "recv", call'[x].at = "read",
                      call'[x].arg \notin closed'[x]
               PROVE  PipeOf(x, RecvFd(x, call[x].arg))' \in nonblock
  BY Zenon DEF Flagged
<1>2. /\ call'[x] = call[x] /\ fd'[x] = fd[x]
      /\ handle'[x] = handle[x] /\ closed'[x] = closed[x]
  BY <1>1, Zenon
<1>3. PipeOf(x, RecvFd(x, call[x].arg)) \in nonblock
  BY <1>1, <1>2, Zenon DEF ChanInv, Flagged
<1> QED BY <1>2, <1>3, Zenon DEF PipeOf, RecvFd

LEMMA SenderIs ==
  ASSUME ChanInv, NEW q \in Pipe
  PROVE  /\ q[1] \in Channels /\ q[2] \in {1, 2} /\ q = <<q[1], q[2]>>
         /\ \A i \in DOMAIN buf[q] : buf[q][i].from \in Procs
<1>1. q[1] \in Channels /\ q[2] \in {1, 2} /\ q = <<q[1], q[2]>>
  BY DEF Pipe
<1>2. buf[q] \in Seq(Frame)
  BY Zenon DEF ChanInv, TypeOK
<1>3. \A i \in DOMAIN buf[q] : buf[q][i] \in Frame
  BY <1>2
<1> QED BY <1>1, <1>3, Zenon DEF Frame

LEMMA DieInv ==
  ASSUME ChanInv, NEW w \in Workers, Die(w)
  PROVE  ChanInv'
<1>0. w \in Procs
  BY Zenon DEF Workers
<1> USE <1>0 DEF Die
<1>1. TypeOK'
  <2>1. 0 \in 0..MaxSeq /\ 0 \in 0..MaxProto
    BY ChannelAssumption
  <2>2. <<>> \in Seq(Channels)
    OBVIOUS
  <2>3. TypeOK
    BY Zenon DEF ChanInv
  <2>4. fd' \in [Procs -> [Fds -> End \cup {NoEnd}]]
        /\ handle' \in [Procs -> [Channels -> Handle \cup {NoHandle}]]
    BY <2>3, Zenon DEF TypeOK
  <2>5. /\ registry' \in [Procs -> Seq(Channels)]
        /\ seq' \in [Procs -> 0..MaxSeq] /\ proto' \in [Procs -> 0..MaxProto]
    BY <2>1, <2>2, <2>3, Zenon DEF TypeOK
  <2>6. /\ state' \in [Procs -> {"unborn", "running", "zombie", "reaped"}]
        /\ call' \in [Procs -> Call] /\ closed' \in [Procs -> SUBSET Channels]
    BY <2>3, IdleIsCall, Zenon DEF TypeOK
  <2> QED BY <2>3, <2>4, <2>5, <2>6, Zenon DEF TypeOK
<1>2. /\ fd \in [Procs -> [Fds -> End \cup {NoEnd}]]
      /\ handle \in [Procs -> [Channels -> Handle \cup {NoHandle}]]
      /\ closed \in [Procs -> SUBSET Channels] /\ registry \in [Procs -> Seq(Channels)]
      /\ state \in [Procs -> {"unborn", "running", "zombie", "reaped"}]
      /\ call \in [Procs -> Call] /\ seq \in [Procs -> 0..MaxSeq]
      /\ proto \in [Procs -> 0..MaxProto]
  BY Zenon DEF ChanInv, TypeOK
<1>3. \A x \in Procs : x # w => /\ fd'[x] = fd[x] /\ handle'[x] = handle[x]
                               /\ closed'[x] = closed[x] /\ registry'[x] = registry[x]
                               /\ state'[x] = state[x] /\ call'[x] = call[x]
                               /\ seq'[x] = seq[x] /\ proto'[x] = proto[x]
  BY <1>2, Zenon
<1>4. /\ \A f \in Fds : fd'[w][f] = NoEnd
      /\ \A c \in Channels : handle'[w][c] = NoHandle /\ ~IsOpen(w, c)'
      /\ registry'[w] = <<>> /\ closed'[w] = {} /\ state'[w] = "zombie" /\ call'[w] = Idle
  BY <1>2, Zenon DEF IsOpen
<1> HIDE DEF Die
<1>5. /\ \A x \in Procs, c \in Channels : IsOpen(x, c)' => x # w /\ IsOpen(x, c)
      /\ \A x \in Procs, c \in Channels, k \in {1, 2} :
           x # w => (Faces(x, c, k)' <=> Faces(x, c, k))
  BY <1>3, <1>4, SameProcess, Zenon
<1>6. HandlesLead'
  BY <1>5, Zenon DEF ChanInv, HandlesLead
<1>7. EndsOwned'
  BY <1>3, <1>4 DEF ChanInv, EndsOwned, IsOpen
<1>8. NotOpened'
  BY <1>3, <1>4 DEF ChanInv, NotOpened, Die
<1>9. HandlesKnown'
  <2>1. DOMAIN registry'[w] = {}
    BY <1>4, SMTT(30)
  <2> QED BY <1>3, <1>4, <2>1 DEF ChanInv, HandlesKnown
<1>10. Unborn'
  BY <1>3, <1>4 DEF ChanInv, Unborn, Die
<1>11. ArgKnown' /\ Counted'
  BY <1>3, <1>4, IdleIsCall
  DEF ChanInv, ArgKnown, Counted, Sends, Blocking, Nonblocking
<1>12. SentOnOwnSide'
  <2>1. buf' = buf
    BY Zenon DEF Die
  <2> QED BY <1>5, <2>1, SenderIs, Zenon DEF ChanInv, SentOnOwnSide
<1>13. Flagged'
  <2>1. nonblock' = nonblock
    BY Zenon DEF Die
  <2> QED BY <1>3, <1>4, <2>1, IdleIsCall, FlaggedKept, Zenon
<1>14. Paired'
  <2>1. \A x \in Procs : x # w => Swapped(x)' = Swapped(x)
    BY <1>3, Zenon DEF Swapped
  <2>2. \A x \in Procs : state'[x] = "running" => x # w /\ state[x] = "running"
    BY <1>3, <1>4, ZenonT(40)
  <2>3. \A x \in Procs, d \in Channels :
          state'[x] = "running" /\ d \in Swapped(x)' \ closed'[x] =>
             /\ d \in Swapped(x) \ closed[x]
             /\ PipeOf(x, SendFd(x, d))' = PipeOf(x, SendFd(x, d))
             /\ PipeOf(x, RecvFd(x, d))' = PipeOf(x, RecvFd(x, d))
    BY <1>3, <2>1, <2>2, SameProcess, Zenon
  <2> QED BY <2>2, <2>3, PairedKept, Zenon DEF Die
<1> QED BY <1>1, <1>6, <1>7, <1>8, <1>9, <1>10, <1>11, <1>12, <1>13, <1>14, Zenon DEF ChanInv

LEMMA ChannelCloseInv ==
  ASSUME ChanInv, NEW p \in Procs, NEW c \in Channels, ChannelClose(p, c)
  PROVE  ChanInv'
<1> DEFINE H == HandleFds(handle[p][c])
<1>1. /\ fd \in [Procs -> [Fds -> End \cup {NoEnd}]]
      /\ closed \in [Procs -> SUBSET Channels]
  BY Zenon DEF ChanInv, TypeOK
<1>2. /\ IsOpen(p, c) /\ state[p] = "running" /\ call[p] = Idle
      /\ UNCHANGED <<buf, opened, nonblock, state, spawner, handle, registry, seq, proto,
                     call, program>>
  BY Zenon DEF ChannelClose, CanCall, IsOpen
<1>3. /\ \A x \in Procs : x # p => fd'[x] = fd[x] /\ closed'[x] = closed[x]
      /\ \A f \in Fds : fd'[p][f] = IF f \in H THEN NoEnd ELSE fd[p][f]
      /\ closed'[p] = closed[p] \cup {c}
  BY <1>1, Zenon DEF ChannelClose
<1>4. TypeOK'
  BY <1>2, Zenon DEF ChannelClose, ChanInv, TypeOK
<1>5. \A f \in H : f \in Fds /\ fd[p][f] # NoEnd /\ fd[p][f][1][1] = c
  <2>1. PICK k \in {1, 2} : Faces(p, c, k)
    BY <1>2, OpenEnds, Zenon
  <2>2. handle[p][c] \in Handle
    BY <1>2 DEF ChanInv, TypeOK, IsOpen
  <2>3. ASSUME NEW f \in H PROVE f \in Fds /\ \E j, e : fd[p][f] = <<<<c, j>>, e>>
    BY <2>1, <2>2, Zenon DEF HandleFds, Faces, Handle
  <2> QED BY <2>3, PairIs
<1> HIDE DEF H
<1>6. ASSUME NEW d \in Channels, IsOpen(p, d)'
      PROVE  d # c /\ IsOpen(p, d) /\ \A k \in {1, 2} : Faces(p, d, k) => Faces(p, d, k)'
  <2>1. d # c /\ IsOpen(p, d)
    BY <1>2, <1>3, <1>6, Zenon DEF IsOpen
  <2>2. handle[p][d] \in Handle
    BY <2>1 DEF ChanInv, TypeOK, IsOpen
  <2>3. ASSUME NEW f \in Fds, NEW j, NEW e, fd[p][f] = <<<<d, j>>, e>>
        PROVE  fd'[p][f] = fd[p][f]
    BY <1>3, <1>5, <2>1, <2>3, PairIs
  <2>4. \A f \in HandleFds(handle[p][d]) : f \in Fds
    BY <2>2, Zenon DEF Handle, HandleFds
  <2>5. ASSUME NEW k, Faces(p, d, k) PROVE Faces(p, d, k)'
    BY <1>2, <2>3, <2>4, <2>5, ZenonT(40) DEF Faces, HandleFds
  <2> QED BY <2>1, <2>5, Zenon
<1>7. /\ \A x \in Procs, d \in Channels : IsOpen(x, d)' =>
           IsOpen(x, d) /\ \A k \in {1, 2} : Faces(x, d, k) => Faces(x, d, k)'
  BY <1>2, <1>3, <1>6, SameProcess, ZenonT(40)
<1>8. HandlesLead'
  BY <1>7, Zenon DEF ChanInv, HandlesLead
<1>9. EndsOwned'
  <2>1. SUFFICES ASSUME NEW x \in Procs, NEW f \in Fds, fd'[x][f] # NoEnd
                 PROVE  /\ handle'[x][fd'[x][f][1][1]] # NoHandle
                        /\ fd'[x][f][1][1] \notin closed'[x]
                        /\ f \in HandleFds(handle'[x][fd'[x][f][1][1]])
    BY Zenon DEF EndsOwned, IsOpen, HandleFds
  <2>2. fd'[x][f] = fd[x][f] /\ (x = p => f \notin H)
    BY <1>3, <2>1, Zenon
  <2>3. IsOpen(x, fd[x][f][1][1]) /\ f \in HandleFds(handle[x][fd[x][f][1][1]])
    BY <2>1, <2>2, Zenon DEF ChanInv, EndsOwned
  <2>4. x = p => fd[x][f][1][1] # c
    BY <2>2, <2>3, Zenon DEF H
  <2> QED BY <1>2, <1>3, <2>2, <2>3, <2>4, Zenon DEF IsOpen
<1>10. NotOpened'
  BY <1>2, Zenon DEF ChanInv, NotOpened
<1>11. HandlesKnown'
  BY <1>2, <1>3, SMTT(30) DEF ChanInv, HandlesKnown, IsOpen
<1>12. Unborn' /\ ArgKnown' /\ Counted'
  BY <1>2, Zenon DEF ChanInv, Unborn, ArgKnown, Counted
<1>13. SentOnOwnSide'
  BY <1>2, <1>7, SenderIs, Zenon DEF ChanInv, SentOnOwnSide
<1>14. Flagged'
  BY <1>2, <1>3, IdleIsCall, FlaggedKept, Zenon
<1>15. Paired'
  <2>1. ASSUME NEW x \in Procs, NEW d \in Channels, d \in Swapped(x)' \ closed'[x]
        PROVE  /\ d \in Swapped(x) \ closed[x]
               /\ PipeOf(x, SendFd(x, d))' = PipeOf(x, SendFd(x, d))
               /\ PipeOf(x, RecvFd(x, d))' = PipeOf(x, RecvFd(x, d))
    <3>1. d \in Swapped(x) \ closed[x]
      BY <1>2, <1>3, <2>1, Zenon DEF Swapped
    <3>2. handle[x][d] # NoHandle
      BY <3>1, Zenon DEF Swapped, ChanInv, HandlesKnown
    <3>3. IsOpen(x, d)'
      BY <1>2, <2>1, <3>2, Zenon DEF IsOpen
    <3>4. PICK k \in {1, 2} : Faces(x, d, k) /\ Faces(x, d, k)'
      BY <1>7, <3>3, OpenEnds, Zenon
    <3> QED BY <3>1, <3>4, SamePipes, ZenonT(40)
  <2> QED BY <1>2, <2>1, PairedKept, ZenonT(40)
<1> QED BY <1>4, <1>8, <1>9, <1>10, <1>11, <1>12, <1>13, <1>14, <1>15, Zenon DEF ChanInv

-----------------------------------------------------------------------------
(* The descriptors pipe2 hands out. *)

LEMMA Least ==
  ASSUME NEW T \in SUBSET Nat, T # {}
  PROVE  \E x \in T : \A y \in T : x <= y
<1> DEFINE Less == {ss \in Nat \X Nat : ss[1] < ss[2]}
<1>1. IsWellFoundedOn(Less, Nat)
  BY NatLessThanWellFounded, Zenon DEF OpToRel
<1>2. PICK x \in T : \A y \in T : ~(<<y, x>> \in Less)
  BY <1>1, WFMin, Zenon
<1>3. ASSUME NEW y \in T PROVE x <= y
  <2>1. ~(y < x)
    BY <1>2, Zenon
  <2> QED BY <2>1
<1> QED BY <1>3, Zenon

\* The numbers up to f, and those below the next one after f.
LEMMA UpTo ==
  ASSUME NEW T, \A g \in T : g \in Nat, NEW f \in T
  PROVE  /\ {g \in T : g <= f} = {g \in T : g < f} \cup {f}
         /\ f \notin {g \in T : g < f}
         /\ (\A g \in T : f <= g) => {g \in T : g < f} = {}
<1>1. /\ {g \in T : g <= f} = {g \in T : g < f} \cup {f}
      /\ f \notin {g \in T : g < f}
  OBVIOUS
<1>2. ASSUME \A g \in T : f <= g PROVE {g \in T : g < f} = {}
  BY <1>2
<1> QED BY <1>1, <1>2, Zenon

LEMMA BelowNext ==
  ASSUME NEW T, \A g \in T : g \in Nat, NEW f \in T,
         NEW h \in T, f < h, \A y \in T : f < y => h <= y
  PROVE  {g \in T : g < h} = {g \in T : g <= f}
<1>1. \A g \in T : g < h <=> g <= f
  OBVIOUS
<1> QED BY <1>1, Zenon

\* Of a finite set of numbers with n below f, one more is at most f; so if
\* the set is larger there is a next one.
LEMMA NextFree ==
  ASSUME NEW T \in SUBSET Nat, IsFiniteSet(T), NEW f \in T, NEW n \in Nat,
         Cardinality({g \in T : g < f}) = n, Cardinality(T) > n + 1
  PROVE  \E h \in T : Cardinality({g \in T : g < h}) = n + 1
<1> DEFINE U == {g \in T : g < f}
           V == {g \in T : g <= f}
           W == {g \in T : f < g}
<1>1. IsFiniteSet(U) /\ IsFiniteSet(V)
  BY FS_Subset, Zenon
<1>2. V = U \cup {f} /\ f \notin U
  BY UpTo, Zenon
<1>u. Cardinality(U) = n
  BY Zenon
<1>3. Cardinality(V) = n + 1
  <2> HIDE DEF U, V
  <2> QED BY <1>1, <1>2, <1>u, FS_AddElement, Zenon
<1>4. W # {}
  <2>1. SUFFICES ASSUME W = {} PROVE FALSE
    BY Zenon
  <2>2. \A g \in T : ~(f < g)
    BY <2>1, Zenon
  <2>3. V = T
    <3>1. \A g \in T : g \in Nat
      BY Zenon
    <3>2. \A g \in T : g <= f
      BY <2>2, <3>1
    <3> QED BY <3>2, Zenon
  <2>4. Cardinality(T) \in Nat
    BY FS_CardinalityType, Zenon
  <2> QED BY <1>3, <2>3, <2>4
<1>5. PICK h \in W : \A y \in W : h <= y
  BY <1>4, Least, Zenon
<1>6. h \in T /\ f < h /\ \A y \in T : f < y => h <= y
  BY <1>5, Zenon
<1>7. {g \in T : g < h} = V
  <2>1. \A g \in T : g \in Nat
    BY Zenon
  <2> QED BY <1>6, <2>1, BelowNext, Zenon
<1> QED BY <1>3, <1>6, <1>7, Zenon

LEMMA NthFreeIs ==
  ASSUME NEW p \in Procs, NEW n,
         \E f \in Free(p) : Cardinality({g \in Free(p) : g < f}) = n - 1
  PROVE  NthFree(p, n) \in Free(p)
         /\ Cardinality({g \in Free(p) : g < NthFree(p, n)}) = n - 1
BY Zenon DEF NthFree

\* Four different free descriptors.
LEMMA FourFree ==
  ASSUME NEW p \in Procs, Cardinality(Free(p)) >= 4
  PROVE  /\ {NthFree(p, 1), NthFree(p, 2), NthFree(p, 3), NthFree(p, 4)} \subseteq Free(p)
         /\ NthFree(p, 1) # NthFree(p, 2) /\ NthFree(p, 1) # NthFree(p, 3)
         /\ NthFree(p, 1) # NthFree(p, 4) /\ NthFree(p, 2) # NthFree(p, 3)
         /\ NthFree(p, 2) # NthFree(p, 4) /\ NthFree(p, 3) # NthFree(p, 4)
<1> DEFINE T == Free(p)
           Below(f) == {g \in T : g < f}
<1>1. T \in SUBSET Nat /\ IsFiniteSet(T)
  BY PipesAssumption, FS_Subset, Zenon DEF Free
<1>2. T # {} /\ Cardinality(T) \in Nat
  BY <1>1, FS_EmptySet, FS_CardinalityType
<1> HIDE DEF T
<1>3. PICK f1 \in T : \A y \in T : f1 <= y
  BY <1>1, <1>2, Least, Zenon
<1>4. Cardinality(Below(f1)) = 0
  <2>1. Below(f1) = {}
    BY <1>1, <1>3, UpTo, Zenon
  <2> QED BY <2>1, FS_EmptySet, Zenon
<1>t. Cardinality(T) >= 4
  BY Zenon DEF T
<1>5. PICK f2 \in T : Cardinality(Below(f2)) = 0 + 1
  <2>1. Cardinality(T) > 0 + 1
    BY <1>t, <1>2
  <2>2. 0 \in Nat /\ f1 \in T /\ Cardinality({g \in T : g < f1}) = 0
    BY <1>4, Zenon
  <2> QED BY <1>1, <2>1, <2>2, NextFree, Zenon
<1>6. PICK f3 \in T : Cardinality(Below(f3)) = 1 + 1
  <2>1. Cardinality(T) > 1 + 1 /\ Cardinality(Below(f2)) = 1
    BY <1>t, <1>2, <1>5
  <2> QED BY <1>1, <2>1, NextFree, Zenon
<1>7. PICK f4 \in T : Cardinality(Below(f4)) = 2 + 1
  <2>1. Cardinality(T) > 2 + 1 /\ Cardinality(Below(f3)) = 2
    BY <1>t, <1>2, <1>6
  <2> QED BY <1>1, <2>1, NextFree, Zenon
<1>8. NthFree(p, 1) \in T /\ Cardinality(Below(NthFree(p, 1))) = 1 - 1
  <2>1. Cardinality(Below(f1)) = 1 - 1
    BY <1>4
  <2> QED BY <2>1, NthFreeIs, Zenon DEF T
<1>9. NthFree(p, 2) \in T /\ Cardinality(Below(NthFree(p, 2))) = 2 - 1
  <2>1. Cardinality(Below(f2)) = 2 - 1
    BY <1>5
  <2> QED BY <2>1, NthFreeIs, Zenon DEF T
<1>10. NthFree(p, 3) \in T /\ Cardinality(Below(NthFree(p, 3))) = 3 - 1
  <2>1. Cardinality(Below(f3)) = 3 - 1
    BY <1>6
  <2> QED BY <2>1, NthFreeIs, Zenon DEF T
<1>11. NthFree(p, 4) \in T /\ Cardinality(Below(NthFree(p, 4))) = 4 - 1
  <2>1. Cardinality(Below(f4)) = 4 - 1
    BY <1>7
  <2> QED BY <2>1, NthFreeIs, Zenon DEF T
<1> QED BY <1>8, <1>9, <1>10, <1>11 DEF T

-----------------------------------------------------------------------------
(* channel_open and spawn_worker. *)

LEMMA ChannelOpenInv ==
  ASSUME ChanInv, NEW p \in Procs, ChannelOpen(p)
  PROVE  ChanInv'
<1>0. SUFFICES ASSUME NEW c, c = opened + 1, NEW f1, NEW f2, NEW f3, NEW f4,
                      f1 = NthFree(p, 1), f2 = NthFree(p, 2),
                      f3 = NthFree(p, 3), f4 = NthFree(p, 4),
                      NEW h, h = [o0 |-> f1, o4 |-> f2, o8 |-> f3, o12 |-> f4]
               PROVE  ChanInv'
  BY Zenon
<1>1. /\ fd \in [Procs -> [Fds -> End \cup {NoEnd}]]
      /\ handle \in [Procs -> [Channels -> Handle \cup {NoHandle}]]
      /\ registry \in [Procs -> Seq(Channels)] /\ opened \in 0..MaxOpens
      /\ MaxOpens \in Nat
  BY PipesAssumption, Zenon DEF ChanInv, TypeOK
<1>2. /\ state[p] = "running" /\ call[p] = Idle /\ opened < MaxOpens
      /\ opened' = c
      /\ UNCHANGED <<buf, nonblock, state, spawner, seq, proto, call, closed, program>>
  BY <1>0, Zenon DEF ChannelOpen, CanCall
<1>f. /\ fd' = [fd EXCEPT ![p][f1] = <<<<c, 1>>, "r">>, ![p][f2] = <<<<c, 1>>, "w">>,
                          ![p][f3] = <<<<c, 2>>, "r">>, ![p][f4] = <<<<c, 2>>, "w">>]
      /\ handle' = [handle EXCEPT ![p][c] = h]
      /\ registry' = [registry EXCEPT ![p] = Append(@, c)]
  BY <1>0, Zenon DEF ChannelOpen, CanCall
<1>3. /\ \A f \in {f1, f2, f3, f4} : f \in Fds /\ fd[p][f] = NoEnd
      /\ f1 # f2 /\ f1 # f3 /\ f1 # f4 /\ f2 # f3 /\ f2 # f4 /\ f3 # f4
  BY <1>0, FourFree, Zenon DEF ChannelOpen, Free
<1>4. c \in Channels /\ c > opened /\ c \in Nat /\ \A d \in Channels : d > c => d > opened
  BY <1>0, <1>1, <1>2 DEF Channels
<1>5. h \in Handle /\ h # NoHandle /\ HandleFds(h) = {f1, f2, f3, f4}
      /\ h.o0 = f1 /\ h.o4 = f2 /\ h.o8 = f3 /\ h.o12 = f4
  <2>1. h \in Handle /\ h.o0 = f1 /\ h.o4 = f2 /\ h.o8 = f3 /\ h.o12 = f4
    BY <1>0, <1>3, Zenon DEF Handle
  <2> QED BY <2>1, NoneIsEmpty, Zenon DEF HandleFds
<1>6. /\ \A x \in Procs : x # p => /\ fd'[x] = fd[x] /\ handle'[x] = handle[x]
                                   /\ registry'[x] = registry[x]
      /\ \A f \in Fds : f \notin {f1, f2, f3, f4} => fd'[p][f] = fd[p][f]
      /\ fd'[p][f1] = <<<<c, 1>>, "r">> /\ fd'[p][f2] = <<<<c, 1>>, "w">>
      /\ fd'[p][f3] = <<<<c, 2>>, "r">> /\ fd'[p][f4] = <<<<c, 2>>, "w">>
      /\ \A d \in Channels : d # c => handle'[p][d] = handle[p][d]
      /\ handle'[p][c] = h /\ registry'[p] = Append(registry[p], c)
  BY <1>1, <1>3, <1>4, <1>f, Zenon
<1>7. /\ \A x \in Procs : handle[x][c] = NoHandle /\ c \notin closed[x]
      /\ \A k \in {1, 2} : buf[<<c, k>>] = <<>>
  BY <1>4, ZenonT(40) DEF ChanInv, NotOpened, HandlesKnown
<1>8. TypeOK'
  <2>1. \A k \in {1, 2}, e \in {"r", "w"} : <<<<c, k>>, e>> \in End
    BY <1>4, Zenon DEF End, Pipe
  <2>2. fd' \in [Procs -> [Fds -> End \cup {NoEnd}]]
    BY <1>1, <1>3, <1>f, <2>1, Zenon
  <2>3. handle' \in [Procs -> [Channels -> Handle \cup {NoHandle}]]
    BY <1>1, <1>4, <1>5, <1>f, ZenonT(40)
  <2>4. registry' \in [Procs -> Seq(Channels)] /\ opened' \in 0..MaxOpens
    BY <1>1, <1>2, <1>4, <1>f, SMTT(30) DEF Channels
  <2> QED BY <1>2, <2>2, <2>3, <2>4, Zenon DEF ChanInv, TypeOK
<1>9. IsOpen(p, c)' /\ Faces(p, c, 1)'
  <2>1. 3 - 1 = 2
    OBVIOUS
  <2> QED BY <1>2, <1>5, <1>6, <1>7, <2>1, Zenon DEF IsOpen, Faces
<1>10. ASSUME NEW d \in Channels, d # c
       PROVE  /\ IsOpen(p, d)' <=> IsOpen(p, d)
              /\ \A k \in {1, 2} : IsOpen(p, d) /\ Faces(p, d, k) => Faces(p, d, k)'
  <2>1. IsOpen(p, d)' <=> IsOpen(p, d)
    BY <1>2, <1>6, <1>10, Zenon DEF IsOpen
  <2>2. ASSUME NEW k, IsOpen(p, d), Faces(p, d, k) PROVE Faces(p, d, k)'
    <3>1. \A f \in HandleFds(handle[p][d]) : f \in Fds
      BY <1>1, <2>2 DEF Handle, HandleFds, IsOpen
    <3>2. ASSUME NEW f \in Fds, NEW j, NEW e, fd[p][f] = <<<<d, j>>, e>>
          PROVE  fd'[p][f] = fd[p][f]
      BY <1>3, <1>6, <3>2, PairIs, SMTT(30)
    <3>3. handle'[p][d] = handle[p][d]
      BY <1>6, <1>10, Zenon
    <3>4. /\ fd'[p][handle'[p][d].o0] = <<<<d, k>>, "r">>
          /\ fd'[p][handle'[p][d].o4] = <<<<d, k>>, "w">>
          /\ fd'[p][handle'[p][d].o8] = <<<<d, 3 - k>>, "r">>
          /\ fd'[p][handle'[p][d].o12] = <<<<d, 3 - k>>, "w">>
      <4>1. /\ handle[p][d].o0 \in Fds /\ handle[p][d].o4 \in Fds
            /\ handle[p][d].o8 \in Fds /\ handle[p][d].o12 \in Fds
        BY <3>1, Zenon DEF HandleFds
      <4>2. /\ fd[p][handle[p][d].o0] = <<<<d, k>>, "r">>
            /\ fd[p][handle[p][d].o4] = <<<<d, k>>, "w">>
            /\ fd[p][handle[p][d].o8] = <<<<d, 3 - k>>, "r">>
            /\ fd[p][handle[p][d].o12] = <<<<d, 3 - k>>, "w">>
        BY <2>2, Zenon DEF Faces
      <4>3. /\ fd'[p][handle[p][d].o0] = fd[p][handle[p][d].o0]
            /\ fd'[p][handle[p][d].o4] = fd[p][handle[p][d].o4]
            /\ fd'[p][handle[p][d].o8] = fd[p][handle[p][d].o8]
            /\ fd'[p][handle[p][d].o12] = fd[p][handle[p][d].o12]
        BY <3>2, <4>1, <4>2, ZenonT(40)
      <4> QED BY <3>3, <4>2, <4>3, Zenon
    <3> QED BY <3>4, Zenon DEF Faces
  <2> QED BY <2>1, <2>2, Zenon
<1>11. \A x \in Procs, d \in Channels : x # p \/ d # c =>
         /\ IsOpen(x, d)' <=> IsOpen(x, d)
         /\ \A k \in {1, 2} : IsOpen(x, d) /\ Faces(x, d, k) => Faces(x, d, k)'
  BY <1>2, <1>6, <1>10, SameProcess
<1>12. HandlesLead'
  BY <1>9, <1>11, Zenon DEF ChanInv, HandlesLead
<1>13. EndsOwned'
  <2>1. SUFFICES ASSUME NEW x \in Procs, NEW f \in Fds, fd'[x][f] # NoEnd
                 PROVE  /\ handle'[x][fd'[x][f][1][1]] # NoHandle
                        /\ fd'[x][f][1][1] \notin closed'[x]
                        /\ f \in HandleFds(handle'[x][fd'[x][f][1][1]])
    BY ZenonT(40) DEF EndsOwned, IsOpen, HandleFds
  <2>2. CASE x = p /\ f \in {f1, f2, f3, f4}
    <3>1. fd'[x][f][1][1] = c
      BY <1>6, <2>2, SMTT(30)
    <3> QED BY <1>2, <1>5, <1>6, <1>7, <2>2, <3>1, Zenon
  <2>3. CASE ~(x = p /\ f \in {f1, f2, f3, f4})
    <3>1. fd'[x][f] = fd[x][f]
      BY <1>6, <2>3, Zenon
    <3> DEFINE d == fd[x][f][1][1]
    <3>2. handle[x][d] # NoHandle /\ d \notin closed[x] /\ f \in HandleFds(handle[x][d])
      BY <2>1, <3>1, Zenon DEF ChanInv, EndsOwned, IsOpen
    <3>3. d \in Channels
      <4>1. fd[x][f] \in End
        BY <1>1, <2>1, <3>1, Zenon
      <4>2. fd[x][f][1] \in Pipe
        BY <4>1, Zenon DEF End
      <4> QED BY <4>2, Zenon DEF Pipe
    <3> HIDE DEF d
    <3>4. handle'[x][d] = handle[x][d]
      BY <1>6, <1>7, <3>2, <3>3, ZenonT(40)
    <3> QED BY <1>2, <3>1, <3>2, <3>4, Zenon DEF d
  <2> QED BY <2>2, <2>3, Zenon
<1>14. NotOpened'
  BY <1>2, <1>4, <1>6 DEF ChanInv, NotOpened
<1>15. \A x \in Procs, d \in Channels : handle[x][d] # NoHandle => handle'[x][d] # NoHandle
  BY <1>5, <1>6, Zenon
<1>r. ASSUME NEW x \in Procs, NEW i \in DOMAIN registry'[x]
      PROVE  \/ x = p /\ registry'[x][i] = c
             \/ /\ i \in DOMAIN registry[x] /\ registry'[x][i] = registry[x][i]
                /\ registry[x][i] \in Channels
  <2>1. registry[x] \in Seq(Channels)
    BY <1>1, Zenon
  <2>2. CASE x # p
    BY <1>6, <1>r, <2>1, <2>2, SMTT(30)
  <2>3. CASE x = p
    <3>1. registry'[x] = Append(registry[x], c) /\ i \in 1..(Len(registry[x]) + 1)
      BY <1>4, <1>6, <1>r, <2>1, <2>3, SMTT(30)
    <3> QED BY <1>4, <2>1, <2>3, <3>1, SMTT(30)
  <2> QED BY <2>2, <2>3, Zenon
<1>16. HandlesKnown'
  <2>1. \A x \in Procs : \A i \in DOMAIN registry'[x] :
          \/ x = p /\ registry'[x][i] = c
          \/ /\ i \in DOMAIN registry[x] /\ registry'[x][i] = registry[x][i]
             /\ registry[x][i] \in Channels
    BY <1>r, Zenon
  <2>2. \A x \in Procs : closed'[x] = closed[x] /\ closed[x] \subseteq Channels
    BY <1>2, Zenon DEF ChanInv, TypeOK
  <2> QED BY <1>5, <1>6, <1>15, <2>1, <2>2, SMTT(30) DEF ChanInv, HandlesKnown
<1>17. Unborn' /\ Counted'
  BY <1>2, Zenon DEF ChanInv, Unborn, Counted
<1>18. ArgKnown'
  BY <1>2, <1>15, Zenon DEF ChanInv, ArgKnown
<1>19. SentOnOwnSide'
  <2>1. SUFFICES ASSUME NEW q \in Pipe, NEW i \in DOMAIN buf[q], ~buf[q][i].stale,
                        NEW x, x = buf[q][i].from, IsOpen(x, q[1])'
                 PROVE  Faces(x, q[1], q[2])'
    BY <1>2, Zenon DEF SentOnOwnSide
  <2>2. q[1] \in Channels /\ q[2] \in {1, 2} /\ q = <<q[1], q[2]>> /\ x \in Procs
    BY <2>1, SenderIs, Zenon
  <2>3. q[1] # c
    BY <1>7, <2>1, <2>2
  <2> QED BY <1>11, <2>1, <2>2, <2>3, Zenon DEF ChanInv, SentOnOwnSide
<1>20. Flagged'
  <2>1. \A x \in Procs : x = p => call'[x].op # "recv"
    BY <1>2, IdleIsCall, Zenon
  <2> QED BY <1>2, <1>6, <2>1, FlaggedKept, Zenon
<1>21. Paired'
  <2>1. ASSUME NEW x \in Procs, NEW d \in Channels, d \in Swapped(x)' \ closed'[x], d # c
        PROVE  /\ d \in Swapped(x) \ closed[x]
               /\ PipeOf(x, SendFd(x, d))' = PipeOf(x, SendFd(x, d))
               /\ PipeOf(x, RecvFd(x, d))' = PipeOf(x, RecvFd(x, d))
    <3>1. d \in Swapped(x) \ closed[x]
      BY <1>2, <1>r, <2>1, Zenon DEF Swapped
    <3>2. handle[x][d] # NoHandle
      BY <3>1, Zenon DEF Swapped, ChanInv, HandlesKnown
    <3>3. IsOpen(x, d)
      BY <3>1, <3>2, Zenon DEF IsOpen
    <3>4. PICK k \in {1, 2} : Faces(x, d, k) /\ Faces(x, d, k)'
      BY <1>11, <2>1, <3>3, OpenEnds, Zenon
    <3> QED BY <3>1, <3>4, SamePipes, Zenon
  <2>2. \A y \in Procs : y # p => c \notin Swapped(y)'
    BY <1>6, <1>7 DEF Swapped, ChanInv, HandlesKnown
  <2>3. \A x \in Procs : c \in Swapped(x)' => \A y \in Procs : y # x => c \notin Swapped(y)'
    BY <2>2, Zenon
  <2> QED BY <1>2, <2>1, <2>3, PairedKept, Zenon
<1> QED BY <1>8, <1>12, <1>13, <1>14, <1>16, <1>17, <1>18, <1>19, <1>20, <1>21, ZenonT(40) DEF ChanInv

LEMMA SpawnWorkerInv ==
  ASSUME ChanInv, NEW p \in Procs, NEW w \in Workers, SpawnWorker(p, w)
  PROVE  ChanInv'
<1>0. TypeOK /\ w \in Procs
  BY Zenon DEF ChanInv, Workers
<1>1. /\ state[p] = "running" /\ state[w] = "unborn" /\ w # p /\ call[w] = Idle
      /\ UNCHANGED <<buf, opened, nonblock, call, program>>
  BY <1>0, Zenon DEF SpawnWorker, CanCall, ChanInv, Unborn
<1>2. /\ \A x \in Procs : x # w => /\ fd'[x] = fd[x] /\ handle'[x] = handle[x]
                                   /\ closed'[x] = closed[x] /\ registry'[x] = registry[x]
                                   /\ state'[x] = state[x]
                                   /\ seq'[x] = seq[x] /\ proto'[x] = proto[x]
      /\ fd'[w] = fd[p] /\ closed'[w] = closed[p] /\ registry'[w] = registry[p]
      /\ state'[w] = "running"
  BY <1>0, Zenon DEF SpawnWorker, TypeOK
<1>3. /\ \A c \in Channels : handle'[w][c] =
           IF c \in Swapped(p) THEN Swap(handle[p][c]) ELSE handle[p][c]
      /\ \A x \in Workers : x # w => spawner'[x] = spawner[x]
      /\ spawner'[w] = p
  BY <1>0, Zenon DEF SpawnWorker, TypeOK
<1>4. \A c \in Swapped(p) : c \in Channels /\ handle[p][c] # NoHandle /\ handle[p][c] \in Handle
  <2>1. \A i \in DOMAIN registry[p] : registry[p][i] \in Channels
    BY <1>0 DEF TypeOK
  <2>2. \A i \in DOMAIN registry[p] : handle[p][registry[p][i]] # NoHandle
    BY Zenon DEF ChanInv, HandlesKnown
  <2> QED BY <1>0, <2>1, <2>2 DEF Swapped, TypeOK
<1>5. \A h \in Handle : /\ Swap(h) \in Handle /\ Swap(h) # NoHandle
                       /\ HandleFds(Swap(h)) = HandleFds(h)
                       /\ Swap(h).o0 = h.o8 /\ Swap(h).o8 = h.o0
                       /\ Swap(h).o4 = h.o12 /\ Swap(h).o12 = h.o4
  <2>1. ASSUME NEW h \in Handle
        PROVE  /\ Swap(h) \in Handle
               /\ Swap(h).o0 = h.o8 /\ Swap(h).o8 = h.o0
               /\ Swap(h).o4 = h.o12 /\ Swap(h).o12 = h.o4
    BY Zenon DEF Swap, Handle
  <2> QED BY <2>1, NoneIsEmpty, ZenonT(40) DEF HandleFds
<1>6. TypeOK'
  <2>1. /\ fd' \in [Procs -> [Fds -> End \cup {NoEnd}]]
        /\ state' \in [Procs -> {"unborn", "running", "zombie", "reaped"}]
        /\ spawner' \in [Workers -> Procs]
        /\ registry' \in [Procs -> Seq(Channels)]
    BY <1>0, Zenon DEF SpawnWorker, TypeOK
  <2>2. /\ seq' \in [Procs -> 0..MaxSeq] /\ proto' \in [Procs -> 0..MaxProto]
        /\ closed' \in [Procs -> SUBSET Channels]
    BY <1>0, Zenon DEF SpawnWorker, TypeOK
  <2>3. handle' \in [Procs -> [Channels -> Handle \cup {NoHandle}]]
    <3> DEFINE g == [c \in Channels |->
                       IF c \in Swapped(p) THEN Swap(handle[p][c]) ELSE handle[p][c]]
    <3>1. g \in [Channels -> Handle \cup {NoHandle}]
      BY <1>0, <1>4, <1>5 DEF TypeOK
    <3>2. handle' = [handle EXCEPT ![w] = g]
      BY Zenon DEF SpawnWorker
    <3> HIDE DEF g
    <3> QED BY <1>0, <3>1, <3>2, ZenonT(40) DEF TypeOK
  <2> QED BY <1>0, <1>1, <2>1, <2>2, <2>3, Zenon DEF TypeOK
<1>7. ASSUME NEW c \in Channels
      PROVE  /\ (handle'[w][c] = NoHandle) <=> (handle[p][c] = NoHandle)
             /\ IsOpen(w, c)' => IsOpen(p, c)
             /\ (handle[p][c] # NoHandle) =>
                   (HandleFds(handle'[w][c]) = HandleFds(handle[p][c]))
  <2>1. CASE c \in Swapped(p)
    BY <1>2, <1>3, <1>4, <1>5, <2>1, SMTT(30) DEF IsOpen
  <2>2. CASE c \notin Swapped(p)
    BY <1>2, <1>3, <2>2, Zenon DEF IsOpen
  <2> QED BY <2>1, <2>2, Zenon
<1>8. ASSUME NEW c \in Channels, NEW k \in {1, 2}, Faces(p, c, k)
      PROVE  /\ c \in Swapped(p) => Faces(w, c, 3 - k)'
             /\ c \notin Swapped(p) => Faces(w, c, k)'
  <2>1. ASSUME c \in Swapped(p) PROVE Faces(w, c, 3 - k)'
    <3>1. handle[p][c] \in Handle /\ handle'[w][c] = Swap(handle[p][c])
      BY <1>3, <1>4, <2>1, Zenon
    <3>2. 3 - (3 - k) = k
      OBVIOUS
    <3>3. /\ fd'[w][handle'[w][c].o0] = <<<<c, 3 - k>>, "r">>
          /\ fd'[w][handle'[w][c].o4] = <<<<c, 3 - k>>, "w">>
          /\ fd'[w][handle'[w][c].o8] = <<<<c, 3 - (3 - k)>>, "r">>
          /\ fd'[w][handle'[w][c].o12] = <<<<c, 3 - (3 - k)>>, "w">>
      BY <1>2, <1>5, <1>8, <3>1, <3>2, ZenonT(40) DEF Faces
    <3> QED BY <3>3, Zenon DEF Faces
  <2>2. ASSUME c \notin Swapped(p) PROVE Faces(w, c, k)'
    <3>1. handle'[w][c] = handle[p][c]
      BY <1>3, <2>2, Zenon
    <3> QED BY <1>2, <1>8, <3>1, Zenon DEF Faces
  <2> QED BY <2>1, <2>2, Zenon
<1>9. \A x \in Procs, c \in Channels : x # w =>
        /\ IsOpen(x, c)' <=> IsOpen(x, c)
        /\ \A k : Faces(x, c, k)' <=> Faces(x, c, k)
  BY <1>2, SameProcess, Zenon
<1>10. HandlesLead'
  <2>1. ASSUME NEW c \in Channels, IsOpen(w, c)' PROVE Faces(w, c, 1)' \/ Faces(w, c, 2)'
    <3>1. PICK k \in {1, 2} : Faces(p, c, k)
      BY <1>7, <2>1, OpenEnds, Zenon
    <3>2. Faces(w, c, 3 - k)' \/ Faces(w, c, k)'
      BY <1>8, <3>1, Zenon
    <3>3. CASE k = 1
      <4>1. 3 - 1 = 2
        OBVIOUS
      <4> QED BY <3>2, <3>3, <4>1, Zenon
    <3>4. CASE k = 2
      <4>1. 3 - 2 = 1
        BY SMTT(30)
      <4> QED BY <3>2, <3>4, <4>1, Zenon
    <3> QED BY <3>3, <3>4, Zenon
  <2> QED BY <1>9, <2>1, Zenon DEF ChanInv, HandlesLead
<1>11. EndsOwned'
  <2>1. SUFFICES ASSUME NEW x \in Procs, NEW f \in Fds, fd'[x][f] # NoEnd
                 PROVE  /\ handle'[x][fd'[x][f][1][1]] # NoHandle
                        /\ fd'[x][f][1][1] \notin closed'[x]
                        /\ f \in HandleFds(handle'[x][fd'[x][f][1][1]])
    BY ZenonT(40) DEF EndsOwned, IsOpen, HandleFds
  <2>2. CASE x # w
    BY <1>2, <2>1, <2>2 DEF ChanInv, EndsOwned, IsOpen
  <2>3. CASE x = w
    <3>1. SUFFICES ASSUME NEW d, d = fd[p][f][1][1]
                   PROVE  /\ handle'[w][d] # NoHandle /\ d \notin closed'[w]
                          /\ f \in HandleFds(handle'[w][d])
      BY <1>2, <2>3, Zenon
    <3>2. handle[p][d] # NoHandle /\ d \notin closed[p] /\ f \in HandleFds(handle[p][d])
      BY <1>2, <2>1, <2>3, <3>1, Zenon DEF ChanInv, EndsOwned, IsOpen
    <3>3. d \in Channels
      <4>1. fd[p][f] \in End
        BY <1>0, <1>2, <2>1, <2>3 DEF TypeOK
      <4>2. fd[p][f][1] \in Pipe
        BY <4>1, Zenon DEF End
      <4> QED BY <3>1, <4>2, Zenon DEF Pipe
    <3> QED BY <1>2, <1>7, <3>2, <3>3, Zenon
  <2> QED BY <2>2, <2>3, Zenon
<1>12. NotOpened'
  <2>1. SUFFICES ASSUME NEW c \in Channels, c > opened
                 PROVE  \A x \in Procs : handle'[x][c] = NoHandle
    BY <1>1, Zenon DEF ChanInv, NotOpened
  <2>2. \A x \in Procs : handle[x][c] = NoHandle
    BY <2>1, ZenonT(40) DEF ChanInv, NotOpened
  <2> QED BY <1>2, <1>7, <2>2, Zenon
<1>13. HandlesKnown'
  <2>1. \A i \in DOMAIN registry[p] : registry[p][i] \in Channels
    BY <1>0 DEF TypeOK
  <2>2. closed[p] \subseteq Channels
    BY <1>0, Zenon DEF TypeOK
  <2>3. HandlesKnown
    BY Zenon DEF ChanInv
  <2>4. registry'[w] = registry[p] /\ closed'[w] = closed[p]
    BY <1>2, Zenon
  <2>5. /\ \A i \in DOMAIN registry[p] : handle'[w][registry[p][i]] # NoHandle
        /\ \A c \in closed[p] : handle'[w][c] # NoHandle
    BY <1>7, <2>1, <2>2, <2>3, Zenon DEF HandlesKnown
  <2>6. /\ \A i \in DOMAIN registry'[w] : handle'[w][registry'[w][i]] # NoHandle
        /\ \A c \in closed'[w] : handle'[w][c] # NoHandle
    BY <2>4, <2>5, Zenon
  <2> QED BY <1>2, <2>3, <2>6 DEF HandlesKnown
<1>14. Unborn'
  <2>1. SUFFICES ASSUME NEW x \in Procs, state'[x] = "unborn"
                 PROVE  /\ call[x] = Idle
                        /\ \A q \in Pipe : \A i \in DOMAIN buf[q] : buf[q][i].from # x
                        /\ \A y \in Workers : y # x => spawner'[y] # x
    BY <1>1, Zenon DEF Unborn
  <2>2. x # w /\ x # p /\ state[x] = "unborn"
    BY <1>1, <1>2, <2>1, Zenon
  <2> QED BY <1>3, <2>2, Zenon DEF ChanInv, Unborn
<1>15. ArgKnown' /\ Counted'
  BY <1>1, <1>2, IdleIsCall, ZenonT(40) DEF ChanInv, ArgKnown, Counted, Sends, Blocking, Nonblocking
<1>16. SentOnOwnSide'
  <2>1. \A q \in Pipe : \A i \in DOMAIN buf[q] : buf[q][i].from # w
    BY <1>0, <1>1, Zenon DEF ChanInv, Unborn
  <2> QED BY <1>1, <1>9, <2>1, SenderIs, Zenon DEF ChanInv, SentOnOwnSide
<1>17. Flagged'
  <2>1. call'[w].op # "recv"
    BY <1>1, IdleIsCall, Zenon
  <2> QED BY <1>1, <1>2, <2>1, FlaggedKept, Zenon
<1>18. Paired'
  <2>1. SUFFICES ASSUME NEW y \in Workers, NEW c \in Channels, NEW s, s = spawner'[y],
                        s # y, state'[y] = "running", state'[s] = "running",
                        c \in Swapped(s)' \ closed'[s], c \in Swapped(y)' \ closed'[y]
                 PROVE  /\ PipeOf(y, SendFd(y, c))' = PipeOf(s, RecvFd(s, c))'
                        /\ PipeOf(s, SendFd(s, c))' = PipeOf(y, RecvFd(y, c))'
    BY Zenon DEF Paired
  <2>2. y \in Procs /\ s \in Procs
    BY <1>6, <2>1, Zenon DEF TypeOK, Workers
  <2>3. CASE y = w
    <3>1. s = p /\ s # w /\ c \in Swapped(p) \ closed[p]
      BY <1>1, <1>2, <1>3, <2>1, <2>3 DEF Swapped
    <3>2. PICK k \in {1, 2} : Faces(p, c, k)
      BY <1>4, <3>1, OpenEnds, Zenon DEF IsOpen
    <3>3. Faces(w, c, 3 - k)' /\ Faces(p, c, k)'
      BY <1>8, <1>9, <3>1, <3>2, Zenon
    <3>4. 3 - (3 - k) = k
      OBVIOUS
    <3>5. /\ PipeOf(w, SendFd(w, c))' = <<c, 3 - k>> /\ PipeOf(w, RecvFd(w, c))' = <<c, k>>
          /\ PipeOf(p, SendFd(p, c))' = <<c, k>> /\ PipeOf(p, RecvFd(p, c))' = <<c, 3 - k>>
      <4>1. /\ fd'[w][handle'[w][c].o4] = <<<<c, 3 - k>>, "w">>
            /\ fd'[w][handle'[w][c].o8] = <<<<c, k>>, "r">>
            /\ fd'[p][handle'[p][c].o4] = <<<<c, k>>, "w">>
            /\ fd'[p][handle'[p][c].o8] = <<<<c, 3 - k>>, "r">>
        BY <3>3, <3>4, Zenon DEF Faces
      <4>2. fd'[w][handle'[w][c].o4][1] = <<c, 3 - k>>
        BY <4>1, EndPipe, Zenon
      <4>3. fd'[w][handle'[w][c].o8][1] = <<c, k>>
        BY <4>1, EndPipe, Zenon
      <4>4. fd'[p][handle'[p][c].o4][1] = <<c, k>>
        BY <4>1, EndPipe, Zenon
      <4>5. fd'[p][handle'[p][c].o8][1] = <<c, 3 - k>>
        BY <4>1, EndPipe, Zenon
      <4> QED BY <4>2, <4>3, <4>4, <4>5, Zenon DEF PipeOf, SendFd, RecvFd
    <3> QED BY <2>3, <3>1, <3>5, ZenonT(40)
  <2>4. CASE y # w
    <3>1. s = spawner[y] /\ s # w
      BY <1>0, <1>1, <1>3, <2>1, <2>4, ZenonT(40) DEF ChanInv, Unborn
    <3>2. /\ fd'[s] = fd[s] /\ handle'[s] = handle[s] /\ closed'[s] = closed[s]
          /\ registry'[s] = registry[s] /\ state'[s] = state[s]
      BY <1>2, <2>2, <3>1, Zenon
    <3>3. /\ fd'[y] = fd[y] /\ handle'[y] = handle[y] /\ closed'[y] = closed[y]
          /\ registry'[y] = registry[y] /\ state'[y] = state[y]
      BY <1>2, <2>2, <2>4, Zenon
    <3>4. Swapped(s)' = Swapped(s) /\ Swapped(y)' = Swapped(y)
      BY <3>2, <3>3, Zenon DEF Swapped
    <3>5. /\ PipeOf(y, SendFd(y, c)) = PipeOf(s, RecvFd(s, c))
          /\ PipeOf(s, SendFd(s, c)) = PipeOf(y, RecvFd(y, c))
      BY <2>1, <3>1, <3>2, <3>3, <3>4, ZenonT(40) DEF ChanInv, Paired
    <3> QED BY <2>2, <3>2, <3>3, <3>5, SameProcess, Zenon
  <2> QED BY <2>3, <2>4, Zenon
<1> QED BY <1>6, <1>10, <1>11, <1>12, <1>13, <1>14, <1>15, <1>16, <1>17, <1>18, ZenonT(40) DEF ChanInv

-----------------------------------------------------------------------------
(* The invariant, and what follows from it. *)

LEMMA NextInv == ASSUME ChanInv, [Next]_vars PROVE ChanInv'
<1>1. ASSUME NEW p \in Procs, Step(p) PROVE ChanInv'
  <2>1. ASSUME NEW op \in Blocking \cup Nonblocking, Read(p, op),
               \/ proto' = proto
               \/ op = "recv_proto" /\ proto' = [proto EXCEPT ![p] = @ + 1]
        PROVE  ChanInv'
    BY <2>1, ReadInv, Zenon
  <2>2. {"recv", "try_recv", "recv_timeout", "recv_result", "recv_proto"}
          \subseteq Blocking \cup Nonblocking
    BY Zenon DEF Blocking, Nonblocking
  <2>3. CASE ChannelRecv(p) \/ ChannelTryRecv(p) \/ ChannelRecvTimeout(p)
    BY <2>1, <2>2, <2>3, Zenon DEF ChannelRecv, ChannelTryRecv, ChannelRecvTimeout
  <2>4. CASE ChannelRecvResult(p) \/ ChannelRecvProto(p)
    BY <2>1, <2>2, <2>4, Zenon DEF ChannelRecvResult, ChannelRecvProto
  <2> QED
    BY <1>1, <2>3, <2>4, WriteInv, FcntlInv, PollInv, WaitWorkerInv, Zenon DEF Step
<1>2. ASSUME NEW p \in Procs, NEW c \in Channels,
             \/ ChannelSend(p, c) \/ ChannelSendCap(p, c)
             \/ DriverCall(p, c) \/ ProcessCall(p, c)
      PROVE  ChanInv'
  <2>1. "channel_send" \in Sends /\ "driver_call" \in Sends
    BY Zenon DEF Sends
  <2> QED
    BY <1>2, <2>1, SendsInv, Zenon DEF ChannelSend, ChannelSendCap, DriverCall, ProcessCall
<1>3. ASSUME NEW p \in Procs, NEW c \in Channels,
             \/ ChannelClose(p, c) \/ BeginNonblocking(p, c) \/ BeginRecvResult(p, c)
             \/ \E e \in 0..(MaxProto - 1) : BeginRecvProto(p, c, e)
      PROVE  ChanInv'
  BY <1>3, ChannelCloseInv, NonblockingInv, BlockingInv, Zenon
<1>4. ASSUME NEW p \in Procs, ChannelOpen(p) PROVE ChanInv'
  BY <1>4, ChannelOpenInv, Zenon
<1>5. ASSUME NEW p \in Procs, NEW w \in Workers, SpawnWorker(p, w) \/ BeginWait(p, w)
      PROVE  ChanInv'
  BY <1>5, SpawnWorkerInv, BeginWaitInv, Zenon
<1>6. ASSUME NEW w \in Workers, Die(w) PROVE ChanInv'
  BY <1>6, DieInv, Zenon
<1>7. CASE UNCHANGED vars
  BY <1>7, StutterInv, Zenon
<1> QED BY <1>1, <1>2, <1>3, <1>4, <1>5, <1>6, <1>7, Zenon DEF Next

\* In every reachable state the descriptors, handles, calls and pipes are as
\* ChanInv says, whatever the programs of the processes.
THEOREM ChannelInvariant == Spec => []ChanInv
BY InitInv, NextInv, PTL DEF Spec

\* All state of the emitted code and of the kernel under it keeps its type.
THEOREM ChannelTypes == Spec => []TypeOK
<1>1. ChanInv => TypeOK
  BY Zenon DEF ChanInv
<1> QED BY <1>1, ChannelInvariant, PTL

\* A worker and its spawner send into each other's receiving pipe on every
\* channel that spawn_worker swapped.
THEOREM ChannelPaired == Spec => []Paired
<1>1. ChanInv => Paired
  BY Zenon DEF ChanInv
<1> QED BY <1>1, ChannelInvariant, PTL

\* What a receiver that has its handle open reads from.
LEMMA ArgOpen ==
  ASSUME ChanInv, NEW p \in Procs, NEW at, At(p, Blocking \cup Nonblocking, at),
         call[p].arg \notin closed[p]
  PROVE  call[p].arg \in Channels /\ IsOpen(p, call[p].arg)
BY Zenon DEF At, ChanInv, ArgKnown, IsOpen

\* No process receives a frame that it sent itself.
THEOREM ChannelNoSelfRead == Spec => []NoSelfRead
<1>1. ASSUME ChanInv PROVE NoSelfRead
  <2>1. SUFFICES ASSUME NEW p \in Procs, Takes(p), Clean(p), Taken(p).from = p
                 PROVE  FALSE
    BY Zenon DEF NoSelfRead
  <2> DEFINE c == call[p].arg
             q == PipeOf(p, RecvFd(p, c))
  <2>2. c \in Channels /\ IsOpen(p, c)
    BY <1>1, <2>1, ArgOpen, Zenon DEF Takes, Clean
  <2>3. PICK k \in {1, 2} : Faces(p, c, k) /\ q = <<c, 3 - k>> /\ q \in Pipe
    BY <1>1, <2>2, OpenEnds, ZenonT(40)
  <2>4. buf[q] \in Seq(Frame) /\ buf[q] # <<>>
    BY <1>1, <2>1, <2>3, Zenon DEF ChanInv, TypeOK, Takes, ReadRet
  <2>5. Taken(p) = Head(buf[q])
    BY Zenon DEF Taken
  <2> HIDE DEF c, q
  <2>6. 1 \in DOMAIN buf[q] /\ buf[q][1] = Taken(p)
    BY <2>4, <2>5
  <2>7. ~buf[q][1].stale /\ buf[q][1].from = p
    BY <2>1, <2>6, Zenon DEF Clean
  <2>8. q[1] = c /\ q[2] = 3 - k
    BY <2>3, Zenon
  <2>9. Faces(p, c, 3 - k)
    BY <1>1, <2>2, <2>3, <2>6, <2>7, <2>8, Zenon DEF ChanInv, SentOnOwnSide
  <2>10. <<<<c, k>>, "w">> = <<<<c, 3 - k>>, "w">>
    BY <2>3, <2>9, Zenon DEF Faces
  <2>11. k = 3 - k
    BY <2>10, Zenon
  <2> QED BY <2>11
<1> QED BY <1>1, ChannelInvariant, PTL

\* channel_recv reports Closed on a handle that this process closed, and on
\* no other: a handle that is open has the write end of its own receiving
\* pipe, so there is no end of file, and the pipe is non-blocking by then.
THEOREM ChannelRecvClosedIsOwnClose == Spec => []RecvClosedIsOwnClose
<1>1. ASSUME ChanInv PROVE RecvClosedIsOwnClose
  <2>1. SUFFICES ASSUME NEW p \in Procs, At(p, {"recv"}, "read"), ~Retries(p),
                        Returns(p) = "closed", call[p].arg \notin closed[p]
                 PROVE  FALSE
    BY Zenon DEF RecvClosedIsOwnClose
  <2> DEFINE c == call[p].arg
             f == RecvFd(p, c)
             q == PipeOf(p, f)
  <2>2. call[p].op = "recv" /\ call[p].at = "read" /\ At(p, Blocking \cup Nonblocking, "read")
    BY <2>1, Zenon DEF At, Nonblocking
  <2>3. c \in Channels /\ IsOpen(p, c)
    BY <1>1, <2>1, <2>2, ArgOpen, Zenon
  <2>4. PICK k \in {1, 2} : Faces(p, c, k) /\ Readable(p, f) /\ q = <<c, 3 - k>>
    BY <1>1, <2>3, OpenEnds, Zenon
  <2>5. Writers(q) # {}
    <3>1. handle[p][c].o12 \in Fds
      BY <1>1, <2>3 DEF ChanInv, TypeOK, IsOpen, Handle
    <3>2. fd[p][handle[p][c].o12] = <<q, "w">>
      BY <2>4, Zenon DEF Faces
    <3> QED BY <3>1, <3>2, Zenon DEF Writers, HasEnd
  <2>6. q \in nonblock
    BY <1>1, <2>1, <2>2, Zenon DEF ChanInv, Flagged
  <2>7. ReadRet(p, f) \in {"frame", "EAGAIN"}
    BY <2>4, <2>5, <2>6, Zenon DEF ReadRet
  <2>8. ReadRet(p, f) # "frame" /\ ReadRet(p, f) # "EAGAIN"
    BY <2>1, <2>2, Zenon DEF Returns, PlainOutcome, Retries
  <2> QED BY <2>7, <2>8, Zenon
<1> QED BY <1>1, ChannelInvariant, PTL

\* No write() of the emitted code finds a pipe without readers: whoever holds
\* a write end holds a read end of the same pipe.
THEOREM ChannelNoBrokenPipe == Spec => []NoBrokenPipe
<1>1. ASSUME ChanInv PROVE NoBrokenPipe
  <2>1. SUFFICES ASSUME NEW p \in Procs, NEW f \in Fds, Writable(p, f)
                 PROVE  Readers(PipeOf(p, f)) # {}
    BY Zenon DEF NoBrokenPipe
  <2> DEFINE q == PipeOf(p, f)
             c == q[1]
  <2>2. fd[p][f] \in End /\ fd[p][f] # NoEnd
    BY <1>1, <2>1 DEF ChanInv, TypeOK, Writable
  <2>3. q \in Pipe
    BY <2>2, Zenon DEF End, PipeOf
  <2>4. c \in Channels /\ IsOpen(p, c) /\ f \in HandleFds(handle[p][c])
    BY <1>1, <2>2, <2>3, Zenon DEF ChanInv, EndsOwned, PipeOf, Pipe
  <2>5. PICK k \in {1, 2} : Faces(p, c, k)
    BY <1>1, <2>4, OpenEnds, Zenon
  <2> HIDE DEF c
  <2>6. q = <<c, k>> \/ q = <<c, 3 - k>>
    <3>1. PICK e, j : fd[p][f] = <<<<c, j>>, e>> /\ (j = k \/ j = 3 - k)
      BY <2>4, <2>5, Zenon DEF Faces, HandleFds
    <3>2. q = <<c, j>>
      BY <3>1, EndPipe, Zenon DEF PipeOf
    <3> QED BY <3>1, <3>2, Zenon
  <2>7. handle[p][c].o0 \in Fds /\ handle[p][c].o8 \in Fds
    BY <1>1, <2>4 DEF ChanInv, TypeOK, IsOpen, Handle
  <2>8. HasEnd(p, q, "r")
    BY <2>5, <2>6, <2>7, Zenon DEF Faces, HasEnd
  <2> QED BY <2>8, Zenon DEF Readers
<1> QED BY <1>1, ChannelInvariant, PTL

-----------------------------------------------------------------------------
(* What poll saw is still there for the read.  This needs three more facts *)
(* about who has which handle, and that the steps inside a call of another *)
(* process leave the pipe p reads alone.                                   *)

\* Whoever has a handle that a spawn by someone else would swap has it in a
\* slot that its own spawns swap.
SwapShared ==
  \A p, x \in Procs, c \in Channels :
    c \in Swapped(p) /\ handle[x][c] # NoHandle => c \in Swapped(x)

SpawnedByOther == \A w \in Workers : state[w] # "unborn" => spawner[w] # w

NeverClosed ==
  (\A p \in Procs : "channel_close" \notin program[p]) => \A p \in Procs : closed[p] = {}

SharedInv == ChanInv /\ SwapShared /\ SpawnedByOther /\ NeverClosed

\* The steps of p inside a call, and into one.
Inner(p) ==
  \/ Step(p)
  \/ \E c \in Channels :
       \/ ChannelSend(p, c) \/ ChannelSendCap(p, c)
       \/ DriverCall(p, c) \/ ProcessCall(p, c)
       \/ BeginNonblocking(p, c) \/ BeginRecvResult(p, c)
       \/ \E e \in 0..(MaxProto - 1) : BeginRecvProto(p, c, e)
  \/ \E w \in Workers : BeginWait(p, w)

\* What such a step does: it changes nothing but pipes, flags, counters and
\* the call of p; only a poll leaves p with an event reported.
Calm(p) ==
  /\ UNCHANGED <<fd, handle, registry, closed, spawner, program>>
  /\ \A x \in Procs : (state[x] = "unborn") = (state'[x] = "unborn")
  /\ \A x \in Procs : state'[x] = "running" => state[x] = "running"
  /\ \A x \in Procs : x # p => call'[x] = call[x]
  /\ Poll(p) \/ ~Polled(p)'
  /\ \/ buf' = buf
     \/ Write(p)
     \/ \E op \in Blocking \cup Nonblocking : Read(p, op)

LEMMA InnerStep ==
  ASSUME ChanInv, NEW p \in Procs, Inner(p)
  PROVE  Calm(p)
<1>1. call \in [Procs -> Call] /\ state \in [Procs -> {"unborn", "running", "zombie", "reaped"}]
  BY Zenon DEF ChanInv, TypeOK
<1>2. Idle.at # "read"
  BY IdleIsCall, Zenon
<1>3. ASSUME NEW op, NEW arg, NEW at, Enter(p, op, arg, at)
      PROVE  ~Polled(p)' /\ \A x \in Procs : x # p => call'[x] = call[x]
  <2>1. call' = [call EXCEPT ![p] = [op |-> op, arg |-> arg, at |-> at, poll |-> FALSE]]
    BY <1>3, Zenon DEF Enter
  <2>2. call'[p] = [op |-> op, arg |-> arg, at |-> at, poll |-> FALSE]
    BY <1>1, <2>1, Zenon
  <2>3. ~call'[p].poll
    BY <2>2
  <2> QED BY <1>1, <2>1, <2>3, Zenon DEF Polled
<1>4. ASSUME Return(p)
      PROVE  ~Polled(p)' /\ \A x \in Procs : x # p => call'[x] = call[x]
  <2>1. call'[p] = Idle /\ \A x \in Procs : x # p => call'[x] = call[x]
    BY <1>1, <1>4, Zenon DEF Return
  <2> QED BY <1>2, <2>1, Zenon DEF Polled, At
<1>5. CASE \E op \in Blocking \cup Nonblocking : Read(p, op)
  BY <1>4, <1>5, Zenon DEF Calm, Read
<1>6. CASE Write(p)
  <2>1. CASE Return(p)
    BY <1>4, <1>6, <2>1, Zenon DEF Calm, Write
  <2>2. CASE call' = [call EXCEPT ![p].op = "recv", ![p].at = "fcntl"]
    <3>1. \A x \in Procs : x # p => call'[x] = call[x]
      BY <1>1, <2>2, Zenon
    <3> DEFINE r == [call[p] EXCEPT !.op = "recv", !.at = "fcntl"]
    <3>2. r.at = "fcntl"
      <4>1. call[p] \in Call
        BY <1>1, Zenon
      <4> QED BY <4>1, Zenon DEF Call
    <3>3. call' = [call EXCEPT ![p] = r]
      BY <1>1, <2>2, Zenon
    <3> HIDE DEF r
    <3> QED BY <1>1, <1>6, <3>1, <3>2, <3>3, Zenon DEF Calm, Write, Polled, At
  <2> QED BY <1>6, <2>1, <2>2, Zenon DEF Write, AfterWrite
<1>7. CASE Fcntl(p)
  <2>1. \A x \in Procs : x # p => call'[x] = call[x]
    BY <1>1, <1>7, Zenon DEF Fcntl
  <2>2. call'[p].op = "recv"
    BY <1>1, <1>7, Zenon DEF Fcntl, At, Call
  <2> QED BY <1>7, <2>1, <2>2, Zenon DEF Calm, Fcntl, privateVars, Polled, At
<1>8. CASE Poll(p)
  <2>1. \A x \in Procs : x # p => call'[x] = call[x]
    BY <1>1, <1>8, Zenon DEF Poll
  <2> QED BY <1>8, <2>1, Zenon DEF Calm, Poll, privateVars, kernelVars
<1>9. CASE WaitWorker(p)
  <2>1. /\ state' = [state EXCEPT ![call[p].arg] = "reaped"] /\ state[call[p].arg] = "zombie"
        /\ Return(p) /\ UNCHANGED <<kernelVars, spawner, privateVars, program>>
    BY <1>9, Zenon DEF WaitWorker
  <2>2. /\ \A x \in Procs : (state[x] = "unborn") = (state'[x] = "unborn")
        /\ \A x \in Procs : state'[x] = "running" => state[x] = "running"
    BY <1>1, <2>1
  <2> QED BY <1>4, <2>1, <2>2, Zenon DEF Calm, privateVars, kernelVars
<1>10. CASE \E c \in Channels : \E op : BeginSend(p, c, op)
  BY <1>3, <1>10, Zenon DEF Calm, BeginSend, privateVars, kernelVars
<1>11. CASE \E c \in Channels : \E op, at : BeginRecv(p, c, op, at)
  BY <1>3, <1>11, Zenon DEF Calm, BeginRecv, privateVars
<1>12. CASE \E w \in Workers : BeginWait(p, w)
  BY <1>3, <1>12, Zenon DEF Calm, BeginWait, privateVars, kernelVars
<1>13. CASE CanCall(p, "recv_proto") /\ UNCHANGED vars
  BY <1>2, <1>13, Zenon DEF Calm, vars, CanCall, Polled, At
<1>14. ASSUME NEW c \in Channels
       PROVE  /\ ChannelSend(p, c) \/ ChannelSendCap(p, c) \/ DriverCall(p, c) \/ ProcessCall(p, c)
                   => \E op : BeginSend(p, c, op)
              /\ BeginNonblocking(p, c) \/ BeginRecvResult(p, c)
                   => \E op, at : BeginRecv(p, c, op, at)
              /\ \A e : BeginRecvProto(p, c, e) =>
                   \/ \E op, at : BeginRecv(p, c, op, at)
                   \/ CanCall(p, "recv_proto") /\ UNCHANGED vars
  BY Zenon DEF ChannelSend, ChannelSendCap, DriverCall, ProcessCall, BeginNonblocking,
               BeginRecvResult, BeginRecvProto
<1>15. CASE Step(p)
  <2>1. ASSUME \/ ChannelRecv(p) \/ ChannelTryRecv(p) \/ ChannelRecvTimeout(p)
               \/ ChannelRecvResult(p) \/ ChannelRecvProto(p)
        PROVE  \E op \in Blocking \cup Nonblocking : Read(p, op)
    BY <2>1, Zenon DEF ChannelRecv, ChannelTryRecv, ChannelRecvTimeout, ChannelRecvResult,
                 ChannelRecvProto, Blocking, Nonblocking
  <2> QED BY <1>5, <1>6, <1>7, <1>8, <1>9, <1>15, <2>1, Zenon DEF Step
<1>16. CASE \E c \in Channels :
              \/ ChannelSend(p, c) \/ ChannelSendCap(p, c)
              \/ DriverCall(p, c) \/ ProcessCall(p, c)
              \/ BeginNonblocking(p, c) \/ BeginRecvResult(p, c)
              \/ \E e \in 0..(MaxProto - 1) : BeginRecvProto(p, c, e)
  BY <1>10, <1>11, <1>13, <1>14, <1>16, Zenon
<1> QED BY <1>12, <1>15, <1>16, Zenon DEF Inner

LEMMA NextSplits ==
  ASSUME [Next]_vars
  PROVE  \/ \E p \in Procs : Inner(p) \/ ChannelOpen(p)
         \/ \E p \in Procs, c \in Channels : ChannelClose(p, c)
         \/ \E p \in Procs, w \in Workers : SpawnWorker(p, w)
         \/ \E w \in Workers : Die(w)
         \/ UNCHANGED vars
BY Zenon DEF Next, Inner

\* A process whose registry becomes that of q.
LEMMA SameSwapped ==
  ASSUME NEW p \in Procs, NEW q \in Procs, registry'[p] = registry[q]
  PROVE  Swapped(p)' = Swapped(q)
BY DEF Swapped

\* No process is given a handle, and those with handles keep their registry.
LEMMA SwapSharedKept ==
  ASSUME SwapShared,
         \A x \in Procs : Swapped(x)' \subseteq Swapped(x),
         \A x \in Procs, c \in Channels :
           handle'[x][c] # NoHandle => handle[x][c] # NoHandle /\ Swapped(x)' = Swapped(x)
  PROVE  SwapShared'
<1> SUFFICES ASSUME NEW x \in Procs, NEW y \in Procs, NEW d \in Channels,
                    d \in Swapped(x)', handle'[y][d] # NoHandle
             PROVE  d \in Swapped(y)'
  BY Zenon DEF SwapShared
<1>1. d \in Swapped(x) /\ handle[y][d] # NoHandle /\ Swapped(y)' = Swapped(y)
  BY Zenon
<1>2. d \in Swapped(y)
  BY <1>1, Zenon DEF SwapShared
<1> QED BY <1>1, <1>2, Zenon

LEMMA SharedKept ==
  ASSUME SharedInv, [Next]_vars
  PROVE  SharedInv'
<1>1. ChanInv /\ TypeOK /\ SwapShared /\ SpawnedByOther /\ NeverClosed
  BY Zenon DEF SharedInv, ChanInv
<1>2. ChanInv'
  BY <1>1, NextInv
<1>3. ASSUME UNCHANGED <<handle, registry, closed, spawner, program>>,
             \A x \in Procs : (state[x] = "unborn") = (state'[x] = "unborn")
      PROVE  SwapShared' /\ SpawnedByOther' /\ NeverClosed'
  <2>1. \A x \in Procs : Swapped(x)' = Swapped(x)
    BY <1>3, Zenon DEF Swapped
  <2>2. SwapShared'
    BY <1>1, <1>3, <2>1, SwapSharedKept, Zenon
  <2>3. SpawnedByOther'
    <3> SUFFICES ASSUME NEW w \in Workers, state'[w] # "unborn" PROVE spawner[w] # w
      BY <1>3, Zenon DEF SpawnedByOther
    <3> QED BY <1>1, <1>3 DEF SpawnedByOther, Workers
  <2> QED BY <1>1, <1>3, <2>2, <2>3, Zenon DEF NeverClosed
<1>4. ASSUME NEW p \in Procs, Inner(p) PROVE SharedInv'
  <2>1. Calm(p)
    BY <1>1, <1>4, InnerStep, Zenon
  <2> QED BY <1>2, <1>3, <2>1, Zenon DEF Calm, SharedInv
<1>5. CASE UNCHANGED vars
  BY <1>2, <1>3, <1>5, Zenon DEF vars, SharedInv
<1>6. ASSUME NEW p \in Procs, NEW c \in Channels, ChannelClose(p, c) PROVE SharedInv'
  <2>1. UNCHANGED <<handle, registry, state, spawner, program>> /\ "channel_close" \in program[p]
    BY <1>6, Zenon DEF ChannelClose, CanCall
  <2>2. \A x \in Procs : Swapped(x)' = Swapped(x)
    BY <2>1, Zenon DEF Swapped
  <2>3. SwapShared'
    BY <1>1, <2>1, <2>2, SwapSharedKept, Zenon
  <2>4. SpawnedByOther' /\ NeverClosed'
    BY <1>1, <2>1, Zenon DEF SpawnedByOther, NeverClosed
  <2> QED BY <1>2, <2>3, <2>4, Zenon DEF SharedInv
<1>7. ASSUME NEW w \in Workers, Die(w) PROVE SharedInv'
  <2>1. w \in Procs /\ UNCHANGED <<spawner, program>>
    BY <1>7, Zenon DEF Die, Workers
  <2>2. /\ \A x \in Procs : x # w => /\ registry'[x] = registry[x] /\ handle'[x] = handle[x]
                                    /\ closed'[x] = closed[x] /\ state'[x] = state[x]
        /\ registry'[w] = <<>> /\ closed'[w] = {} /\ state[w] = "running"
        /\ \A c \in Channels : handle'[w][c] = NoHandle
    BY <1>1, <1>7, <2>1, Zenon DEF Die, TypeOK
  <2>3. /\ \A x \in Procs : x # w => Swapped(x)' = Swapped(x)
        /\ Swapped(w)' = {}
    <3>1. Swapped(w)' = {}
      BY <2>2 DEF Swapped
    <3> QED BY <2>2, <3>1, SameSwapped, Zenon
  <2>4. SwapShared'
    BY <1>1, <2>2, <2>3, SwapSharedKept, Zenon
  <2>5. SpawnedByOther'
    BY <1>1, <2>1, <2>2, Zenon DEF SpawnedByOther, Workers
  <2>6. NeverClosed'
    BY <1>1, <2>1, <2>2, Zenon DEF NeverClosed
  <2> QED BY <1>2, <2>4, <2>5, <2>6, Zenon DEF SharedInv
<1>8. ASSUME NEW p \in Procs, ChannelOpen(p) PROVE SharedInv'
  <2> DEFINE c == opened + 1
  <2>1. UNCHANGED <<state, spawner, closed, program>>
    BY <1>8, Zenon DEF ChannelOpen
  <2>2. /\ registry' = [registry EXCEPT ![p] = Append(@, c)]
        /\ \E h : handle' = [handle EXCEPT ![p][c] = h]
        /\ opened < MaxOpens
    BY <1>8, Zenon DEF ChannelOpen
  <2>3. c \in Channels /\ c > opened
    BY <1>1, <2>2, PipesAssumption DEF TypeOK, Channels
  <2> HIDE DEF c
  <2>4. /\ \A x \in Procs : x # p => registry'[x] = registry[x] /\ handle'[x] = handle[x]
        /\ \A d \in Channels : d # c => handle'[p][d] = handle[p][d]
        /\ registry'[p] = Append(registry[p], c)
    <3>1. PICK h : handle' = [handle EXCEPT ![p][c] = h]
      BY <2>2, Zenon
    <3>2. /\ registry \in [Procs -> Seq(Channels)]
          /\ handle \in [Procs -> [Channels -> Handle \cup {NoHandle}]]
      BY <1>1, Zenon DEF TypeOK
    <3>3. /\ \A x \in Procs : x # p => registry'[x] = registry[x]
          /\ registry'[p] = Append(registry[p], c)
      BY <2>2, <3>2, Zenon
    <3> QED BY <2>3, <3>1, <3>2, <3>3, Zenon
  <2>5. \A x \in Procs : handle[x][c] = NoHandle
    BY <1>1, <2>3, Zenon DEF ChanInv, NotOpened
  <2>6. \A x \in Procs : c \notin Swapped(x)
    BY <1>1, <2>5, Zenon DEF ChanInv, HandlesKnown, Swapped
  <2>7. registry[p] \in Seq(Channels)
    BY <1>1, Zenon DEF TypeOK
  <2>8. Swapped(p) \subseteq Swapped(p)' /\ Swapped(p)' \subseteq Swapped(p) \cup {c}
    BY <2>4, <2>7 DEF Swapped
  <2>9. SwapShared'
    <3> SUFFICES ASSUME NEW x \in Procs, NEW y \in Procs, NEW d \in Channels,
                        d \in Swapped(x)', handle'[y][d] # NoHandle
                 PROVE  d \in Swapped(y)'
      BY Zenon DEF SwapShared
    <3>1. \A z \in Procs : z # p => Swapped(z)' = Swapped(z)
      BY <2>4, SameSwapped, Zenon
    <3>2. CASE d = c
      <4>1. x = p
        BY <2>6, <3>1, <3>2, Zenon
      <4>2. y = p
        BY <2>4, <2>5, <3>2, Zenon
      <4> QED BY <4>1, <4>2, Zenon
    <3>3. CASE d # c
      <4>1. d \in Swapped(x)
        BY <2>8, <3>1, <3>3, Zenon
      <4>2. handle[y][d] # NoHandle
        BY <2>4, <3>3, Zenon
      <4>3. d \in Swapped(y)
        BY <1>1, <4>1, <4>2, Zenon DEF SwapShared
      <4> QED BY <2>8, <3>1, <4>3, Zenon
    <3> QED BY <3>2, <3>3, Zenon
  <2> QED BY <1>1, <1>2, <2>1, <2>9, Zenon DEF SharedInv, SpawnedByOther, NeverClosed
<1>9. ASSUME NEW p \in Procs, NEW w \in Workers, SpawnWorker(p, w) PROVE SharedInv'
  <2>1. /\ state[p] = "running" /\ state[w] = "unborn" /\ w # p /\ w \in Procs
        /\ UNCHANGED program
    BY <1>9, Zenon DEF SpawnWorker, CanCall, Workers
  <2>2. /\ \A x \in Procs : x # w => /\ registry'[x] = registry[x] /\ handle'[x] = handle[x]
                                    /\ closed'[x] = closed[x] /\ state'[x] = state[x]
        /\ registry'[w] = registry[p] /\ closed'[w] = closed[p]
        /\ \A x \in Workers : x # w => spawner'[x] = spawner[x]
        /\ spawner'[w] = p
        /\ \A c \in Channels : handle'[w][c] =
             IF c \in Swapped(p) THEN Swap(handle[p][c]) ELSE handle[p][c]
    BY <1>1, <1>9, <2>1, Zenon DEF SpawnWorker, TypeOK
  <2>3. /\ \A x \in Procs : x # w => Swapped(x)' = Swapped(x)
        /\ Swapped(w)' = Swapped(p)
    <3>1. Swapped(w)' = Swapped(p)
      BY <2>1, <2>2, SameSwapped, Zenon
    <3> QED BY <2>2, <3>1, SameSwapped, Zenon
  <2>4. \A c \in Swapped(p) : handle[p][c] # NoHandle
    BY <1>1, Zenon DEF ChanInv, HandlesKnown, Swapped
  <2>5. \A c \in Channels : handle'[w][c] # NoHandle => handle[p][c] # NoHandle
    BY <2>2, <2>4, Zenon
  <2>6. SwapShared'
    <3> SUFFICES ASSUME NEW x \in Procs, NEW y \in Procs, NEW d \in Channels,
                        d \in Swapped(x)', handle'[y][d] # NoHandle
                 PROVE  d \in Swapped(y)'
      BY Zenon DEF SwapShared
    <3>1. PICK v \in Procs : d \in Swapped(v)
      BY <2>1, <2>3, Zenon
    <3>2. PICK z \in Procs : handle[z][d] # NoHandle /\ Swapped(y)' = Swapped(z)
      <4>1. CASE y = w
        BY <2>3, <2>5, <4>1, Zenon
      <4>2. CASE y # w
        <5>1. handle[y][d] # NoHandle /\ Swapped(y)' = Swapped(y)
          BY <2>2, <2>3, <4>2, Zenon
        <5> QED BY <5>1, Zenon
      <4> QED BY <4>1, <4>2, Zenon
    <3> QED BY <1>1, <3>1, <3>2, Zenon DEF SwapShared
  <2>7. SpawnedByOther'
    <3> SUFFICES ASSUME NEW x \in Workers, state'[x] # "unborn" PROVE spawner'[x] # x
      BY Zenon DEF SpawnedByOther
    <3> QED BY <1>1, <2>1, <2>2, Zenon DEF SpawnedByOther, Workers
  <2>8. NeverClosed'
    BY <1>1, <2>1, <2>2, Zenon DEF NeverClosed
  <2> QED BY <1>2, <2>6, <2>7, <2>8, Zenon DEF SharedInv
<1> QED BY <1>4, <1>5, <1>6, <1>7, <1>8, <1>9, NextSplits, Zenon

\* Two processes that have a handle swapped between them receive on different
\* pipes of it.
LEMMA SoleReader ==
  ASSUME SharedInv, Lone, NEW p \in Procs, NEW x \in Procs, x # p,
         state[p] = "running", state[x] = "running",
         NEW c \in Channels, c \in Swapped(p), handle[x][c] # NoHandle
  PROVE  PipeOf(p, RecvFd(p, c)) # PipeOf(x, RecvFd(x, c))
<1>1. ChanInv /\ TypeOK /\ SwapShared /\ SpawnedByOther /\ NeverClosed
  BY Zenon DEF SharedInv, ChanInv
<1>2. \A y \in Procs : closed[y] = {}
  BY <1>1, Zenon DEF NeverClosed, Lone
<1>3. c \in Swapped(x) /\ handle[p][c] # NoHandle
  BY <1>1, Zenon DEF SwapShared, ChanInv, HandlesKnown, Swapped
<1>4. PICK w \in Workers, m \in Procs : {w, m} = {p, x} /\ w # m /\ m \notin Workers
  <2>1. p \notin Workers \/ x \notin Workers
    BY Zenon DEF Lone
  <2>2. p \in Workers \/ x \in Workers
    BY Zenon DEF Workers
  <2> QED BY <2>1, <2>2, Zenon
<1>5. /\ w \in Procs /\ state[w] = "running" /\ state[m] = "running"
      /\ IsOpen(w, c) /\ IsOpen(m, c) /\ c \in Swapped(w) /\ c \in Swapped(m)
  <2>1. w \in {p, x} /\ m \in {p, x}
    BY <1>4, Zenon
  <2> QED BY <1>2, <1>3, <2>1, Zenon DEF IsOpen, Workers
<1>6. spawner[w] = m
  <2>1. spawner[w] \in Procs /\ spawner[w] # w
    BY <1>1, <1>5, Zenon DEF TypeOK, SpawnedByOther
  <2>2. spawner[w] \notin Workers
    <3> SUFFICES ASSUME spawner[w] \in Workers PROVE FALSE
      OBVIOUS
    <3>1. state[spawner[w]] = "unborn"
      BY <1>5, <2>1, Zenon DEF Lone
    <3> QED BY <1>1, <2>1, <3>1, Zenon DEF ChanInv, Unborn
  <2> QED BY <1>4, <2>1, <2>2, Zenon DEF Workers
<1>7. PipeOf(w, SendFd(w, c)) = PipeOf(m, RecvFd(m, c))
  BY <1>1, <1>2, <1>4, <1>5, <1>6, Zenon DEF ChanInv, Paired
<1>8. PICK k \in {1, 2} : /\ PipeOf(w, SendFd(w, c)) = <<c, k>>
                          /\ PipeOf(w, RecvFd(w, c)) = <<c, 3 - k>>
  BY <1>1, <1>5, OpenEnds, Zenon
<1>9. <<c, k>> # <<c, 3 - k>>
  <2>1. k # 3 - k
    BY <1>8, SMT
  <2> QED BY <2>1, Zenon
<1>10. PipeOf(m, RecvFd(m, c)) # PipeOf(w, RecvFd(w, c))
  BY <1>7, <1>8, <1>9, Zenon
<1> QED BY <1>4, <1>10, Zenon

\* The pipe a timed receive reads.
LEMMA PolledPipe ==
  ASSUME SharedInv, Lone, NEW p \in Procs, At(p, {"try_recv", "recv_timeout"}, call[p].at)
  PROVE  LET f == RecvFd(p, call[p].arg) IN
         /\ call[p].arg \in Channels /\ IsOpen(p, call[p].arg)
         /\ PipeOf(p, f) \in Pipe /\ Readable(p, f) /\ Writers(PipeOf(p, f)) # {}
<1> DEFINE c == call[p].arg
           q == PipeOf(p, RecvFd(p, c))
<1>1. ChanInv /\ closed[p] = {}
  BY Zenon DEF SharedInv, NeverClosed, Lone
<1>2. c \in Channels /\ IsOpen(p, c)
  BY <1>1, Zenon DEF At, ChanInv, ArgKnown, Nonblocking, IsOpen
<1>3. PICK k \in {1, 2} : /\ Faces(p, c, k) /\ Readable(p, RecvFd(p, c))
                          /\ q = <<c, 3 - k>> /\ q \in Pipe
  BY <1>1, <1>2, OpenEnds, ZenonT(40)
<1>4. Writers(q) # {}
  <2>1. handle[p][c].o12 \in Fds
    BY <1>1, <1>2 DEF ChanInv, TypeOK, IsOpen, Handle
  <2>2. fd[p][handle[p][c].o12] = <<q, "w">>
    BY <1>3, Zenon DEF Faces
  <2> QED BY <2>1, <2>2, Zenon DEF Writers, HasEnd
<1> QED BY <1>2, <1>3, <1>4, Zenon

\* A timed receive whose poll reported an event returns a payload exactly
\* when there is a frame to read.
LEMMA PayloadIsFrame ==
  ASSUME NEW p \in Procs, Polled(p)
  PROVE  Returns(p) = "payload" <=> ReadRet(p, RecvFd(p, call[p].arg)) = "frame"
BY Zenon DEF Polled, At, Returns, TryOutcome, TimeoutOutcome

\* The call of p goes on, and its frame, if it has one, is not taken.
LEMMA Undisturbed ==
  ASSUME SharedInv, Lone, PolledFrameWaits, NEW p \in Procs,
         Polled(p)', state[p] = "running",
         call'[p] = call[p], fd'[p] = fd[p], handle'[p] = handle[p],
         registry'[p] = registry[p],
         LET q == PipeOf(p, RecvFd(p, call[p].arg)) IN
           q \in Pipe /\ buf[q] # <<>> => buf'[q] # <<>>
  PROVE  Returns(p)' = "payload"
<1> DEFINE f == RecvFd(p, call[p].arg)
           q == PipeOf(p, f)
<1>1. Polled(p)
  BY SameSwapped, Zenon DEF Polled, At
<1>2. Readable(p, f) /\ q \in Pipe
  BY <1>1, PolledPipe, Zenon DEF Polled, At
<1>3. buf[q] # <<>>
  <2>1. ReadRet(p, f) = "frame"
    BY <1>1, PayloadIsFrame, Zenon DEF PolledFrameWaits
  <2> QED BY <2>1, Zenon DEF ReadRet
<1>4. RecvFd(p, call[p].arg)' = f /\ PipeOf(p, RecvFd(p, call[p].arg))' = q
  BY Zenon DEF RecvFd, PipeOf
<1>5. ReadRet(p, RecvFd(p, call[p].arg))' = "frame"
  <2>1. Readable(p, RecvFd(p, call[p].arg))'
    BY <1>2, <1>4, Zenon DEF Readable
  <2>2. buf'[q] # <<>>
    BY <1>2, <1>3, Zenon
  <2> HIDE DEF f, q
  <2> QED BY <1>4, <2>1, <2>2, Zenon DEF ReadRet
<1> QED BY <1>5, Zenon DEF Polled, At, Returns, TryOutcome, TimeoutOutcome

LEMMA PolledKept ==
  ASSUME SharedInv, PolledFrameWaits, [Next]_vars
  PROVE  PolledFrameWaits'
<1>1. ChanInv /\ TypeOK
  BY Zenon DEF SharedInv, ChanInv
<1>2. SUFFICES ASSUME Lone', NEW p \in Procs, Polled(p)' PROVE Returns(p)' = "payload"
  BY Zenon DEF PolledFrameWaits
<1>3. state'[p] = "running" /\ call'[p] # Idle
  BY <1>2, IdleIsCall, Zenon DEF Polled, At
<1>4. ASSUME UNCHANGED program,
             \A x \in Procs : state'[x] = "unborn" => state[x] = "unborn"
      PROVE  Lone
  BY <1>2, <1>4, Zenon DEF Lone, Workers
<1>5. ASSUME NEW x \in Procs, Inner(x) PROVE Returns(p)' = "payload"
  <2>1. Calm(x)
    BY <1>1, <1>5, InnerStep, Zenon
  <2>2. Lone
    <3>1. \A y \in Procs : state'[y] = "unborn" => state[y] = "unborn"
      BY <2>1 DEF Calm
    <3> QED BY <1>4, <2>1, <3>1, Zenon DEF Calm
  <2>3. /\ state[p] = "running" /\ fd'[p] = fd[p] /\ handle'[p] = handle[p]
        /\ registry'[p] = registry[p] /\ UNCHANGED <<fd, handle>>
    BY <1>3, <2>1, Zenon DEF Calm
  <2>4. CASE x = p
    <3> DEFINE f == RecvFd(p, call[p].arg)
    <3>1. Poll(p)
      BY <1>2, <2>1, <2>4, Zenon DEF Calm
    <3>2. At(p, {"try_recv", "recv_timeout"}, call[p].at) /\ UNCHANGED buf
      BY <3>1, Zenon DEF Poll, At, kernelVars
    <3>3. Readable(p, f) /\ Writers(PipeOf(p, f)) # {}
      BY <2>2, <3>2, PolledPipe, Zenon
    <3> DEFINE b == PollWorks /\ PollReady(p, f)
               r == [call[p] EXCEPT !.at = "read", !.poll = b]
    <3>4. call[p] \in Call /\ call \in [Procs -> Call] /\ b \in BOOLEAN
      BY <1>1, Zenon DEF TypeOK
    <3>5. call' = [call EXCEPT ![p].at = "read", ![p].poll = b]
      BY <3>1, Zenon DEF Poll
    <3> HIDE DEF b
    <3>6. call'[p] = r
      BY <3>4, <3>5, Zenon
    <3>7. r.arg = call[p].arg /\ r.poll = b
      BY <3>4, Zenon DEF Call
    <3> HIDE DEF r
    <3>8. b
      BY <1>2, <3>6, <3>7, Zenon DEF Polled
    <3>9. ReadRet(p, f) = "frame"
      BY <3>3, <3>8, Zenon DEF b, PollReady, ReadRet, Readable
    <3>10. RecvFd(p, call[p].arg)' = f
      BY <2>3, <3>6, <3>7, Zenon DEF RecvFd
    <3>11. Readable(p, f) /\ buf[PipeOf(p, f)] # <<>>
      BY <3>9, Zenon DEF ReadRet
    <3> HIDE DEF f
    <3>12. ReadRet(p, RecvFd(p, call[p].arg))' = "frame"
      BY <2>3, <3>2, <3>10, <3>11, Zenon DEF ReadRet, Readable, PipeOf
    <3> QED BY <1>2, <3>12, Zenon DEF Polled, At, Returns, TryOutcome, TimeoutOutcome
  <2>5. CASE x # p
    <3> DEFINE q == PipeOf(p, RecvFd(p, call[p].arg))
    <3>1. call'[p] = call[p]
      BY <2>1, <2>5, Zenon DEF Calm
    <3>2. Polled(p)
      BY <1>2, <2>3, <3>1, SameSwapped, Zenon DEF Polled, At
    <3>3. ASSUME q \in Pipe, buf[q] # <<>> PROVE buf'[q] # <<>>
      <4>1. buf \in [Pipe -> Seq(Frame)]
        BY <1>1, Zenon DEF TypeOK
      <4>2. CASE buf' = buf
        BY <3>3, <4>2, Zenon
      <4>3. CASE Write(x)
        <5>1. PICK q0, frame : buf' = buf \/ buf' = [buf EXCEPT ![q0] = Append(@, frame)]
          BY <4>3, Zenon DEF Write
        <5> HIDE DEF q
        <5>2. CASE buf' = [buf EXCEPT ![q0] = Append(@, frame)] /\ q = q0
          <6>1. buf'[q] = Append(buf[q], frame) /\ buf[q] \in Seq(Frame)
            BY <3>3, <4>1, <5>2, Zenon
          <6>2. Len(buf'[q]) = Len(buf[q]) + 1 /\ Len(buf[q]) \in Nat
            BY <6>1
          <6> QED BY <6>2
        <5>3. CASE buf' = [buf EXCEPT ![q0] = Append(@, frame)] /\ q # q0
          BY <3>3, <4>1, <5>3, Zenon
        <5> QED BY <3>3, <5>1, <5>2, <5>3, Zenon
      <4>4. CASE \E op \in Blocking \cup Nonblocking : Read(x, op)
        <5>1. PICK op \in Blocking \cup Nonblocking : Read(x, op)
          BY <4>4
        <5> DEFINE e == call[x].arg
                   qx == PipeOf(x, RecvFd(x, e))
        <5>2. buf' = buf \/ buf' = [buf EXCEPT ![qx] = Tail(@)]
          BY <5>1, Zenon DEF Read
        <5>3. e \in Channels /\ handle[x][e] # NoHandle /\ state[x] = "running"
          BY <1>1, <5>1, Zenon DEF Read, At, ChanInv, ArgKnown
        <5>4. IsOpen(x, e)
          BY <2>2, <5>3, Zenon DEF SharedInv, NeverClosed, Lone, IsOpen
        <5>5. PICK j \in {1, 2} : qx = <<e, 3 - j>>
          BY <1>1, <5>3, <5>4, OpenEnds, Zenon
        <5>6. call[p].arg \in Channels /\ IsOpen(p, call[p].arg)
          BY <2>2, <3>2, PolledPipe, Zenon DEF Polled, At
        <5>7. PICK k \in {1, 2} : q = <<call[p].arg, 3 - k>>
          BY <1>1, <5>6, OpenEnds, Zenon
        <5>8. qx # q
          <6>1. e = call[p].arg => qx # q
            BY <2>2, <2>3, <2>5, <3>2, <5>3, SoleReader, Zenon DEF Polled
          <6> HIDE DEF e, q, qx
          <6> QED BY <5>5, <5>7, <6>1, Zenon
        <5> HIDE DEF e, q, qx
        <5> QED BY <3>3, <4>1, <5>2, <5>8, Zenon
      <4> QED BY <2>1, <4>2, <4>3, <4>4, Zenon DEF Calm
    <3> QED BY <1>2, <2>2, <2>3, <3>1, <3>3, Undisturbed, Zenon
  <2> QED BY <2>4, <2>5, Zenon
<1>6. ASSUME UNCHANGED <<buf, program>>,
             \A x \in Procs : state'[x] = "unborn" => state[x] = "unborn",
             state[p] = "running", call'[p] = call[p], fd'[p] = fd[p],
             handle'[p] = handle[p], registry'[p] = registry[p]
      PROVE  Returns(p)' = "payload"
  <2>1. Lone
    BY <1>4, <1>6, Zenon
  <2> QED BY <1>2, <1>6, <2>1, Undisturbed, Zenon
<1>7. CASE UNCHANGED vars
  BY <1>3, <1>6, <1>7, Zenon DEF vars
<1>8. ASSUME NEW x \in Procs, ChannelOpen(x) PROVE Returns(p)' = "payload"
  <2>1. x # p /\ UNCHANGED <<buf, program, state, call>>
    BY <1>3, <1>8, Zenon DEF ChannelOpen, CanCall
  <2>2. fd'[p] = fd[p] /\ handle'[p] = handle[p] /\ registry'[p] = registry[p]
    BY <1>1, <1>8, <2>1, Zenon DEF ChannelOpen, TypeOK
  <2> QED BY <1>3, <1>6, <2>1, <2>2, Zenon
<1>9. ASSUME NEW x \in Procs, NEW c \in Channels, ChannelClose(x, c) PROVE FALSE
  <2>1. "channel_close" \in program'[x]
    BY <1>9, Zenon DEF ChannelClose, CanCall
  <2> QED BY <1>2, <2>1, Zenon DEF Lone
<1>10. ASSUME NEW x \in Procs, NEW w \in Workers, SpawnWorker(x, w)
       PROVE  Returns(p)' = "payload"
  <2>1. UNCHANGED <<buf, program, call>> /\ state[w] = "unborn"
    BY <1>10, Zenon DEF SpawnWorker
  <2>2. w \in Procs /\ w # p
    BY <1>1, <1>3, <2>1, Zenon DEF ChanInv, Unborn, Workers
  <2>3. /\ \A y \in Procs : y # w => state'[y] = state[y]
        /\ state'[w] = "running"
        /\ fd'[p] = fd[p] /\ handle'[p] = handle[p] /\ registry'[p] = registry[p]
    BY <1>1, <1>10, <2>2, Zenon DEF SpawnWorker, TypeOK
  <2>4. \A y \in Procs : state'[y] = "unborn" => state[y] = "unborn"
    BY <2>3, Zenon
  <2> QED BY <1>3, <1>6, <2>1, <2>2, <2>3, <2>4, Zenon
<1>11. ASSUME NEW w \in Workers, Die(w) PROVE Returns(p)' = "payload"
  <2>1. w \in Procs /\ UNCHANGED <<buf, program>> /\ state[w] = "running"
    BY <1>11, Zenon DEF Die, Workers
  <2>2. call'[w] = Idle
    BY <1>1, <1>11, <2>1, Zenon DEF Die, TypeOK
  <2>3. w # p
    BY <1>3, <2>2, Zenon
  <2>4. /\ \A y \in Procs : y # w => state'[y] = state[y]
        /\ state'[w] = "zombie" /\ call'[p] = call[p]
        /\ fd'[p] = fd[p] /\ handle'[p] = handle[p] /\ registry'[p] = registry[p]
    BY <1>1, <1>11, <2>1, <2>3, Zenon DEF Die, TypeOK
  <2>5. \A y \in Procs : state'[y] = "unborn" => state[y] = "unborn"
    BY <2>4, Zenon
  <2> QED BY <1>3, <1>6, <2>1, <2>3, <2>4, <2>5, Zenon
<1> QED BY <1>5, <1>7, <1>8, <1>9, <1>10, <1>11, NextSplits, Zenon

\* Between a process and its one worker, a try_recv or recv_timeout whose poll
\* reported an event returns a payload, whatever steps of the other come
\* between its poll and its read, in programs that close no handle.
THEOREM ChannelPolledFrameWaits == Spec => []PolledFrameWaits
<1>1. Init => SharedInv /\ PolledFrameWaits
  <2> SUFFICES ASSUME Init PROVE SharedInv /\ PolledFrameWaits
    OBVIOUS
  <2>1. ChanInv
    BY InitInv
  <2>2. \A p \in Procs : DOMAIN registry[p] = {} /\ closed[p] = {} /\ call[p] = Idle
    BY DEF Init
  <2>3. SwapShared
    BY <2>2, Zenon DEF SwapShared, Swapped
  <2>4. SpawnedByOther
    BY Zenon DEF Init, SpawnedByOther, Workers
  <2>5. PolledFrameWaits
    BY <2>2, IdleIsCall, Zenon DEF PolledFrameWaits, Polled, At
  <2> QED BY <2>1, <2>2, <2>3, <2>4, <2>5, Zenon DEF SharedInv, NeverClosed
<1>2. SharedInv /\ PolledFrameWaits /\ [Next]_vars => (SharedInv /\ PolledFrameWaits)'
  BY SharedKept, PolledKept, Zenon
<1> QED BY <1>1, <1>2, PTL DEF Spec
=============================================================================
