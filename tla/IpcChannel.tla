----------------------------- MODULE IpcChannel -----------------------------
(***************************************************************************)
(* The channel and worker builtins as src/codegen/src/ipc_lowering.rs      *)
(* lowers them for every backend but wasm32: channel_open/close/send/recv, *)
(* recv_result (the match form), recv_proto, try_recv, recv_timeout,       *)
(* driver_call, spawn_worker and wait_worker, run by a program that calls  *)
(* them in any order.                                                      *)
(*                                                                         *)
(* One step is one system call of the emitted code together with the       *)
(* process-private work up to the next one; processes interleave between   *)
(* system calls.  clone() copies the caller's memory, so handles, registry *)
(* and counters are per process.  A worker may die at any step.            *)
(*                                                                         *)
(* A frame is identified by its sender and sequence number.  Frames are    *)
(* never damaged on a pipe, so the MAGIC and CRC branches (-1, -6) are not *)
(* taken; write() to a pipe without readers is excluded by NoBrokenPipe.   *)
(***************************************************************************)
EXTENDS Pipes

CONSTANTS Main,          \* the first process
          MaxChannels,   \* registry slots that spawn_worker swaps, 10 in the code
          MaxSeq,        \* bound: frames numbered below this are sent
          MaxProto,      \* bound: protocol states below this are used
          Programs,      \* the programs considered: the builtins each process calls
          PollWorks      \* poll is the system call behind number 7 (not so on
                         \* the asm-generic targets, where it always fails)

Workers == Procs \ {Main}

\* The two receives that read with no flag set, and the three that set
\* O_NONBLOCK first.
Blocking == {"recv_result", "recv_proto"}
Nonblocking == {"recv", "try_recv", "recv_timeout"}
Sends == {"channel_send", "driver_call"}
Builtins == {"channel_open", "channel_close", "spawn_worker", "wait_worker"}
              \cup Sends \cup Blocking \cup Nonblocking

ASSUME ChannelAssumption ==
  /\ Main \in Procs
  /\ MaxChannels \in Nat \ {0}
  /\ MaxSeq \in Nat
  /\ MaxProto \in Nat
  /\ PollWorks \in BOOLEAN
  /\ Programs \subseteq [Procs -> SUBSET Builtins]

VARIABLES state,      \* "unborn", "running", "zombie" or "reaped"
          spawner,    \* who spawned each worker
          handle,     \* handle[p][c]: the 16-byte handle, or NoHandle
          registry,   \* the channels p registered, in slot order
          seq,        \* the per-function sequence counter
          proto,      \* the per-function protocol state
          call,       \* the builtin p is in
          closed,     \* history: the handles p has closed
          program     \* the builtins each process's code calls

privateVars == <<handle, registry, seq, proto, closed>>
vars == <<fd, buf, opened, nonblock, state, spawner, handle, registry, seq, proto,
          call, closed, program>>

NoHandle == <<>>
Idle == [op |-> "idle", arg |-> Main, at |-> "", poll |-> FALSE]

Init ==
  /\ KernelInit
  /\ state = [p \in Procs |-> IF p = Main THEN "running" ELSE "unborn"]
  /\ spawner = [w \in Workers |-> w]
  /\ handle = [p \in Procs |-> [c \in Channels |-> NoHandle]]
  /\ registry = [p \in Procs |-> <<>>]
  /\ seq = [p \in Procs |-> 0]
  /\ proto = [p \in Procs |-> 0]
  /\ call = [p \in Procs |-> Idle]
  /\ closed = [p \in Procs |-> {}]
  /\ program \in Programs

-----------------------------------------------------------------------------
(* Helpers: where the builtins look in the handle, and how they return.    *)

\* Mutant: one pipe for both directions, the design the code replaced.
SendFdOnePipe(p, c) == handle[p][c].o12

\* channel_send writes the descriptor at offset 4, every receive reads the
\* one at offset 8.
SendFd(p, c) == handle[p][c].o4
RecvFd(p, c) == handle[p][c].o8

CanCall(p, op) ==
  /\ state[p] = "running"
  /\ call[p] = Idle
  /\ op \in program[p]

Enter(p, op, arg, at) ==
  /\ CanCall(p, op)
  /\ call' = [call EXCEPT ![p] = [op |-> op, arg |-> arg, at |-> at, poll |-> FALSE]]

At(p, ops, at) ==
  /\ state[p] = "running"
  /\ call[p].op \in ops
  /\ call[p].at = at

Return(p) == call' = [call EXCEPT ![p] = Idle]

-----------------------------------------------------------------------------
(* channel_open and channel_close.                                         *)

\* Two pipe2 calls, the handle, and its registration in slot Len(registry);
\* the store is unconditional, so slots past MaxChannels are written too.
\* Bound: enough descriptors, and one slot past the table (the code would
\* write past its buffer from the second on).
ChannelOpen(p) ==
  /\ CanCall(p, "channel_open")
  /\ opened < MaxOpens
  /\ Cardinality(Free(p)) >= 4
  /\ Len(registry[p]) <= MaxChannels
  /\ opened' = opened + 1
  /\ LET c == opened + 1
         f(n) == NthFree(p, n)
     IN /\ fd' = [fd EXCEPT ![p][f(1)] = <<<<c, 1>>, "r">>,
                            ![p][f(2)] = <<<<c, 1>>, "w">>,
                            ![p][f(3)] = <<<<c, 2>>, "r">>,
                            ![p][f(4)] = <<<<c, 2>>, "w">>]
        /\ handle' = [handle EXCEPT ![p][c] =
                        [o0 |-> f(1), o4 |-> f(2), o8 |-> f(3), o12 |-> f(4)]]
        /\ registry' = [registry EXCEPT ![p] = Append(@, c)]
  /\ UNCHANGED <<buf, nonblock, state, spawner, seq, proto, call, closed, program>>

\* Mutant: only the two descriptors the process uses are closed.
CloseUsedEnds(h) == {h.o4, h.o8}

HandleFds(h) == {h.o0, h.o4, h.o8, h.o12}

\* Four close calls; the handle keeps its numbers.  A program closes a handle
\* once.
ChannelClose(p, c) ==
  /\ CanCall(p, "channel_close")
  /\ handle[p][c] # NoHandle
  /\ c \notin closed[p]
  /\ fd' = [fd EXCEPT ![p] = [f \in Fds |->
              IF f \in HandleFds(handle[p][c]) THEN NoEnd ELSE @[f]]]
  /\ closed' = [closed EXCEPT ![p] = @ \cup {c}]
  /\ UNCHANGED <<buf, opened, nonblock, state, spawner, handle, registry, seq, proto,
                 call, program>>

-----------------------------------------------------------------------------
(* spawn_worker, the worker's end, and wait_worker.                        *)

\* Mutants: the swap exchanges the read ends only, or the write ends only.
SwapReadEnds(h) == [h EXCEPT !.o0 = h.o8, !.o8 = h.o0]
SwapWriteEnds(h) == [h EXCEPT !.o4 = h.o12, !.o12 = h.o4]

Swap(h) == [o0 |-> h.o8, o8 |-> h.o0, o4 |-> h.o12, o12 |-> h.o4]

\* The channels whose handle the child swaps: the unrolled loop visits the
\* first MaxChannels slots below the count.
Swapped(p) == {registry[p][i] : i \in DOMAIN registry[p] \cap 1..MaxChannels}

\* clone(SIGCHLD) and the child's swap, which runs before any other system
\* call of the child.
SpawnWorker(p, w) ==
  /\ CanCall(p, "spawn_worker")
  /\ state[w] = "unborn"
  /\ state' = [state EXCEPT ![w] = "running"]
  /\ spawner' = [spawner EXCEPT ![w] = p]
  /\ fd' = [fd EXCEPT ![w] = fd[p]]
  /\ handle' = [handle EXCEPT ![w] = [c \in Channels |->
                  IF c \in Swapped(p) THEN Swap(handle[p][c]) ELSE handle[p][c]]]
  /\ registry' = [registry EXCEPT ![w] = registry[p]]
  /\ seq' = [seq EXCEPT ![w] = seq[p]]
  /\ proto' = [proto EXCEPT ![w] = proto[p]]
  /\ closed' = [closed EXCEPT ![w] = closed[p]]
  /\ UNCHANGED <<buf, opened, nonblock, call, program>>

\* The worker returns from its transform or is killed by a signal, wherever it
\* is: the kernel closes what it had open, and its memory is gone.
Die(w) ==
  /\ w # Main
  /\ state[w] = "running"
  /\ state' = [state EXCEPT ![w] = "zombie"]
  /\ fd' = [fd EXCEPT ![w] = [f \in Fds |-> NoEnd]]
  /\ handle' = [handle EXCEPT ![w] = [c \in Channels |-> NoHandle]]
  /\ registry' = [registry EXCEPT ![w] = <<>>]
  /\ seq' = [seq EXCEPT ![w] = 0]
  /\ proto' = [proto EXCEPT ![w] = 0]
  /\ closed' = [closed EXCEPT ![w] = {}]
  /\ call' = [call EXCEPT ![w] = Idle]
  /\ UNCHANGED <<buf, opened, nonblock, spawner, program>>

BeginWait(p, w) ==
  /\ state[w] # "unborn" /\ spawner[w] = p
  /\ state[w] # "reaped"
  /\ Enter(p, "wait_worker", w, "wait4")
  /\ UNCHANGED <<kernelVars, state, spawner, privateVars, program>>

\* wait4 returns once the worker is dead.  (The value, status >> 8, is 0 both
\* for a clean exit and for a death by signal.)
WaitWorker(p) ==
  /\ At(p, {"wait_worker"}, "wait4")
  /\ state[call[p].arg] = "zombie"
  /\ Return(p)
  /\ state' = [state EXCEPT ![call[p].arg] = "reaped"]
  /\ UNCHANGED <<kernelVars, spawner, privateVars, program>>

-----------------------------------------------------------------------------
(* channel_send, channel_send_cap and the sending half of driver_call.     *)

BeginSend(p, c, op) ==
  /\ handle[p][c] # NoHandle
  /\ seq[p] < MaxSeq
  /\ Enter(p, op, c, "write")
  /\ UNCHANGED <<kernelVars, state, spawner, privateVars, program>>

\* The capability count in the header is read by no receiver: for the peer the
\* frame is a plain one.
ChannelSend(p, c) == BeginSend(p, c, "channel_send")
ChannelSendCap(p, c) == BeginSend(p, c, "channel_send")

\* A send and then a receive on the same handle, under two names.
DriverCall(p, c) == BeginSend(p, c, "driver_call")
ProcessCall(p, c) == BeginSend(p, c, "driver_call")

\* After the write channel_send returns; driver_call goes on to channel_recv.
AfterWrite(p) ==
  IF call[p].op = "channel_send"
  THEN Return(p)
  ELSE call' = [call EXCEPT ![p].op = "recv", ![p].at = "fcntl"]

\* write() of one frame, which blocks while the pipe is full.  Its result is
\* ignored, and the sequence counter has moved on before it.
Write(p) ==
  /\ At(p, Sends, "write")
  /\ LET c == call[p].arg
         f == SendFd(p, c)
         frame == [from |-> p, seq |-> seq[p], stale |-> c \in closed[p]]
     IN IF Writable(p, f)
        THEN /\ Len(buf[PipeOf(p, f)]) < PipeCap
             /\ buf' = [buf EXCEPT ![PipeOf(p, f)] = Append(@, frame)]
        ELSE UNCHANGED buf
  /\ AfterWrite(p)
  /\ seq' = [seq EXCEPT ![p] = @ + 1]
  /\ UNCHANGED <<fd, opened, nonblock, state, spawner, handle, registry, proto, closed,
                 program>>

-----------------------------------------------------------------------------
(* The receives.                                                           *)

\* Mutant: O_NONBLOCK is not set.
NoFlag(p, c) == UNCHANGED nonblock

\* fcntl(F_SETFL, O_NONBLOCK) on the receiving descriptor; nothing clears it.
SetNonblocking(p, c) ==
  nonblock' = nonblock \cup
                {q \in Pipe : Readable(p, RecvFd(p, c)) /\ q = PipeOf(p, RecvFd(p, c))}

BeginRecv(p, c, op, at) ==
  /\ handle[p][c] # NoHandle
  /\ Enter(p, op, c, at)
  /\ UNCHANGED <<fd, buf, opened, state, spawner, privateVars, program>>

BeginNonblocking(p, c) ==
  \/ BeginRecv(p, c, "recv", "read") /\ SetNonblocking(p, c)
  \/ BeginRecv(p, c, "try_recv", "poll") /\ SetNonblocking(p, c)
  \/ BeginRecv(p, c, "recv_timeout", "poll") /\ SetNonblocking(p, c)

BeginRecvResult(p, c) == BeginRecv(p, c, "recv_result", "read") /\ UNCHANGED nonblock

\* recv_proto checks the protocol state first; -5 on a mismatch.
BeginRecvProto(p, c, expected) ==
  /\ proto[p] < MaxProto
  /\ IF proto[p] = expected
     THEN BeginRecv(p, c, "recv_proto", "read") /\ UNCHANGED nonblock
     ELSE CanCall(p, "recv_proto") /\ handle[p][c] # NoHandle /\ UNCHANGED vars

\* driver_call enters channel_recv.
Fcntl(p) ==
  /\ At(p, {"recv"}, "fcntl")
  /\ SetNonblocking(p, call[p].arg)
  /\ call' = [call EXCEPT ![p].at = "read"]
  /\ UNCHANGED <<fd, buf, opened, state, spawner, privateVars, program>>

\* try_recv polls with a zero timeout, after a nanosleep.  recv_timeout's poll
\* returns when the descriptor is ready or when the time is up, which may be
\* at any moment: either way the answer is what was ready at that moment.
Poll(p) ==
  /\ At(p, {"try_recv", "recv_timeout"}, "poll")
  /\ call' = [call EXCEPT ![p].at = "read",
                          ![p].poll = PollWorks /\ PollReady(p, RecvFd(p, call[p].arg))]
  /\ UNCHANGED <<kernelVars, state, spawner, privateVars, program>>

\* try_recv fails when both poll and read did; with an event but no frame it
\* returns what the fresh buffer holds.
TryOutcome(polled, ret) ==
  IF ret = "frame" THEN "payload" ELSE IF polled THEN "garbage" ELSE "again"

\* recv_timeout fails when either did.
TimeoutOutcome(polled, ret) ==
  IF ~polled \/ ret # "frame" THEN "timeout" ELSE "payload"

\* The other receives look at read alone.
PlainOutcome(ret) == IF ret = "frame" THEN "payload" ELSE "closed"

\* What the receive that p is in returns if it reads now.
Returns(p) ==
  LET ret == ReadRet(p, RecvFd(p, call[p].arg)) IN
    CASE call[p].op = "try_recv"     -> TryOutcome(call[p].poll, ret)
      [] call[p].op = "recv_timeout" -> TimeoutOutcome(call[p].poll, ret)
      [] OTHER                       -> PlainOutcome(ret)

\* Mutants: channel_recv gives up on EAGAIN too; it retries on every failure.
RetryNever(p) == FALSE
RetryAlways(p) == call[p].op = "recv" /\ ReadRet(p, RecvFd(p, call[p].arg)) # "frame"

\* channel_recv sleeps and reads again while read says EAGAIN.
Retries(p) == call[p].op = "recv" /\ ReadRet(p, RecvFd(p, call[p].arg)) = "EAGAIN"

\* read() and the return of Returns(p) to the program.
Read(p, op) ==
  /\ At(p, {op}, "read")
  /\ LET f == RecvFd(p, call[p].arg) IN
     /\ ReadRet(p, f) # "block"
     /\ buf' = IF ReadRet(p, f) = "frame"
               THEN [buf EXCEPT ![PipeOf(p, f)] = Tail(@)] ELSE buf
  /\ Return(p)
  /\ UNCHANGED <<fd, opened, nonblock, state, spawner, handle, registry, seq, closed,
                 program>>

ChannelRecv(p) == ~Retries(p) /\ Read(p, "recv") /\ UNCHANGED proto
ChannelTryRecv(p) == Read(p, "try_recv") /\ UNCHANGED proto
ChannelRecvTimeout(p) == Read(p, "recv_timeout") /\ UNCHANGED proto
ChannelRecvResult(p) == Read(p, "recv_result") /\ UNCHANGED proto

\* The protocol state advances whatever the read gave.
ChannelRecvProto(p) ==
  Read(p, "recv_proto") /\ proto' = [proto EXCEPT ![p] = @ + 1]

-----------------------------------------------------------------------------

\* The steps that finish a builtin once it is entered.
Step(p) ==
  \/ Write(p) \/ Fcntl(p) \/ Poll(p) \/ WaitWorker(p)
  \/ ChannelRecv(p) \/ ChannelTryRecv(p) \/ ChannelRecvTimeout(p)
  \/ ChannelRecvResult(p) \/ ChannelRecvProto(p)

Next ==
  \/ \E p \in Procs : Step(p) \/ ChannelOpen(p)
  \/ \E p \in Procs, c \in Channels :
       \/ ChannelClose(p, c)
       \/ ChannelSend(p, c) \/ ChannelSendCap(p, c)
       \/ DriverCall(p, c) \/ ProcessCall(p, c)
       \/ BeginNonblocking(p, c) \/ BeginRecvResult(p, c)
       \/ \E e \in 0..(MaxProto - 1) : BeginRecvProto(p, c, e)
  \/ \E p \in Procs, w \in Workers : SpawnWorker(p, w) \/ BeginWait(p, w)
  \/ \E w \in Workers : Die(w)

Spec == Init /\ [][Next]_vars

\* The host runs every process that can run: a builtin that can take its next
\* system call eventually does.
FairSpec == Spec /\ \A p \in Procs : WF_vars(Step(p))

-----------------------------------------------------------------------------
(* Properties.                                                             *)

Frame == [from : Procs, seq : 0..(MaxSeq - 1), stale : BOOLEAN]
Handle == [o0 : Fds, o4 : Fds, o8 : Fds, o12 : Fds]
Call == [op : Builtins \cup {"idle"}, arg : Channels \cup Procs,
         at : {"", "write", "fcntl", "poll", "read", "wait4"}, poll : BOOLEAN]

TypeOK ==
  /\ fd \in [Procs -> [Fds -> End \cup {NoEnd}]]
  /\ buf \in [Pipe -> Seq(Frame)]
  /\ \A q \in Pipe : Len(buf[q]) <= PipeCap
  /\ opened \in 0..MaxOpens
  /\ nonblock \subseteq Pipe
  /\ state \in [Procs -> {"unborn", "running", "zombie", "reaped"}]
  /\ spawner \in [Workers -> Procs]
  /\ handle \in [Procs -> [Channels -> Handle \cup {NoHandle}]]
  /\ registry \in [Procs -> Seq(Channels)]
  /\ seq \in [Procs -> 0..MaxSeq]
  /\ proto \in [Procs -> 0..MaxProto]
  /\ call \in [Procs -> Call]
  /\ closed \in [Procs -> SUBSET Channels]
  /\ program \in [Procs -> SUBSET Builtins]

\* The frame p is about to take with read(), if any, and whether neither end
\* used a handle it had closed.
Takes(p) ==
  /\ At(p, Blocking \cup Nonblocking, "read")
  /\ ReadRet(p, RecvFd(p, call[p].arg)) = "frame"
Taken(p) == Head(buf[PipeOf(p, RecvFd(p, call[p].arg))])
Clean(p) == ~Taken(p).stale /\ call[p].arg \notin closed[p]

\* Two pipes per channel: no process receives a frame it sent itself, whoever
\* spawned whom (driver_call: "no race, no self-read"), as long as neither
\* side used a handle it had closed.
NoSelfRead ==
  \A p \in Procs : Takes(p) /\ Clean(p) => Taken(p).from # p

\* No program closes a handle, and only one worker has been spawned.
Lone ==
  /\ \A p \in Procs : "channel_close" \notin program[p]
  /\ \A v, w \in Workers : state[v] # "unborn" /\ state[w] # "unborn" => v = w

\* p is in a timed receive, on a channel whose handle a spawn swaps, and its
\* poll reported an event.
Polled(p) ==
  /\ At(p, {"try_recv", "recv_timeout"}, "read")
  /\ call[p].poll
  /\ call[p].arg \in Swapped(p)

\* Between a process and its one worker, what poll saw is still there for the
\* read: a timed receive whose poll reported an event returns a payload, so
\* try_recv, which tests for failure of both calls only, does not return a
\* buffer that nothing was read into.  (With two workers, or with a handle
\* used after it was closed, another reader may take the frame in between.)
PolledFrameWaits ==
  Lone => \A p \in Procs : Polled(p) => Returns(p) = "payload"

\* channel_recv is about to report Closed (-1) only on a handle this process
\* closed: not because the pipe is empty, a peer closed it or a peer died.
RecvClosedIsOwnClose ==
  \A p \in Procs :
    At(p, {"recv"}, "read") /\ ~Retries(p) /\ Returns(p) = "closed"
      => call[p].arg \in closed[p]

\* Whoever can write to a pipe has a reader at the other end, whatever was
\* closed and whoever died: channel_send, which ignores write's result, never
\* raises SIGPIPE.
NoBrokenPipe ==
  \A p \in Procs, f \in Fds : Writable(p, f) => Readers(PipeOf(p, f)) # {}

\* A worker and its spawner face each other on every channel that the spawner
\* had registered in a slot the swap visits: each sends into the pipe the
\* other receives from, nested spawns included.
Paired ==
  \A w \in Workers, c \in Channels :
    LET s == spawner[w] IN
      /\ s # w /\ state[w] = "running" /\ state[s] = "running"
      /\ c \in (Swapped(s) \cap Swapped(w)) \ (closed[s] \cup closed[w])
      => /\ PipeOf(w, SendFd(w, c)) = PipeOf(s, RecvFd(s, c))
         /\ PipeOf(s, SendFd(s, c)) = PipeOf(w, RecvFd(w, c))

\* try_recv and recv_timeout return, whoever else reads the pipe between their
\* poll and their read: O_NONBLOCK is set by then and nobody clears it.
TimedCallsReturn ==
  \A p \in Procs :
    (call[p].op \in {"try_recv", "recv_timeout"}) ~> (call[p] = Idle)

Starved(p) ==
  At(p, {"recv"}, "read") /\ ReadRet(p, RecvFd(p, call[p].arg)) = "EAGAIN"

\* channel_recv stops retrying once there is anything to report: a frame that
\* no other reader takes, or a descriptor that is not open (the closed_channel
\* test, which once retried for ever).
RecvSettles ==
  \A p \in Procs :
    (At(p, {"recv"}, "read") /\ ~Starved(p)) ~> (call[p] = Idle \/ Starved(p))
=============================================================================
