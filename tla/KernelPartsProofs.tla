-------------------------- MODULE KernelPartsProofs --------------------------
(***************************************************************************)
(* Proofs about the small parts of the kernel: the process table, for any  *)
(* size, any exit codes and any number of forks; the wait queue, for any   *)
(* set of tasks; the signal table, for any number of signals; and the      *)
(* spinlock, for any set of CPUs.                                          *)
(***************************************************************************)
EXTENDS Process, WaitQueue, Signals, Spinlock, SequenceTheorems,
        WellFoundedInduction, TLAPS

------------------------------------------------------------------------------
(* The scans of the process table take the lowest slot: there is one. *)

Less == {ss \in Nat \X Nat : ss[1] < ss[2]}

LEMMA Least ==
  ASSUME NEW T \in SUBSET Nat, T # {}
  PROVE  \E x \in T : \A y \in T : x <= y
<1>1. IsWellFoundedOn(Less, Nat)
  BY NatLessThanWellFounded DEF OpToRel, Less
<1>2. PICK x \in T : \A y \in T : ~(<<y, x>> \in Less)
  BY <1>1, WFMin, Zenon
<1>3. ASSUME NEW y \in T PROVE x <= y
  <2>1. ~(y < x)
    BY <1>2, Zenon DEF Less
  <2> QED BY <2>1
<1> QED BY <1>3

LEMMA FirstFreeIsFree ==
  ASSUME FreeSlots # {}
  PROVE  FirstFree \in Slots /\ state[FirstFree] = "FREE"
<1>1. FreeSlots \in SUBSET Nat
  BY DEF FreeSlots, Slots
<1>2. \E s \in FreeSlots : \A t \in FreeSlots : s <= t
  BY <1>1, Least
<1>3. FirstFree \in FreeSlots
  BY <1>2 DEF FirstFree
<1> QED BY <1>3 DEF FreeSlots

LEMMA LowestZombie ==
  ASSUME NEW p, Zombies(p) # {}
  PROVE  (CHOOSE s \in Zombies(p) : \A t \in Zombies(p) : s <= t) \in Zombies(p)
<1>1. Zombies(p) \in SUBSET Nat
  BY DEF Zombies, Slots
<1>2. \E s \in Zombies(p) : \A t \in Zombies(p) : s <= t
  BY <1>1, Least
<1> QED BY <1>2

------------------------------------------------------------------------------
(* The invariant of the process table. *)

Shape ==
  /\ state \in [Slots -> {"FREE", "READY", "ZOMBIE"}]
  /\ pid \in [Slots -> Nat]
  /\ ppid \in [Slots -> Nat]
  /\ vruntime \in [Slots -> Nat]
  /\ status \in [Slots -> Nat \cup {None}]
  /\ waiting \in [Slots -> Nat \cup {None}]
  /\ dying \in Slots \cup {None}
  /\ mother \in [Slots -> Slots \cup {None}]
  /\ exited \in [Slots -> Codes \cup {None}]

\* A pid is the slot's own: two tasks that live never share one.
PidIsSlot == \A s \in Slots : state[s] # "FREE" => pid[s] = s + 1

\* While the task that forked it is in the table, a task's ppid leads there.
MotherInPpid ==
  \A s \in Slots : mother[s] # None =>
    /\ state[s] # "FREE"
    /\ state[mother[s]] # "FREE"
    /\ ppid[s] = mother[s] + 1

\* vruntime still holds the exit code of an uncharged zombie.
CodeKept ==
  \A s \in Slots :
    exited[s] # None /\ state[s] # "FREE" => vruntime[s] = exited[s]

ProcInv == Shape /\ PidIsSlot /\ MotherInPpid /\ CodeKept

LEMMA InitProcInv == ProcInit => ProcInv
<1> SUFFICES ASSUME ProcInit PROVE ProcInv
  OBVIOUS
<1>1. None \notin Nat /\ Slots \subseteq Nat /\ 0 \in Nat /\ 1 \in Nat
  BY ProcessAssumptions DEF Slots
<1>2. Shape
  BY <1>1 DEF ProcInit, Shape
<1>3. PidIsSlot
  BY <1>1 DEF ProcInit, PidIsSlot
<1>4. MotherInPpid /\ CodeKept
  BY <1>1 DEF ProcInit, MotherInPpid, CodeKept
<1> QED BY <1>2, <1>3, <1>4 DEF ProcInv

LEMMA ForkInv ==
  ASSUME ProcInv, NEW p \in Slots, Fork(p)
  PROVE  ProcInv'
<1>0. None \notin Nat /\ Slots \subseteq Nat
  BY ProcessAssumptions DEF Slots
<1> DEFINE c == FirstFree
<1>1. c \in Slots /\ state[c] = "FREE" /\ state[p] = "READY" /\ c # p
  BY FirstFreeIsFree DEF Fork, Runs
<1>2. /\ state' = [state EXCEPT ![c] = "READY"]
      /\ pid' = [pid EXCEPT ![c] = c + 1]
      /\ ppid' = [ppid EXCEPT ![c] = pid[p]]
      /\ mother' = [mother EXCEPT ![c] = p]
      /\ exited' = [exited EXCEPT ![c] = None]
      /\ UNCHANGED <<vruntime, status, waiting, dying>>
  BY DEF Fork, NewPid
<1> HIDE DEF c
<1>3. Shape'
  <2>1. c + 1 \in Nat /\ pid[p] \in Nat
    BY <1>0, <1>1 DEF ProcInv, Shape
  <2> QED BY <1>1, <1>2, <2>1 DEF ProcInv, Shape
<1>4. PidIsSlot'
  BY <1>1, <1>2 DEF ProcInv, Shape, PidIsSlot
<1>5. MotherInPpid'
  <2>1. pid[p] = p + 1
    BY <1>1 DEF ProcInv, PidIsSlot
  <2>2. ASSUME NEW s \in Slots, mother'[s] # None
        PROVE  /\ state'[s] # "FREE"
               /\ state'[mother'[s]] # "FREE"
               /\ ppid'[s] = mother'[s] + 1
    <3>1. CASE s = c
      BY <1>1, <1>2, <2>1, <3>1 DEF ProcInv, Shape
    <3>2. CASE s # c
      <4>1. mother'[s] = mother[s] /\ mother[s] \in Slots
        BY <1>2, <2>2, <3>2 DEF ProcInv, Shape
      <4> QED BY <1>1, <1>2, <2>2, <3>2, <4>1 DEF ProcInv, Shape, MotherInPpid
    <3> QED BY <3>1, <3>2
  <2> QED BY <2>2 DEF MotherInPpid
<1>6. CodeKept'
  BY <1>1, <1>2 DEF ProcInv, Shape, CodeKept
<1> QED BY <1>3, <1>4, <1>5, <1>6 DEF ProcInv

LEMMA ExitInv ==
  ASSUME ProcInv, NEW p \in Slots, NEW code \in Codes, Exit(p, code)
  PROVE  ProcInv'
<1>0. None \notin Nat /\ Codes \subseteq Nat
  BY ProcessAssumptions
<1>1. /\ state[p] = "READY"
      /\ state' = [state EXCEPT ![p] = "ZOMBIE"]
      /\ vruntime' = [vruntime EXCEPT ![p] = code]
      /\ exited' = [exited EXCEPT ![p] = code]
      /\ dying' = p
      /\ UNCHANGED <<pid, ppid, status, waiting, mother>>
  BY DEF Exit, Runs
<1>2. Shape'
  BY <1>0, <1>1 DEF ProcInv, Shape
<1>3. \A s \in Slots : state'[s] = "FREE" <=> state[s] = "FREE"
  BY <1>1 DEF ProcInv, Shape
<1>4. PidIsSlot'
  BY <1>1, <1>3 DEF ProcInv, PidIsSlot
<1>5. MotherInPpid'
  BY <1>1, <1>3 DEF ProcInv, Shape, MotherInPpid
<1>6. CodeKept'
  BY <1>1, <1>3 DEF ProcInv, Shape, CodeKept
<1> QED BY <1>2, <1>4, <1>5, <1>6 DEF ProcInv

\* What reaping does, the reaped slot named.
LEMMA ReapTakes ==
  ASSUME NEW p \in Slots, Reap(p)
  PROVE  \E z \in Zombies(p) :
           /\ status' = [status EXCEPT ![p] = vruntime[z]]
           /\ state' = [state EXCEPT ![z] = "FREE"]
           /\ mother' = [s \in Slots |-> IF s = z \/ mother[s] = z THEN None
                                         ELSE mother[s]]
           /\ waiting' = [waiting EXCEPT ![p] = None]
           /\ UNCHANGED <<pid, ppid, vruntime, refcount, dying, exited>>
<1> DEFINE z == CHOOSE s \in Zombies(p) : \A t \in Zombies(p) : s <= t
<1>1. z \in Zombies(p)
  BY LowestZombie DEF Reap
<1>2. /\ status' = [status EXCEPT ![p] = vruntime[z]]
      /\ state' = [state EXCEPT ![z] = "FREE"]
      /\ mother' = [s \in Slots |-> IF s = z \/ mother[s] = z THEN None
                                    ELSE mother[s]]
      /\ waiting' = [waiting EXCEPT ![p] = None]
      /\ UNCHANGED <<pid, ppid, vruntime, refcount, dying, exited>>
  BY DEF Reap
<1> HIDE DEF z
<1> QED BY <1>1, <1>2, Zenon

LEMMA ReapInv ==
  ASSUME ProcInv, NEW p \in Slots, Reap(p)
  PROVE  ProcInv'
<1>0. None \notin Nat /\ Slots \subseteq Nat
  BY ProcessAssumptions DEF Slots
<1>1. PICK z \in Zombies(p) :
        /\ status' = [status EXCEPT ![p] = vruntime[z]]
        /\ state' = [state EXCEPT ![z] = "FREE"]
        /\ mother' = [s \in Slots |-> IF s = z \/ mother[s] = z THEN None
                                      ELSE mother[s]]
        /\ waiting' = [waiting EXCEPT ![p] = None]
        /\ UNCHANGED <<pid, ppid, vruntime, refcount, dying, exited>>
  BY ReapTakes
<1>2. z \in Slots /\ state[z] = "ZOMBIE"
  BY DEF Zombies
<1>3. Shape'
  BY <1>1, <1>2 DEF ProcInv, Shape
<1>4. PidIsSlot' /\ CodeKept'
  BY <1>1, <1>2 DEF ProcInv, Shape, PidIsSlot, CodeKept
<1>5. MotherInPpid'
  <2>1. ASSUME NEW s \in Slots, mother'[s] # None
        PROVE  /\ state'[s] # "FREE"
               /\ state'[mother'[s]] # "FREE"
               /\ ppid'[s] = mother'[s] + 1
    <3>1. s # z /\ mother[s] # z /\ mother'[s] = mother[s]
      BY <1>1, <2>1
    <3>2. mother[s] \in Slots
      BY <2>1, <3>1 DEF ProcInv, Shape
    <3> QED BY <1>1, <1>2, <2>1, <3>1, <3>2 DEF ProcInv, Shape, MotherInPpid
  <2> QED BY <2>1 DEF MotherInPpid
<1> QED BY <1>3, <1>4, <1>5 DEF ProcInv

LEMMA StepProcInv == ProcInv /\ [ProcNext]_procVars => ProcInv'
<1> SUFFICES ASSUME ProcInv, [ProcNext]_procVars PROVE ProcInv'
  OBVIOUS
<1>0. None \notin Nat /\ Slots \subseteq Nat
  BY ProcessAssumptions DEF Slots
<1> USE DEF ProcInv, Shape, PidIsSlot, MotherInPpid, CodeKept
<1>1. CASE Switch
  BY <1>1 DEF Switch
<1>2. ASSUME NEW p \in Slots, Fork(p) PROVE ProcInv'
  BY <1>2, ForkInv
<1>3. ASSUME NEW p \in Slots, Tick(p) PROVE ProcInv'
  <2>1. vruntime[p] + 1 \in Nat
    OBVIOUS
  <2>2. Shape'
    BY <1>3, <2>1 DEF Tick
  <2>3. PidIsSlot' /\ MotherInPpid'
    BY <1>3 DEF Tick
  <2>4. CodeKept'
    BY <1>3 DEF Tick
  <2> QED BY <2>2, <2>3, <2>4
<1>4. ASSUME NEW p \in Slots, Reap(p) PROVE ProcInv'
  BY <1>4, ReapInv
<1>5. ASSUME NEW p \in Slots, NoChild(p) PROVE ProcInv'
  BY <1>5 DEF NoChild
<1>6. ASSUME NEW p \in Slots, NEW c \in Codes, Exit(p, c) PROVE ProcInv'
  BY <1>6, ExitInv
<1>7. ASSUME NEW p \in Slots, NEW t \in 0 .. Size, BeginWait(p, t) PROVE ProcInv'
  <2>1. t \in Nat
    BY ProcessAssumptions
  <2> QED BY <1>7, <2>1 DEF BeginWait
<1>8. CASE UNCHANGED procVars
  BY <1>8 DEF procVars
<1> HIDE DEF ProcInv, Shape, PidIsSlot, MotherInPpid, CodeKept
<1> QED BY <1>1, <1>2, <1>3, <1>4, <1>5, <1>6, <1>7, <1>8 DEF ProcNext

------------------------------------------------------------------------------
(* What waitpid reports. *)

\* Only reaping frees a slot.
LEMMA OnlyReapFrees ==
  ASSUME ProcInv, [ProcNext]_procVars, NEW s \in Slots,
         state[s] = "ZOMBIE", state'[s] = "FREE"
  PROVE  \E p \in Slots : Reap(p)
<1>1. ASSUME NEW p \in Slots, Fork(p) PROVE FALSE
  <2>1. state' = [state EXCEPT ![FirstFree] = "READY"]
    BY <1>1 DEF Fork
  <2> QED BY <2>1 DEF ProcInv, Shape
<1>2. ASSUME NEW p \in Slots, NEW c \in Codes, Exit(p, c) PROVE FALSE
  BY <1>2 DEF Exit, ProcInv, Shape
<1>3. ~Switch /\ ~UNCHANGED procVars
  BY DEF Switch, procVars
<1>4. ASSUME NEW p \in Slots PROVE ~Tick(p) /\ ~NoChild(p)
  BY DEF Tick, NoChild
<1>5. ASSUME NEW p \in Slots, NEW t \in 0 .. Size PROVE ~BeginWait(p, t)
  BY DEF BeginWait
<1> QED BY <1>1, <1>2, <1>3, <1>4, <1>5 DEF ProcNext

LEMMA StepReports ==
  ASSUME ProcInv, [ProcNext]_procVars, NEW s \in Slots,
         state[s] = "ZOMBIE", state'[s] = "FREE"
  PROVE  \E p \in Slots : /\ waiting[p] # None /\ waiting'[p] = None
                          /\ mother[s] \in {p, None}
                          /\ exited[s] \in {status'[p], None}
<1>1. PICK p \in Slots : Reap(p)
  BY OnlyReapFrees
<1>2. PICK z \in Zombies(p) :
        /\ status' = [status EXCEPT ![p] = vruntime[z]]
        /\ state' = [state EXCEPT ![z] = "FREE"]
        /\ waiting' = [waiting EXCEPT ![p] = None]
  BY <1>1, ReapTakes
<1>3. z = s
  BY <1>2 DEF ProcInv, Shape
<1>4. state[p] = "READY" /\ waiting[p] # None /\ waiting'[p] = None
  BY <1>1, <1>2 DEF Reap, Polls, ProcInv, Shape
<1>5. mother[s] \in {p, None}
  <2>1. ppid[s] = p + 1
    BY <1>2, <1>3, <1>4 DEF Zombies, ProcInv, PidIsSlot
  <2>2. CASE mother[s] # None
    <3>1. mother[s] \in Nat /\ p \in Nat /\ ppid[s] = mother[s] + 1
      BY <2>2 DEF ProcInv, Shape, MotherInPpid, Slots
    <3> QED BY <2>1, <3>1
  <2> QED BY <2>2
<1>6. exited[s] \in {status'[p], None}
  BY <1>2, <1>3 DEF ProcInv, Shape, CodeKept
<1> QED BY <1>4, <1>5, <1>6

\* A zombie is reaped by the task that forked it while that task is in the
\* table, and waitpid reports the code the child exited with unless the timer
\* charged it in between: for every table size, set of codes and bound.
THEOREM WaitIsRight == ProcSpec => WaitReports
<1>1. ProcInv /\ [ProcNext]_procVars =>
        [\A s \in Slots :
           state[s] = "ZOMBIE" /\ state'[s] = "FREE" =>
             \E p \in Slots : /\ waiting[p] # None /\ waiting'[p] = None
                              /\ mother[s] \in {p, None}
                              /\ exited[s] \in {status'[p], None}]_procVars
  BY StepReports
<1> QED BY <1>1, InitProcInv, StepProcInv, PTL DEF ProcSpec, WaitReports

------------------------------------------------------------------------------
(* The wait queue. *)

\* What the four words say of each other: the successor field is the tail,
\* or none, while fewer than three tasks wait.
WordsAgree ==
  /\ wq.count = 0 => wq = Empty
  /\ wq.count = 1 => wq.head \in Tasks /\ wq.tail = wq.head /\ wq.next = NoTask
  /\ wq.count = 2 => wq.head \in Tasks /\ wq.tail \in Tasks /\ wq.next = wq.tail
  /\ wq.count = 3 => wq.head \in Tasks /\ wq.tail \in Tasks /\ wq.next \in Tasks

WqInv == WqTypeOK /\ WordsAgree

LEMMA WqFields ==
  ASSUME WqTypeOK
  PROVE  /\ wq = [head |-> wq.head, tail |-> wq.tail, next |-> wq.next,
                  count |-> wq.count]
         /\ wq.head \in Tasks \cup {NoTask} /\ wq.tail \in Tasks \cup {NoTask}
         /\ wq.next \in Tasks \cup {NoTask}
         /\ wq.count \in {0, 1, 2, 3} /\ wq.count \in 0 .. MaxWaiters
         /\ MaxWaiters \in 0 .. 3
BY WaitQueueAssumptions DEF WqTypeOK

LEMMA StepWqInv == WqInv /\ [WqNext]_wqVars => WqInv'
<1> SUFFICES ASSUME WqInv, [WqNext]_wqVars PROVE WqInv'
  OBVIOUS
<1>0. NoTask \notin Tasks /\ MaxWaiters \in 0 .. 3
  BY WaitQueueAssumptions
<1>1. ASSUME NEW t \in Tasks, WaitqAdd(t) PROVE WqInv'
  <2>1. CASE wq.head = NoTask
    <3>1. wq.count = 0
      BY <1>0, <2>1, WqFields DEF WqInv, WordsAgree
    <3>2. wq' = [head |-> t, tail |-> t, next |-> NoTask, count |-> 1]
      BY <1>1, <2>1, <3>1 DEF WaitqAdd
    <3>3. 1 \in 0 .. MaxWaiters
      BY <1>0, <1>1, <3>1 DEF WaitqAdd
    <3>4. WqTypeOK'
      BY <1>1, <3>2, <3>3 DEF WaitqAdd, WqInv, WqTypeOK
    <3>5. WordsAgree'
      BY <3>2 DEF WordsAgree
    <3> QED BY <3>4, <3>5 DEF WqInv
  <2>2. CASE wq.head # NoTask
    <3>1. wq' = [head |-> wq.head, tail |-> t,
                 next |-> IF wq.next = NoTask THEN t ELSE wq.next,
                 count |-> wq.count + 1]
      BY <1>1, <2>2, WqFields, Zenon DEF WaitqAdd, WqInv
    <3>2. wq.count # 0
      BY <2>2 DEF WqInv, WordsAgree, Empty
    <3>3. wq.count + 1 \in 0 .. MaxWaiters /\ wq.count \in {1, 2}
      BY <1>0, <1>1, <3>2, WqFields DEF WaitqAdd, WqInv
    <3>4. WqTypeOK'
      BY <1>1, <3>1, <3>3, WqFields DEF WaitqAdd, WqInv, WqTypeOK
    <3>5. WordsAgree'
      BY <1>0, <3>1, <3>3, WqFields DEF WqInv, WordsAgree
    <3> QED BY <3>4, <3>5 DEF WqInv
  <2> QED BY <2>1, <2>2
<1>2. CASE WaitqWakeOne
  <2>1. CASE wq.head = NoTask \/ wq.count <= 1
    <3>1. wq' = Empty
      BY <1>0, <1>2, <2>1, WqFields DEF WaitqWakeOne, WqInv, WordsAgree
    <3> QED BY <1>0, <1>2, <3>1 DEF WaitqWakeOne, WqInv, WqTypeOK, WordsAgree, Empty
  <2>2. CASE wq.head # NoTask /\ wq.count = 2
    BY <1>0, <1>2, <2>2, WqFields
    DEF WaitqWakeOne, WaitqAdvance, WqInv, WqTypeOK, WordsAgree
  <2>3. CASE wq.head # NoTask /\ wq.count = 3
    BY <1>0, <1>2, <2>3, WqFields
    DEF WaitqWakeOne, WaitqAdvance, WqInv, WqTypeOK, WordsAgree
  <2> QED BY <2>1, <2>2, <2>3, WqFields DEF WqInv
<1>3. CASE WaitqWakeAll
  BY <1>0, <1>3 DEF WaitqWakeAll, WqInv, WqTypeOK, WordsAgree, Empty
<1>4. CASE UNCHANGED wqVars
  BY <1>4 DEF wqVars, WqInv, WqTypeOK, WordsAgree
<1> QED BY <1>1, <1>2, <1>3, <1>4 DEF WqNext

\* What the operators on sequences make of lines of up to three.
LEMMA AppendToOne ==
  ASSUME NEW S, NEW a \in S, NEW t \in S
  PROVE  Append(<<a>>, t) = <<a, t>>
<1> DEFINE s == Append(<<a>>, t)
<1>1. <<a>> \in Seq(S) /\ <<a, t>> \in Seq(S) /\ Len(<<a, t>>) = 2
  OBVIOUS
<1>2. s \in Seq(S) /\ Len(s) = 2 /\ s[1] = a /\ s[2] = t
  BY <1>1
<1> HIDE DEF s
<1>3. \A i \in 1 .. Len(s) : i \in {1, 2} /\ s[i] = <<a, t>>[i]
  BY <1>2
<1>4. s = <<a, t>>
  BY <1>1, <1>2, <1>3, SeqEqual
<1> QED BY <1>4 DEF s

LEMMA AppendToTwo ==
  ASSUME NEW S, NEW a \in S, NEW b \in S, NEW t \in S
  PROVE  Append(<<a, b>>, t) = <<a, b, t>>
<1> DEFINE s == Append(<<a, b>>, t)
<1>1. <<a, b>> \in Seq(S) /\ <<a, b, t>> \in Seq(S) /\ Len(<<a, b, t>>) = 3
  OBVIOUS
<1>2. s \in Seq(S) /\ Len(s) = 3 /\ s[1] = a /\ s[2] = b /\ s[3] = t
  BY <1>1
<1> HIDE DEF s
<1>3. \A i \in 1 .. Len(s) : i \in {1, 2, 3} /\ s[i] = <<a, b, t>>[i]
  BY <1>2
<1>4. s = <<a, b, t>>
  BY <1>1, <1>2, <1>3, SeqEqual
<1> QED BY <1>4 DEF s

LEMMA ShortLines ==
  ASSUME NEW a, NEW b, NEW c
  PROVE  /\ Len(<<>>) = 0 /\ Len(<<a>>) = 1 /\ Len(<<a, b>>) = 2 /\ Len(<<a, b, c>>) = 3
         /\ Head(<<a>>) = a /\ Head(<<a, b>>) = a /\ Head(<<a, b, c>>) = a
         /\ Tail(<<a>>) = <<>> /\ Tail(<<a, b>>) = <<b>> /\ Tail(<<a, b, c>>) = <<b, c>>
         /\ <<a>> # <<>> /\ <<a, b>> # <<>> /\ <<a, b, c>> # <<>>
OBVIOUS

\* The line, by the number of waiters.
LEMMA LineByCount ==
  /\ wq.count = 0 => Line = <<>>
  /\ wq.count = 1 => Line = <<wq.head>>
  /\ wq.count = 2 => Line = <<wq.head, wq.tail>>
  /\ wq.count = 3 => Line = <<wq.head, wq.next, wq.tail>>
BY DEF Line

LEMMA StepRefines ==
  ASSUME WqInv, [WqNext]_wqVars
  PROVE  [Abs!Next]_<<Line, woken, drained>>
<1>0. NoTask \notin Tasks /\ MaxWaiters \in 0 .. 3 /\ wq.count \in {0, 1, 2, 3}
  BY WaitQueueAssumptions, WqFields DEF WqInv
<1>p. /\ wq'.count = 0 => Line' = <<>>
      /\ wq'.count = 1 => Line' = <<wq'.head>>
      /\ wq'.count = 2 => Line' = <<wq'.head, wq'.tail>>
      /\ wq'.count = 3 => Line' = <<wq'.head, wq'.next, wq'.tail>>
  BY DEF Line
<1>1. ASSUME NEW t \in Tasks, WaitqAdd(t) PROVE Abs!Wait(t)
  <2>1. \A i \in 1 .. Len(Line) : Line[i] # t
    BY <1>1 DEF WaitqAdd
  <2>2. Line' = Append(Line, t)
    <3>1. CASE wq.count = 0
      BY <1>p, <1>1, <3>1, LineByCount DEF WaitqAdd, WqInv, WordsAgree, Empty
    <3>2. CASE wq.count = 1
      <4>1. wq.head \in Tasks /\ wq'.head = wq.head /\ wq'.tail = t /\ wq'.count = 2
        BY <1>0, <1>1, <3>2, WqFields DEF WaitqAdd, WqInv, WordsAgree
      <4>2. Line' = <<wq.head, t>> /\ Line = <<wq.head>>
        BY <1>p, <3>2, <4>1, LineByCount
      <4> QED BY <4>1, <4>2, AppendToOne
    <3>3. CASE wq.count = 2
      <4>1. /\ wq.head \in Tasks /\ wq.tail \in Tasks
            /\ wq'.head = wq.head /\ wq'.next = wq.tail /\ wq'.tail = t
            /\ wq'.count = 3
        BY <1>0, <1>1, <3>3, WqFields DEF WaitqAdd, WqInv, WordsAgree
      <4>2. Line' = <<wq.head, wq.tail, t>> /\ Line = <<wq.head, wq.tail>>
        BY <1>p, <3>3, <4>1, LineByCount
      <4> QED BY <4>1, <4>2, AppendToTwo
    <3>4. wq.count # 3
      BY <1>0, <1>1 DEF WaitqAdd
    <3> QED BY <1>0, <3>1, <3>2, <3>3, <3>4
  <2> QED BY <1>1, <2>1, <2>2 DEF WaitqAdd, Abs!Wait
<1>2. CASE WaitqWakeOne
  <2>1. CASE wq.count = 0
    BY <1>p, <1>2, <2>1, LineByCount
    DEF WaitqWakeOne, WqInv, WordsAgree, Empty, Abs!WakeOne, Abs!Next
  <2>2. CASE wq.count = 1
    <3>1. wq.head # NoTask /\ wq'.count = 0
      BY <1>0, <1>2, <2>2 DEF WaitqWakeOne, WaitqAdvance, WqInv, WordsAgree, Empty
    <3>2. Line = <<wq.head>> /\ Line' = <<>>
      BY <1>p, <2>2, <3>1, LineByCount
    <3>3. Line # <<>> /\ Head(Line) = wq.head /\ Line' = Tail(Line)
      BY <3>2, ShortLines
    <3> QED BY <1>2, <3>3 DEF WaitqWakeOne, Abs!WakeOne, Abs!Next
  <2>3. CASE wq.count = 2
    <3>1. wq.head # NoTask /\ wq'.count = 1 /\ wq'.head = wq.tail
      BY <1>0, <1>2, <2>3 DEF WaitqWakeOne, WaitqAdvance, WqInv, WordsAgree, Empty
    <3>2. Line = <<wq.head, wq.tail>> /\ Line' = <<wq.tail>>
      BY <1>p, <2>3, <3>1, LineByCount
    <3>3. Line # <<>> /\ Head(Line) = wq.head /\ Line' = Tail(Line)
      BY <3>2, ShortLines
    <3> QED BY <1>2, <3>3 DEF WaitqWakeOne, Abs!WakeOne, Abs!Next
  <2>4. CASE wq.count = 3
    <3>1. wq.head # NoTask /\ wq'.count = 2 /\ wq'.head = wq.next /\ wq'.tail = wq.tail
      BY <1>0, <1>2, <2>4 DEF WaitqWakeOne, WaitqAdvance, WqInv, WordsAgree, Empty
    <3>2. Line = <<wq.head, wq.next, wq.tail>> /\ Line' = <<wq.next, wq.tail>>
      BY <1>p, <2>4, <3>1, LineByCount
    <3>3. Line # <<>> /\ Head(Line) = wq.head /\ Line' = Tail(Line)
      BY <3>2, ShortLines
    <3> QED BY <1>2, <3>3 DEF WaitqWakeOne, Abs!WakeOne, Abs!Next
  <2> QED BY <1>0, <2>1, <2>2, <2>3, <2>4
<1>3. CASE WaitqWakeAll
  <2>1. Len(Line) = wq.count
    BY <1>0, LineByCount, ShortLines, Zenon
  <2>2. Line' = <<>>
    BY <1>p, <1>3 DEF WaitqWakeAll, Empty
  <2> QED BY <1>3, <2>1, <2>2 DEF WaitqWakeAll, Abs!WakeAll, Abs!Next
<1>4. CASE UNCHANGED wqVars
  BY <1>4 DEF wqVars, Line
<1> QED BY <1>1, <1>2, <1>3, <1>4 DEF WqNext, Abs!Next

\* The four words of waitq.vuma implement a queue of tasks, for any set of
\* tasks of which at most three wait at a time.
THEOREM WaitQueueRefines == WqSpec => ImplementsWaitQueue
<1>1. WqInit => WqInv
  BY WaitQueueAssumptions DEF WqInit, WqInv, WqTypeOK, WordsAgree, Empty
<1>2. WqInv /\ [WqNext]_wqVars => WqInv'
  BY StepWqInv
<1>3. WqInit => Abs!Init
  BY LineByCount DEF WqInit, Empty, Abs!Init
<1>4. WqInv /\ [WqNext]_wqVars => [Abs!Next]_<<Line, woken, drained>>
  BY StepRefines, SMTT(30)
<1> QED BY <1>1, <1>2, <1>3, <1>4, PTL DEF WqSpec, ImplementsWaitQueue, Abs!Spec

------------------------------------------------------------------------------
(* The signal table. *)

\* A signal sent to its own running handler is on record.
ResentOnRecord == handling \in owed => handling \in resent

\* A handler is called for one of the signals.
PassInRange == handling # NoSignal => at <= LastSignal

SigInv == SigTypeOK /\ OnlyResentLost /\ ResentOnRecord /\ PassInRange

LEMMA StepSigInv == SigInv /\ [SigNext]_sigVars => SigInv'
<1> SUFFICES ASSUME SigInv, [SigNext]_sigVars PROVE SigInv'
  OBVIOUS
<1>0. NoSignal \notin Sigs /\ LastSignal \in Nat /\ Sigs = 1 .. LastSignal
  BY SignalAssumptions DEF Sigs
<1> USE DEF SigInv, SigTypeOK, OnlyResentLost, ResentOnRecord, PassInRange
<1>1. ASSUME NEW s \in Sigs, SignalInstall(s) PROVE SigInv'
  BY <1>1 DEF SignalInstall
<1>2. ASSUME NEW s \in Sigs, SignalBlock(s) PROVE SigInv'
  BY <1>2 DEF SignalBlock
<1>3. ASSUME NEW s \in Sigs, SignalSend(s) PROVE SigInv'
  BY <1>3 DEF SignalSend
<1>4. ASSUME NEW s \in Sigs, SignalDeliver(s) PROVE SigInv'
  BY <1>0, <1>4 DEF SignalDeliver, Call, Idle
<1>5. CASE SignalCheck
  BY <1>0, <1>5 DEF SignalCheck, Idle
<1>6. CASE HandlerReturns
  <2>1. at' \in 0 .. LastSignal + 1 /\ handling' = NoSignal
    BY <1>0, <1>6 DEF HandlerReturns
  <2>2. owed' \subseteq pending' \cup resent'
    BY <1>6 DEF HandlerReturns, Cleared
  <2> QED BY <1>0, <1>6, <2>1, <2>2, Zenon DEF HandlerReturns, Cleared
<1>7. CASE BeginPass
  BY <1>0, <1>7 DEF BeginPass
<1>8. CASE PassCalls
  BY <1>0, <1>8 DEF PassCalls, Call
<1>9. CASE PassSkips
  BY <1>0, <1>9 DEF PassSkips
<1>10. CASE UNCHANGED sigVars
  BY <1>10 DEF sigVars
<1> QED
  BY <1>1, <1>2, <1>3, <1>4, <1>5, <1>6, <1>7, <1>8, <1>9, <1>10 DEF SigNext

\* For any number of signals, a signal is lost only when it is sent again to
\* its own running handler.
THEOREM SignalsKept == SigSpec => []OnlyResentLost
<1>1. SigInit => SigInv
  BY SignalAssumptions
  DEF SigInit, SigInv, SigTypeOK, OnlyResentLost, ResentOnRecord, PassInRange, Sigs
<1>2. SigInv /\ [SigNext]_sigVars => SigInv'
  BY StepSigInv
<1>3. SigInv => OnlyResentLost
  BY DEF SigInv
<1> QED BY <1>1, <1>2, <1>3, PTL DEF SigSpec

------------------------------------------------------------------------------
(* The spinlock.  MutualExclusion and DepthCountsHolds are not inductive by *)
(* themselves: a context inside a call must be known not to hold the lock   *)
(* yet, and nothing may be recorded in holder while the lock is being won   *)
(* or dropped.  NoSelfDeadlock needs that a context that is past            *)
(* irq_disable keeps its own CPU's flag clear, so no handler can start      *)
(* above it.                                                                *)

InCall(x) == pc[x] # "idle"

\* From irq_disable to irq_restore.
Masked(x) == pc[x] \in {"save", "spin", "won", "unlock", "restore"} \/ nest[x] > 0

\* A context in the middle of a first acquire or last release holds nothing.
CallsHoldNothing == \A x \in Contexts : InCall(x) => nest[x] = 0

\* The lock word is 1 from the CAS of an owner to its store.
OwnedIsLocked == \A x \in Contexts : Owns(x) => locked = 1
LockedIsOwned == locked = 1 => \E x \in Contexts : Owns(x)

\* What holder and depth say about the holds.
HoldsRecorded == \A x \in Contexts : nest[x] > 0 => holder = x /\ depth = nest[x]
HolderHolds   == \A x \in Contexts : holder = x => nest[x] > 0

\* A context past irq_disable keeps its CPU masked and is not interrupted.
MaskedStaysMasked ==
  \A x \in Contexts : Masked(x) /\ Running(x) => irq[Cpu(x)] = FALSE
InterruptedIsUnmasked == \A c \in Cpus : handler[c] => ~ Masked(<<c, "task">>)

\* A handler context is active only inside its handler.
HandlersNeedInterrupt ==
  \A c \in Cpus : ~ handler[c] => pc[<<c, "irq">>] = "idle" /\ nest[<<c, "irq">>] = 0

LockInv ==
  /\ TypeOK
  /\ CallsHoldNothing
  /\ MutualExclusion
  /\ OwnedIsLocked
  /\ LockedIsOwned
  /\ HoldsRecorded
  /\ HolderHolds

MaskInv ==
  /\ MaskedStaysMasked
  /\ InterruptedIsUnmasked
  /\ HandlersNeedInterrupt

-----------------------------------------------------------------------------
\* The state spinlock_init leaves, with nobody inside the lock.
LEMMA InitLockInv == Init => LockInv
<1> SUFFICES ASSUME Init PROVE LockInv
  OBVIOUS
<1>1. irq \in [Cpus -> BOOLEAN] /\ handler \in [Cpus -> BOOLEAN]
  BY DEF Init
<1>2. prev_irq \in [Contexts -> BOOLEAN] /\ irq_state \in BOOLEAN
  BY Zenon DEF Init
<1>3. TypeOK
  BY <1>1, <1>2, MaxDepthAssumption DEF Init, TypeOK, Steps
<1> QED
  BY <1>3, NoHolderAssumption
  DEF Init, LockInv, CallsHoldNothing, InCall, MutualExclusion, Owns,
      OwnedIsLocked, LockedIsOwned, HoldsRecorded, HolderHolds

\* Every context runs on a CPU.
LEMMA CpuType == ASSUME NEW x \in Contexts PROVE Cpu(x) \in Cpus
  BY DEF Contexts, Cpu

\* One step of a context inside a call, or of the processor, keeps LockInv.
LEMMA StepLockInv == LockInv /\ [Next]_vars => LockInv'
<1> USE NoHolderAssumption, MaxDepthAssumption
    DEF LockInv, TypeOK, Steps, CallsHoldNothing, InCall, MutualExclusion,
        Owns, OwnedIsLocked, LockedIsOwned, HoldsRecorded, HolderHolds,
        Goto, lockVars
<1> SUFFICES ASSUME LockInv, [Next]_vars
             PROVE  LockInv'
  OBVIOUS
<1>1. ASSUME NEW x \in Contexts, AcquireNested(x) PROVE LockInv'
  BY <1>1 DEF AcquireNested
<1>2. ASSUME NEW x \in Contexts, AcquireFresh(x) PROVE LockInv'
  BY <1>2 DEF AcquireFresh
<1>3. ASSUME NEW x \in Contexts, IrqDisable(x) PROVE LockInv'
  <2>1. irq' \in [Cpus -> BOOLEAN]
    BY <1>3, CpuType DEF IrqDisable
  <2> QED
    BY <1>3, <2>1 DEF IrqDisable
<1>4. ASSUME NEW x \in Contexts, SaveIrqState(x) PROVE LockInv'
  BY <1>4 DEF SaveIrqState
<1>5. ASSUME NEW x \in Contexts, SpinCas(x) PROVE LockInv'
  BY <1>5 DEF SpinCas
<1>6. ASSUME NEW x \in Contexts, RecordHolder(x) PROVE LockInv'
  BY <1>6, SMTT(30) DEF RecordHolder
<1>7. ASSUME NEW x \in Contexts, ReleaseNested(x) PROVE LockInv'
  BY <1>7 DEF ReleaseNested
<1>8. ASSUME NEW x \in Contexts, ReleaseLast(x) PROVE LockInv'
  BY <1>8 DEF ReleaseLast
<1>9. ASSUME NEW x \in Contexts, Unlock(x) PROVE LockInv'
  BY <1>9 DEF Unlock
<1>10. ASSUME NEW x \in Contexts, IrqRestore(x) PROVE LockInv'
  <2>1. irq' \in [Cpus -> BOOLEAN]
    BY <1>10, CpuType DEF IrqRestore
  <2> QED
    BY <1>10, <2>1 DEF IrqRestore
<1>11. ASSUME NEW c \in Cpus, Interrupt(c) PROVE LockInv'
  BY <1>11 DEF Interrupt
<1>12. ASSUME NEW c \in Cpus, ReturnFromInterrupt(c) PROVE LockInv'
  BY <1>12 DEF ReturnFromInterrupt
<1>13. CASE UNCHANGED vars
  BY <1>13 DEF vars
<1> QED
  BY <1>1, <1>2, <1>3, <1>4, <1>5, <1>6, <1>7, <1>8, <1>9, <1>10, <1>11, <1>12, <1>13, ZenonT(40) DEF Next, Acquire, Release

LEMMA InitMaskInv == Init => MaskInv
  BY SMTT(30) DEF Init, MaskInv, MaskedStaysMasked, InterruptedIsUnmasked,
         HandlersNeedInterrupt, Masked, Running, Contexts, Cpu

\* The masking discipline survives every step.
LEMMA StepMaskInv == LockInv /\ MaskInv /\ [Next]_vars => MaskInv'
<1> SUFFICES ASSUME LockInv, MaskInv, [Next]_vars
             PROVE  MaskInv'
  BY SMTT(30)
<1> USE NoHolderAssumption, MaxDepthAssumption, CpuType
    DEF LockInv, TypeOK, Steps, CallsHoldNothing, InCall, HolderHolds,
        MaskInv, MaskedStaysMasked, InterruptedIsUnmasked,
        HandlersNeedInterrupt, Masked, Running, Goto, lockVars, Contexts, Cpu
<1>1. ASSUME NEW x \in Contexts, AcquireNested(x) PROVE MaskInv'
  BY <1>1 DEF AcquireNested
<1>2. ASSUME NEW x \in Contexts, AcquireFresh(x) PROVE MaskInv'
  BY <1>2 DEF AcquireFresh
<1>3. ASSUME NEW x \in Contexts, IrqDisable(x) PROVE MaskInv'
  BY <1>3, SMTT(30) DEF IrqDisable
<1>4. ASSUME NEW x \in Contexts, SaveIrqState(x) PROVE MaskInv'
  BY <1>4, SMTT(30) DEF SaveIrqState
<1>5. ASSUME NEW x \in Contexts, SpinCas(x) PROVE MaskInv'
  BY <1>5, SMTT(30) DEF SpinCas
<1>6. ASSUME NEW x \in Contexts, RecordHolder(x) PROVE MaskInv'
  BY <1>6, SMTT(30) DEF RecordHolder
<1>7. ASSUME NEW x \in Contexts, ReleaseNested(x) PROVE MaskInv'
  BY <1>7, SMTT(30) DEF ReleaseNested
<1>8. ASSUME NEW x \in Contexts, ReleaseLast(x) PROVE MaskInv'
  BY <1>8 DEF ReleaseLast
<1>9. ASSUME NEW x \in Contexts, Unlock(x) PROVE MaskInv'
  BY <1>9, SMTT(30) DEF Unlock
<1>10. ASSUME NEW x \in Contexts, IrqRestore(x) PROVE MaskInv'
  <2>1. ~ Masked(x)'
    BY <1>10 DEF IrqRestore
  <2>2. ASSUME NEW y \in Contexts, Running(y)', y # x
        PROVE  Cpu(y) # Cpu(x)
    BY <1>10, <2>2 DEF IrqRestore
  <2>3. ASSUME NEW y \in Contexts, Masked(y)', Running(y)'
        PROVE  irq'[Cpu(y)] = FALSE
    <3>1. y # x
      BY <2>1, <2>3, SMTT(30)
    <3>2. irq'[Cpu(y)] = irq[Cpu(y)] /\ Masked(y) /\ Running(y)
      BY <1>10, <2>2, <2>3, <3>1, SMTT(30) DEF IrqRestore
    <3> QED
      BY <3>2
  <2>4. InterruptedIsUnmasked' /\ HandlersNeedInterrupt'
    BY <1>10 DEF IrqRestore
  <2> QED
    BY <2>3, <2>4, Zenon
<1>11. ASSUME NEW c \in Cpus, Interrupt(c) PROVE MaskInv'
  BY <1>11 DEF Interrupt
<1>12. ASSUME NEW c \in Cpus, ReturnFromInterrupt(c) PROVE MaskInv'
  BY <1>12 DEF ReturnFromInterrupt
<1>13. CASE UNCHANGED vars
  BY <1>13 DEF vars
<1> QED
  BY <1>1, <1>2, <1>3, <1>4, <1>5, <1>6, <1>7, <1>8, <1>9, <1>10, <1>11, <1>12, <1>13, Zenon DEF Next, Acquire, Release
-----------------------------------------------------------------------------
\* The two halves together, as an invariant of the specification.
LEMMA Invariance == Spec => [](LockInv /\ MaskInv)
  BY InitLockInv, InitMaskInv, StepLockInv, StepMaskInv, PTL DEF Spec

\* The fields of the lock and of the processors keep their types.
THEOREM TypeCorrect == Spec => []TypeOK
<1>1. LockInv => TypeOK
  BY DEF LockInv
<1> QED
  BY <1>1, Invariance, PTL

\* At most one context is ever between its winning CAS and its store of 0.
THEOREM Exclusion == Spec => []MutualExclusion
<1>1. LockInv => MutualExclusion
  BY DEF LockInv
<1> QED
  BY <1>1, Invariance, PTL

\* The lock word, holder and depth agree with the holds the callers have.
THEOREM DepthIsExact == Spec => []DepthCountsHolds
<1>1. LockInv => DepthCountsHolds
  BY DEF LockInv, DepthCountsHolds, OwnedIsLocked, LockedIsOwned,
         HoldsRecorded, HolderHolds
<1> QED
  BY <1>1, Invariance, PTL

\* No handler runs above a task that owns the lock.
THEOREM HandlersNeverWaitForTheirTask == Spec => []NoSelfDeadlock
<1>1. MaskInv => NoSelfDeadlock
  BY DEF MaskInv, NoSelfDeadlock, InterruptedIsUnmasked, Masked, Owns
<1> QED
  BY <1>1, Invariance, PTL

==============================================================================
