-------------------------------- MODULE Pipes --------------------------------
(***************************************************************************)
(* The Linux pipes and descriptor tables under the emitted channel code.   *)
(* None of this is in the repository: it is the system-call behaviour that *)
(* ipc_lowering.rs relies on (pipe2, clone, read, write, poll, fcntl,      *)
(* close, exit), as far as the emitted code can observe it.                *)
(*                                                                         *)
(* A channel is two pipes, <<c, 1>> and <<c, 2>>.  Every message is one    *)
(* 56-byte frame; reads and writes of that size are atomic on a pipe, so a *)
(* pipe is a sequence of frames.                                           *)
(***************************************************************************)
EXTENDS Integers, Sequences, FiniteSets

CONSTANTS Procs,     \* the processes that may ever run
          MaxOpens,  \* bound: how many channels are ever opened
          Fds,       \* the descriptor numbers of a process
          PipeCap    \* frames a pipe holds before write() blocks

ASSUME PipesAssumption ==
  /\ Fds \subseteq Nat /\ IsFiniteSet(Fds)
  /\ MaxOpens \in Nat
  /\ PipeCap \in Nat \ {0}

VARIABLES fd,        \* fd[p][f]: the pipe end behind descriptor f of p
          buf,       \* buf[q]: the frames in pipe q, oldest first
          opened,    \* channels opened so far; a channel is its number
          nonblock   \* pipes whose read end has O_NONBLOCK: a flag of the
                     \* open file, so every process that inherited it sees it

kernelVars == <<fd, buf, opened, nonblock>>

Channels == 1..MaxOpens
Pipe == Channels \X {1, 2}
NoEnd == <<>>
End == Pipe \X {"r", "w"}

KernelInit ==
  /\ fd = [p \in Procs |-> [f \in Fds |-> NoEnd]]
  /\ buf = [q \in Pipe |-> <<>>]
  /\ opened = 0
  /\ nonblock = {}

Free(p) == {f \in Fds : fd[p][f] = NoEnd}

\* The n-th smallest free descriptor: what pipe2 hands out.
NthFree(p, n) ==
  CHOOSE f \in Free(p) : Cardinality({g \in Free(p) : g < f}) = n - 1

Readable(p, f) == fd[p][f] # NoEnd /\ fd[p][f][2] = "r"
Writable(p, f) == fd[p][f] # NoEnd /\ fd[p][f][2] = "w"
PipeOf(p, f) == fd[p][f][1]

HasEnd(p, q, e) == \E f \in Fds : fd[p][f] = <<q, e>>
Writers(q) == {p \in Procs : HasEnd(p, q, "w")}
Readers(q) == {p \in Procs : HasEnd(p, q, "r")}

\* What read(f, frame, 56) does now; "block" is a call that does not return.
ReadRet(p, f) ==
  IF ~Readable(p, f) THEN "EBADF"
  ELSE IF buf[PipeOf(p, f)] # <<>> THEN "frame"
  ELSE IF Writers(PipeOf(p, f)) = {} THEN "EOF"
  ELSE IF PipeOf(p, f) \in nonblock THEN "EAGAIN" ELSE "block"

\* poll(POLLIN) reports an event: data, hang-up, or an invalid descriptor.
PollReady(p, f) ==
  \/ fd[p][f] = NoEnd
  \/ ReadRet(p, f) \in {"frame", "EOF"}
=============================================================================
