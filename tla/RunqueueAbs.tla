---------------------------- MODULE RunqueueAbs ----------------------------
(***************************************************************************)
(* What a runqueue promises its CPU: the runnable tasks wait in one line,  *)
(* new ones at its end; the CPU takes one of them out of the line to run   *)
(* it; no task is lost, run twice, or both waiting and running.            *)
(***************************************************************************)
EXTENDS Naturals, Sequences

CONSTANTS Tasks, None

VARIABLES line,     \* the waiting tasks, oldest first
          running   \* the task on the CPU, or None

vars == <<line, running>>

Init == line = <<>> /\ running = None

\* A task that neither waits nor runs joins the line.
Join(t) ==
  /\ t # running
  /\ t \notin {line[i] : i \in 1..Len(line)}
  /\ line' = Append(line, t)
  /\ UNCHANGED running

\* The CPU takes a task out of the line l, keeping the order of the others.
TakeFrom(l) ==
  \E i \in 1..Len(l) :
    /\ running' = l[i]
    /\ line' = SubSeq(l, 1, i - 1) \o SubSeq(l, i + 1, Len(l))

Dispatch == running = None /\ TakeFrom(line)

\* The running task goes to the end of the line and the CPU takes one.
Rotate == running # None /\ TakeFrom(Append(line, running))

\* The running task blocks or exits.
Leave == running # None /\ running' = None /\ UNCHANGED line

Next == (\E t \in Tasks : Join(t)) \/ Dispatch \/ Rotate \/ Leave

Spec == Init /\ [][Next]_vars
=============================================================================
