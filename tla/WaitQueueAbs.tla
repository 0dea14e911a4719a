---------------------------- MODULE WaitQueueAbs ----------------------------
(***************************************************************************)
(* What a wait queue promises its callers: a line of sleeping tasks, woken *)
(* one at a time from the front, or all at once, and none of them lost.    *)
(***************************************************************************)
EXTENDS Integers, Sequences

CONSTANTS Tasks, None

VARIABLES line,   \* the tasks that wait, in the order they came
          woken,  \* the task the last wake_one returned, None if there was none
          drained \* the number the last wake_all returned

Init == line = <<>> /\ woken = None /\ drained = 0

Wait(t) ==
  /\ \A i \in 1 .. Len(line) : line[i] # t
  /\ line' = Append(line, t)
  /\ UNCHANGED <<woken, drained>>

WakeOne ==
  /\ woken' = IF line = <<>> THEN None ELSE Head(line)
  /\ line' = IF line = <<>> THEN line ELSE Tail(line)
  /\ UNCHANGED drained

WakeAll ==
  /\ drained' = Len(line)
  /\ line' = <<>>
  /\ UNCHANGED woken

Next == (\E t \in Tasks : Wait(t)) \/ WakeOne \/ WakeAll

Spec == Init /\ [][Next]_<<line, woken, drained>>

==============================================================================
