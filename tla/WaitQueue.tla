------------------------------ MODULE WaitQueue ------------------------------
(***************************************************************************)
(* The wait queue of womb/kernel/ipc/waitq.vuma.  It stores no list: only  *)
(* the first waiter, the last one, the successor of the first, and how     *)
(* many there are.  That is enough for three waiters, the case its         *)
(* comments claim; with a fourth one, wake_one leaves `next` stale.        *)
(***************************************************************************)
EXTENDS Integers, Sequences

CONSTANTS Tasks,      \* the tasks that wait
          NoTask,     \* 256 in the code: no task
          MaxWaiters  \* how many wait at once

ASSUME WaitQueueAssumptions ==
  /\ NoTask \notin Tasks
  /\ MaxWaiters \in 0 .. 3

VARIABLES wq,      \* the WaitQueue: head, tail, next, count
          woken,   \* what the last waitq_wake_one returned
          drained  \* what the last waitq_wake_all returned

wqVars == <<wq, woken, drained>>

WqTypeOK ==
  /\ wq \in [head : Tasks \cup {NoTask}, tail : Tasks \cup {NoTask},
             next : Tasks \cup {NoTask}, count : 0 .. MaxWaiters]
  /\ woken \in Tasks \cup {NoTask}
  /\ drained \in 0 .. MaxWaiters

Empty == [head |-> NoTask, tail |-> NoTask, next |-> NoTask, count |-> 0]

\* waitq_init
WqInit == wq = Empty /\ woken = NoTask /\ drained = 0

\* The waiters in order, as head, next, tail and count give them away.
Line ==
  CASE wq.count = 1 -> <<wq.head>>
    [] wq.count = 2 -> <<wq.head, wq.tail>>
    [] wq.count = 3 -> <<wq.head, wq.next, wq.tail>>
    [] OTHER        -> <<>>

\* waitq_add, by a task that does not wait yet.
WaitqAdd(t) ==
  /\ wq.count < MaxWaiters
  /\ \A i \in 1 .. Len(Line) : Line[i] # t
  /\ wq' = IF wq.head = NoTask
           THEN [head |-> t, tail |-> t, next |-> NoTask, count |-> wq.count + 1]
           ELSE [wq EXCEPT !.next = IF @ = NoTask THEN t ELSE @,
                           !.tail = t, !.count = @ + 1]
  /\ UNCHANGED <<woken, drained>>

\* Mutant: next is not recomputed for the new head.
WaitqAdvanceStale == [wq EXCEPT !.head = wq.next, !.count = @ - 1]

\* The queue once the first of several waiters has left: what follows the new
\* head is none, or the tail, or (with three or more left) not known.
WaitqAdvance ==
  [head |-> wq.next, tail |-> wq.tail, count |-> wq.count - 1,
   next |-> CASE wq.count - 1 = 1 -> NoTask
              [] wq.count - 1 = 2 -> wq.tail
              [] OTHER -> wq.next]

\* waitq_wake_one
WaitqWakeOne ==
  /\ woken' = wq.head
  /\ wq' = IF wq.head = NoTask THEN wq
           ELSE IF wq.count <= 1 THEN Empty
           ELSE WaitqAdvance
  /\ UNCHANGED drained

\* waitq_wake_all
WaitqWakeAll ==
  /\ drained' = wq.count
  /\ wq' = Empty
  /\ UNCHANGED woken

WqNext == (\E t \in Tasks : WaitqAdd(t)) \/ WaitqWakeOne \/ WaitqWakeAll

WqSpec == WqInit /\ [][WqNext]_wqVars

------------------------------------------------------------------------------
(* Properties. *)

Abs == INSTANCE WaitQueueAbs WITH line <- Line, None <- NoTask

\* While at most three tasks wait, four words are a queue: however arrivals,
\* single wakes and drains follow each other, wake_one wakes the task that
\* has waited longest, nobody is woken twice for one wait, and nobody is
\* lost.
ImplementsWaitQueue == Abs!Spec

==============================================================================
