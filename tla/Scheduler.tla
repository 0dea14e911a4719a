------------------------------ MODULE Scheduler ------------------------------
(***************************************************************************)
(* The run queue of womb/kernel/proc/scheduler.vuma on one CPU: a singly   *)
(* linked list threaded through the process table, picked from by virtual  *)
(* runtime, with a timer interrupt that charges the running task and       *)
(* preempts it.                                                            *)
(*                                                                         *)
(* The kernel has no caller of these functions yet; the CPU modelled here  *)
(* uses them as their comments prescribe: the timer handler runs           *)
(* sched_tick, sched_check_resched, the switch, sched_clear_resched.       *)
(* They take no lock and are taken to run with interrupts masked, so each  *)
(* of them is one step.                                                    *)
(***************************************************************************)
EXTENDS Integers, FiniteSets, FiniteSetsExt, Functions, Sequences

CONSTANTS Tasks,        \* slots of the process table
          None,         \* the end-of-list and idle index, 256 in the code
          Scale,        \* the unit weight, 1024 in the code
          Threshold,    \* PREEMPT_THRESHOLD, 1000000 in the code
          MaxPrio,      \* the largest priority value, 139 in the code
          Deltas,       \* the tick lengths tried
          Incs,         \* the nice increments tried
          MaxVruntime   \* bound: no tick is taken past it

ASSUME SchedulerAssumptions ==
  /\ IsFiniteSet(Tasks)
  /\ None \notin Tasks
  /\ Scale \in Nat \ {0}
  /\ Threshold \in Nat
  /\ MaxPrio \in Nat
  /\ Deltas \subseteq Nat
  /\ Incs \subseteq Int
  /\ MaxVruntime \in Nat

VARIABLES rq,      \* the Runqueue: head, tail, count, need_resched
          tbl,     \* the ProcessTable: next, state, vruntime, prio
          current  \* percpu.current_task

vars == <<rq, tbl, current>>

\* Task states: 1 RUNNING, 2 READY, and all others, which are not runnable.
States == {"OFF", "RUNNING", "READY"}

TypeOK ==
  /\ rq \in [head : Tasks \cup {None}, tail : Tasks \cup {None},
             count : 0..Cardinality(Tasks), need_resched : {0, 1}]
  /\ tbl \in [next : [Tasks -> Tasks \cup {None}], state : [Tasks -> States],
              vruntime : [Tasks -> 0..MaxVruntime], prio : [Tasks -> 0..MaxPrio]]
  /\ current \in Tasks \cup {None}

\* sched_init, with a table of tasks that do not run yet.
Init ==
  /\ rq = [head |-> None, tail |-> None, count |-> 0, need_resched |-> 0]
  /\ tbl = [next |-> [t \in Tasks |-> None], state |-> [t \in Tasks |-> "OFF"],
            vruntime |-> [t \in Tasks |-> 0], prio |-> [t \in Tasks |-> 0]]
  /\ current = None

-----------------------------------------------------------------------------
(* The functions, on the pair [rq, tbl] they read and write. *)

\* The tasks met by following next from rq.head, at most n of them.
Walk(q, n) ==
  LET from[k \in 0..n] ==     \* the last k tasks of the walk, and where it goes on
        IF k = 0 THEN [seen |-> <<>>, at |-> q.rq.head]
        ELSE LET w == from[k - 1] IN
             IF w.at = None THEN w
             ELSE [seen |-> Append(w.seen, w.at), at |-> q.tbl.next[w.at]]
  IN from[n].seen

\* A walk of the list; one step more than there are tasks shows a cycle.
List(q) == Walk(q, Cardinality(Tasks) + 1)

\* Mutant: the old tail is not linked to the new task.
EnqueueUnlinked(q, t) ==
  [rq  |-> [q.rq EXCEPT !.head = IF @ = None THEN t ELSE @,
                        !.tail = t, !.count = @ + 1],
   tbl |-> [q.tbl EXCEPT !.next = [@ EXCEPT ![t] = None],
                         !.state[t] = "READY"]]

\* sched_enqueue
Enqueue(q, t) ==
  [rq  |-> [q.rq EXCEPT !.head = IF @ = None THEN t ELSE @,
                        !.tail = t, !.count = @ + 1],
   tbl |-> [q.tbl EXCEPT !.next = IF q.rq.head = None THEN [@ EXCEPT ![t] = None]
                                  ELSE [@ EXCEPT ![q.rq.tail] = t, ![t] = None],
                         !.state[t] = "READY"]]

\* Mutant: the comparison with the head is the wrong way round.
PickedAtHighest(q) ==
  LET l == List(q)
      higher == {i \in 2..Len(l) : q.tbl.vruntime[l[i]] > q.tbl.vruntime[l[1]]}
  IN IF higher = {} THEN 1 ELSE Max(higher)

\* The position sched_dequeue's loop ends with: the last task of the list whose
\* vruntime is below the head's, the head if there is none.  (The loop never
\* lowers min_vruntime, so it goes on comparing with the head.)
PickedAt(q) ==
  LET l == List(q)
      lower == {i \in 2..Len(l) : q.tbl.vruntime[l[i]] < q.tbl.vruntime[l[1]]}
  IN IF lower = {} THEN 1 ELSE Max(lower)

Picked(q) == List(q)[PickedAt(q)]

\* Mutant: the tail is not moved when the last task is taken.
DequeueKeepTail(q) ==
  LET l == List(q)
      i == PickedAt(q)
      t == l[i]
  IN [rq  |-> [q.rq EXCEPT !.head = IF i = 1 THEN q.tbl.next[t] ELSE @,
                           !.count = @ - 1],
      tbl |-> [q.tbl EXCEPT !.next = IF i = 1 THEN @
                                     ELSE [@ EXCEPT ![l[i - 1]] = q.tbl.next[t]],
                            !.state[t] = "RUNNING"]]

\* sched_dequeue of a queue that is not empty
Dequeue(q) ==
  LET l == List(q)
      i == PickedAt(q)
      t == l[i]
      head == IF i = 1 THEN q.tbl.next[t] ELSE q.rq.head
      tail == IF head = None THEN None
              ELSE IF i > 1 /\ t = q.rq.tail THEN l[i - 1] ELSE q.rq.tail
  IN [rq  |-> [q.rq EXCEPT !.head = head, !.tail = tail, !.count = @ - 1],
      tbl |-> [q.tbl EXCEPT !.next = IF i = 1 THEN @
                                     ELSE [@ EXCEPT ![l[i - 1]] = q.tbl.next[t]],
                            !.state[t] = "RUNNING"]]

\* sched_tick: the weighted charge, then the preemption test.
Charge(q, t, delta) ==
  (delta * (Scale \div (q.tbl.prio[t] + 1))) \div Scale

Tick(q, t, delta) ==
  LET v == q.tbl.vruntime[t] + Charge(q, t, delta)
      waiting == {q.tbl.vruntime[u] : u \in Range(List(q))}
  IN [rq  |-> [q.rq EXCEPT !.need_resched =
                 IF waiting # {} /\ v - Min(waiting) > Threshold THEN 1 ELSE @],
      tbl |-> [q.tbl EXCEPT !.vruntime[t] = v]]

State == [rq |-> rq, tbl |-> tbl]

Set(q) == rq' = q.rq /\ tbl' = q.tbl

-----------------------------------------------------------------------------
(* The CPU. *)

\* A task becomes runnable: it is created or its sleep ends.
Wake(t) ==
  /\ tbl.state[t] = "OFF"
  /\ Set(Enqueue(State, t))
  /\ UNCHANGED current

\* schedule() on an idle CPU
Schedule ==
  /\ current = None
  /\ rq.head # None
  /\ Set(Dequeue(State))
  /\ current' = Picked(State)

\* sched_yield(rq, tbl, current)
Yield ==
  /\ current # None
  /\ LET q == Enqueue(State, current) IN Set(Dequeue(q)) /\ current' = Picked(q)

\* The running task blocks or exits.
Stop ==
  /\ current # None
  /\ tbl' = [tbl EXCEPT !.state[current] = "OFF"]
  /\ current' = None
  /\ UNCHANGED rq

\* sched_clear_resched
Cleared(q) == [q EXCEPT !.rq.need_resched = 0]

\* The timer interrupt: the tick, and if it asked for it the switch, unless
\* preemption is off, in which case the request is dropped.
TimerIrq(delta, preemptable) ==
  /\ current # None
  /\ tbl.vruntime[current] + Charge(State, current, delta) <= MaxVruntime
  /\ LET q == Tick(State, current, delta)
         y == Enqueue(q, current)
     IN IF q.rq.need_resched = 1 /\ preemptable
        THEN Set(Cleared(Dequeue(y))) /\ current' = Picked(y)
        ELSE Set(Cleared(q)) /\ UNCHANGED current

\* Mutant: the sum is stored without the clamp.
NiceUnclamped(t, inc) ==
  /\ tbl' = [tbl EXCEPT !.prio[t] = @ + inc]
  /\ UNCHANGED <<rq, current>>

\* sys_nice
Nice(t, inc) ==
  /\ tbl' = [tbl EXCEPT !.prio[t] = LET np == @ + inc IN
                          IF np < 0 THEN 0 ELSE IF np > MaxPrio THEN MaxPrio ELSE np]
  /\ UNCHANGED <<rq, current>>

Next ==
  \/ \E t \in Tasks : Wake(t)
  \/ Schedule \/ Yield \/ Stop
  \/ \E delta \in Deltas, preemptable \in BOOLEAN : TimerIrq(delta, preemptable)
  \/ \E t \in Tasks, inc \in Incs : Nice(t, inc)

Spec == Init /\ [][Next]_vars

\* sys_sched_yield: the same switch through the table alone.  The caller is
\* marked READY without joining the list, and the task picked is marked
\* RUNNING without leaving it.  Among equal vruntimes the first slot wins;
\* any of them is allowed here.
SysSchedYield ==
  /\ current # None
  /\ LET ready == {t \in Tasks : tbl.state[t] = "READY" /\ tbl.vruntime[t] < tbl.vruntime[current]}
         least == {t \in ready : \A u \in ready : tbl.vruntime[t] <= tbl.vruntime[u]}
     IN \E next \in IF ready = {} THEN {current} ELSE least :
          /\ tbl' = [tbl EXCEPT !.state = [@ EXCEPT ![current] = "READY", ![next] = "RUNNING"]]
          /\ current' = next
  /\ UNCHANGED rq

SyscallSpec == Init /\ [][Next \/ SysSchedYield]_vars

-----------------------------------------------------------------------------
\* The list is sound: it holds exactly the READY tasks, each once, ends at
\* tail and agrees with count, whatever mix of arrivals, switches and
\* preemptions built it.
QueueWellFormed ==
  LET l == List(State) IN
  /\ IsInjective(l)
  /\ Range(l) = {t \in Tasks : tbl.state[t] = "READY"}
  /\ rq.count = Len(l)
  /\ rq.tail = IF l = <<>> THEN None ELSE l[Len(l)]

\* The linked list implements the abstract line of tasks.
Abs == INSTANCE RunqueueAbs WITH line <- List(State), running <- current
ImplementsRunqueue == Abs!Spec

\* A task switched to never has more virtual runtime than the longest waiting
\* task of the queue it was picked from (the running task included).
PickNotAboveHead ==
  [][current' # None /\ current' # current =>
       \A h \in {t \in Tasks : t = rq.head} :
         tbl.vruntime[current'] <= tbl.vruntime[h]]_vars

\* "remove and return the task with the LOWEST vruntime": the task switched to
\* has the least vruntime of all that waited.
DequeueIsMin ==
  [][current' # None /\ current' # current =>
       \A t \in Range(List(State)) : tbl'.vruntime[current'] <= tbl'.vruntime[t]]_vars

\* "The currently-running task is NOT in the runqueue at tick time".
CurrentNotQueued == current \notin Range(List(State))
=============================================================================
