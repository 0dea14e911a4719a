------------------------------ MODULE SleepBase ------------------------------
(***************************************************************************)
(* What the sleeping locks of womb/kernel/sync share: the tasks that call  *)
(* them, each with a program counter and the locals that live across       *)
(* accesses to shared memory.  A task is in one call at a time; "idle" is  *)
(* outside every call, whatever it holds.                                  *)
(*                                                                         *)
(* waitq_count is an ordinary u32: x = x + 1 is a load and a later store,  *)
(* and "if x > 0 { x = x - 1 }" reads it twice.  Each of those accesses is *)
(* a step of its own, so concurrent updates may be lost.                   *)
(***************************************************************************)
EXTENDS Integers

CONSTANTS Tasks,       \* the callers
          NoTask,      \* the "no owner" index, 256 in the code
          MaxRetries,  \* the retry cap, 1000 in the code
          CountMod     \* modulus of the u32 waitq_count, 2^32 in the code

ASSUME NoTaskAssumption == NoTask \notin Tasks
ASSUME MaxRetriesAssumption == MaxRetries \in Nat \ {0}
ASSUME CountModAssumption == CountMod \in Nat \ {0}

VARIABLES pc,       \* where each task is
          reg,      \* the value a task last loaded and has yet to use
          retries   \* failed attempts since the slow path was entered

localVars == <<pc, reg, retries>>

Counts == 0..(CountMod - 1)

LocalInit ==
  /\ pc = [t \in Tasks |-> "idle"]
  /\ reg = [t \in Tasks |-> 0]
  /\ retries = [t \in Tasks |-> 0]

LocalTypeOK(Labels) ==
  /\ pc \in [Tasks -> Labels]
  /\ reg \in [Tasks -> Nat]
  /\ retries \in [Tasks -> 0..MaxRetries]

Goto(t, from, to) ==
  /\ pc[t] \in from
  /\ pc' = [pc EXCEPT ![t] = to]

\* A step outside the retry loops that uses up the loaded value or needs none.
\* Locals are zeroed once dead, which is also how a retry loop is entered.
Step(t, from, to) ==
  /\ Goto(t, from, to)
  /\ reg' = [reg EXCEPT ![t] = 0]
  /\ retries' = [retries EXCEPT ![t] = 0]

\* Load the shared value v.
Load(t, from, v, to) ==
  /\ Goto(t, from, to)
  /\ reg' = [reg EXCEPT ![t] = v]
  /\ retries' = [retries EXCEPT ![t] = 0]

\* A failed attempt: stay in the loop, or bail out at the cap.
Retry(t, from, bail) ==
  /\ pc[t] = from
  /\ retries' = [retries EXCEPT ![t] = @ + 1]
  /\ pc' = IF retries[t] + 1 >= MaxRetries THEN [pc EXCEPT ![t] = bail] ELSE pc
  /\ UNCHANGED reg
=============================================================================
