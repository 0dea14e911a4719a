------------------------------ MODULE Spinlock ------------------------------
(***************************************************************************)
(* The recursive, interrupt-masking spinlock of                            *)
(* womb/kernel/sync/spinlock.vuma, shared by several CPUs.  Every CPU runs *)
(* one task context and, while it services an interrupt, one handler       *)
(* context on top of it; both may take the lock, as the file's header      *)
(* allows ("a spinlock_acquire from inside an IRQ handler").               *)
(*                                                                         *)
(* One action is one access to state another context can see.  Writes that *)
(* only the current owner performs, and that no other context's test can   *)
(* tell apart (holder with depth), are one step.                           *)
(***************************************************************************)
EXTENDS Naturals

CONSTANTS Cpus,      \* the processors
          NoHolder,  \* the "no holder" index, 256 in the code
          MaxDepth   \* bound on nested acquires of one context

Contexts == Cpus \X {"task", "irq"}

ASSUME NoHolderAssumption == NoHolder \notin Contexts
ASSUME MaxDepthAssumption == MaxDepth \in Nat \ {0}

VARIABLES locked,     \* lock.locked, the word the CAS works on
          holder,     \* lock.holder
          depth,      \* lock.depth
          irq_state,  \* lock.irq_state; TRUE = interrupts were enabled
          irq,        \* each CPU's interrupt-enable flag
          handler,    \* whether the CPU is inside an interrupt handler
          pc,         \* where each context is in acquire or release
          prev_irq,   \* acquire's local: what irq_disable returned
          nest        \* acquires that returned minus releases that began

lockVars == <<locked, holder, depth, irq_state>>
vars == <<locked, holder, depth, irq_state, irq, handler, pc, prev_irq, nest>>

Steps == {"idle", "mask", "save", "spin", "won", "unlock", "restore"}

TypeOK ==
  /\ locked \in {0, 1}
  /\ holder \in Contexts \cup {NoHolder}
  /\ depth \in 0..MaxDepth
  /\ irq_state \in BOOLEAN
  /\ irq \in [Cpus -> BOOLEAN]
  /\ handler \in [Cpus -> BOOLEAN]
  /\ pc \in [Contexts -> Steps]
  /\ prev_irq \in [Contexts -> BOOLEAN]
  /\ nest \in [Contexts -> 0..MaxDepth]

\* spinlock_init.  irq_state = 0 is "interrupts disabled".
Init ==
  /\ locked = 0
  /\ holder = NoHolder
  /\ depth = 0
  /\ irq_state = FALSE
  /\ irq = [c \in Cpus |-> TRUE]
  /\ handler = [c \in Cpus |-> FALSE]
  /\ pc = [x \in Contexts |-> "idle"]
  /\ prev_irq = [x \in Contexts |-> FALSE]
  /\ nest = [x \in Contexts |-> 0]

Cpu(x) == x[1]

\* The context that executes on its CPU: the handler while there is one.
Running(x) == handler[Cpu(x)] <=> x[2] = "irq"

Goto(x, from, to) ==
  /\ Running(x)
  /\ pc[x] = from
  /\ pc' = [pc EXCEPT ![x] = to]

-----------------------------------------------------------------------------
(* spinlock_acquire *)

\* The recursive path: the holder only deepens its hold.
AcquireNested(x) ==
  /\ Goto(x, "idle", "idle")
  /\ holder = x
  /\ depth < MaxDepth
  /\ depth' = depth + 1
  /\ nest' = [nest EXCEPT ![x] = @ + 1]
  /\ UNCHANGED <<locked, holder, irq_state, irq, handler, prev_irq>>

\* The recursion test fails: go on to mask interrupts.
AcquireFresh(x) ==
  /\ Goto(x, "idle", "mask")
  /\ holder # x
  /\ UNCHANGED <<lockVars, irq, handler, prev_irq, nest>>

\* Mutant: the interrupt flag is read but not cleared.
IrqDisableOmitted(x) ==
  /\ Goto(x, "mask", "save")
  /\ prev_irq' = [prev_irq EXCEPT ![x] = irq[Cpu(x)]]
  /\ UNCHANGED <<lockVars, irq, handler, nest>>

\* let prev_irq = irq_disable()
IrqDisable(x) ==
  /\ Goto(x, "mask", "save")
  /\ prev_irq' = [prev_irq EXCEPT ![x] = irq[Cpu(x)]]
  /\ irq' = [irq EXCEPT ![Cpu(x)] = FALSE]
  /\ UNCHANGED <<lockVars, handler, nest>>

\* lock.irq_state = prev_irq, before the lock is won
SaveIrqState(x) ==
  /\ Goto(x, "save", "spin")
  /\ irq_state' = prev_irq[x]
  /\ UNCHANGED <<locked, holder, depth, irq, handler, prev_irq, nest>>

\* Mutant: the lock word is stored without comparing it.
SpinStore(x) ==
  /\ Goto(x, "spin", "won")
  /\ locked' = 1
  /\ UNCHANGED <<holder, depth, irq_state, irq, handler, prev_irq, nest>>

\* The atomic_cas(lock, 0, 1) that finds 0.  One that finds 1 changes nothing.
SpinCas(x) ==
  /\ Goto(x, "spin", "won")
  /\ locked = 0
  /\ locked' = 1
  /\ UNCHANGED <<holder, depth, irq_state, irq, handler, prev_irq, nest>>

\* holder and depth are recorded and acquire returns.
RecordHolder(x) ==
  /\ Goto(x, "won", "idle")
  /\ holder' = x
  /\ depth' = 1
  /\ nest' = [nest EXCEPT ![x] = @ + 1]
  /\ UNCHANGED <<locked, irq_state, irq, handler, prev_irq>>

-----------------------------------------------------------------------------
(* spinlock_release; a caller that is not the holder changes nothing. *)

ReleaseNested(x) ==
  /\ Goto(x, "idle", "idle")
  /\ holder = x
  /\ depth > 1
  /\ depth' = depth - 1
  /\ nest' = [nest EXCEPT ![x] = @ - 1]
  /\ UNCHANGED <<locked, holder, irq_state, irq, handler, prev_irq>>

\* Mutant: release ignores the nesting depth.
ReleaseLastIgnoringDepth(x) ==
  /\ Goto(x, "idle", "unlock")
  /\ holder = x
  /\ depth' = 0
  /\ holder' = NoHolder
  /\ nest' = [nest EXCEPT ![x] = @ - 1]
  /\ UNCHANGED <<locked, irq_state, irq, handler, prev_irq>>

\* depth and holder are cleared before the lock word is dropped.
ReleaseLast(x) ==
  /\ Goto(x, "idle", "unlock")
  /\ holder = x
  /\ depth <= 1
  /\ depth' = 0
  /\ holder' = NoHolder
  /\ nest' = [nest EXCEPT ![x] = @ - 1]
  /\ UNCHANGED <<locked, irq_state, irq, handler, prev_irq>>

\* Mutant: the lock word is left at 1.
UnlockOmitted(x) ==
  /\ Goto(x, "unlock", "restore")
  /\ UNCHANGED <<lockVars, irq, handler, prev_irq, nest>>

\* atomic_store(lock, 0)
Unlock(x) ==
  /\ Goto(x, "unlock", "restore")
  /\ locked' = 0
  /\ UNCHANGED <<holder, depth, irq_state, irq, handler, prev_irq, nest>>

\* irq_restore(lock.irq_state), read after the lock word was dropped
IrqRestore(x) ==
  /\ Goto(x, "restore", "idle")
  /\ irq' = [irq EXCEPT ![Cpu(x)] = irq_state]
  /\ UNCHANGED <<lockVars, handler, prev_irq, nest>>

-----------------------------------------------------------------------------
(* The processor: an unmasked interrupt suspends the task and masks        *)
(* further ones; the return from it restores the flags it was taken with.  *)

Interrupt(c) ==
  /\ ~handler[c]
  /\ irq[c]
  /\ handler' = [handler EXCEPT ![c] = TRUE]
  /\ irq' = [irq EXCEPT ![c] = FALSE]
  /\ UNCHANGED <<lockVars, pc, prev_irq, nest>>

ReturnFromInterrupt(c) ==
  /\ handler[c]
  /\ pc[<<c, "irq">>] = "idle"
  /\ nest[<<c, "irq">>] = 0
  /\ handler' = [handler EXCEPT ![c] = FALSE]
  /\ irq' = [irq EXCEPT ![c] = TRUE]
  /\ UNCHANGED <<lockVars, pc, prev_irq, nest>>

-----------------------------------------------------------------------------
Acquire(x) == \/ IrqDisable(x) \/ SaveIrqState(x) \/ SpinCas(x) \/ RecordHolder(x)
Release(x) == \/ ReleaseNested(x) \/ ReleaseLast(x) \/ Unlock(x) \/ IrqRestore(x)

Next ==
  \/ \E x \in Contexts : \/ AcquireNested(x) \/ AcquireFresh(x)
                         \/ Acquire(x) \/ Release(x)
  \/ \E c \in Cpus : Interrupt(c) \/ ReturnFromInterrupt(c)

\* A context that is inside a call, or holds the lock, is eventually
\* executed: a CPU does not stop, and handlers return.  A critical section is
\* finite: a holder does not nest and un-nest for ever.
Fairness ==
  /\ \A x \in Contexts : /\ WF_vars(Acquire(x)) /\ WF_vars(Release(x))
                         /\ SF_vars(ReleaseLast(x))
  /\ \A c \in Cpus : WF_vars(ReturnFromInterrupt(c))

Spec == Init /\ [][Next]_vars
FairSpec == Spec /\ Fairness

-----------------------------------------------------------------------------
\* A context owns the lock from its winning CAS to its store of 0.
Owns(x) == pc[x] \in {"won", "unlock"} \/ nest[x] > 0

\* Mutual exclusion: no two contexts, on one CPU or on two, own the lock
\* between the CAS of spinlock_acquire and the store of spinlock_release.
MutualExclusion == \A x, y \in Contexts : Owns(x) /\ Owns(y) => x = y

\* The lock word and the nesting depth tell the truth: the word is 1 exactly
\* while some context owns the lock, and a context whose acquires outnumber
\* its releases is the recorded holder with exactly that depth, so that its
\* last release, and no earlier one, frees the lock.
DepthCountsHolds ==
  /\ locked = 1 <=> \E x \in Contexts : Owns(x)
  /\ \A x \in Contexts : nest[x] > 0 => holder = x /\ depth = nest[x]
  /\ \A x \in Contexts : holder = x => nest[x] > 0

\* Interrupt masking does its job: a handler never waits for a lock that the
\* task it interrupted owns, which would hang the CPU.
NoSelfDeadlock ==
  \A c \in Cpus : ~ (handler[c] /\ Owns(<<c, "task">>))

\* Whenever a context spins, some context goes on to win the lock.
SpinLeadsToWin ==
  \A x \in Contexts : pc[x] = "spin" ~> \E y \in Contexts : pc[y] = "won"

\* "Restore the previous IRQ state saved at acquire time": a context that is
\* not inside the lock runs with the interrupt flag it entered with, enabled
\* for a task and masked for a handler.
IrqStateRestored ==
  \A x \in Contexts :
    Running(x) /\ pc[x] = "idle" /\ nest[x] = 0 => irq[Cpu(x)] = (x[2] = "task")
=============================================================================
