----------------------------- MODULE LinearScan -----------------------------
(***************************************************************************)
(* The linear-scan register allocator of the AArch64 back end              *)
(* (codegen/src/regalloc.rs, LinearScanAllocator), for general-purpose     *)
(* registers.  It walks the live intervals of a function in order of their *)
(* start; each one gets a free register, or is spilled, or takes the       *)
(* register of an active interval, which is evicted to a stack slot.  One  *)
(* step of the model is one iteration of that loop.                        *)
(*                                                                         *)
(* The two free pools are stacks and the active list a vector in the code. *)
(* Their order only decides WHICH free register an interval gets and which *)
(* of two equally good candidates is evicted, so they are sets here and    *)
(* the choice is left open.                                                *)
(***************************************************************************)
EXTENDS Integers, FiniteSets

CONSTANTS Vregs,        \* the virtual registers (IRValueId)
          CallerSaved,  \* allocatable caller-saved registers
          CalleeSaved,  \* allocatable callee-saved registers
          Scratch,      \* SPILL_SCRATCH_GPR, X15: in neither pool
          None          \* no register

Allocatable == CallerSaved \cup CalleeSaved

\* A live interval: its first and last position, whether it crosses a call,
\* how often it is used and defined, and its loop depth.
Interval == [start : Nat, end : Nat, crosses : BOOLEAN,
             refs : Nat, depth : Nat]

ASSUME RegistersAssumption ==
  /\ CallerSaved \cap CalleeSaved = {}
  /\ IsFiniteSet(Allocatable)
  /\ Scratch \notin Allocatable
  /\ None \notin Allocatable \cup {Scratch}

VARIABLES
  iv,         \* the live intervals, by virtual register
  todo,       \* the virtual registers whose interval is still to come
  active,     \* the register each active interval holds, or None
  freeCaller, \* free_caller_gprs
  freeCallee, \* free_callee_gprs
  preg,       \* vreg_to_preg
  spill,      \* spill_slots and spill_code, by virtual register
  slots,      \* next_spill_index
  usedCallee  \* used_callee_saved_gprs

scanVars == <<iv, todo, active, freeCaller, freeCallee, preg, spill, slots,
              usedCallee>>

\* How a virtual register is spilled: never; at its definition (slot, with
\* the position 0 and no register to save); or by eviction at position `at`
\* from register `from`.
NotSpilled == [slot |-> -1, at |-> 0, from |-> None]

------------------------------------------------------------------------------
(* Weights (LiveInterval). *)

Larger(a, b) == IF a >= b THEN a ELSE b
Smaller(a, b) == IF a <= b THEN a ELSE b

Length(i) == Larger(i.end - i.start, 1)

SpillWeight(i) == Larger(i.refs, 1) * (IF i.crosses THEN 2 ELSE 1)
                    * 2 ^ Smaller(i.depth, 4)

WeightPerLength(i) == SpillWeight(i) \div Length(i)

\* The weight of the interval being allocated, reduced when more intervals
\* are live than there are registers.
WeightUnderPressure(i, pressure) ==
  LET available == Cardinality(Allocatable)
      overflow  == Larger(pressure - available, 1)
  IN IF pressure > available
     THEN Larger(SpillWeight(i) \div (overflow + 1), 1) \div Length(i)
     ELSE WeightPerLength(i)

Overlaps(i, j) == i.start <= j.end /\ j.start <= i.end

------------------------------------------------------------------------------
(* The loop body. *)

\* Interval order: by start, then deeper loops, then longer intervals first.
NotAfter(i, j) ==
  \/ i.start < j.start
  \/ i.start = j.start /\ i.depth > j.depth
  \/ i.start = j.start /\ i.depth = j.depth /\ i.end >= j.end

\* The interval the loop handles next.
IsNext(v) == v \in todo /\ \A w \in todo : NotAfter(iv[v], iv[w])

\* Mutant: an interval that ends at `pos` is expired already.
ExpireAtEnd(w, pos) == active[w] # None /\ iv[w].end <= pos

\* expire_old_intervals: an active interval that ended before `pos`.
Expired(w, pos) == active[w] # None /\ iv[w].end < pos

\* The active map and the pools once the intervals before `pos` expired.
Unexpired(pos) == [w \in Vregs |-> IF Expired(w, pos) THEN None ELSE active[w]]

Freed(pos) == {active[w] : w \in {w \in Vregs : Expired(w, pos)}}

CallerAt(pos) == freeCaller \cup (Freed(pos) \cap CallerSaved)

CalleeAt(pos) == freeCallee \cup (Freed(pos) \cap CalleeSaved)

\* The pool the next register is popped from: an interval that crosses a
\* call prefers callee-saved registers, any other one caller-saved ones.
Pool(v) ==
  LET caller == CallerAt(iv[v].start)
      callee == CalleeAt(iv[v].start)
      first  == IF iv[v].crosses THEN callee ELSE caller
  IN IF first # {} THEN first ELSE caller \cup callee

ActiveAt(pos) == {w \in Vregs : Unexpired(pos)[w] # None}

\* The eviction candidate: the least weight per length, among those the
\* farthest end.
Candidate(w, pos) ==
  /\ w \in ActiveAt(pos)
  /\ \A u \in ActiveAt(pos) :
       \/ WeightPerLength(iv[w]) < WeightPerLength(iv[u])
       \/ /\ WeightPerLength(iv[w]) = WeightPerLength(iv[u])
          /\ iv[w].end >= iv[u].end

CurrentWeight(v) ==
  WeightUnderPressure(iv[v], Cardinality(ActiveAt(iv[v].start)) + 1)

\* Mutant: only a register that was free is recorded as used.
AssignUnrecorded(v, r, map, used) ==
  /\ preg' = [map EXCEPT ![v] = r]
  /\ usedCallee' = IF r \in freeCallee THEN used \cup {r} ELSE used

\* assign_gpr: the map and the callee-saved set.
Assign(v, r, map, used) ==
  /\ preg' = [map EXCEPT ![v] = r]
  /\ usedCallee' = used \cup ({r} \cap CalleeSaved)

\* A free register is found.
TakeFree(v) ==
  LET pos == iv[v].start IN
  \E r \in Pool(v) :
    /\ active' = [Unexpired(pos) EXCEPT ![v] = r]
    /\ freeCaller' = CallerAt(pos) \ {r}
    /\ freeCallee' = CalleeAt(pos) \ {r}
    /\ Assign(v, r, preg, usedCallee)
    /\ UNCHANGED <<spill, slots>>

\* None is free, and the current interval is the least deserving one (or no
\* interval is active): it lives in a slot and goes through the scratch.
SpillCurrent(v) ==
  LET pos == iv[v].start IN
  /\ Pool(v) = {}
  /\ \A w \in Vregs : Candidate(w, pos) =>
       CurrentWeight(v) <= WeightPerLength(iv[w])
  /\ active' = Unexpired(pos)
  /\ freeCaller' = CallerAt(pos)
  /\ freeCallee' = CalleeAt(pos)
  /\ preg' = [preg EXCEPT ![v] = Scratch]
  /\ spill' = [spill EXCEPT ![v] = [slot |-> slots, at |-> 0, from |-> None]]
  /\ slots' = slots + 1
  /\ UNCHANGED usedCallee

\* Mutant: the evicted interval stays in the active list.
EvictKeepsActive(v) ==
  LET pos == iv[v].start IN
  /\ Pool(v) = {}
  /\ \E w \in Vregs :
       /\ Candidate(w, pos)
       /\ CurrentWeight(v) > WeightPerLength(iv[w])
       /\ active' = [Unexpired(pos) EXCEPT ![v] = active[w]]
       /\ Assign(v, active[w], [preg EXCEPT ![w] = Scratch],
                 usedCallee \ {active[w]})
       /\ spill' = [spill EXCEPT ![w] =
                      [slot |-> slots, at |-> pos, from |-> active[w]]]
       /\ slots' = slots + 1
       /\ freeCaller' = CallerAt(pos)
       /\ freeCallee' = CalleeAt(pos)

\* None is free, and an active interval is less deserving: it goes to a slot
\* and the current interval takes its register.
Evict(v) ==
  LET pos == iv[v].start IN
  /\ Pool(v) = {}
  /\ \E w \in Vregs :
       /\ Candidate(w, pos)
       /\ CurrentWeight(v) > WeightPerLength(iv[w])
       /\ active' = [Unexpired(pos) EXCEPT ![w] = None, ![v] = active[w]]
       /\ Assign(v, active[w], [preg EXCEPT ![w] = Scratch],
                 usedCallee \ {active[w]})
       /\ spill' = [spill EXCEPT ![w] =
                      [slot |-> slots, at |-> pos, from |-> active[w]]]
       /\ slots' = slots + 1
       /\ freeCaller' = CallerAt(pos)
       /\ freeCallee' = CalleeAt(pos)

\* The interval map of some function.
IsIntervalMap(i) == DOMAIN i \subseteq Vregs /\ i \in [DOMAIN i -> Interval]

ScanInit ==
  /\ IsIntervalMap(iv)
  /\ todo = DOMAIN iv
  /\ active = [v \in Vregs |-> None]
  /\ freeCaller = CallerSaved
  /\ freeCallee = CalleeSaved
  /\ preg = [v \in Vregs |-> None]
  /\ spill = [v \in Vregs |-> NotSpilled]
  /\ slots = 0
  /\ usedCallee = {}

AllocateInterval(v) ==
  /\ IsNext(v)
  /\ todo' = todo \ {v}
  /\ iv' = iv
  /\ TakeFree(v) \/ SpillCurrent(v) \/ Evict(v)

ScanNext == \E v \in Vregs : AllocateInterval(v)

ScanSpec == ScanInit /\ [][ScanNext]_scanVars

------------------------------------------------------------------------------
(* Properties. *)

\* The variables have their types.
TypeOK ==
  /\ IsIntervalMap(iv)
  /\ todo \subseteq DOMAIN iv
  /\ active \in [Vregs -> Allocatable \cup {None}]
  /\ freeCaller \subseteq CallerSaved
  /\ freeCallee \subseteq CalleeSaved
  /\ preg \in [Vregs -> Allocatable \cup {Scratch, None}]
  /\ spill \in [Vregs -> [slot : Int, at : Nat, from : Allocatable \cup {None}]]
  /\ slots \in Nat
  /\ usedCallee \subseteq CalleeSaved

\* No register is lost and none is handed out twice: at every interval each
\* allocatable register is either in its free pool or held by exactly one
\* active interval, whatever mix of expiry, spilling and eviction happened.
RegistersPartitioned ==
  /\ \A v, w \in Vregs : active[v] # None /\ active[v] = active[w] => v = w
  /\ \A v \in Vregs : active[v] \notin freeCaller \cup freeCallee
  /\ \A r \in Allocatable :
       r \in freeCaller \cup freeCallee \/ \E v \in Vregs : active[v] = r

\* Two virtual registers that are live at the same time never share a
\* register other than the spill scratch, the claim the allocator's own test
\* makes of three live values ("no two should share a register").
NoConflict ==
  \A v, w \in DOMAIN iv :
    v # w /\ preg[v] \in Allocatable /\ preg[v] = preg[w]
      => ~ Overlaps(iv[v], iv[w])

\* What verify_callee_saved checks of the result: every register a virtual
\* register is mapped to, and every one the spill code stores from, is
\* caller-saved or is saved by the prologue.
CalleeSavedTracked ==
  \A v \in Vregs : {preg[v], spill[v].from} \cap CalleeSaved \subseteq usedCallee

==============================================================================
