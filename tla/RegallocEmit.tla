---------------------------- MODULE RegallocEmit ----------------------------
(***************************************************************************)
(* The register-allocated emission path of the AArch64 back end for a      *)
(* function of one basic block: LiveRangeComputer (codegen/src/regalloc.rs)*)
(* computes the live intervals, LinearScan allocates them, and the code    *)
(* emit_function_regalloc (codegen/src/emit.rs) lays down from the result  *)
(* is run, instruction by instruction, on a register file and a stack      *)
(* frame.                                                                  *)
(*                                                                         *)
(* A value is the number of the instruction that computed it, so "reads    *)
(* the right value" is "reads the number of the operand's last             *)
(* definition".  An instruction is known by what its lowering does to      *)
(* registers other than its destination and to the frame.  Functions with  *)
(* a call are allocated but not run: the call sequence has a save area of  *)
(* its own (RegAllocator::spill_caller_saved).  Functions with parameters  *)
(* and the instructions that use the argument registers without being      *)
(* calls to the allocator (Free, CallIndirect, Ret), or that this emitter  *)
(* gives no general-purpose code, are left out.                            *)
(***************************************************************************)
EXTENDS LinearScan, Sequences

CONSTANTS Functions,    \* the functions: [body : Seq(instruction), ret : Seq(operand)]
          AddrScratch,  \* X9, for immediates and the address of a slot
          ImmScratch,   \* X10, for address constants and wide comparisons
          RetRegs       \* X0 to X7, in order

VARIABLES
  func,   \* the function being compiled
  pc,     \* the next instruction of the emitted code, 0 while allocating
  regs,   \* the register file
  stack,  \* the spill slots
  val     \* the value each virtual register should have

emitVars == <<func, pc, regs, stack, val>>
vars == <<scanVars, emitVars>>

Junk == 0

------------------------------------------------------------------------------
(* Live ranges. *)

\* Instruction k is at position 2(k-1); the terminator follows the last one.
Pos(k) == 2 * (k - 1)

Defs(f, v) == {k \in DOMAIN f.body : f.body[k].def = v}

\* (Also a mutant of Uses: the terminator's are not counted.)
UsesInBody(f, v) == {k \in DOMAIN f.body : v \in f.body[k].uses}

ReturnUses(f, v) == {i \in DOMAIN f.ret : f.ret[i] = v}

Uses(f, v) == {k \in DOMAIN f.body : v \in f.body[k].uses}
                \cup (IF ReturnUses(f, v) # {} THEN {Len(f.body) + 1} ELSE {})

Calls(f) == {k \in DOMAIN f.body : f.body[k].op = "call"}

\* The scratch registers of the emitter that the allocator hands out as well.
Temps == {AddrScratch, ImmScratch}

\* How an instruction is lowered: "remainder" divides into its destination
\* and then multiplies back, "float" converts an integer to a float through
\* the word below the frame pointer; temps are the scratch registers it loads.
Instruction == [def : Vregs \cup {None}, uses : SUBSET Vregs,
                op : {"plain", "remainder", "float", "call"}, temps : SUBSET Temps]

\* The functions that are modelled: no use comes before a definition.  A
\* returned constant is named by the scratch register it is loaded into.
Modelled(f) ==
  /\ f.body \in Seq(Instruction)
  /\ \A k \in DOMAIN f.body : f.body[k].op = "remainder" => f.body[k].def # None
  /\ f.ret \in Seq(Vregs \cup Temps)
  /\ \A v \in Vregs : \A k \in Uses(f, v) : \E j \in Defs(f, v) : j < k

ASSUME FunctionsAssumption ==
  /\ IsFiniteSet(Vregs)
  /\ None \notin Vregs
  /\ Scratch \notin Temps
  /\ Temps \cap Vregs = {}
  /\ \A f \in Functions : Modelled(f)

\* compute: the interval of v spans its definitions and uses; it crosses the
\* calls strictly inside.  With one block, and no use before a definition,
\* nothing is live into or out of the block and liveness extends no interval.
\* Merging copies changes nothing: a copy uses its
\* source where it defines its target, so the two intervals always overlap,
\* and coalesce_intervals skips overlapping ones.
LiveInterval(f, v) ==
  LET at    == Defs(f, v) \cup Uses(f, v)
      first == CHOOSE k \in at : \A j \in at : k <= j
      last  == CHOOSE k \in at : \A j \in at : k >= j
  IN [start   |-> Pos(first), end |-> Pos(last),
      crosses |-> \E c \in Calls(f) : first < c /\ c < last,
      refs    |-> Cardinality(Defs(f, v)) + Cardinality(UsesInBody(f, v))
                    + Cardinality(ReturnUses(f, v)),
      depth   |-> 0]

Compute(f) ==
  [v \in {v \in Vregs : Defs(f, v) \cup Uses(f, v) # {}} |-> LiveInterval(f, v)]

------------------------------------------------------------------------------
(* The emitted code. *)

\* Whether v has a slot; whether it got it by eviction.
Spilled(v) == spill[v] # NotSpilled

Evicted(v) == Spilled(v) /\ spill[v].from # None

\* The boundary spill before instruction k: the intervals evicted there.
Boundary(k) == {v \in Vregs : Evicted(v) /\ spill[v].at = Pos(k)}

\* The operands of instruction k that are reloaded before it; an evicted one
\* only from its eviction on.  (gen_spill_reload, gen_eviction_spill_reload)
Reloads(k) ==
  {v \in func.body[k].uses : Spilled(v) /\ (Evicted(v) => spill[v].at <= Pos(k))}

\* The reload that is emitted last: reloads are appended as intervals are
\* spilled, and every spill takes the next slot.
LastReload(k) ==
  CHOOSE v \in Reloads(k) : \A u \in Reloads(k) : spill[u].slot <= spill[v].slot

Overwritten(file, R) == [r \in DOMAIN file |-> IF r \in R THEN Junk ELSE file[r]]

\* The registers around a spill or a reload: the slots are at negative
\* offsets of X29, so the address is formed in the address scratch.
Addressed(file) == Overwritten(file, {AddrScratch})

\* The frame after the boundary spills before instruction k.
StackAt(k) ==
  [s \in DOMAIN stack |->
     IF \E v \in Boundary(k) : spill[v].slot = s
     THEN LET v == CHOOSE v \in Boundary(k) : spill[v].slot = s
          IN Addressed(regs)[spill[v].from]
     ELSE stack[s]]

\* The registers when instruction k executes: reloads go to the scratch.
RegsAt(k) ==
  IF Reloads(k) # {}
  THEN [Addressed(regs) EXCEPT ![Scratch] = StackAt(k)[spill[LastReload(k)].slot]]
  ELSE IF Boundary(k) # {} THEN Addressed(regs) ELSE regs

\* The registers the code of instruction k computes from: its constants are
\* loaded first.
Reading(k) == Overwritten(RegsAt(k), func.body[k].temps)

\* The registers it reads from in turn: a remainder reads its operands again
\* when the quotient is in its destination.
Reads(k) ==
  {Reading(k)} \cup
    (IF func.body[k].op = "remainder"
     THEN {Overwritten(Reading(k), {preg[func.body[k].def]})} ELSE {})

\* The frame once instruction k has run: slot 0 is the word below X29.
FrameAt(k) == IF func.body[k].op = "float" THEN Overwritten(StackAt(k), {0}) ELSE StackAt(k)

\* Whether instruction k is followed by a store of its result to a slot.
SpillsAfter(k) ==
  LET d == func.body[k].def IN
  d # None /\ Spilled(d) /\ (Evicted(d) => spill[d].at < Pos(k))

Registers ==
  Allocatable \cup {Scratch} \cup Temps \cup {RetRegs[i] : i \in DOMAIN RetRegs}

EmitInit ==
  /\ iv = Compute(func)
  /\ ScanInit
  /\ pc = 0
  /\ regs = [r \in Registers |-> Junk]
  /\ stack = [s \in 0 .. Cardinality(Vregs) - 1 |-> Junk]
  /\ val = [v \in Vregs |-> Junk]

Init == func \in Functions /\ EmitInit

\* allocate_function, one interval at a time.
Allocate(v) == AllocateInterval(v) /\ UNCHANGED emitVars

\* The result is complete and the emitted code starts.
Start ==
  /\ todo = {}
  /\ pc = 0
  /\ Calls(func) = {}
  /\ pc' = 1
  /\ UNCHANGED <<scanVars, func, regs, stack, val>>

\* The code laid down for instruction pc: boundary spills and reloads, the
\* instruction itself, the spill of its result.
Execute ==
  /\ pc \in DOMAIN func.body
  /\ LET d     == func.body[pc].def
         after == IF d = None THEN Reading(pc)
                  ELSE [Reading(pc) EXCEPT ![preg[d]] = pc]
     IN /\ val' = IF d = None THEN val ELSE [val EXCEPT ![d] = pc]
        /\ regs' = IF SpillsAfter(pc) THEN Addressed(after) ELSE after
        /\ stack' = IF SpillsAfter(pc)
                    THEN [FrameAt(pc) EXCEPT ![spill[d].slot] = after[Scratch]]
                    ELSE FrameAt(pc)
  /\ pc' = pc + 1
  /\ UNCHANGED <<scanVars, func>>

\* The return values that are moved, by position; the ninth and later ones
\* are dropped.
Returned == DOMAIN func.ret \cap DOMAIN RetRegs

Source(o) == IF o \in Vregs THEN preg[o] ELSE o

\* One move of the terminator: return value number pc - Len(body) to its
\* register.
Return ==
  LET i == pc - Len(func.body) IN
  /\ i \in Returned
  /\ LET file == Overwritten(regs, Temps \cap {func.ret[i]})
     IN regs' = [file EXCEPT ![RetRegs[i]] = file[Source(func.ret[i])]]
  /\ pc' = pc + 1
  /\ UNCHANGED <<scanVars, func, stack, val>>

Next == (\E v \in Vregs : Allocate(v)) \/ Start \/ Execute \/ Return

Spec == Init /\ [][Next]_vars

------------------------------------------------------------------------------
(* Properties. *)

\* u has a register that neither spill code nor the emitter's constants use.
OwnRegister(u) == ~Spilled(u) /\ preg[u] \notin Temps

\* u lives in a slot from its definition on, and no conversion overwrites it.
OwnSlot(u) ==
  /\ Spilled(u) /\ ~Evicted(u)
  /\ spill[u].slot = 0 => \A k \in DOMAIN func.body : func.body[k].op # "float"

\* u is where remainder k puts its quotient: u is also its destination, or
\* both are spilled and share the scratch.
Divided(u, k) ==
  LET d == func.body[k].def IN
  func.body[k].op = "remainder" /\ (u = d \/ (Spilled(u) /\ Spilled(d)))

\* The emitted code computes with the values the program names.  An operand
\* that kept a register of its own holds its last definition each time an
\* instruction reads it, whatever spill code and other instructions ran in
\* between; so does an operand that lives in a slot from its definition on,
\* when it is the only one the instruction reloads; and so does a return
\* value when it is moved, unless an earlier move wrote its register.  (Left
\* out, because the code does not guarantee them: values the allocator put
\* in X9 or X10, evicted values, two reloads for one instruction, slot 0 of
\* a function that converts integers to floats, a remainder computed into
\* the register of one of its operands, a spilled value in the return, and a
\* return value in the register of an earlier one.)
OperandsRead ==
  /\ pc \in DOMAIN func.body =>
       \A u \in func.body[pc].uses, file \in Reads(pc) :
         ~Divided(u, pc) =>
           /\ OwnRegister(u) => file[preg[u]] = val[u]
           /\ OwnSlot(u) /\ Reloads(pc) = {u} => file[Scratch] = val[u]
  /\ LET i == pc - Len(func.body) IN
     i \in Returned =>
       \A u \in Vregs \cap {func.ret[i]} :
         OwnRegister(u) /\ (\A j \in 1 .. i - 1 : RetRegs[j] # preg[u])
           => regs[preg[u]] = val[u]

\* The claim of gen_eviction_spill_reload ("save the value currently held in
\* `evict_preg` to `slot`"): when the boundary spill of an evicted virtual
\* register runs, the register it stores holds that register's value.
EvictionSavesValue ==
  pc \in DOMAIN func.body =>
    \A v \in Boundary(pc) : Addressed(regs)[spill[v].from] = val[v]

==============================================================================
