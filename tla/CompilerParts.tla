---------------------------- MODULE CompilerParts ----------------------------
(***************************************************************************)
(* The parts of the compiler that are modelled, side by side: register     *)
(* allocation with the code emitted from it, the dominator trees, and the  *)
(* analyses by sweeps.  A behaviour runs one of them on one input.         *)
(***************************************************************************)
EXTENDS RegallocEmit, Dominance, Dataflow

allVars == <<vars, graphVars, domVars, flowVars>>

\* The analyses; "regalloc" is register allocation.
Analyses == DomJobs \cup LoopJobs \cup {"liveness"}

AnyFunction == CHOOSE f \in Functions : TRUE

CompilerInit ==
  /\ job \in {"regalloc"} \cup Analyses
  /\ func \in IF job = "regalloc" THEN Functions ELSE {AnyFunction}
  /\ EmitInit
  /\ flow \in IF job = "regalloc" THEN {[size |-> 1, cf |-> {}, df |-> {}]} ELSE Graphs
  /\ GraphInit /\ DomInit /\ FlowInit

CompilerNext ==
  \/ job = "regalloc" /\ Next /\ UNCHANGED <<graphVars, domVars, flowVars>>
  \/ DomNext /\ UNCHANGED <<vars, flowVars>>
  \/ FlowNext /\ UNCHANGED <<vars, domVars>>

CompilerSpec == CompilerInit /\ [][CompilerNext]_allVars

==============================================================================
