------------------------------ MODULE Liveness -------------------------------
(***************************************************************************)
(* The liveness analysis of scg/src/liveness.rs: sweeps over the nodes     *)
(* that change live_in and live_out in place, until a sweep changes        *)
(* nothing.                                                                *)
(***************************************************************************)
EXTENDS FlowGraph

CONSTANT MaxIterations  \* of the liveness analysis, 10000 in the code

VARIABLES
  sol,      \* what the sweeps work on: per node an immediate dominator, a
            \* set of dominators, or live_in and live_out
  sweeps,   \* the sweeps made
  settled   \* the last one changed nothing

flowVars == <<sol, sweeps, settled>>

SweepFrom(first) ==
  /\ sol = first
  /\ sweeps = 0
  /\ settled = FALSE

\* A sweep that leaves the solution next; one that changes nothing is the last.
SweepTo(next) ==
  /\ ~settled
  /\ sol' = next
  /\ settled' = (next = sol)
  /\ sweeps' = sweeps + 1
  /\ UNCHANGED graphVars

------------------------------------------------------------------------------
(* The analysis. *)

\* Mutant: a node's own value stays live above it.
LiveInUnkilled(v, out) == {e[1] : e \in {e \in flow.df : e[2] = v}} \cup out

\* use \cup (live_out - def).
LiveIn(v, out) == {e[1] : e \in {e \in flow.df : e[2] = v}} \cup (out \ {v})

LiveNode(info, v) ==
  LET out == UNION {info[s].in : s \in Succs(v)}
  IN [info EXCEPT ![v] = [in |-> LiveIn(v, out), out |-> out]]

LivenessSweep ==
  /\ job = "liveness"
  /\ sweeps < MaxIterations
  /\ LET after[k \in 0 .. flow.size] ==
           IF k = 0 THEN sol ELSE LiveNode(after[k - 1], k)
     IN SweepTo(after[flow.size])

NothingLive == [v \in Nodes |-> [in |-> {}, out |-> {}]]

LivenessInit ==
  job = "liveness" /\ flow \in Graphs /\ GraphInit /\ SweepFrom(NothingLive)

LivenessSpec == LivenessInit /\ [][LivenessSweep]_<<graphVars, flowVars>>

------------------------------------------------------------------------------
(* Properties. *)

\* The sweeps end, within two more than there are nodes, and they end with the
\* least solution: a value is live at the exit of a
\* node exactly if some path from there comes to a use of it without passing
\* its definition, and at the entry if the node uses it or passes it on.
LivenessExact ==
  job = "liveness" =>
    /\ sweeps <= flow.size + 2
    /\ settled =>
         \A n, v \in Nodes :
           LET users == {e[2] : e \in {e \in flow.df : e[1] = v}}
               upto  == Reach(Flipped({e \in Edges : e[1] # v}), users)
           IN /\ v \in sol[n].in <=> n \in upto
              /\ v \in sol[n].out <=> Succs(n) \cap upto # {}

==============================================================================
