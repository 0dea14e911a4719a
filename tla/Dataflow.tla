------------------------------ MODULE Dataflow -------------------------------
(***************************************************************************)
(* The loop detectors of the compiler, which sweep over a graph until      *)
(* nothing changes, each with dominators of its own:                       *)
(*   scg_loops    LoopDetector of scg/src/loop_detection.rs,               *)
(*   alloc_loops  LoopDetector of codegen/src/regalloc.rs,                 *)
(*   opt_loops    LoopOptimizer of codegen/src/control_flow.rs;            *)
(* next to the liveness analysis, which sweeps too.                        *)
(***************************************************************************)
EXTENDS Liveness

LoopJobs == {"scg_loops", "alloc_loops", "opt_loops"}

FlowInit ==
  SweepFrom(CASE job = "opt_loops" -> [v \in Nodes |-> IF v = 1 THEN {1} ELSE Nodes]
              [] job = "liveness"  -> NothingLive
              [] OTHER             -> [v \in Nodes |-> IF v = 1 THEN 1 ELSE NoNode])

\* The node and its immediate dominators, as far as they are known.
RECURSIVE Up(_, _)
Up(idom, b) == {b} \cup IF idom[b] \in {NoNode, b} THEN {} ELSE Up(idom, idom[b])

\* The predecessors whose dominator is known, and one of them.
Known(idom, v) == {p \in Preds(v) : idom[p] # NoNode}
First(idom, v) == CHOOSE p \in Known(idom, v) : TRUE

\* The blocks without the entry, in layout order.
Layout == [k \in 1 .. flow.size - 1 |-> k + 1]

------------------------------------------------------------------------------
(* scg_loops: Cooper, Harvey and Kennedy, in reverse postorder. *)

Place(v) == CHOOSE k \in DOMAIN ReversePostorder : ReversePostorder[k] = v

\* intersect: the finger with the higher number moves up.
RECURSIVE Intersect(_, _, _)
Intersect(idom, f, g) ==
  CASE Place(f) > Place(g) -> Intersect(idom, idom[f], g)
    [] Place(g) > Place(f) -> Intersect(idom, f, idom[g])
    [] OTHER               -> f

\* The known predecessors are intersected pairwise.
ScgNode(idom, v) ==
  IF v = 1 \/ Known(idom, v) = {} THEN idom
  ELSE [idom EXCEPT ![v] = FoldSet(LAMBDA p, m : Intersect(idom, m, p),
                                   First(idom, v), Known(idom, v))]

\* reverse_postorder, then compute_cfg_dominators.
ScgVisit(c) == job = "scg_loops" /\ Visit(c) /\ UNCHANGED flowVars

ScgSweep ==
  job = "scg_loops" /\ Numbered /\ SweepTo(FoldLeft(ScgNode, sol, ReversePostorder))

------------------------------------------------------------------------------
(* alloc_loops: the same meet by paths, the blocks in layout order. *)

\* intersect: the first node above g that is above f, the entry if none is.
RECURSIVE Common(_, _, _)
Common(doms, f, g) ==
  IF g \in Up(doms, f) THEN g
  ELSE IF doms[g] \in {NoNode, g} THEN 1
  ELSE Common(doms, f, doms[g])

AllocNode(doms, v) ==
  IF Known(doms, v) = {} THEN doms
  ELSE [doms EXCEPT ![v] = FoldSet(LAMBDA p, m : Common(doms, p, m),
                                   First(doms, v), Known(doms, v))]

AllocSweep == job = "alloc_loops" /\ SweepTo(FoldLeft(AllocNode, sol, Layout))

------------------------------------------------------------------------------
(* opt_loops: sets of dominators. *)

\* A block without predecessors keeps the set of all blocks.
OptNode(doms, v) ==
  IF Preds(v) = {} THEN doms
  ELSE [doms EXCEPT ![v] = {v} \cup {d \in Nodes : \A p \in Preds(v) : d \in doms[p]}]

OptSweep == job = "opt_loops" /\ SweepTo(FoldLeft(OptNode, sol, Layout))

------------------------------------------------------------------------------
(* The loops. *)

ScgDominates(a, b) == a \in Up(sol, b)

\* A block without a dominator gets the entry for one.
AllocDominates(a, b) ==
  a \in Up([v \in Nodes |-> IF sol[v] = NoNode THEN 1 ELSE sol[v]], b)

OptDominates(a, b) == a \in sol[b]

\* The back edges each one finds, <<source, header>>; alloc_loops wants the
\* header to be laid out first.
BackEdges ==
  {e \in Edges :
     CASE job = "scg_loops"   -> ScgDominates(e[2], e[1])
       [] job = "alloc_loops" -> e[2] <= e[1] /\ AllocDominates(e[2], e[1])
       [] job = "opt_loops"   -> OptDominates(e[2], e[1])}

RECURSIVE Grown(_, _)
Grown(body, work) ==
  LET new == (UNION {Preds(v) : v \in work}) \ body IN
  IF new = {} THEN body ELSE Grown(body \cup new, new)

\* Mutant: the walk starts before the header is in the body.
WalkedPastHeader(e) == Grown({e[1]}, {e[1]})

\* The body: predecessors from the source on.  scg_loops and opt_loops
\* expand the source even if it is the header.
Walked(e) == Grown({e[1], e[2]}, {e[1]})

\* alloc_loops skips the header wherever it meets it.
WalkedToHeader(e) == Grown({e[1], e[2]}, {e[1]} \ {e[2]})

Body(e) == IF job = "alloc_loops" THEN WalkedToHeader(e) ELSE Walked(e)

\* The nesting depth alloc_loops gives a loop.
LoopDepth(e) == Cardinality({f \in BackEdges \ {e} : e[2] \in Body(f)})

FlowNext ==
  \/ \E c \in Nodes : ScgVisit(c)
  \/ ScgSweep \/ AllocSweep \/ OptSweep \/ LivenessSweep

------------------------------------------------------------------------------
(* Properties. *)

NaturalBody(e) ==
  LET E == Without(Edges, e[2]) IN
  {e[2]} \cup {v \in Nodes \ {e[2]} : e[1] \in Reach(E, {v})}

\* The three detectors agree with the textbook on every graph, irreducible
\* ones included, and settle within one sweep more than there are nodes,
\* whatever the layout of the blocks: an edge from a reachable node closes a
\* loop exactly if its target dominates its source, the body has the nodes
\* that reach the source without passing through the header, and the header
\* dominates those that can be reached.
\* For alloc_loops the header must be laid out first; where no two loops
\* share a header, the depth of a loop counts the loops around it.  (Left
\* out, because two of the three get it wrong: the body of a loop of one
\* node.)
LoopsNatural ==
  job \in LoopJobs =>
    /\ sweeps <= flow.size + 1
    /\ settled =>
         /\ \A e \in Edges : e[1] \in Reachable =>
              (e \in BackEdges <=> /\ Dominates(e[2], e[1])
                                   /\ job = "alloc_loops" => e[2] <= e[1])
         /\ \A e \in BackEdges :
              e[1] \in Reachable /\ (e[1] # e[2] \/ job = "alloc_loops") =>
                /\ Body(e) = NaturalBody(e)
                /\ \A v \in Body(e) \cap Reachable : Dominates(e[2], v)
         /\ job = "alloc_loops" /\ Nodes \subseteq Reachable
              /\ (\A e, f \in BackEdges : e[2] = f[2] => e = f) =>
              \A e \in BackEdges :
                LoopDepth(e) =
                  Cardinality({f \in BackEdges \ {e} : Body(e) \subseteq Body(f)})

==============================================================================
