------------------------------ MODULE FlowGraph ------------------------------
(***************************************************************************)
(* The graph the analyses of the compiler run on (scg/src/graph.rs, or the *)
(* blocks of an IRFunction), with the depth-first search that two of them  *)
(* start with, and the reference notion of dominance they are checked      *)
(* against.                                                                *)
(*                                                                         *)
(* The order in which successors() lists the neighbours of a node is left  *)
(* open: the search may take any of them next.                             *)
(***************************************************************************)
EXTENDS Integers, FiniteSets, SequencesExt

CONSTANT Graphs  \* [size, cf, df]: nodes 1 .. size, of which 1 is the entry;
                 \* the control-flow edges; the data-flow and derivation edges

ASSUME GraphAssumption ==
  \A g \in Graphs :
    /\ g.size \in Nat \ {0}
    /\ g.cf \cup g.df \subseteq (1 .. g.size) \X (1 .. g.size)

VARIABLES
  flow,    \* the graph
  job,     \* the analysis that runs
  vertex,  \* the nodes in the order the search reached them
  path,    \* the nodes the search is in, from the root down
  rest,    \* the nodes it has left, the last one first
  up       \* each node's parent in the search tree, or NoNode

graphVars == <<flow, job, vertex, path, rest, up>>

NoNode == 0

Nodes == 1 .. flow.size

Flipped(E) == {<<e[2], e[1]>> : e \in E}

\* The edges the analysis follows, and the node it starts from: the exit,
\* against the edges, for post-dominators.
Edges ==
  CASE job = "dominators"      -> flow.cf \cup flow.df
    [] job = "post_dominators" -> Flipped(flow.cf \cup flow.df)
    [] job = "liveness"        -> flow.cf \cup flow.df
    [] OTHER                   -> flow.cf

Root == IF job = "post_dominators" THEN flow.size ELSE 1

Succs(v) == {e[2] : e \in {e \in Edges : e[1] = v}}

Preds(v) == {e[1] : e \in {e \in Edges : e[2] = v}}

------------------------------------------------------------------------------
(* The reference. *)

\* The nodes that a path along E leads to from one of S.  Fewer steps than
\* there are nodes will do.
Reach(E, S) ==
  LET within[k \in 0 .. flow.size] ==
        IF k = 0 THEN S
        ELSE LET R == within[k - 1]
             IN R \cup {e[2] : e \in {e \in E : e[1] \in R}}
  IN within[flow.size]

Without(E, a) == {e \in E : a \notin {e[1], e[2]}}

Reachable == Reach(Edges, {Root})

\* Every path from the root to b passes through a.
Dominates(a, b) ==
  b \in Reachable /\ (a = b \/ b \notin Reach(Without(Edges, a), {Root}))

------------------------------------------------------------------------------
(* The depth-first search. *)

GraphInit ==
  /\ vertex = <<Root>>
  /\ path = <<Root>>
  /\ rest = << >>
  /\ up = [v \in Nodes |-> NoNode]

Unvisited(v) == Succs(v) \ ToSet(vertex)

Open == {k \in DOMAIN path : Unvisited(path[k]) # {}}

\* The search leaves the nodes that have nothing new below them and enters c.
Visit(c) ==
  /\ Open # {}
  /\ LET k == Max(Open) IN
     /\ c \in Unvisited(path[k])
     /\ vertex' = Append(vertex, c)
     /\ path' = Append(SubSeq(path, 1, k), c)
     /\ rest' = SubSeq(path, k + 1, Len(path)) \o rest
     /\ up' = [up EXCEPT ![c] = path[k]]
  /\ UNCHANGED <<flow, job>>

Numbered == Open = {}

\* The DFS number of a node the search reached.
Num(v) == CHOOSE k \in DOMAIN vertex : vertex[k] = v

\* The order of a finished search that has each node before the ones left
\* before it: the reverse postorder.
ReversePostorder == path \o rest

==============================================================================
