------------------------------ MODULE Dominance ------------------------------
(***************************************************************************)
(* compute_dominators and compute_post_dominators (scg/src/dominance.rs):  *)
(* the Lengauer-Tarjan algorithm with its forest of linked vertices, and   *)
(* the queries on the tree it returns.  The two copies of the algorithm    *)
(* differ in the direction of the edges, which is Edges here.              *)
(***************************************************************************)
EXTENDS FlowGraph

VARIABLES
  lt,    \* the state of the algorithm: semi, label, ancestor, bucket, idom
  done,  \* the vertices processed, counted from the last one
  tree   \* the DominatorTree: idom, depth; built once it was returned

domVars == <<lt, done, tree>>

DomJobs == {"dominators", "post_dominators"}

DomInit ==
  /\ lt = [semi     |-> [v \in Nodes |-> IF v = Root THEN 1 ELSE 0],
           label    |-> [v \in Nodes |-> v],
           ancestor |-> [v \in Nodes |-> NoNode],
           bucket   |-> [n \in Nodes |-> {}],
           idom     |-> [v \in Nodes |-> NoNode]]
  /\ done = 0
  /\ tree = [built |-> FALSE, idom |-> lt.idom, depth |-> [v \in Nodes |-> 0]]

\* dfs: one more vertex gets its number.
Number(c) ==
  /\ job \in DomJobs
  /\ Visit(c)
  /\ lt' = [lt EXCEPT !.semi[c] = Len(vertex) + 1]
  /\ UNCHANGED <<done, tree>>

\* Mutant: the path above the ancestor is not compressed first.
CompressedOneLink(f, v) ==
  LET a == f.ancestor[v] IN
  IF a = NoNode \/ f.ancestor[a] = NoNode THEN f
  ELSE [f EXCEPT !.label[v] = IF f.semi[f.label[a]] < f.semi[@] THEN f.label[a]
                              ELSE @,
                 !.ancestor[v] = f.ancestor[a]]

\* compress: the label of v becomes the vertex of least semi-dominator on
\* its path; its link is raised to what the ancestor's link was before.
RECURSIVE Compressed(_, _)
Compressed(f, v) ==
  LET a == f.ancestor[v] IN
  IF a = NoNode \/ f.ancestor[a] = NoNode THEN f
  ELSE LET g == Compressed(f, a) IN
       [g EXCEPT !.label[v] = IF g.semi[g.label[a]] < g.semi[@] THEN g.label[a]
                              ELSE @,
                 !.ancestor[v] = f.ancestor[a]]

\* Step 2, for one predecessor v of w: eval(v), and the lower semi-dominator.
Lowered(f, w, v) ==
  LET g == Compressed(f, v) IN
  [g EXCEPT !.semi[w] = Min({@, g.semi[g.label[v]]})]

\* Step 3, for one vertex v of the bucket of p.
Resolved(f, p, v) ==
  LET g == Compressed(f, v)
      u == g.label[v]
  IN [g EXCEPT !.idom[v] = IF g.semi[u] < g.semi[v] THEN u ELSE p]

\* One round of the loop over the vertices, the last numbered one first.
Process ==
  /\ job \in DomJobs
  /\ Numbered
  /\ done < Len(vertex) - 1
  /\ LET w      == vertex[Len(vertex) - done]
         p      == up[w]
         low    == FoldSet(LAMBDA v, f : Lowered(f, w, v), lt,
                           Preds(w) \cap ToSet(vertex))
         linked == [low EXCEPT !.bucket[low.semi[w]] = @ \cup {w},
                               !.ancestor[w] = p]
         taken  == linked.bucket[Num(p)]
     IN lt' = FoldSet(LAMBDA v, f : Resolved(f, p, v),
                      [linked EXCEPT !.bucket[Num(p)] = {}], taken)
  /\ done' = done + 1
  /\ UNCHANGED <<graphVars, tree>>

\* Step 4, for one vertex: an idom put off is the idom of the one named.
Finalized(idom, w) ==
  IF /\ idom[w] # NoNode /\ Num(idom[w]) # lt.semi[w]
     /\ idom[idom[w]] # NoNode
  THEN [idom EXCEPT ![w] = idom[idom[w]]]
  ELSE idom

\* Step 4 and the depths, in the order of the numbers.
BuildTree ==
  /\ job \in DomJobs
  /\ Numbered
  /\ done = Len(vertex) - 1
  /\ ~tree.built
  /\ LET idom == FoldLeft(Finalized, lt.idom, Tail(vertex))
         Deeper(d, w) == IF idom[w] = NoNode THEN d
                         ELSE [d EXCEPT ![w] = d[idom[w]] + 1]
     IN tree' = [built |-> TRUE, idom |-> idom,
                 depth |-> FoldLeft(Deeper, tree.depth, Tail(vertex))]
  /\ UNCHANGED <<graphVars, lt, done>>

DomNext == (\E c \in Nodes : Number(c)) \/ Process \/ BuildTree

------------------------------------------------------------------------------
(* Queries on the tree. *)

\* dominators_of, and dominates on top of it.
RECURSIVE DominatorsOf(_)
DominatorsOf(b) ==
  {b} \cup IF tree.idom[b] = NoNode THEN {} ELSE DominatorsOf(tree.idom[b])

TreeDominates(a, b) ==
  a = b \/ ({a, b} \subseteq ToSet(vertex) /\ a \in DominatorsOf(b))

RECURSIVE Raised(_, _)
Raised(a, n) == IF n <= 0 THEN a ELSE Raised(tree.idom[a], n - 1)

RECURSIVE Meeting(_, _)
Meeting(a, b) == IF a = b THEN a ELSE Meeting(tree.idom[a], tree.idom[b])

\* nearest_common_dominator, of two nodes of the tree.
NearestCommonDominator(a, b) ==
  LET lead == tree.depth[a] - tree.depth[b]
  IN Meeting(Raised(a, lead), Raised(b, -lead))

\* predecessors() lists a node once for each edge from it.
InDegree(b) == Cardinality({e \in flow.cf : e[2] = b})
                 + Cardinality({e \in flow.df : e[2] = b})

\* Mutant: a node with two predecessors is not taken for a join.
JoinsOfThree == {b \in ToSet(vertex) : InDegree(b) >= 3}

Joins == {b \in ToSet(vertex) : InDegree(b) >= 2}

\* The nodes the runner passes on its way up from c, for the join b.
RECURSIVE Passed(_, _)
Passed(b, c) ==
  IF tree.idom[b] = c THEN {}
  ELSE {c} \cup IF tree.idom[c] = NoNode THEN {} ELSE Passed(b, tree.idom[c])

\* find_dominance_frontier; the code always follows the edges forwards, so it
\* is for the tree of compute_dominators.
Frontier(a) ==
  {b \in Joins : \E p \in Preds(b) \cap ToSet(vertex) : a \in Passed(b, p)}

------------------------------------------------------------------------------
(* Properties. *)

\* The tree of Lengauer and Tarjan is the dominator tree: `a dominates b iff
\* every path from the entry to b passes through a` for the nodes that can
\* be reached, in either direction of the edges and whatever order the
\* search takes; the depth of a node counts its dominators, and the nearest
\* common dominator of two nodes is the one below all the others.
DominatorsExact ==
  tree.built =>
    /\ \A a, b \in Nodes :
         b \in Reachable => (TreeDominates(a, b) <=> Dominates(a, b))
    /\ \A b \in Reachable :
         tree.depth[b] = Cardinality({a \in Nodes : Dominates(a, b)}) - 1
    /\ \A a, b \in Reachable :
         LET common == {d \in Nodes : Dominates(d, a) /\ Dominates(d, b)}
             near   == NearestCommonDominator(a, b)
         IN near \in common /\ \A d \in common : Dominates(d, near)

\* The frontier of a is where its dominance ends: it has exactly the nodes b
\* with a predecessor that a dominates and that a does not strictly
\* dominate.  (Left out, because the code takes only nodes that two or more
\* edges lead to: the root, when a single edge leads back to it.)
FrontierExact ==
  tree.built /\ job = "dominators" =>
    \A a, b \in Reachable :
      ~(b = Root /\ InDegree(b) = 1) =>
        (b \in Frontier(a) <=>
           /\ \E p \in Preds(b) : Dominates(a, p)
           /\ ~(a # b /\ Dominates(a, b)))

==============================================================================
