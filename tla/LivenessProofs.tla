--------------------------- MODULE LivenessProofs ----------------------------
(***************************************************************************)
(* Proofs about the liveness analysis, for any graphs: the sweeps end, and *)
(* the solution they end with is the least one.                            *)
(*                                                                         *)
(* The lemmas are about a graph g and a solution s that are values, not    *)
(* variables.  First, the nodes that can be reached in k steps.  Then two  *)
(* bounds on what a sweep leaves: all that it marks live is (Sound), and   *)
(* after j sweeps all within j steps of a use is marked (Full).  A closed  *)
(* set is reached in fewer steps than there are nodes, so that both bounds *)
(* meet; and a sweep that changes nothing has met them before that.        *)
(***************************************************************************)
EXTENDS Liveness, FiniteSetTheorems, WellFoundedInduction, TLAPS

Less == {ss \in Nat \X Nat : ss[1] < ss[2]}

LEMMA Least ==
  ASSUME NEW T \in SUBSET Nat, T # {}
  PROVE  \E x \in T : \A y \in T : x <= y
<1>1. IsWellFoundedOn(Less, Nat)
  BY NatLessThanWellFounded DEF OpToRel, Less
<1>2. PICK x \in T : \A y \in T : ~(<<y, x>> \in Less)
  BY <1>1, WFMin, Zenon
<1>3. ASSUME NEW y \in T PROVE x <= y
  <2>1. ~(y < x)
    BY <1>2, Zenon DEF Less
  <2> QED BY <2>1
<1> QED BY <1>3

\* What holds of 0 and is passed on holds of every number up to n: stated of
\* the set of numbers it holds of.
LEMMA UpTo ==
  ASSUME NEW n \in Nat, NEW S, 0 \in S,
         \A k \in 1 .. n : k - 1 \in S => k \in S
  PROVE  \A k \in 0 .. n : k \in S
<1> DEFINE T == {k \in 0 .. n : k \notin S}
<1> SUFFICES ASSUME T # {} PROVE FALSE
  OBVIOUS
<1>1. PICK x \in T : \A y \in T : x <= y
  <2>1. T \in SUBSET Nat
    OBVIOUS
  <2> HIDE DEF T
  <2> QED BY <2>1, Least
<1>2. x \in Nat /\ x # 0
  BY <1>1
<1>3. x - 1 \in 0 .. n /\ x - 1 \notin T
  BY <1>1, <1>2
<1> QED BY <1>1, <1>2, <1>3

\* f[0] is a, and each of the next n values is made from the last by G.
IsRecursion(f, n, a, G) == f[0] = a /\ \A k \in 1 .. n : f[k] = G[<<k, f[k - 1]>>]

\* There is such a function.
LEMMA Recursion ==
  ASSUME NEW n \in Nat, NEW D, NEW a \in D,
         NEW G \in [(1 .. n) \X D -> D]
  PROVE  \E f \in [0 .. n -> D] : IsRecursion(f, n, a, G)
<1> USE DEF IsRecursion
<1> DEFINE Is(f, m) == IsRecursion(f, m, a, G)
           S == {m \in 0 .. n : \E f \in [0 .. m -> D] : Is(f, m)}
<1>1. 0 \in S
  <2> DEFINE g == [k \in 0 .. 0 |-> a]
  <2>1. g \in [0 .. 0 -> D] /\ g[0] = a
    OBVIOUS
  <2> HIDE DEF g
  <2>2. Is(g, 0)
    BY <2>1
  <2>3. 0 \in 0 .. n
    OBVIOUS
  <2> HIDE DEF Is
  <2> QED BY <2>1, <2>2, <2>3
<1>2. ASSUME NEW x \in 1 .. n, x - 1 \in S PROVE x \in S
  <2>1. PICK f \in [0 .. x - 1 -> D] : Is(f, x - 1)
    BY <1>2
  <2> DEFINE g == [k \in 0 .. x |-> IF k = x THEN G[<<x, f[x - 1]>>] ELSE f[k]]
  <2>2. f[x - 1] \in D
    OBVIOUS
  <2>3. G[<<x, f[x - 1]>>] \in D
    BY <2>2
  <2>4. g \in [0 .. x -> D]
    BY <2>3
  <2>5. g[0] = a
    BY <2>1
  <2>6. ASSUME NEW k \in 1 .. x PROVE g[k] = G[<<k, g[k - 1]>>]
    <3>1. k - 1 \in 0 .. x /\ k - 1 # x
      OBVIOUS
    <3>2. g[k - 1] = f[k - 1]
      BY <3>1
    <3>3. CASE k = x
      <4>1. g[x] = G[<<x, f[x - 1]>>]
        OBVIOUS
      <4> HIDE DEF g
      <4> QED BY <3>2, <3>3, <4>1
    <3>4. CASE k # x
      <4>1. k \in 1 .. x - 1 /\ g[k] = f[k]
        BY <3>4
      <4> QED BY <2>1, <3>2, <4>1
    <3> QED BY <3>3, <3>4
  <2> HIDE DEF g
  <2>7. Is(g, x)
    BY <2>5, <2>6
  <2> QED BY <2>4, <2>7
<1>3. n \in S
  <2> HIDE DEF S
  <2> QED BY <1>1, <1>2, UpTo
<1> QED BY <1>3

------------------------------------------------------------------------------
(* What can be reached in at most k steps. *)

Onward(E, R) == R \cup {e[2] : e \in {e \in E : e[1] \in R}}

IsWithin(w, E, S, n) ==
  w = [k \in 0 .. n |-> IF k = 0 THEN S ELSE Onward(E, w[k - 1])]

Within(E, S, n) == CHOOSE w : IsWithin(w, E, S, n)

IsGraph(E, n) == n \in Nat \ {0} /\ E \subseteq (1 .. n) \X (1 .. n)

Closed(E, C) == \A e \in E : e[1] \in C => e[2] \in C

LEMMA OnwardType ==
  ASSUME NEW n, NEW E, IsGraph(E, n), NEW R \in SUBSET (1 .. n)
  PROVE  Onward(E, R) \in SUBSET (1 .. n)
BY Zenon DEF IsGraph, Onward

LEMMA WithinRounds ==
  ASSUME NEW n, NEW E, IsGraph(E, n), NEW S \in SUBSET (1 .. n)
  PROVE  /\ Within(E, S, n) \in [0 .. n -> SUBSET (1 .. n)]
         /\ Within(E, S, n)[0] = S
         /\ \A k \in 1 .. n : Within(E, S, n)[k] = Onward(E, Within(E, S, n)[k - 1])
<1> DEFINE D == SUBSET (1 .. n)
           G == [p \in (1 .. n) \X D |-> Onward(E, p[2])]
<1>0. n \in Nat
  BY DEF IsGraph
<1>1. G \in [(1 .. n) \X D -> D]
  BY OnwardType
<1>2. PICK f \in [0 .. n -> D] : IsRecursion(f, n, S, G)
  <2> HIDE DEF G, D
  <2>1. S \in D
    BY DEF D
  <2> QED BY <1>0, <1>1, <2>1, Recursion, Zenon
<1>3. ASSUME NEW k \in 1 .. n PROVE f[k] = Onward(E, f[k - 1])
  <2>1. f[k - 1] \in D
    BY <1>0
  <2>2. G[<<k, f[k - 1]>>] = Onward(E, f[k - 1])
    BY <2>1
  <2> HIDE DEF G
  <2> QED BY <1>2, <2>2 DEF IsRecursion
<1>4. f = [k \in 0 .. n |-> f[k]] /\ f[0] = S
  BY <1>2 DEF IsRecursion
<1>5. \A k \in 0 .. n : f[k] = IF k = 0 THEN S ELSE Onward(E, f[k - 1])
  <2> SUFFICES ASSUME NEW k \in 0 .. n, k # 0 PROVE f[k] = Onward(E, f[k - 1])
    BY <1>4
  <2>1. k \in 1 .. n
    BY <1>0
  <2> QED BY <1>3, <2>1
<1>6. IsWithin(f, E, S, n)
  BY <1>4, <1>5, Zenon DEF IsWithin
<1>7. PICK w : w = Within(E, S, n)
  OBVIOUS
<1>8. IsWithin(w, E, S, n)
  BY <1>6, <1>7, Zenon DEF Within
<1>9. w[0] = S /\ \A k \in 1 .. n : w[k] = Onward(E, w[k - 1])
  BY <1>0, <1>8 DEF IsWithin
<1>10. \A k \in 0 .. n : w[k] \in D
  <2> DEFINE T == {k \in 0 .. n : w[k] \in D}
  <2>1. 0 \in T
    <3>1. 0 \in 0 .. n /\ w[0] \in D
      BY <1>0, <1>9
    <3> QED BY <3>1, Zenon
  <2>2. ASSUME NEW k \in 1 .. n, k - 1 \in T PROVE k \in T
    BY <1>0, <1>9, <2>2, OnwardType
  <2> HIDE DEF T
  <2>3. \A k \in 0 .. n : k \in T
    BY <1>0, <2>1, <2>2, UpTo
  <2> QED BY <2>3 DEF T
<1>11. w \in [0 .. n -> D]
  <2>1. w = [k \in 0 .. n |-> w[k]]
    BY <1>8 DEF IsWithin
  <2> QED BY <1>10, <2>1
<1> QED BY <1>7, <1>9, <1>11

\* As long as something new is reached, a round adds a node.
LEMMA WithinGrows ==
  ASSUME NEW n, NEW E, IsGraph(E, n), NEW S \in SUBSET (1 .. n),
         NEW w, w = Within(E, S, n)
  PROVE  \A k \in 0 .. n : Closed(E, w[k]) \/ Cardinality(w[k]) >= k + 1
<1> DEFINE T == {k \in 0 .. n : Closed(E, w[k]) \/ Cardinality(w[k]) >= k + 1}
<1>0. n \in Nat
  BY DEF IsGraph
<1>1. /\ w \in [0 .. n -> SUBSET (1 .. n)] /\ w[0] = S
      /\ \A k \in 1 .. n : w[k] = Onward(E, w[k - 1])
  BY WithinRounds
<1>2. \A R \in SUBSET (1 .. n) : IsFiniteSet(R) /\ Cardinality(R) \in Nat
  <2>1. IsFiniteSet(1 .. n)
    BY <1>0, FS_Interval
  <2> SUFFICES ASSUME NEW R \in SUBSET (1 .. n) PROVE IsFiniteSet(R) /\ Cardinality(R) \in Nat
    OBVIOUS
  <2>2. IsFiniteSet(R)
    BY <2>1, FS_Subset, Zenon
  <2> QED BY <2>2, FS_CardinalityType
<1>3. 0 \in T
  <2>1. CASE S = {}
    BY <1>0, <1>1, <2>1 DEF Closed
  <2>2. CASE S # {}
    <3>1. Cardinality(S) # 0
      BY <1>2, <2>2, FS_EmptySet
    <3> QED BY <1>0, <1>1, <1>2, <3>1
  <2> QED BY <2>1, <2>2
<1>4. ASSUME NEW k \in 1 .. n, k - 1 \in T PROVE k \in T
  <2>0. k - 1 \in 0 .. n /\ k \in 0 .. n
    BY <1>0
  <2>1. PICK Q, R : Q = w[k - 1] /\ R = w[k]
    OBVIOUS
  <2>2. Q \in SUBSET (1 .. n) /\ R \in SUBSET (1 .. n) /\ R = Onward(E, Q)
    BY <1>1, <2>0, <2>1
  <2>3. CASE Closed(E, Q)
    <3>1. R = Q
      BY <2>2, <2>3 DEF Closed, Onward
    <3> QED BY <2>0, <2>1, <2>3, <3>1, Zenon
  <2>4. CASE ~Closed(E, Q)
    <3>1. PICK x \in R : x \notin Q
      BY <2>2, <2>4 DEF Closed, Onward
    <3>2. Q \cup {x} \subseteq R
      BY <2>2, <3>1 DEF Onward
    <3>3. Cardinality(Q \cup {x}) = Cardinality(Q) + 1
      BY <1>2, <2>2, <3>1, FS_AddElement
    <3>4. Cardinality(Q \cup {x}) <= Cardinality(R)
      BY <1>2, <2>2, <3>2, FS_Subset, Zenon
    <3>5. Cardinality(Q) >= k
      BY <1>4, <2>1, <2>4
    <3>6. Cardinality(Q) \in Nat /\ Cardinality(R) \in Nat
      BY <1>2, <2>2
    <3>7. Cardinality(R) >= k + 1
      BY <2>0, <3>3, <3>4, <3>5, <3>6
    <3> QED BY <2>0, <2>1, <3>7
  <2> QED BY <2>3, <2>4
<1> HIDE DEF T
<1>5. \A k \in 0 .. n : k \in T
  BY <1>0, <1>3, <1>4, UpTo
<1> QED BY <1>5 DEF T

LEMMA WithinClosed ==
  ASSUME NEW n, NEW E, IsGraph(E, n), NEW S \in SUBSET (1 .. n),
         NEW w, w = Within(E, S, n)
  PROVE  Closed(E, w[n - 1]) /\ w[n] = w[n - 1]
<1>0. n \in Nat \ {0} /\ n - 1 \in 0 .. n /\ n \in 1 .. n
  BY DEF IsGraph
<1>1. w[n - 1] \in SUBSET (1 .. n) /\ w[n] = Onward(E, w[n - 1])
  BY <1>0, WithinRounds
<1>2. Closed(E, w[n - 1])
  <2> SUFFICES ASSUME Cardinality(w[n - 1]) >= n PROVE Closed(E, w[n - 1])
    <3>1. Closed(E, w[n - 1]) \/ Cardinality(w[n - 1]) >= (n - 1) + 1
      BY <1>0, WithinGrows
    <3> QED BY <1>0, <3>1
  <2>1. IsFiniteSet(1 .. n) /\ Cardinality(1 .. n) = n
    BY <1>0, FS_Interval
  <2>2. w[n - 1] = 1 .. n
    <3>1. Cardinality(w[n - 1]) <= Cardinality(1 .. n) /\ IsFiniteSet(w[n - 1])
      BY <1>1, <2>1, FS_Subset, Zenon
    <3>2. Cardinality(w[n - 1]) \in Nat
      BY <3>1, FS_CardinalityType
    <3> QED BY <1>0, <1>1, <2>1, <3>1, <3>2, FS_Subset
  <2> QED BY <2>2 DEF Closed, IsGraph
<1>3. w[n] = w[n - 1]
  BY <1>1, <1>2 DEF Closed, Onward
<1> QED BY <1>2, <1>3

LEMMA WithinLeast ==
  ASSUME NEW n, NEW E, IsGraph(E, n), NEW S \in SUBSET (1 .. n),
         NEW w, w = Within(E, S, n), NEW C, S \subseteq C, Closed(E, C)
  PROVE  \A k \in 0 .. n : w[k] \subseteq C
<1> DEFINE T == {k \in 0 .. n : w[k] \subseteq C}
<1>0. n \in Nat
  BY DEF IsGraph
<1>1. w[0] = S /\ \A k \in 1 .. n : w[k] = Onward(E, w[k - 1])
  BY WithinRounds
<1>2. 0 \in T
  <2>1. 0 \in 0 .. n /\ w[0] \subseteq C
    BY <1>0, <1>1
  <2> QED BY <2>1, Zenon
<1>3. ASSUME NEW k \in 1 .. n, k - 1 \in T PROVE k \in T
  BY <1>0, <1>1, <1>3 DEF Onward, Closed
<1> HIDE DEF T
<1>4. \A k \in 0 .. n : k \in T
  BY <1>0, <1>2, <1>3, UpTo
<1> QED BY <1>4 DEF T

------------------------------------------------------------------------------
(* The analysis as a function of the graph g: what it looks for. *)

V(g) == 1 .. g.size

Arcs(g) == g.cf \cup g.df

After(g, n) == {e[2] : e \in {e \in Arcs(g) : e[1] = n}}

\* The nodes that use the value of v, and the steps against the arcs that do
\* not pass v.
Users(g, v) == {e[2] : e \in {e \in g.df : e[1] = v}}

Back(g, v) == Flipped({e \in Arcs(g) : e[1] # v})

Ways(g, v) == Within(Back(g, v), Users(g, v), g.size)

\* The nodes at whose entry v is live.
Upto(g, v) == Ways(g, v)[g.size]

\* Those that j sweeps are sure to have found.
Layer(g, v, j) ==
  IF j <= 0 THEN {} ELSE IF j <= g.size THEN Ways(g, v)[j - 1] ELSE Upto(g, v)

LEMMA BackGraph ==
  ASSUME NEW g \in Graphs, NEW v
  PROVE  /\ g.size \in Nat \ {0} /\ Arcs(g) \subseteq V(g) \X V(g)
         /\ IsGraph(Back(g, v), g.size) /\ Users(g, v) \in SUBSET (1 .. g.size)
<1>1. /\ g.size \in Nat \ {0} /\ Arcs(g) \subseteq V(g) \X V(g)
      /\ g.df \subseteq V(g) \X V(g)
  BY GraphAssumption DEF Arcs, V
<1>2. IsGraph(Back(g, v), g.size)
  BY <1>1 DEF IsGraph, Back, Flipped, V
<1>3. Users(g, v) \in SUBSET (1 .. g.size)
  BY <1>1 DEF Users, V
<1> QED BY <1>1, <1>2, <1>3

LEMMA BackSteps ==
  ASSUME NEW g \in Graphs, NEW v, NEW R, NEW n
  PROVE  n \in Onward(Back(g, v), R) <=> n \in R \/ (n # v /\ After(g, n) \cap R # {})
<1>1. Arcs(g) \subseteq V(g) \X V(g)
  BY BackGraph
<1>2. ASSUME NEW m PROVE <<m, n>> \in Back(g, v) <=> <<n, m>> \in Arcs(g) /\ n # v
  BY <1>1 DEF Back, Flipped
<1>3. ASSUME NEW m PROVE m \in After(g, n) <=> <<n, m>> \in Arcs(g)
  BY <1>1 DEF After
<1>4. n \in Onward(Back(g, v), R) <=> n \in R \/ \E m \in R : <<m, n>> \in Back(g, v)
  <2>1. \A e \in Back(g, v) : e = <<e[1], e[2]>>
    BY <1>1 DEF Back, Flipped
  <2> QED BY <2>1, ZenonT(40) DEF Onward
<1>5. (\E m \in R : <<m, n>> \in Back(g, v)) <=> n # v /\ After(g, n) \cap R # {}
  BY <1>2, <1>3, Zenon
<1> QED BY <1>4, <1>5

LEMMA UptoClosed ==
  ASSUME NEW g \in Graphs, NEW v, NEW n
  PROVE  /\ Users(g, v) \subseteq Upto(g, v)
         /\ n # v /\ After(g, n) \cap Upto(g, v) # {} => n \in Upto(g, v)
<1>1. PICK w, N : w = Ways(g, v) /\ N = g.size
  OBVIOUS
<1>2. N \in Nat \ {0} /\ IsGraph(Back(g, v), N) /\ Users(g, v) \in SUBSET (1 .. N)
  BY <1>1, BackGraph
<1>3. w = Within(Back(g, v), Users(g, v), N) /\ Upto(g, v) = w[N]
  BY <1>1 DEF Ways, Upto
<1>4. Closed(Back(g, v), w[N - 1]) /\ w[N] = w[N - 1]
  BY <1>2, <1>3, WithinClosed
<1>5. Onward(Back(g, v), w[N]) = w[N]
  BY <1>4 DEF Closed, Onward
<1>6. Users(g, v) \subseteq w[N]
  <2> DEFINE T == {k \in 0 .. N : Users(g, v) \subseteq w[k]}
  <2>1. w[0] = Users(g, v) /\ \A k \in 1 .. N : w[k] = Onward(Back(g, v), w[k - 1])
    BY <1>2, <1>3, WithinRounds
  <2>2. 0 \in T
    <3>1. 0 \in 0 .. N /\ Users(g, v) \subseteq w[0]
      BY <1>2, <2>1
    <3> QED BY <3>1, Zenon
  <2>3. ASSUME NEW k \in 1 .. N, k - 1 \in T PROVE k \in T
    BY <1>2, <2>1, <2>3 DEF Onward
  <2> HIDE DEF T
  <2>4. N \in T
    BY <1>2, <2>2, <2>3, UpTo
  <2> QED BY <2>4 DEF T
<1>7. n # v /\ After(g, n) \cap w[N] # {} => n \in w[N]
  BY <1>5, BackSteps
<1> QED BY <1>3, <1>6, <1>7

\* A node is in a set of the Ways for a reason: it uses v, or leads to one
\* that was in the set before.
LEMMA Reasons ==
  ASSUME NEW g \in Graphs, NEW v, NEW w, w = Ways(g, v)
  PROVE  \A k \in 0 .. g.size : \A n \in w[k] :
           n \in Users(g, v) \/ (k > 0 /\ n # v /\ After(g, n) \cap w[k - 1] # {})
<1> DEFINE Good(k) == \A n \in w[k] :
             n \in Users(g, v) \/ (k > 0 /\ n # v /\ After(g, n) \cap w[k - 1] # {})
           T == {k \in 0 .. g.size : Good(k)}
<1>0. g.size \in Nat \ {0}
  BY BackGraph
<1>1. w[0] = Users(g, v) /\ \A k \in 1 .. g.size : w[k] = Onward(Back(g, v), w[k - 1])
  BY BackGraph, WithinRounds DEF Ways
<1>2. 0 \in T
  <2>1. 0 \in 0 .. g.size /\ Good(0)
    BY <1>0, <1>1
  <2> QED BY <2>1, Zenon
<1>3. ASSUME NEW k \in 1 .. g.size, k - 1 \in T PROVE k \in T
  <2>1. Good(k - 1)
    BY <1>3
  <2>2. w[k] = Onward(Back(g, v), w[k - 1])
    BY <1>1
  <2>3. k - 1 > 0 => w[k - 2] \subseteq w[k - 1]
    <3> SUFFICES ASSUME k - 1 > 0 PROVE w[k - 2] \subseteq w[k - 1]
      OBVIOUS
    <3>1. k - 1 \in 1 .. g.size /\ (k - 1) - 1 = k - 2
      BY <1>0
    <3>2. w[k - 1] = Onward(Back(g, v), w[k - 2])
      BY <1>1, <3>1
    <3> QED BY <3>2 DEF Onward
  <2>4. Good(k)
    <3> SUFFICES ASSUME NEW n \in w[k], n \notin Users(g, v)
                 PROVE  n # v /\ After(g, n) \cap w[k - 1] # {}
      BY <1>0
    <3>1. n \in w[k - 1] \/ (n # v /\ After(g, n) \cap w[k - 1] # {})
      BY <2>2, BackSteps
    <3>2. CASE n \in w[k - 1]
      <4>1. k - 1 > 0 /\ n # v /\ After(g, n) \cap w[(k - 1) - 1] # {}
        BY <2>1, <3>2
      <4>2. (k - 1) - 1 = k - 2
        BY <1>0
      <4> QED BY <2>3, <4>1, <4>2
    <3> QED BY <3>1, <3>2
  <2>5. k \in 0 .. g.size
    BY <1>0
  <2> HIDE DEF Good
  <2> QED BY <2>4, <2>5
<1> HIDE DEF T
<1>4. \A k \in 0 .. g.size : k \in T
  BY <1>0, <1>2, <1>3, UpTo
<1> QED BY <1>4 DEF T

LEMMA Layers ==
  ASSUME NEW g \in Graphs, NEW v, NEW j \in Nat
  PROVE  /\ Layer(g, v, j) \subseteq Layer(g, v, j + 1)
         /\ j >= g.size => Layer(g, v, j) = Upto(g, v)
         /\ \A n \in Layer(g, v, j + 1) :
              n \in Users(g, v) \/ (n # v /\ After(g, n) \cap Layer(g, v, j) # {})
<1>1. PICK w, N : w = Ways(g, v) /\ N = g.size
  OBVIOUS
<1>2. N \in Nat \ {0} /\ IsGraph(Back(g, v), N) /\ Users(g, v) \in SUBSET (1 .. N)
  BY <1>1, BackGraph
<1>3. w = Within(Back(g, v), Users(g, v), N) /\ Upto(g, v) = w[N]
  BY <1>1 DEF Ways, Upto
<1>4. w[N] = w[N - 1]
  BY <1>2, <1>3, WithinClosed
<1>5. \A k \in 1 .. N : w[k - 1] \subseteq w[k]
  BY <1>2, <1>3, WithinRounds DEF Onward
<1>6. \A k \in 0 .. N : \A n \in w[k] :
        n \in Users(g, v) \/ (k > 0 /\ n # v /\ After(g, n) \cap w[k - 1] # {})
  BY <1>1, Reasons
<1>7. \A i \in Nat : Layer(g, v, i) = IF i = 0 THEN {} ELSE IF i <= N THEN w[i - 1] ELSE w[N]
  BY <1>1, <1>2, <1>3 DEF Layer
<1>8. CASE j = 0
  <2>1. Layer(g, v, j) = {} /\ Layer(g, v, j + 1) = w[0] /\ ~(j >= N)
    BY <1>2, <1>7, <1>8
  <2> QED BY <1>1, <1>2, <1>6, <2>1
<1>9. CASE j # 0 /\ j < N
  <2>1. Layer(g, v, j) = w[j - 1] /\ Layer(g, v, j + 1) = w[j] /\ ~(j >= N) /\ j \in 1 .. N
    BY <1>2, <1>7, <1>9
  <2> QED BY <1>1, <1>2, <1>5, <1>6, <2>1
<1>10. CASE j >= N
  <2>1. Layer(g, v, j) = w[N] /\ Layer(g, v, j + 1) = w[N]
    BY <1>2, <1>4, <1>7, <1>10
  <2>2. N \in 0 .. N
    BY <1>2
  <2> QED BY <1>1, <1>3, <1>4, <1>6, <2>1, <2>2, SMTT(30)
<1> QED BY <1>2, <1>8, <1>9, <1>10

------------------------------------------------------------------------------
(* One sweep. *)

Sols(g) == [V(g) -> [in : SUBSET V(g), out : SUBSET V(g)]]

Out(g, s, k) == UNION {s[m].in : m \in After(g, k)}

Visited(g, s, k) ==
  [s EXCEPT ![k] = [in  |-> {e[1] : e \in {e \in g.df : e[2] = k}}
                              \cup (Out(g, s, k) \ {k}),
                    out |-> Out(g, s, k)]]

IsSweep(a, g, s) ==
  a = [k \in 0 .. g.size |-> IF k = 0 THEN s ELSE Visited(g, a[k - 1], k)]

Sweep(g, s) == CHOOSE a : IsSweep(a, g, s)

LEMMA VisitedIs ==
  ASSUME NEW g \in Graphs, NEW s \in Sols(g), NEW k \in V(g),
         NEW t, t = Visited(g, s, k)
  PROVE  /\ t \in Sols(g)
         /\ \A m \in V(g) : m # k => t[m] = s[m]
         /\ \A v \in V(g) : v \in t[k].out <=> \E m \in After(g, k) : v \in s[m].in
         /\ \A v \in V(g) :
              v \in t[k].in <=> k \in Users(g, v) \/ (v # k /\ v \in t[k].out)
<1> DEFINE used == {e[1] : e \in {e \in g.df : e[2] = k}}
<1>1. Arcs(g) \subseteq V(g) \X V(g) /\ g.df \subseteq V(g) \X V(g)
  BY BackGraph DEF Arcs
<1>2. After(g, k) \subseteq V(g) /\ used \subseteq V(g)
  BY <1>1 DEF After
<1>3. \A m \in V(g) : s[m] \in [in : SUBSET V(g), out : SUBSET V(g)]
  BY DEF Sols
<1>4. Out(g, s, k) \subseteq V(g)
  BY <1>2, <1>3 DEF Out
<1>5. PICK r : r = [in |-> used \cup (Out(g, s, k) \ {k}), out |-> Out(g, s, k)]
  BY Zenon
<1>6. r \in [in : SUBSET V(g), out : SUBSET V(g)]
  BY <1>2, <1>4, <1>5
<1>7. t = [s EXCEPT ![k] = r]
  BY <1>5 DEF Visited
<1>8. t \in Sols(g) /\ t[k] = r /\ \A m \in V(g) : m # k => t[m] = s[m]
  BY <1>6, <1>7 DEF Sols
<1>9. ASSUME NEW v \in V(g) PROVE v \in used <=> k \in Users(g, v)
  BY <1>1 DEF Users
<1>10. ASSUME NEW v PROVE v \in Out(g, s, k) <=> \E m \in After(g, k) : v \in s[m].in
  BY DEF Out
<1>11. r.in = used \cup (Out(g, s, k) \ {k}) /\ r.out = Out(g, s, k)
  BY <1>5
<1> HIDE DEF used
<1>12. ASSUME NEW v \in V(g)
       PROVE  /\ v \in t[k].out <=> \E m \in After(g, k) : v \in s[m].in
              /\ v \in t[k].in <=> k \in Users(g, v) \/ (v # k /\ v \in t[k].out)
  <2>1. v \in t[k].out <=> v \in Out(g, s, k)
    BY <1>8, <1>11
  <2>2. v \in t[k].in <=> v \in used \/ (v # k /\ v \in Out(g, s, k))
    BY <1>8, <1>11
  <2> QED BY <1>9, <1>10, <2>1, <2>2, Zenon
<1> QED BY <1>8, <1>12

LEMMA SweepRounds ==
  ASSUME NEW g \in Graphs, NEW s \in Sols(g)
  PROVE  /\ Sweep(g, s) \in [0 .. g.size -> Sols(g)]
         /\ Sweep(g, s)[0] = s
         /\ \A k \in 1 .. g.size : Sweep(g, s)[k] = Visited(g, Sweep(g, s)[k - 1], k)
<1> DEFINE n == g.size
           D == Sols(g)
           G == [p \in (1 .. n) \X D |-> Visited(g, p[2], p[1])]
<1>0. n \in Nat \ {0}
  BY BackGraph
<1>1. G \in [(1 .. n) \X D -> D]
  <2> SUFFICES ASSUME NEW k \in 1 .. n, NEW x \in D PROVE Visited(g, x, k) \in D
    OBVIOUS
  <2> QED BY VisitedIs DEF V
<1>2. \A k \in 1 .. n : \A x \in D : G[<<k, x>>] = Visited(g, x, k)
  OBVIOUS
<1> HIDE DEF G
<1>3. PICK f \in [0 .. n -> D] : IsRecursion(f, n, s, G)
  BY <1>0, <1>1, Recursion, Zenon
<1>4. f[0] = s /\ \A k \in 1 .. n : f[k] = Visited(g, f[k - 1], k)
  <2>1. f[0] = s /\ \A k \in 1 .. n : f[k] = G[<<k, f[k - 1]>>]
    BY <1>3 DEF IsRecursion
  <2>2. \A k \in 1 .. n : f[k - 1] \in D
    BY <1>0
  <2> QED BY <1>2, <2>1, <2>2, Zenon
<1>5. IsSweep(f, g, s)
  <2> SUFFICES ASSUME NEW k \in 0 .. n
               PROVE  f[k] = IF k = 0 THEN s ELSE Visited(g, f[k - 1], k)
    BY DEF IsSweep
  <2> QED BY <1>0, <1>4
<1>6. IsSweep(Sweep(g, s), g, s)
  BY <1>5 DEF Sweep
<1>7. PICK a : a = Sweep(g, s)
  OBVIOUS
<1>8. a = [k \in 0 .. n |-> IF k = 0 THEN s ELSE Visited(g, a[k - 1], k)]
  BY <1>6, <1>7, Zenon DEF IsSweep
<1>9. a[0] = s /\ \A k \in 1 .. n : a[k] = Visited(g, a[k - 1], k)
  <2>1. 0 \in 0 .. n /\ \A k \in 1 .. n : k \in 0 .. n /\ k # 0
    BY <1>0
  <2>2. \A k \in 0 .. n : a[k] = IF k = 0 THEN s ELSE Visited(g, a[k - 1], k)
    BY <1>8, Zenon
  <2> QED BY <2>1, <2>2
<1> DEFINE T == {k \in 0 .. n : a[k] = f[k]}
<1>10. 0 \in T
  <2>1. 0 \in 0 .. n /\ a[0] = f[0]
    BY <1>0, <1>4, <1>9
  <2> QED BY <2>1, Zenon
<1>11. ASSUME NEW k \in 1 .. n, k - 1 \in T PROVE k \in T
  <2>1. a[k - 1] = f[k - 1] /\ k \in 0 .. n
    BY <1>0, <1>11
  <2> QED BY <1>4, <1>9, <2>1
<1> HIDE DEF T
<1>12. \A k \in 0 .. n : k \in T
  BY <1>0, <1>10, <1>11, UpTo, Zenon
<1>13. \A k \in 0 .. n : a[k] \in D
  BY <1>12 DEF T
<1>14. a \in [0 .. n -> D]
  <2>1. a = [k \in 0 .. n |-> a[k]]
    BY <1>8
  <2> QED BY <1>13, <2>1
<1> QED BY <1>7, <1>9, <1>14

------------------------------------------------------------------------------
(* What the sweeps have found is live, and after j of them the layers up to  *)
(* the j-th are found.                                                       *)

Sound(g, s) ==
  \A n, v \in V(g) :
    /\ v \in s[n].in => n \in Upto(g, v)
    /\ v \in s[n].out => After(g, n) \cap Upto(g, v) # {}

FullAt(g, s, n, j) ==
  \A v \in V(g) :
    /\ n \in Layer(g, v, j) => v \in s[n].in
    /\ \A i \in Nat :
         i + 1 = j /\ After(g, n) \cap Layer(g, v, i) # {} => v \in s[n].out

Full(g, s, j) == \A n \in V(g) : FullAt(g, s, n, j)

Exact(g, s) ==
  \A n, v \in V(g) :
    /\ v \in s[n].in <=> n \in Upto(g, v)
    /\ v \in s[n].out <=> After(g, n) \cap Upto(g, v) # {}

LEMMA AfterType ==
  ASSUME NEW g \in Graphs, NEW n
  PROVE  After(g, n) \subseteq V(g)
<1>1. Arcs(g) \subseteq V(g) \X V(g)
  BY BackGraph
<1> QED BY <1>1 DEF After

LEMMA VisitSound ==
  ASSUME NEW g \in Graphs, NEW s \in Sols(g), NEW k \in V(g),
         NEW t, t = Visited(g, s, k), Sound(g, s)
  PROVE  Sound(g, t)
<1> SUFFICES ASSUME NEW n \in V(g), NEW v \in V(g)
             PROVE  /\ v \in t[n].in => n \in Upto(g, v)
                    /\ v \in t[n].out => After(g, n) \cap Upto(g, v) # {}
  BY DEF Sound
<1>1. CASE n # k
  <2>1. t[n] = s[n]
    BY <1>1, VisitedIs
  <2> QED BY <2>1 DEF Sound
<1>2. CASE n = k
  <2>1. v \in t[k].out <=> \E m \in After(g, k) : v \in s[m].in
    BY VisitedIs
  <2>2. v \in t[k].in <=> k \in Users(g, v) \/ (v # k /\ v \in t[k].out)
    BY VisitedIs, SMTT(30)
  <2>3. v \in t[k].out => After(g, k) \cap Upto(g, v) # {}
    BY <2>1, AfterType DEF Sound
  <2>4. /\ Users(g, v) \subseteq Upto(g, v)
        /\ k # v /\ After(g, k) \cap Upto(g, v) # {} => k \in Upto(g, v)
    BY UptoClosed
  <2> QED BY <1>2, <2>2, <2>3, <2>4, SMTT(30)
<1> QED BY <1>1, <1>2

LEMMA FullLess ==
  ASSUME NEW g \in Graphs, NEW s, NEW n, NEW j \in Nat, FullAt(g, s, n, j + 1)
  PROVE  FullAt(g, s, n, j)
<1> SUFFICES ASSUME NEW v \in V(g)
             PROVE  /\ n \in Layer(g, v, j) => v \in s[n].in
                    /\ \A i \in Nat : i + 1 = j /\ After(g, n) \cap Layer(g, v, i) # {}
                                      => v \in s[n].out
  BY DEF FullAt
<1>1. n \in Layer(g, v, j + 1) => v \in s[n].in
  BY DEF FullAt
<1>2. After(g, n) \cap Layer(g, v, j) # {} => v \in s[n].out
  BY DEF FullAt
<1>3. Layer(g, v, j) \subseteq Layer(g, v, j + 1)
  BY Layers
<1>4. \A i \in Nat : Layer(g, v, i) \subseteq Layer(g, v, i + 1)
  BY Layers
<1> QED BY <1>1, <1>2, <1>3, <1>4

LEMMA VisitFull ==
  ASSUME NEW g \in Graphs, NEW s \in Sols(g), NEW k \in V(g),
         NEW t, t = Visited(g, s, k), NEW j \in Nat, Full(g, s, j)
  PROVE  FullAt(g, t, k, j + 1)
<1> SUFFICES ASSUME NEW v \in V(g)
             PROVE  /\ k \in Layer(g, v, j + 1) => v \in t[k].in
                    /\ After(g, k) \cap Layer(g, v, j) # {} => v \in t[k].out
  <2>1. ASSUME NEW i \in Nat, i + 1 = j + 1 PROVE i = j
    BY <2>1
  <2> QED BY <2>1 DEF FullAt
<1>1. v \in t[k].out <=> \E m \in After(g, k) : v \in s[m].in
  BY VisitedIs
<1>2. v \in t[k].in <=> k \in Users(g, v) \/ (v # k /\ v \in t[k].out)
  BY VisitedIs
<1>3. \A m \in After(g, k) : m \in Layer(g, v, j) => v \in s[m].in
  BY AfterType DEF Full, FullAt
<1>4. After(g, k) \cap Layer(g, v, j) # {} => v \in t[k].out
  BY <1>1, <1>3
<1>5. k \in Layer(g, v, j + 1) =>
        k \in Users(g, v) \/ (k # v /\ After(g, k) \cap Layer(g, v, j) # {})
  BY Layers
<1> QED BY <1>2, <1>4, <1>5

\* A sweep keeps the one and gains a layer of the other.
LEMMA SweepGains ==
  ASSUME NEW g \in Graphs, NEW s \in Sols(g), NEW j \in Nat,
         Sound(g, s), Full(g, s, j), NEW a, a = Sweep(g, s)
  PROVE  /\ a[g.size] \in Sols(g)
         /\ Sound(g, a[g.size])
         /\ Full(g, a[g.size], j + 1)
<1> DEFINE n == g.size
           Gained(k) == \A m \in V(g) : m <= k => FullAt(g, a[k], m, j + 1)
           T == {k \in 0 .. n : Sound(g, a[k]) /\ Full(g, a[k], j) /\ Gained(k)}
<1>0. n \in Nat \ {0} /\ V(g) = 1 .. n
  BY BackGraph DEF V
<1>1. /\ a \in [0 .. n -> Sols(g)]
      /\ a[0] = s
      /\ \A k \in 1 .. n : a[k] = Visited(g, a[k - 1], k)
  BY SweepRounds
<1>2. 0 \in T
  <2>1. Gained(0)
    BY <1>0
  <2>2. 0 \in 0 .. n /\ Sound(g, a[0]) /\ Full(g, a[0], j)
    BY <1>0, <1>1
  <2> HIDE DEF Gained
  <2> QED BY <2>1, <2>2, Zenon
<1>3. ASSUME NEW k \in 1 .. n, k - 1 \in T PROVE k \in T
  <2>1. PICK x, t : x = a[k - 1] /\ t = a[k]
    OBVIOUS
  <2>2. k \in V(g) /\ x \in Sols(g) /\ t = Visited(g, x, k)
    BY <1>0, <1>1, <2>1
  <2>3. Sound(g, x) /\ Full(g, x, j) /\ \A m \in V(g) : m <= k - 1 => FullAt(g, x, m, j + 1)
    BY <1>3, <2>1
  <2>4. Sound(g, t)
    BY <2>2, <2>3, VisitSound
  <2>5. FullAt(g, t, k, j + 1)
    BY <2>2, <2>3, VisitFull
  <2>10. \A m \in V(g) : m # k => t[m] = x[m]
    <3> HIDE DEF T, Gained
    <3> QED BY <2>2, VisitedIs
  <2>6. ASSUME NEW m \in V(g), m # k, NEW i, FullAt(g, x, m, i)
        PROVE  FullAt(g, t, m, i)
    <3>1. t[m] = x[m]
      BY <2>6, <2>10
    <3> QED BY <2>6, <3>1 DEF FullAt
  <2>7. ASSUME NEW m \in V(g), m <= k PROVE FullAt(g, t, m, j + 1)
    <3>1. CASE m = k
      BY <2>5, <3>1
    <3>2. CASE m # k
      <4>1. m <= k - 1
        BY <1>0, <2>7, <3>2
      <4> QED BY <2>3, <2>6, <3>2, <4>1
    <3> QED BY <3>1, <3>2
  <2>8. Full(g, t, j)
    <3> SUFFICES ASSUME NEW m \in V(g) PROVE FullAt(g, t, m, j)
      BY DEF Full
    <3>1. CASE m = k
      BY <2>5, <3>1, FullLess
    <3>2. CASE m # k
      BY <2>3, <2>6, <3>2 DEF Full
    <3> QED BY <3>1, <3>2
  <2>9. Gained(k) /\ k \in 0 .. n
    BY <1>0, <2>1, <2>7
  <2> HIDE DEF Gained
  <2> QED BY <2>1, <2>4, <2>8, <2>9, Zenon
<1> HIDE DEF T
<1>4. \A k \in 0 .. n : k \in T
  BY <1>0, <1>2, <1>3, UpTo, Zenon
<1>5. Sound(g, a[n]) /\ \A m \in V(g) : FullAt(g, a[n], m, j + 1)
  BY <1>0, <1>4 DEF T
<1>6. a[n] \in Sols(g)
  BY <1>0, <1>1
<1> QED BY <1>5, <1>6 DEF Full

\* A sweep that ends where it began has changed nothing on the way.
LEMMA SweepStill ==
  ASSUME NEW g \in Graphs, NEW s \in Sols(g), NEW a, a = Sweep(g, s),
         a[g.size] = s
  PROVE  \A k \in V(g) : Visited(g, s, k) = s
<1> DEFINE n == g.size
           Same(k) == \A m \in V(g) : a[k][m] = IF m <= k THEN a[m][m] ELSE s[m]
           T == {k \in 0 .. n : Same(k)}
<1>0. n \in Nat \ {0} /\ V(g) = 1 .. n
  BY BackGraph DEF V
<1>1. /\ a \in [0 .. n -> Sols(g)]
      /\ a[0] = s
      /\ \A k \in 1 .. n : a[k] = Visited(g, a[k - 1], k)
  BY SweepRounds
<1>2. 0 \in T
  <2>1. 0 \in 0 .. n /\ Same(0)
    BY <1>0, <1>1
  <2> QED BY <2>1, Zenon
<1>3. ASSUME NEW k \in 1 .. n, k - 1 \in T PROVE k \in T
  <2>1. PICK x, t : x = a[k - 1] /\ t = a[k]
    OBVIOUS
  <2>2. k \in V(g) /\ x \in Sols(g) /\ t = Visited(g, x, k)
    BY <1>0, <1>1, <2>1
  <2>3. \A m \in V(g) : x[m] = IF m <= k - 1 THEN a[m][m] ELSE s[m]
    BY <1>3, <2>1
  <2>4. \A m \in V(g) : m # k => t[m] = x[m]
    <3> HIDE DEF T, Same
    <3> QED BY <2>2, VisitedIs
  <2>5. ASSUME NEW m \in V(g) PROVE t[m] = IF m <= k THEN a[m][m] ELSE s[m]
    <3>1. CASE m = k
      BY <1>0, <2>1, <3>1
    <3>2. CASE m # k
      <4>1. m <= k - 1 <=> m <= k
        BY <1>0, <3>2
      <4> QED BY <2>3, <2>4, <3>2, <4>1
    <3> QED BY <3>1, <3>2
  <2>6. Same(k) /\ k \in 0 .. n
    BY <1>0, <2>1, <2>5
  <2> HIDE DEF Same
  <2> QED BY <2>6, Zenon
<1> HIDE DEF T
<1>4. \A k \in 0 .. n : k \in T
  BY <1>0, <1>2, <1>3, UpTo, Zenon
<1>5. \A k \in 0 .. n : Same(k)
  BY <1>4 DEF T
<1>6. ASSUME NEW m \in V(g) PROVE s[m] = a[m][m]
  <2>1. n \in 0 .. n /\ m <= n
    BY <1>0
  <2> QED BY <1>5, <2>1
<1>7. ASSUME NEW k \in 0 .. n PROVE a[k] = s
  <2>1. \A m \in V(g) : a[k][m] = s[m]
    BY <1>5, <1>6
  <2>2. a[k] \in Sols(g)
    BY <1>1
  <2> QED BY <2>1, <2>2 DEF Sols
<1>8. ASSUME NEW k \in V(g) PROVE Visited(g, s, k) = s
  <2>1. k \in 0 .. n /\ k - 1 \in 0 .. n /\ k \in 1 .. n
    BY <1>0
  <2> QED BY <1>1, <1>7, <2>1
<1> QED BY <1>8

\* Nothing to change, and nothing found that is not live: all is found.
LEMMA StillExact ==
  ASSUME NEW g \in Graphs, NEW s \in Sols(g), Sound(g, s),
         \A k \in V(g) : Visited(g, s, k) = s
  PROVE  Exact(g, s)
<1> SUFFICES ASSUME NEW v \in V(g)
             PROVE  \A n \in V(g) :
                      /\ v \in s[n].in <=> n \in Upto(g, v)
                      /\ v \in s[n].out <=> After(g, n) \cap Upto(g, v) # {}
  BY DEF Exact
<1> DEFINE C == {n \in V(g) : v \in s[n].in}
<1>1. ASSUME NEW k \in V(g)
      PROVE  /\ v \in s[k].out <=> \E m \in After(g, k) : v \in s[m].in
             /\ v \in s[k].in <=> k \in Users(g, v) \/ (v # k /\ v \in s[k].out)
  BY VisitedIs
<1>2. Users(g, v) \subseteq V(g) /\ IsGraph(Back(g, v), g.size) /\ g.size \in Nat \ {0}
  BY BackGraph DEF V
<1>3. Users(g, v) \subseteq C
  BY <1>1, <1>2
<1>4. ASSUME NEW n \in V(g), n # v, After(g, n) \cap C # {} PROVE n \in C
  BY <1>1, <1>4
<1>5. Closed(Back(g, v), C)
  <2>1. Arcs(g) \subseteq V(g) \X V(g)
    BY BackGraph
  <2> SUFFICES ASSUME NEW e \in Arcs(g), e[1] # v, e[2] \in C PROVE e[1] \in C
    BY <2>1 DEF Closed, Back, Flipped
  <2>2. e[2] \in After(g, e[1]) /\ e[1] \in V(g)
    BY <2>1 DEF After
  <2> HIDE DEF C
  <2> QED BY <1>4, <2>2
<1> HIDE DEF C
<1>6. Upto(g, v) \subseteq C
  <2>1. \A k \in 0 .. g.size : Ways(g, v)[k] \subseteq C
    BY <1>2, <1>3, <1>5, WithinLeast DEF Ways, V
  <2>2. g.size \in 0 .. g.size
    BY <1>2
  <2> QED BY <2>1, <2>2 DEF Upto
<1>7. ASSUME NEW n \in V(g) PROVE v \in s[n].in <=> n \in Upto(g, v)
  BY <1>6 DEF C, Sound
<1>8. ASSUME NEW n \in V(g) PROVE v \in s[n].out <=> After(g, n) \cap Upto(g, v) # {}
  <2>1. After(g, n) \cap Upto(g, v) # {} => v \in s[n].out
    BY <1>1, <1>6 DEF C
  <2> QED BY <2>1 DEF Sound
<1> QED BY <1>7, <1>8

LEMMA FullExact ==
  ASSUME NEW g \in Graphs, NEW s, Sound(g, s), NEW j \in Nat,
         j >= g.size + 1, Full(g, s, j)
  PROVE  Exact(g, s)
<1>1. g.size \in Nat
  BY BackGraph
<1>2. PICK i \in Nat : i + 1 = j /\ i >= g.size
  <2>1. j - 1 \in Nat /\ (j - 1) + 1 = j /\ j - 1 >= g.size
    BY <1>1
  <2> QED BY <2>1
<1>3. \A v : Layer(g, v, i) = Upto(g, v) /\ Layer(g, v, j) = Upto(g, v)
  <2>1. j >= g.size
    BY <1>1
  <2> QED BY <1>2, <2>1, Layers
<1> SUFFICES ASSUME NEW n \in V(g), NEW v \in V(g)
             PROVE  /\ v \in s[n].in <=> n \in Upto(g, v)
                    /\ v \in s[n].out <=> After(g, n) \cap Upto(g, v) # {}
  BY DEF Exact
<1>4. /\ n \in Layer(g, v, j) => v \in s[n].in
      /\ After(g, n) \cap Layer(g, v, i) # {} => v \in s[n].out
  BY <1>2 DEF Full, FullAt
<1> QED BY <1>3, <1>4 DEF Sound

LEMMA ExactOnce ==
  ASSUME NEW g \in Graphs, NEW s \in Sols(g), NEW t \in Sols(g),
         Exact(g, s), Exact(g, t)
  PROVE  s = t
<1>1. ASSUME NEW n \in V(g) PROVE s[n] = t[n]
  <2>1. /\ s[n] \in [in : SUBSET V(g), out : SUBSET V(g)]
        /\ t[n] \in [in : SUBSET V(g), out : SUBSET V(g)]
    BY DEF Sols
  <2>2. \A v \in V(g) : v \in s[n].in <=> v \in t[n].in
    BY DEF Exact
  <2>3. \A v \in V(g) : v \in s[n].out <=> v \in t[n].out
    BY DEF Exact
  <2>4. s[n].in = t[n].in /\ s[n].out = t[n].out
    BY <2>1, <2>2, <2>3
  <2> QED BY <2>1, <2>4
<1> QED BY <1>1 DEF Sols

------------------------------------------------------------------------------
(* The analysis. *)

Good(g, s, j, still) ==
  /\ s \in Sols(g) /\ j \in Nat
  /\ Sound(g, s)
  /\ Full(g, s, j)
  /\ j <= g.size + 2
  /\ j = g.size + 2 => still
  /\ still => Exact(g, s)

LiveInv == job = "liveness" /\ flow \in Graphs /\ Good(flow, sol, sweeps, settled)

LEMMA GoodStart ==
  ASSUME NEW g \in Graphs, NEW s, s = [v \in V(g) |-> [in |-> {}, out |-> {}]]
  PROVE  Good(g, s, 0, FALSE)
<1>1. s \in Sols(g)
  BY DEF Sols
<1>2. \A n \in V(g) : s[n].in = {} /\ s[n].out = {}
  OBVIOUS
<1>3. Sound(g, s)
  BY <1>2 DEF Sound
<1>4. Full(g, s, 0)
  BY DEF Full, FullAt, Layer
<1>5. 0 \in Nat /\ 0 <= g.size + 2 /\ 0 # g.size + 2
  BY BackGraph
<1> QED BY <1>1, <1>3, <1>4, <1>5, SMTT(30) DEF Good

LEMMA GoodStep ==
  ASSUME NEW g \in Graphs, NEW s, NEW j, Good(g, s, j, FALSE),
         NEW t, t = Sweep(g, s)[g.size]
  PROVE  Good(g, t, j + 1, t = s)
<1>0. g.size \in Nat
  BY BackGraph
<1>1. /\ s \in Sols(g) /\ j \in Nat /\ Sound(g, s) /\ Full(g, s, j)
      /\ j <= g.size + 2 /\ j # g.size + 2
  BY DEF Good
<1>2. t \in Sols(g) /\ Sound(g, t) /\ Full(g, t, j + 1)
  BY <1>1, SweepGains
<1>3. j + 1 \in Nat /\ j + 1 <= g.size + 2
  BY <1>0, <1>1
<1>4. ASSUME j + 1 = g.size + 2 PROVE t = s
  <2>1. j >= g.size + 1 /\ j + 1 >= g.size + 1
    BY <1>0, <1>1, <1>4
  <2>2. Exact(g, s)
    BY <1>1, <2>1, FullExact, SMTT(30)
  <2>3. Exact(g, t)
    BY <1>2, <1>3, <2>1, FullExact, SMTT(30)
  <2> QED BY <1>1, <1>2, <2>2, <2>3, ExactOnce, SMTT(30)
<1>5. ASSUME t = s PROVE Exact(g, t)
  <2>1. \A k \in V(g) : Visited(g, s, k) = s
    BY <1>1, <1>5, SweepStill, Zenon
  <2> QED BY <1>1, <1>5, <2>1, StillExact, SMTT(30)
<1> QED BY <1>2, <1>3, <1>4, <1>5, SMTT(30) DEF Good

LEMMA LiveTerms ==
  ASSUME job = "liveness"
  PROVE  /\ Nodes = V(flow) /\ Edges = Arcs(flow)
         /\ \A n : Succs(n) = After(flow, n)
         /\ \A x, k : LiveNode(x, k) = Visited(flow, x, k)
<1>1. Nodes = V(flow) /\ Edges = Arcs(flow)
  BY DEF Nodes, V, Edges, Arcs
<1>2. ASSUME NEW n PROVE Succs(n) = After(flow, n)
  BY <1>1 DEF Succs, After
<1>3. ASSUME NEW x, NEW k PROVE LiveNode(x, k) = Visited(flow, x, k)
  BY <1>2, Zenon DEF LiveNode, LiveIn, Visited, Out
<1> QED BY <1>1, <1>2, <1>3

LEMMA LiveReach ==
  ASSUME job = "liveness", NEW v
  PROVE  Reach(Flipped({e \in Edges : e[1] # v}),
               {e[2] : e \in {e \in flow.df : e[1] = v}}) = Upto(flow, v)
<1>1. Edges = Arcs(flow)
  BY LiveTerms
<1>2. Reach(Back(flow, v), Users(flow, v))
        = Within(Back(flow, v), Users(flow, v), flow.size)[flow.size]
  BY DEF Reach, Within, IsWithin, Onward
<1> QED BY <1>1, <1>2 DEF Back, Users, Upto, Ways

\* The liveness analysis (liveness.rs) starts with the invariant and every
\* sweep keeps it: nothing is marked live that is not, and after j sweeps all
\* is found that lies within j steps of a use.
THEOREM LivenessInvariant == LivenessSpec => []LiveInv
<1>1. LivenessInit => LiveInv
  <2> SUFFICES ASSUME LivenessInit PROVE LiveInv
    OBVIOUS
  <2>1. job = "liveness" /\ flow \in Graphs /\ sol = NothingLive /\ sweeps = 0 /\ settled = FALSE
    BY DEF LivenessInit, SweepFrom
  <2>2. sol = [v \in V(flow) |-> [in |-> {}, out |-> {}]]
    BY <2>1, LiveTerms DEF NothingLive
  <2>3. Good(flow, sol, 0, FALSE)
    BY <2>1, <2>2, GoodStart, Zenon
  <2> QED BY <2>1, <2>3, Zenon DEF LiveInv
<1>2. LiveInv /\ [LivenessSweep]_<<graphVars, flowVars>> => LiveInv'
  <2> SUFFICES ASSUME LiveInv, [LivenessSweep]_<<graphVars, flowVars>> PROVE LiveInv'
    OBVIOUS
  <2>1. CASE LivenessSweep
    <3>1. job = "liveness" /\ flow \in Graphs /\ ~settled /\ Good(flow, sol, sweeps, settled)
      BY <2>1 DEF LiveInv, LivenessSweep, SweepTo
    <3>2. \A x, k : LiveNode(x, k) = Visited(flow, x, k)
      BY <3>1, LiveTerms
    <3>3. PICK t : t = Sweep(flow, sol)[flow.size]
      OBVIOUS
    <3>4. SweepTo(t)
      BY <2>1, <3>2, <3>3, Zenon DEF LivenessSweep, Sweep, IsSweep
    <3>5. Good(flow, sol, sweeps, FALSE)
      BY <3>1 DEF Good
    <3>6. Good(flow, t, sweeps + 1, t = sol)
      BY <3>1, <3>3, <3>5, GoodStep, Zenon
    <3>7. /\ sol' = t /\ sweeps' = sweeps + 1 /\ settled' = (t = sol)
          /\ flow' = flow /\ job' = job
      BY <3>4 DEF SweepTo, graphVars
    <3> QED BY <3>1, <3>6, <3>7, Zenon DEF LiveInv
  <2>2. CASE UNCHANGED <<graphVars, flowVars>>
    BY <2>2 DEF LiveInv, graphVars, flowVars
  <2> QED BY <2>1, <2>2
<1> QED BY <1>1, <1>2, PTL DEF LivenessSpec

\* Once a sweep of the liveness analysis (liveness.rs) changes nothing, a value
\* is in live_in and live_out exactly where a path to a use says it is live;
\* and it takes at most two sweeps more than there are nodes, so that
\* MAX_ITERATIONS stops no analysis of a graph with two nodes fewer than that.
THEOREM LivenessExactHolds == LivenessSpec => []LivenessExact
<1>1. LiveInv => LivenessExact
  <2> SUFFICES ASSUME LiveInv PROVE LivenessExact
    OBVIOUS
  <2>1. job = "liveness" /\ sweeps <= flow.size + 2 /\ (settled => Exact(flow, sol))
    BY DEF LiveInv, Good
  <2>2. Nodes = V(flow) /\ \A n : Succs(n) = After(flow, n)
    BY <2>1, LiveTerms
  <2>3. \A v : Reach(Flipped({e \in Edges : e[1] # v}),
                     {e[2] : e \in {e \in flow.df : e[1] = v}}) = Upto(flow, v)
    BY <2>1, LiveReach
  <2>4. settled => \A n, v \in Nodes :
                     /\ v \in sol[n].in <=> n \in Upto(flow, v)
                     /\ v \in sol[n].out <=> Succs(n) \cap Upto(flow, v) # {}
    BY <2>1, <2>2 DEF Exact
  <2> QED BY <2>1, <2>3, <2>4, Zenon DEF LivenessExact
<1> QED BY <1>1, LivenessInvariant, PTL

==============================================================================
