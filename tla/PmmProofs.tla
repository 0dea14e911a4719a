------------------------------ MODULE PmmProofs ------------------------------
(***************************************************************************)
(* Proofs about Pmm, for any memory, any largest block and any pool that   *)
(* is enough for pmm_init.                                                 *)
(*                                                                         *)
(* Account(m, H, R) is the inductive invariant: m is the allocator, H the  *)
(* blocks outside its lists, R the memory.  It is kept by each step inside *)
(* a call (take a block off a list, put one on, halve a block in hand,     *)
(* join two), so by the loops of a call, and so by the calls.              *)
(***************************************************************************)
EXTENDS Pmm, SequenceTheorems, FiniteSetTheorems, WellFoundedInduction, TLAPS

------------------------------------------------------------------------------
(* Induction and recursion up to a bound, for the loops. *)

Less == {ss \in Nat \X Nat : ss[1] < ss[2]}

LEMMA Least ==
  ASSUME NEW T \in SUBSET Nat, T # {}
  PROVE  \E x \in T : \A y \in T : x <= y
<1>1. IsWellFoundedOn(Less, Nat)
  BY NatLessThanWellFounded DEF OpToRel, Less
<1>2. PICK x \in T : \A y \in T : ~(<<y, x>> \in Less)
  BY <1>1, WFMin, Zenon
<1>3. ASSUME NEW y \in T PROVE x <= y
  <2>1. ~(y < x)
    BY <1>2, Zenon DEF Less
  <2> QED BY <2>1
<1> QED BY <1>3

\* What holds of 0 and is passed on holds of every number up to n: stated of
\* the set of numbers it holds of.
LEMMA UpTo ==
  ASSUME NEW n \in Nat, NEW S, 0 \in S,
         \A k \in 1 .. n : k - 1 \in S => k \in S
  PROVE  \A k \in 0 .. n : k \in S
<1> DEFINE T == {k \in 0 .. n : k \notin S}
<1> SUFFICES ASSUME T # {} PROVE FALSE
  OBVIOUS
<1>1. PICK x \in T : \A y \in T : x <= y
  <2>1. T \in SUBSET Nat
    OBVIOUS
  <2> HIDE DEF T
  <2> QED BY <2>1, Least
<1>2. x \in Nat /\ x # 0
  BY <1>1
<1>3. x - 1 \in 0 .. n /\ x - 1 \notin T
  BY <1>1, <1>2
<1> QED BY <1>1, <1>2, <1>3

\* f[0] is a, and each of the next n values is made from the last by G.
IsRecursion(f, n, a, G) == f[0] = a /\ \A k \in 1 .. n : f[k] = G[<<k, f[k - 1]>>]

\* There is such a function.
LEMMA Recursion ==
  ASSUME NEW n \in Nat, NEW D, NEW a \in D,
         NEW G \in [(1 .. n) \X D -> D]
  PROVE  \E f \in [0 .. n -> D] : IsRecursion(f, n, a, G)
<1> USE DEF IsRecursion
<1> DEFINE Is(f, m) == IsRecursion(f, m, a, G)
           S == {m \in 0 .. n : \E f \in [0 .. m -> D] : Is(f, m)}
<1>1. 0 \in S
  <2> DEFINE g == [k \in 0 .. 0 |-> a]
  <2>1. g \in [0 .. 0 -> D] /\ g[0] = a
    OBVIOUS
  <2> HIDE DEF g
  <2>2. Is(g, 0)
    BY <2>1
  <2>3. 0 \in 0 .. n
    OBVIOUS
  <2> HIDE DEF Is
  <2> QED BY <2>1, <2>2, <2>3
<1>2. ASSUME NEW x \in 1 .. n, x - 1 \in S PROVE x \in S
  <2>1. PICK f \in [0 .. x - 1 -> D] : Is(f, x - 1)
    BY <1>2
  <2> DEFINE g == [k \in 0 .. x |-> IF k = x THEN G[<<x, f[x - 1]>>] ELSE f[k]]
  <2>2. f[x - 1] \in D
    OBVIOUS
  <2>3. G[<<x, f[x - 1]>>] \in D
    BY <2>2
  <2>4. g \in [0 .. x -> D]
    BY <2>3
  <2>5. g[0] = a
    BY <2>1
  <2>6. ASSUME NEW k \in 1 .. x PROVE g[k] = G[<<k, g[k - 1]>>]
    <3>1. k - 1 \in 0 .. x /\ k - 1 # x
      OBVIOUS
    <3>2. g[k - 1] = f[k - 1]
      BY <3>1
    <3>3. CASE k = x
      <4>1. g[x] = G[<<x, f[x - 1]>>]
        OBVIOUS
      <4> HIDE DEF g
      <4> QED BY <3>2, <3>3, <4>1
    <3>4. CASE k # x
      <4>1. k \in 1 .. x - 1 /\ g[k] = f[k]
        BY <3>4
      <4> QED BY <2>1, <3>2, <4>1
    <3> QED BY <3>3, <3>4
  <2> HIDE DEF g
  <2>7. Is(g, x)
    BY <2>5, <2>6
  <2> QED BY <2>4, <2>7
<1>3. n \in S
  <2> HIDE DEF S
  <2> QED BY <1>1, <1>2, UpTo
<1> QED BY <1>3

\* Sizes are positive and double from one order to the next.
LEMMA Sizes ==
  /\ \A o \in Orders : OrderSize[o] \in Nat \ {0}
  /\ OrderSize[0] = 1
  /\ \A o \in Orders : o # MaxOrder => OrderSize[o + 1] = 2 * OrderSize[o]
<1> DEFINE Is(f) == f = [o \in Orders |-> IF o = 0 THEN 1 ELSE 2 * f[o - 1]]
           D == Nat \ {0}
           G == [p \in (1 .. MaxOrder) \X D |-> 2 * p[2]]
<1>0. MaxOrder \in Nat
  BY PmmAssumptions
<1>1. \A k \in 1 .. MaxOrder : \A x \in D : G[<<k, x>>] \in D /\ G[<<k, x>>] = 2 * x
  OBVIOUS
<1>2. PICK f \in [0 .. MaxOrder -> D] : IsRecursion(f, MaxOrder, 1, G)
  <2>1. 1 \in D /\ G \in [(1 .. MaxOrder) \X D -> D]
    OBVIOUS
  <2> HIDE DEF D, G
  <2> QED BY <1>0, <2>1, Recursion
<1>3. \A k \in 1 .. MaxOrder : f[k] = 2 * f[k - 1]
  <2> SUFFICES ASSUME NEW k \in 1 .. MaxOrder PROVE f[k] = 2 * f[k - 1]
    OBVIOUS
  <2>1. f[k - 1] \in D
    BY <1>0
  <2> HIDE DEF D, G
  <2> QED BY <1>1, <1>2, <2>1, Zenon DEF IsRecursion
<1>4. Is(f)
  BY <1>0, <1>2, <1>3 DEF Orders, IsRecursion
<1>5. Is(OrderSize)
  BY <1>4, Zenon DEF OrderSize
<1>6. OrderSize[0] = 1 /\ \A o \in Orders : o # 0 => OrderSize[o] = 2 * OrderSize[o - 1]
  BY <1>0, <1>5 DEF Orders
<1> DEFINE S == {k \in Nat : OrderSize[k] \in D}
<1>7. \A k \in 0 .. MaxOrder : k \in S
  <2>1. 0 \in S
    BY <1>6
  <2>2. \A k \in 1 .. MaxOrder : k - 1 \in S => k \in S
    BY <1>0, <1>6, SMTT(30) DEF Orders
  <2> HIDE DEF S
  <2> QED BY <1>0, <2>1, <2>2, UpTo, Zenon
<1>8. ASSUME NEW o \in Orders, o # MaxOrder PROVE OrderSize[o + 1] = 2 * OrderSize[o]
  <2>1. o + 1 \in Orders /\ o + 1 # 0 /\ (o + 1) - 1 = o
    BY <1>0, <1>8 DEF Orders
  <2> QED BY <1>6, <2>1
<1> QED BY <1>6, <1>7, <1>8 DEF Orders

------------------------------------------------------------------------------
(* Blocks and their pages. *)

LEMMA OfBlock ==
  ASSUME NEW b \in Block
  PROVE  /\ PagesOf(b) # {} /\ IsFiniteSet(PagesOf(b))
         /\ Cardinality(PagesOf(b)) = OrderSize[b.order]
         /\ b.addr \in PagesOf(b)
<1>1. b.addr \in Nat /\ b.order \in Orders
  BY DEF Block
<1>2. PICK z \in Nat \ {0} : z = OrderSize[b.order]
  BY <1>1, Sizes
<1>3. PagesOf(b) = b.addr .. b.addr + z - 1
  BY <1>2 DEF PagesOf
<1>4. b.addr \in Int /\ b.addr + z - 1 \in Int /\ ~(b.addr > b.addr + z - 1)
  BY <1>1
<1>5. IsFiniteSet(PagesOf(b)) /\ Cardinality(PagesOf(b)) = (b.addr + z - 1) - b.addr + 1
  BY <1>3, <1>4, FS_Interval
<1> QED BY <1>1, <1>2, <1>3, <1>5

\* Blocks are exchanged for blocks that cover the same pages.
LEMMA Exchange ==
  ASSUME NEW C \in SUBSET Block, NEW X \in SUBSET Block, NEW Y \in SUBSET Block,
         X \cap C = {}, Disjoint(C \cup X), Disjoint(Y), PagesIn(X) = PagesIn(Y)
  PROVE  /\ Disjoint(C \cup Y) /\ Y \cap C = {}
         /\ PagesIn(C \cup Y) = PagesIn(C \cup X)
<1>1. ASSUME NEW c \in C, NEW y \in Y PROVE PagesOf(c) \cap PagesOf(y) = {}
  <2> SUFFICES ASSUME NEW p \in PagesOf(c), p \in PagesOf(y) PROVE FALSE
    OBVIOUS
  <2>1. p \in PagesIn(X)
    BY DEF PagesIn
  <2>2. PICK x \in X : p \in PagesOf(x)
    BY <2>1 DEF PagesIn
  <2>3. x = c
    BY <2>2 DEF Disjoint
  <2> QED BY <2>3
<1>2. Y \cap C = {}
  BY <1>1, OfBlock
<1>3. Disjoint(C \cup Y)
  BY <1>1 DEF Disjoint
<1>4. PagesIn(C \cup Y) = PagesIn(C \cup X)
  BY DEF PagesIn
<1> QED BY <1>2, <1>3, <1>4

\* A block and its two halves.
Half(a, o) == [addr |-> a, order |-> o]

LEMMA Halves ==
  ASSUME NEW a \in Nat, NEW o \in Orders, o # MaxOrder
  PROVE  /\ Half(a, o + 1) \in Block
         /\ Half(a, o) \in Block /\ Half(a + OrderSize[o], o) \in Block
         /\ Half(a, o) # Half(a + OrderSize[o], o)
         /\ Disjoint({Half(a, o + 1)})
         /\ Disjoint({Half(a, o), Half(a + OrderSize[o], o)})
         /\ PagesIn({Half(a, o + 1)}) = PagesIn({Half(a, o), Half(a + OrderSize[o], o)})
<1>1. PICK z \in Nat \ {0} : z = OrderSize[o] /\ OrderSize[o + 1] = 2 * z
  BY Sizes
<1>2. o + 1 \in Orders
  BY PmmAssumptions DEF Orders
<1>3. /\ PagesOf(Half(a, o + 1)) = a .. a + 2 * z - 1
      /\ PagesOf(Half(a, o)) = a .. a + z - 1
      /\ PagesOf(Half(a + z, o)) = a + z .. a + z + z - 1
  BY <1>1 DEF PagesOf, Half
<1>4. /\ PagesOf(Half(a, o)) \cap PagesOf(Half(a + z, o)) = {}
      /\ PagesOf(Half(a, o)) \cup PagesOf(Half(a + z, o)) = PagesOf(Half(a, o + 1))
  BY <1>3
<1>5. Half(a, o + 1) \in Block /\ Half(a, o) \in Block /\ Half(a + z, o) \in Block
  BY <1>2 DEF Half, Block
<1>6. Half(a, o) # Half(a + z, o)
  BY DEF Half
<1>7. Disjoint({Half(a, o + 1)}) /\ Disjoint({Half(a, o), Half(a + z, o)})
  BY <1>4 DEF Disjoint
<1>8. PagesIn({Half(a, o + 1)}) = PagesIn({Half(a, o), Half(a + z, o)})
  BY <1>4 DEF PagesIn
<1> QED BY <1>1, <1>5, <1>6, <1>7, <1>8

\* One more block has as many more pages as its size says.
LEMMA OneMoreBlock ==
  ASSUME NEW F \in SUBSET Block, NEW b \in Block, b \notin F,
         Disjoint(F \cup {b}), IsFiniteSet(PagesIn(F))
  PROVE  /\ IsFiniteSet(PagesIn(F \cup {b}))
         /\ Cardinality(PagesIn(F)) \in Nat
         /\ Cardinality(PagesIn(F \cup {b})) = Cardinality(PagesIn(F)) + OrderSize[b.order]
<1>1. PagesIn(F \cup {b}) = PagesIn(F) \cup PagesOf(b)
  BY DEF PagesIn
<1>2. PagesIn(F) \cap PagesOf(b) = {}
  BY DEF PagesIn, Disjoint
<1>3. IsFiniteSet(PagesOf(b)) /\ Cardinality(PagesOf(b)) = OrderSize[b.order]
  BY OfBlock
<1>4. /\ IsFiniteSet(PagesIn(F) \cup PagesOf(b))
      /\ Cardinality(PagesIn(F) \cup PagesOf(b)) =
           Cardinality(PagesIn(F)) + Cardinality(PagesOf(b)) - Cardinality(PagesIn(F) \cap PagesOf(b))
  BY <1>3, FS_Union
<1>5. Cardinality(PagesIn(F) \cap PagesOf(b)) = 0
  BY <1>2, FS_EmptySet
<1>6. Cardinality(PagesIn(F)) \in Nat /\ OrderSize[b.order] \in Nat
  BY FS_CardinalityType, Sizes DEF Block
<1>7. Cardinality(PagesIn(F) \cup PagesOf(b)) = Cardinality(PagesIn(F)) + OrderSize[b.order]
  BY <1>3, <1>4, <1>5, <1>6
<1> QED BY <1>1, <1>4, <1>6, <1>7, Zenon

------------------------------------------------------------------------------
(* Free lists.  A list is changed in one of three ways. *)

LEMMA ListPrepend ==
  ASSUME NEW l \in Seq(Nat), NEW a \in Nat
  PROVE  /\ <<a>> \o l \in Seq(Nat)
         /\ Range(<<a>> \o l) = Range(l) \cup {a}
         /\ IsInjective(l) /\ a \notin Range(l) => IsInjective(<<a>> \o l)
<1>1. PICK n \in Nat : n = Len(l)
  OBVIOUS
<1>2. PICK k : k = <<a>> \o l
  BY Zenon
<1>3. /\ k \in Seq(Nat) /\ Len(k) = n + 1 /\ k[1] = a
      /\ \A i \in 1 .. n : k[i + 1] = l[i]
  BY <1>1, <1>2
<1>4. \A i \in 2 .. n + 1 : i - 1 \in 1 .. n /\ k[i] = l[i - 1]
  <2> SUFFICES ASSUME NEW i \in 2 .. n + 1 PROVE i - 1 \in 1 .. n /\ k[i] = l[i - 1]
    OBVIOUS
  <2>1. i - 1 \in 1 .. n /\ (i - 1) + 1 = i
    BY <1>1
  <2> QED BY <1>3, <2>1
<1>5. DOMAIN k = 1 .. n + 1 /\ DOMAIN l = 1 .. n
  BY <1>1, <1>3
<1>6. Range(k) = Range(l) \cup {a}
  <2>1. ASSUME NEW x \in Range(k) PROVE x \in Range(l) \cup {a}
    <3>1. PICK i \in 1 .. n + 1 : x = k[i]
      BY <1>5 DEF Range
    <3>2. CASE i = 1
      BY <1>3, <3>1, <3>2
    <3>3. CASE i # 1
      <4>1. i \in 2 .. n + 1
        BY <1>1, <3>3
      <4> QED BY <1>4, <1>5, <3>1, <4>1, Zenon DEF Range
    <3> QED BY <3>2, <3>3
  <2>2. ASSUME NEW x \in Range(l) PROVE x \in Range(k)
    <3>1. PICK i \in 1 .. n : x = l[i]
      BY <1>5 DEF Range
    <3>2. i + 1 \in 1 .. n + 1 /\ k[i + 1] = x
      BY <1>1, <1>3, <3>1
    <3> QED BY <1>5, <3>2 DEF Range
  <2>3. a \in Range(k)
    <3>1. 1 \in 1 .. n + 1
      BY <1>1
    <3> QED BY <1>3, <1>5, <3>1 DEF Range
  <2> QED BY <2>1, <2>2, <2>3, Zenon
<1>7. ASSUME IsInjective(l), a \notin Range(l) PROVE IsInjective(k)
  <2> SUFFICES ASSUME NEW i \in 1 .. n + 1, NEW j \in 1 .. n + 1, k[i] = k[j] PROVE i = j
    BY <1>5 DEF IsInjective
  <2>1. ASSUME NEW h \in 2 .. n + 1 PROVE k[h] # a
    BY <1>4, <1>5, <1>7, <2>1, Zenon DEF Range
  <2>2. CASE i = 1 \/ j = 1
    BY <1>1, <1>3, <2>1, <2>2
  <2>3. CASE i # 1 /\ j # 1
    <3>1. i \in 2 .. n + 1 /\ j \in 2 .. n + 1
      BY <1>1, <2>3
    <3>2. l[i - 1] = l[j - 1] /\ i - 1 \in 1 .. n /\ j - 1 \in 1 .. n
      BY <1>4, <3>1
    <3>3. i - 1 = j - 1
      BY <1>5, <1>7, <3>2 DEF IsInjective
    <3> QED BY <3>1, <3>3
  <2> QED BY <2>2, <2>3
<1> QED BY <1>2, <1>3, <1>6, <1>7

\* One element taken out of a list without repetitions.
LEMMA ListDrop ==
  ASSUME NEW l \in Seq(Nat), IsInjective(l), NEW p \in 1 .. Len(l), NEW k,
         k = [i \in 1 .. Len(l) - 1 |-> IF i < p THEN l[i] ELSE l[i + 1]]
  PROVE  /\ k \in Seq(Nat) /\ IsInjective(k)
         /\ Range(k) = Range(l) \ {l[p]}
<1>1. PICK n \in Nat : n = Len(l) /\ DOMAIN l = 1 .. n /\ n # 0
  OBVIOUS
<1>2. DOMAIN k = 1 .. n - 1 /\ \A i \in 1 .. n - 1 : k[i] = IF i < p THEN l[i] ELSE l[i + 1]
  BY <1>1
<1> DEFINE At(i) == IF i < p THEN i ELSE i + 1
<1>3. \A i \in 1 .. n - 1 : At(i) \in 1 .. n /\ At(i) # p /\ k[i] = l[At(i)]
  BY <1>1, <1>2
<1>4. \A i, j \in 1 .. n - 1 : At(i) = At(j) => i = j
  BY <1>1
<1>5. \A h \in 1 .. n : h # p => \E i \in 1 .. n - 1 : At(i) = h
  <2> SUFFICES ASSUME NEW h \in 1 .. n, h # p PROVE \E i \in 1 .. n - 1 : At(i) = h
    BY Zenon
  <2>1. CASE h < p
    <3>1. h \in 1 .. n - 1 /\ At(h) = h
      BY <1>1, <2>1
    <3> QED BY <3>1, Zenon
  <2>2. CASE ~(h < p)
    <3>1. h - 1 \in 1 .. n - 1 /\ At(h - 1) = h
      BY <1>1, <2>2
    <3> QED BY <3>1, Zenon
  <2> QED BY <2>1, <2>2
<1>6. \A i \in 1 .. n : l[i] \in Nat
  BY <1>1
<1> HIDE DEF At
<1>7. k \in Seq(Nat)
  <2>1. k \in [1 .. n - 1 -> Nat]
    BY <1>1, <1>2, <1>3, <1>6
  <2>2. n - 1 \in Nat
    BY <1>1
  <2> QED BY <2>1, <2>2, SeqDef
<1>8. IsInjective(k)
  <2> SUFFICES ASSUME NEW i \in 1 .. n - 1, NEW j \in 1 .. n - 1, k[i] = k[j] PROVE i = j
    BY <1>2, ZenonT(40) DEF IsInjective
  <2>1. l[At(i)] = l[At(j)] /\ At(i) \in DOMAIN l /\ At(j) \in DOMAIN l
    BY <1>1, <1>3
  <2>2. At(i) = At(j)
    BY <2>1 DEF IsInjective
  <2> QED BY <1>4, <2>2
<1>9. Range(k) = Range(l) \ {l[p]}
  <2>1. ASSUME NEW x \in Range(k) PROVE x \in Range(l) /\ x # l[p]
    <3>1. PICK i \in 1 .. n - 1 : x = k[i]
      BY <1>2 DEF Range
    <3>2. x = l[At(i)] /\ At(i) \in DOMAIN l /\ At(i) # p /\ p \in DOMAIN l
      BY <1>1, <1>3, <3>1
    <3>3. x # l[p]
      BY <3>2 DEF IsInjective
    <3> QED BY <3>2, <3>3 DEF Range
  <2>2. ASSUME NEW x \in Range(l), x # l[p] PROVE x \in Range(k)
    <3>1. PICK h \in 1 .. n : x = l[h] /\ h # p
      BY <1>1, <2>2 DEF Range
    <3>2. PICK i \in 1 .. n - 1 : At(i) = h
      BY <1>5, <3>1
    <3> QED BY <1>2, <1>3, <3>1, <3>2, Zenon DEF Range
  <2> QED BY <2>1, <2>2
<1> QED BY <1>7, <1>8, <1>9

LEMMA ListTail ==
  ASSUME NEW l \in Seq(Nat), IsInjective(l), l # <<>>
  PROVE  /\ Head(l) \in Nat /\ Head(l) \in Range(l)
         /\ Tail(l) \in Seq(Nat) /\ IsInjective(Tail(l))
         /\ Range(Tail(l)) = Range(l) \ {Head(l)}
<1> DEFINE k == [i \in 1 .. Len(l) - 1 |-> IF i < 1 THEN l[i] ELSE l[i + 1]]
<1>1. 1 \in 1 .. Len(l) /\ Head(l) = l[1] /\ l[1] \in Nat /\ DOMAIN l = 1 .. Len(l)
  OBVIOUS
<1>2. Tail(l) = k
  <2>1. Tail(l) = [i \in 1 .. Len(l) - 1 |-> l[i + 1]]
    <3>1. Tail(l) \in Seq(Nat) /\ Len(Tail(l)) = Len(l) - 1
      OBVIOUS
    <3>2. \A i \in 1 .. Len(l) - 1 : Tail(l)[i] = l[i + 1]
      OBVIOUS
    <3>3. Tail(l) \in [1 .. Len(l) - 1 -> Nat]
      BY <3>1, LenProperties, Zenon
    <3> QED BY <3>2, <3>3, Zenon
  <2> QED BY <1>1, <2>1
<1> HIDE DEF k
<1>3. k \in Seq(Nat) /\ IsInjective(k) /\ Range(k) = Range(l) \ {l[1]}
  BY <1>1, ListDrop, Zenon DEF k
<1>4. Head(l) \in Range(l)
  BY <1>1 DEF Range
<1> QED BY <1>1, <1>2, <1>3, <1>4, Zenon

LEMMA WithoutType ==
  ASSUME NEW l \in Seq(Nat), NEW a \in Range(l)
  PROVE  Without(l, a) \in Seq(Nat)
<1> DEFINE p == Min({i \in DOMAIN l : l[i] = a})
<1>1. Without(l, a) = [i \in 1 .. Len(l) - 1 |-> IF i < p THEN l[i] ELSE l[i + 1]]
  BY Zenon DEF Without
<1> HIDE DEF p
<1>2. PICK n \in Nat : n = Len(l) /\ DOMAIN l = 1 .. n /\ n # 0
  BY DEF Range
<1>3. \A i \in 1 .. n - 1 : l[i] \in Nat /\ l[i + 1] \in Nat
  BY <1>2
<1>4. Without(l, a) \in [1 .. n - 1 -> Nat]
  BY <1>1, <1>2, <1>3
<1>5. n - 1 \in Nat
  BY <1>2
<1> QED BY <1>4, <1>5, SeqDef

LEMMA ListWithout ==
  ASSUME NEW l \in Seq(Nat), IsInjective(l), NEW a \in Range(l)
  PROVE  /\ Without(l, a) \in Seq(Nat) /\ IsInjective(Without(l, a))
         /\ Range(Without(l, a)) = Range(l) \ {a}
<1> DEFINE T == {i \in DOMAIN l : l[i] = a}
<1>1. T \in SUBSET Nat /\ T # {}
  BY DEF Range
<1>2. Min(T) \in T
  <2>1. \E x \in T : \A y \in T : x =< y
    <3> HIDE DEF T
    <3> QED BY <1>1, Least, SMTT(30)
  <2> HIDE DEF T
  <2> QED BY <2>1 DEF Min
<1> DEFINE p == Min(T)
<1>3. Without(l, a) = [i \in 1 .. Len(l) - 1 |-> IF i < p THEN l[i] ELSE l[i + 1]]
  BY Zenon DEF Without
<1> HIDE DEF p
<1>4. p \in 1 .. Len(l) /\ l[p] = a
  BY <1>2 DEF p
<1> HIDE DEF T
<1> QED BY <1>3, <1>4, ListDrop, Zenon

------------------------------------------------------------------------------
(* The allocator's bookkeeping m, with the blocks H out of it, for the     *)
(* pages R.                                                                *)

PmmStates == [lists : [Orders -> Seq(Nat)], free_pages : Int,
              count : 0 .. PoolCap, recycled : Nat]

LEMMA InFree ==
  ASSUME NEW m \in PmmStates, NEW b
  PROVE  b \in FreeIn(m) <=> b \in Block /\ b.addr \in Range(m.lists[b.order])
<1>1. \A o \in Orders : m.lists[o] \in Seq(Nat)
  BY DEF PmmStates
<1>2. \A o \in Orders : Range(m.lists[o]) \subseteq Nat
  BY <1>1 DEF Range
<1>3. ASSUME b \in FreeIn(m) PROVE b \in Block /\ b.addr \in Range(m.lists[b.order])
  <2>1. PICK o \in Orders : \E a \in Range(m.lists[o]) : b = [addr |-> a, order |-> o]
    BY <1>3 DEF FreeIn
  <2>2. PICK a \in Range(m.lists[o]) : b = [addr |-> a, order |-> o]
    BY <2>1
  <2>3. b.addr = a /\ b.order = o /\ a \in Nat
    BY <1>2, <2>2
  <2> QED BY <2>2, <2>3 DEF Block
<1>4. ASSUME b \in Block, b.addr \in Range(m.lists[b.order]) PROVE b \in FreeIn(m)
  <2>1. b = [addr |-> b.addr, order |-> b.order] /\ b.order \in Orders
    BY <1>4 DEF Block
  <2> DEFINE S == {[addr |-> x, order |-> b.order] : x \in Range(m.lists[b.order])}
  <2>2. b \in S
    BY <1>4, <2>1, Zenon
  <2> QED BY <2>1, <2>2, Zenon DEF FreeIn
<1> QED BY <1>3, <1>4

\* m and w differ in the list of order o only.
OtherwiseAs(m, w, o) == \A x \in Orders : x # o => w.lists[x] = m.lists[x]

Gains(m, w, o, a) ==
  OtherwiseAs(m, w, o) /\ Range(w.lists[o]) = Range(m.lists[o]) \cup {a}

\* One list gains or loses a block.
LEMMA FreeGains ==
  ASSUME NEW m \in PmmStates, NEW w \in PmmStates, NEW o \in Orders, NEW a \in Nat,
         Gains(m, w, o, a)
  PROVE  FreeIn(w) = FreeIn(m) \cup {Half(a, o)}
<1>1. Half(a, o) \in Block /\ \A b \in Block : b.addr = a /\ b.order = o <=> b = Half(a, o)
  BY DEF Half, Block
<1>2. ASSUME NEW b \in Block
      PROVE  b.addr \in Range(w.lists[b.order])
               <=> b.addr \in Range(m.lists[b.order]) \/ b = Half(a, o)
  <2>1. b.order \in Orders
    BY DEF Block
  <2>2. CASE b.order = o
    BY <1>1, <2>2 DEF Gains
  <2>3. CASE b.order # o
    BY <1>1, <2>1, <2>3 DEF Gains, OtherwiseAs
  <2> QED BY <2>2, <2>3
<1> QED BY <1>1, <1>2, InFree, Zenon

LEMMA FreeLoses ==
  ASSUME NEW m \in PmmStates, NEW w \in PmmStates, NEW o \in Orders, NEW a \in Nat,
         OtherwiseAs(m, w, o),
         Range(w.lists[o]) = Range(m.lists[o]) \ {a}
  PROVE  FreeIn(w) = FreeIn(m) \ {Half(a, o)}
<1>1. Half(a, o) \in Block /\ \A b \in Block : b.addr = a /\ b.order = o <=> b = Half(a, o)
  BY DEF Half, Block
<1>2. ASSUME NEW b \in Block
      PROVE  b.addr \in Range(w.lists[b.order])
               <=> b.addr \in Range(m.lists[b.order]) /\ b # Half(a, o)
  <2>1. b.order \in Orders
    BY DEF Block
  <2>2. CASE b.order = o
    BY <1>1, <2>2
  <2>3. CASE b.order # o
    BY <1>1, <2>1, <2>3 DEF OtherwiseAs
  <2> QED BY <2>2, <2>3
<1> QED BY <1>1, <1>2, InFree, Zenon

\* The blocks B lie apart, within the pages R.
Tiled(B, R) == B \subseteq Block /\ Disjoint(B) /\ PagesIn(B) \subseteq R

\* free_pages, and the nodes: one on a list is neither another's nor recycled.
Counts(m, F) ==
  /\ IsFiniteSet(F)
  /\ m.recycled + Cardinality(F) <= m.count
  /\ IsFiniteSet(PagesIn(F))
  /\ m.free_pages = Cardinality(PagesIn(F))

Account(m, H, R) ==
  /\ m \in PmmStates
  /\ \A o \in Orders : IsInjective(m.lists[o])
  /\ Counts(m, FreeIn(m))
  /\ FreeIn(m) \cap H = {}
  /\ Tiled(FreeIn(m) \cup H, R)
  /\ PagesIn(FreeIn(m) \cup H) # R => m.count = PoolCap

\* What the account says of the set F of free blocks that gains b.
LEMMA CountsGain ==
  ASSUME NEW m \in PmmStates, NEW w \in PmmStates, NEW F \in SUBSET Block,
         NEW b \in Block, b \notin F, Disjoint(F \cup {b}), Counts(m, F),
         w.free_pages = m.free_pages + OrderSize[b.order],
         w.recycled + m.count + 1 = m.recycled + w.count
  PROVE  Counts(w, F \cup {b})
<1>1. IsFiniteSet(F) /\ Cardinality(F) \in Nat /\ IsFiniteSet(PagesIn(F))
  BY FS_CardinalityType DEF Counts
<1>2. IsFiniteSet(F \cup {b}) /\ Cardinality(F \cup {b}) = Cardinality(F) + 1
  BY <1>1, FS_AddElement
<1>3. /\ m.recycled \in Nat /\ m.count \in Nat /\ w.recycled \in Nat /\ w.count \in Nat
      /\ m.free_pages \in Int
  BY PmmAssumptions DEF PmmStates
<1>4. /\ IsFiniteSet(PagesIn(F \cup {b}))
      /\ Cardinality(PagesIn(F \cup {b})) = Cardinality(PagesIn(F)) + OrderSize[b.order]
  BY <1>1, OneMoreBlock
<1>5. w.recycled + Cardinality(F \cup {b}) <= w.count
  BY <1>1, <1>2, <1>3 DEF Counts
<1>6. w.free_pages = Cardinality(PagesIn(F \cup {b}))
  BY <1>4 DEF Counts
<1> QED BY <1>2, <1>4, <1>5, <1>6 DEF Counts

\* The same for the set F that loses b.
LEMMA CountsLose ==
  ASSUME NEW m \in PmmStates, NEW w \in PmmStates, NEW F \in SUBSET Block,
         NEW b \in F, Disjoint(F), Counts(m, F),
         w.free_pages = m.free_pages - OrderSize[b.order],
         w.count = m.count, w.recycled <= m.recycled + 1
  PROVE  Counts(w, F \ {b})
<1> DEFINE C == F \ {b}
<1>1. IsFiniteSet(C) /\ Cardinality(F) = Cardinality(C) + 1 /\ Cardinality(C) \in Nat
  <2>1. IsFiniteSet(F) /\ Cardinality(F) \in Nat
    BY FS_CardinalityType DEF Counts
  <2>2. IsFiniteSet(C) /\ Cardinality(C) = Cardinality(F) - 1
    BY <2>1, FS_RemoveElement
  <2> QED BY <2>1, <2>2, FS_CardinalityType
<1>2. IsFiniteSet(PagesIn(C))
  <2>1. PagesIn(C) \in SUBSET PagesIn(F)
    BY DEF PagesIn
  <2> HIDE DEF C
  <2> QED BY <2>1, FS_Subset DEF Counts
<1>3. F = C \cup {b} /\ b \notin C /\ b \in Block /\ C \in SUBSET Block
  OBVIOUS
<1> HIDE DEF C
<1>4. /\ Cardinality(PagesIn(C)) \in Nat
      /\ Cardinality(PagesIn(F)) = Cardinality(PagesIn(C)) + OrderSize[b.order]
  BY <1>2, <1>3, OneMoreBlock
<1>5. /\ m.recycled \in Nat /\ m.count \in Nat /\ w.recycled \in Nat /\ w.count \in Nat
      /\ OrderSize[b.order] \in Nat
  BY <1>3, PmmAssumptions, Sizes DEF PmmStates, Block
<1>6. w.recycled + Cardinality(C) <= w.count
  BY <1>1, <1>5 DEF Counts
<1>7. w.free_pages = Cardinality(PagesIn(C))
  BY <1>4, <1>5 DEF Counts
<1>8. Counts(w, C)
  BY <1>1, <1>2, <1>6, <1>7 DEF Counts
<1> QED BY <1>8 DEF C

\* A free block is taken out.
LEMMA TakeOut ==
  ASSUME NEW m, NEW H, NEW R, Account(m, H, R), NEW w \in PmmStates,
         \A o \in Orders : IsInjective(w.lists[o]),
         NEW b \in FreeIn(m), FreeIn(w) = FreeIn(m) \ {b},
         w.free_pages = m.free_pages - OrderSize[b.order],
         w.count = m.count, w.recycled <= m.recycled + 1
  PROVE  Account(w, H \cup {b}, R) /\ b \notin H
<1>1. FreeIn(w) \cup (H \cup {b}) = FreeIn(m) \cup H /\ b \notin H
  BY DEF Account
<1>2. m \in PmmStates /\ FreeIn(m) \in SUBSET Block /\ Disjoint(FreeIn(m)) /\ Counts(m, FreeIn(m))
  BY DEF Account, Tiled, Disjoint
<1>3. Counts(w, FreeIn(w))
  BY <1>2, CountsLose
<1>4. FreeIn(w) \cap (H \cup {b}) = {}
  BY DEF Account
<1>5. /\ Tiled(FreeIn(m) \cup H, R)
      /\ PagesIn(FreeIn(m) \cup H) # R => m.count = PoolCap
  BY DEF Account
<1> QED BY <1>1, <1>3, <1>4, <1>5, Zenon DEF Account

\* A block that is out is put in.
LEMMA PutIn ==
  ASSUME NEW m, NEW H, NEW R, NEW b, b \notin H, Account(m, H \cup {b}, R),
         NEW w \in PmmStates, \A o \in Orders : IsInjective(w.lists[o]),
         FreeIn(w) = FreeIn(m) \cup {b},
         w.free_pages = m.free_pages + OrderSize[b.order],
         w.recycled + m.count + 1 = m.recycled + w.count,
         m.count <= w.count
  PROVE  Account(w, H, R)
<1>1. FreeIn(w) \cup H = FreeIn(m) \cup (H \cup {b}) /\ b \notin FreeIn(m)
  BY DEF Account
<1>2. /\ m \in PmmStates /\ FreeIn(m) \in SUBSET Block /\ b \in Block
      /\ Disjoint(FreeIn(m) \cup {b}) /\ Counts(m, FreeIn(m))
  BY DEF Account, Tiled, Disjoint
<1>3. Counts(w, FreeIn(w))
  BY <1>1, <1>2, CountsGain
<1>4. FreeIn(w) \cap H = {}
  BY DEF Account
<1>5. /\ Tiled(FreeIn(m) \cup (H \cup {b}), R)
      /\ PagesIn(FreeIn(m) \cup (H \cup {b})) # R => m.count = PoolCap
  BY DEF Account
<1>6. m.count = PoolCap => w.count = PoolCap
  BY <1>2, PmmAssumptions DEF PmmStates
<1> QED BY <1>1, <1>3, <1>4, <1>5, <1>6, Zenon DEF Account

\* A block is dropped when there is no node.
LEMMA Drop ==
  ASSUME NEW m, NEW H, NEW R, NEW b, Account(m, H \cup {b}, R), Exhausted(m)
  PROVE  Account(m, H, R)
<1>1. /\ Disjoint(FreeIn(m) \cup H) /\ FreeIn(m) \cup H \subseteq Block
      /\ PagesIn(FreeIn(m) \cup H) \subseteq PagesIn(FreeIn(m) \cup (H \cup {b}))
  BY DEF Account, Tiled, Disjoint, PagesIn
<1>2. Tiled(FreeIn(m) \cup H, R)
  BY <1>1 DEF Account, Tiled
<1>3. FreeIn(m) \cap H = {}
  BY DEF Account
<1> QED BY <1>2, <1>3 DEF Account, Exhausted

\* Blocks that are out are cut or joined.
LEMMA Recut ==
  ASSUME NEW m, NEW H, NEW R, NEW X \in SUBSET Block, NEW Y \in SUBSET Block,
         Account(m, H \cup X, R), X \cap H = {}, Disjoint(Y), PagesIn(X) = PagesIn(Y)
  PROVE  Account(m, H \cup Y, R) /\ Y \cap H = {}
<1> DEFINE C == FreeIn(m) \cup H
<1>1. FreeIn(m) \cup (H \cup X) = C \cup X /\ FreeIn(m) \cup (H \cup Y) = C \cup Y
  OBVIOUS
<1>2. C \in SUBSET Block /\ X \cap C = {} /\ Disjoint(C \cup X) /\ PagesIn(C \cup X) \subseteq R
  <2>1. FreeIn(m) \cap X = {}
    BY DEF Account
  <2>2. Tiled(C \cup X, R)
    BY <1>1 DEF Account
  <2> QED BY <2>1, <2>2 DEF Tiled
<1>3. PagesIn(C \cup X) # R => m.count = PoolCap
  BY <1>1 DEF Account
<1>4. FreeIn(m) \cap H = {} /\ FreeIn(m) \subseteq C /\ H \subseteq C
  BY DEF Account
<1> HIDE DEF C
<1>5. /\ Disjoint(C \cup Y) /\ Y \cap C = {}
      /\ PagesIn(C \cup Y) = PagesIn(C \cup X)
  BY <1>2, Exchange
<1>6. Tiled(C \cup Y, R) /\ (PagesIn(C \cup Y) # R => m.count = PoolCap)
  BY <1>2, <1>3, <1>5 DEF Tiled
<1>7. FreeIn(m) \cap (H \cup Y) = {} /\ Y \cap H = {}
  BY <1>4, <1>5
<1> QED BY <1>1, <1>6, <1>7, Zenon DEF Account

------------------------------------------------------------------------------
(* The operations on a list keep the account. *)

LEMMA Fields ==
  ASSUME NEW m \in PmmStates
  PROVE  /\ \A o \in Orders : m.lists[o] \in Seq(Nat)
         /\ m.lists \in [Orders -> Seq(Nat)]
         /\ m.free_pages \in Int /\ m.recycled \in Nat
         /\ m.count \in Nat /\ m.count <= PoolCap
BY PmmAssumptions DEF PmmStates

LEMMA Lists ==
  ASSUME NEW m \in PmmStates, NEW o \in Orders, NEW l \in Seq(Nat), NEW L,
         L = [m.lists EXCEPT ![o] = l]
  PROVE  /\ L \in [Orders -> Seq(Nat)] /\ L[o] = l
         /\ \A x \in Orders : x # o => L[x] = m.lists[x]
BY Fields

LEMMA PrependFields ==
  ASSUME NEW m \in PmmStates, NEW a \in Nat, NEW o \in Orders, ~Exhausted(m), NEW w,
         w = Prepend(m, a, o)
  PROVE  /\ w \in PmmStates
         /\ w.lists[o] = <<a>> \o m.lists[o]
         /\ \A x \in Orders : x # o => w.lists[x] = m.lists[x]
         /\ w.free_pages = m.free_pages + OrderSize[o]
         /\ w.recycled + m.count + 1 = m.recycled + w.count
         /\ m.count <= w.count
<1>1. PICK v : v = WithNode(m)
  OBVIOUS
<1>2. /\ v \in PmmStates /\ v.lists = m.lists /\ v.free_pages = m.free_pages
      /\ v.recycled + m.count + 1 = m.recycled + v.count /\ m.count <= v.count
  <2>1. CASE m.recycled > 0
    <3>1. v = [m EXCEPT !.recycled = m.recycled - 1]
      BY <1>1, <2>1 DEF WithNode
    <3>2. m.recycled - 1 \in Nat
      BY <2>1, Fields
    <3> QED BY <3>1, <3>2, Fields, SMTT(30) DEF PmmStates
  <2>2. CASE ~(m.recycled > 0)
    <3>1. v = [m EXCEPT !.count = m.count + 1]
      BY <1>1, <2>2 DEF WithNode
    <3>2. m.recycled = 0 /\ m.count # PoolCap
      BY <2>2, Fields DEF Exhausted
    <3>3. m.count + 1 \in 0 .. PoolCap
      BY <3>2, Fields, PmmAssumptions
    <3> QED BY <3>1, <3>2, <3>3, Fields DEF PmmStates
  <2> QED BY <2>1, <2>2
<1>3. w = [v EXCEPT !.lists = [v.lists EXCEPT ![o] = <<a>> \o v.lists[o]],
                    !.free_pages = v.free_pages + OrderSize[o]]
  BY <1>1 DEF Prepend
<1>4. PICK L : L = [v.lists EXCEPT ![o] = <<a>> \o v.lists[o]]
  BY Zenon
<1>5. /\ L \in [Orders -> Seq(Nat)] /\ L[o] = <<a>> \o m.lists[o]
      /\ \A x \in Orders : x # o => L[x] = m.lists[x]
  BY <1>2, <1>4, Fields, Lists
<1>6. PICK f \in Int : f = m.free_pages + OrderSize[o]
  BY Fields, Sizes
<1>7. w = [v EXCEPT !.lists = L, !.free_pages = f]
  BY <1>2, <1>3, <1>4, <1>6
<1>8. /\ w \in PmmStates /\ w.lists = L /\ w.free_pages = f
      /\ w.count = v.count /\ w.recycled = v.recycled
  BY <1>2, <1>5, <1>6, <1>7, Zenon DEF PmmStates
<1> QED BY <1>2, <1>5, <1>6, <1>8

\* A block that is out, and its list.
LEMMA NotListed ==
  ASSUME NEW m, NEW H, NEW R, NEW a \in Nat, NEW o \in Orders,
         Account(m, H \cup {Half(a, o)}, R)
  PROVE  a \notin Range(m.lists[o])
<1>1. Half(a, o) \in Block /\ Half(a, o).addr = a /\ Half(a, o).order = o
  BY DEF Half, Block
<1>2. Half(a, o) \notin FreeIn(m) /\ m \in PmmStates
  BY DEF Account
<1> QED BY <1>1, <1>2, InFree

LEMMA PrependFree ==
  ASSUME NEW m \in PmmStates, NEW a \in Nat, NEW o \in Orders, ~Exhausted(m),
         IsInjective(m.lists[o]), a \notin Range(m.lists[o])
  PROVE  FreeIn(Prepend(m, a, o)) = FreeIn(m) \cup {Half(a, o)}
<1>1. PICK w : w = Prepend(m, a, o)
  OBVIOUS
<1>3. /\ w \in PmmStates
      /\ w.lists[o] = <<a>> \o m.lists[o]
      /\ \A x \in Orders : x # o => w.lists[x] = m.lists[x]
  BY <1>1, PrependFields
<1>4. Range(w.lists[o]) = Range(m.lists[o]) \cup {a}
  <2>1. m.lists[o] \in Seq(Nat)
    BY Fields
  <2> QED BY <1>3, <2>1, ListPrepend
<1>5. OtherwiseAs(m, w, o)
  BY <1>3 DEF OtherwiseAs
<1>6. Gains(m, w, o, a)
  BY <1>4, <1>5 DEF Gains
<1>7. w \in PmmStates
  BY <1>3
<1>8. FreeIn(w) = FreeIn(m) \cup {Half(a, o)}
  BY <1>6, <1>7, FreeGains
<1> QED BY <1>1, <1>8

LEMMA PrependAccount ==
  ASSUME NEW m, NEW H, NEW R, NEW a \in Nat, NEW o \in Orders,
         Half(a, o) \notin H, Account(m, H \cup {Half(a, o)}, R)
  PROVE  Account(Prepend(m, a, o), H, R)
<1>1. CASE Exhausted(m)
  <2>1. Prepend(m, a, o) = m
    BY <1>1 DEF Prepend
  <2>2. Account(m, H, R)
    BY <1>1, Drop
  <2> QED BY <2>1, <2>2
<1>2. CASE ~Exhausted(m)
  <2>1. PICK w : w = Prepend(m, a, o)
    OBVIOUS
  <2>2. m \in PmmStates /\ \A x \in Orders : IsInjective(m.lists[x])
    BY DEF Account
  <2>3. /\ w \in PmmStates
        /\ w.lists[o] = <<a>> \o m.lists[o]
        /\ \A x \in Orders : x # o => w.lists[x] = m.lists[x]
        /\ w.free_pages = m.free_pages + OrderSize[o]
        /\ w.recycled + m.count + 1 = m.recycled + w.count
        /\ m.count <= w.count
    BY <1>2, <2>1, <2>2, PrependFields
  <2>4. Range(w.lists[o]) = Range(m.lists[o]) \cup {a} /\ IsInjective(w.lists[o])
    <3>1. m.lists[o] \in Seq(Nat) /\ IsInjective(m.lists[o]) /\ a \notin Range(m.lists[o])
      BY <2>2, Fields, NotListed, Zenon
    <3> QED BY <2>3, <3>1, ListPrepend
  <2>5. FreeIn(w) = FreeIn(m) \cup {Half(a, o)}
    <3>1. FreeIn(Prepend(m, a, o)) = FreeIn(m) \cup {Half(a, o)}
      <4>1. IsInjective(m.lists[o]) /\ a \notin Range(m.lists[o])
        BY <2>2, NotListed, Zenon
      <4> QED BY <1>2, <2>2, <4>1, PrependFree
    <3> QED BY <2>1, <3>1
  <2>6. \A x \in Orders : IsInjective(w.lists[x])
    BY <2>2, <2>3, <2>4, Zenon
  <2>7. w.free_pages = m.free_pages + OrderSize[Half(a, o).order]
    BY <2>3 DEF Half
  <2> QED BY <2>1, <2>3, <2>5, <2>6, <2>7, PutIn
<1> QED BY <1>1, <1>2

LEMMA PopAccount ==
  ASSUME NEW m, NEW H, NEW R, Account(m, H, R), NEW o \in Orders, m.lists[o] # <<>>
  PROVE  LET x == Popped(m, o) IN
         /\ x.addr \in Nat /\ x.pmm \in PmmStates
         /\ Account(x.pmm, H \cup {Half(x.addr, o)}, R)
         /\ Half(x.addr, o) \notin H
         /\ Half(x.addr, o) \in FreeIn(m) /\ FreeIn(x.pmm) \subseteq FreeIn(m)
<1>1. m \in PmmStates /\ \A x \in Orders : IsInjective(m.lists[x])
  BY DEF Account
<1>2. PICK l \in Seq(Nat) : l = m.lists[o] /\ IsInjective(l) /\ l # <<>>
  BY <1>1, Fields
<1>3. PICK a, k : a = Head(l) /\ k = Tail(l)
  BY Zenon
<1>4. /\ a \in Nat /\ a \in Range(l) /\ k \in Seq(Nat) /\ IsInjective(k)
      /\ Range(k) = Range(l) \ {a}
  BY <1>2, <1>3, ListTail
<1>5. PICK w : w = [m EXCEPT !.lists = [m.lists EXCEPT ![o] = k],
                             !.free_pages = m.free_pages - OrderSize[o]]
  OBVIOUS
<1>6. Popped(m, o) = [pmm |-> w, addr |-> a]
  BY <1>2, <1>3, <1>5 DEF Popped
<1>7. PICK L : L = [m.lists EXCEPT ![o] = k]
  BY Zenon
<1>8. /\ L \in [Orders -> Seq(Nat)] /\ L[o] = k
      /\ \A x \in Orders : x # o => L[x] = m.lists[x]
  <2>1. PICK M \in [Orders -> Seq(Nat)] : M = m.lists
    BY <1>1, Fields
  <2> QED BY <1>4, <1>7, <2>1
<1>9. PICK f \in Int : f = m.free_pages - OrderSize[o]
  <2>1. m.free_pages \in Int /\ OrderSize[o] \in Nat
    BY <1>1, Fields, Sizes
  <2> QED BY <2>1
<1>10. w = [m EXCEPT !.lists = L, !.free_pages = f]
  BY <1>5, <1>7, <1>9
<1>11. /\ w \in PmmStates /\ w.lists = L /\ w.free_pages = f
       /\ w.count = m.count /\ w.recycled = m.recycled
  BY <1>1, <1>8, <1>9, <1>10, Zenon DEF PmmStates
<1>12. FreeIn(w) = FreeIn(m) \ {Half(a, o)}
  <2>1. OtherwiseAs(m, w, o)
    BY <1>8, <1>11 DEF OtherwiseAs
  <2>2. Range(w.lists[o]) = Range(m.lists[o]) \ {a}
    BY <1>2, <1>4, <1>8, <1>11
  <2>3. m \in PmmStates
    BY <1>1
  <2>4. w \in PmmStates
    BY <1>11
  <2>5. a \in Nat
    BY <1>4
  <2> QED BY <2>1, <2>2, <2>3, <2>4, <2>5, FreeLoses, Zenon
<1>13. Half(a, o) \in FreeIn(m) /\ Half(a, o).order = o
  <2>1. Half(a, o) \in Block /\ Half(a, o).addr = a /\ Half(a, o).order = o
    BY <1>4 DEF Half, Block
  <2> QED BY <1>1, <1>2, <1>4, <2>1, InFree
<1>14. \A x \in Orders : IsInjective(w.lists[x])
  BY <1>1, <1>4, <1>8, <1>11, Zenon
<1>15. w.recycled <= m.recycled + 1
  BY <1>1, <1>11, Fields
<1>16. Account(w, H \cup {Half(a, o)}, R) /\ Half(a, o) \notin H
  BY <1>9, <1>11, <1>12, <1>13, <1>14, <1>15, TakeOut, Zenon
<1>17. Half(a, o) \in FreeIn(m) /\ FreeIn(w) \subseteq FreeIn(m)
  BY <1>12, <1>13
<1>18. Popped(m, o).pmm = w /\ Popped(m, o).addr = a
  BY <1>6
<1> QED BY <1>4, <1>11, <1>16, <1>17, <1>18

LEMMA UnlinkAccount ==
  ASSUME NEW m, NEW H, NEW R, Account(m, H, R), NEW o \in Orders,
         NEW a \in Range(m.lists[o])
  PROVE  /\ a \in Nat /\ Unlinked(m, a, o) \in PmmStates
         /\ Account(Unlinked(m, a, o), H \cup {Half(a, o)}, R)
         /\ Half(a, o) \notin H
         /\ Half(a, o) \in FreeIn(m) /\ FreeIn(Unlinked(m, a, o)) \subseteq FreeIn(m)
<1>1. m \in PmmStates /\ \A x \in Orders : IsInjective(m.lists[x])
  BY DEF Account
<1>2. PICK l \in Seq(Nat) : l = m.lists[o] /\ IsInjective(l)
  BY <1>1, Fields
<1>3. PICK k : k = Without(l, a)
  OBVIOUS
<1>4. a \in Nat /\ k \in Seq(Nat) /\ IsInjective(k) /\ Range(k) = Range(l) \ {a}
  <2>1. a \in Nat
    BY <1>2 DEF Range
  <2> QED BY <1>2, <1>3, <2>1, ListWithout
<1>5. PICK w : w = Unlinked(m, a, o)
  OBVIOUS
<1>7. PICK L : L = [m.lists EXCEPT ![o] = k]
  BY Zenon
<1>8. /\ L \in [Orders -> Seq(Nat)] /\ L[o] = k
      /\ \A x \in Orders : x # o => L[x] = m.lists[x]
  <2>1. PICK M \in [Orders -> Seq(Nat)] : M = m.lists
    BY <1>1, Fields
  <2> QED BY <1>4, <1>7, <2>1
<1>9. PICK f \in Int : f = m.free_pages - OrderSize[o]
  <2>1. m.free_pages \in Int /\ OrderSize[o] \in Nat
    BY <1>1, Fields, Sizes
  <2> QED BY <2>1
<1>10. w = [m EXCEPT !.lists = L, !.recycled = m.recycled + 1, !.free_pages = f]
  BY <1>2, <1>3, <1>5, <1>7, <1>9 DEF Unlinked
<1>11. /\ w \in PmmStates /\ w.lists = L /\ w.free_pages = f
       /\ w.count = m.count /\ w.recycled = m.recycled + 1
  <2>1. m.recycled + 1 \in Nat
    BY <1>1, Fields
  <2> QED BY <1>1, <1>8, <1>9, <1>10, <2>1, Zenon DEF PmmStates
<1>12. FreeIn(w) = FreeIn(m) \ {Half(a, o)}
  <2>1. OtherwiseAs(m, w, o)
    BY <1>8, <1>11 DEF OtherwiseAs
  <2>2. Range(w.lists[o]) = Range(m.lists[o]) \ {a}
    BY <1>2, <1>4, <1>8, <1>11
  <2>3. m \in PmmStates
    BY <1>1
  <2>4. w \in PmmStates
    BY <1>11
  <2>5. a \in Nat
    BY <1>4
  <2> QED BY <2>1, <2>2, <2>3, <2>4, <2>5, FreeLoses, Zenon
<1>13. Half(a, o) \in FreeIn(m) /\ Half(a, o).order = o
  <2>1. Half(a, o) \in Block /\ Half(a, o).addr = a /\ Half(a, o).order = o
    BY <1>4 DEF Half, Block
  <2> QED BY <1>1, <1>2, <1>4, <2>1, InFree
<1>14. \A x \in Orders : IsInjective(w.lists[x])
  BY <1>1, <1>4, <1>8, <1>11, Zenon
<1>15. w.recycled <= m.recycled + 1
  BY <1>1, <1>11, Fields
<1>16. Account(w, H \cup {Half(a, o)}, R) /\ Half(a, o) \notin H
  BY <1>9, <1>11, <1>12, <1>13, <1>14, <1>15, TakeOut
<1>17. Half(a, o) \in FreeIn(m) /\ FreeIn(w) \subseteq FreeIn(m)
  BY <1>12, <1>13
<1> QED BY <1>4, <1>5, <1>11, <1>16, <1>17

------------------------------------------------------------------------------
(* pmm_alloc.  x is what a call for order o returns: no block, or one that *)
(* is now out.                                                             *)

Takes == [pmm : PmmStates, addr : Nat]

Taken(x, H, o, R) ==
  /\ x \in Takes
  /\ x.addr = 0 => Account(x.pmm, H, R)
  /\ x.addr # 0 => Account(x.pmm, H \cup {Half(x.addr, o)}, R) /\ Half(x.addr, o) \notin H

LEMMA PopTaken ==
  ASSUME NEW m, NEW H, NEW R, Account(m, H, R), 0 \notin R,
         NEW o \in Orders, m.lists[o] # <<>>
  PROVE  Taken(Popped(m, o), H, o, R)
<1>1. PICK x : x = Popped(m, o)
  OBVIOUS
<1>2. /\ x.addr \in Nat /\ x.pmm \in PmmStates
      /\ Account(x.pmm, H \cup {Half(x.addr, o)}, R)
      /\ Half(x.addr, o) \notin H
  BY <1>1, PopAccount, Zenon
<1>3. x \in Takes
  <2>1. x = [pmm |-> x.pmm, addr |-> x.addr]
    BY <1>1 DEF Popped
  <2> QED BY <1>2, <2>1 DEF Takes
<1>4. x.addr # 0
  <2> DEFINE b == Half(x.addr, o)
  <2>1. b \in Block /\ b.addr = x.addr
    BY <1>2 DEF Half, Block
  <2>2. PagesOf(b) \subseteq R
    BY <1>2 DEF Account, Tiled, PagesIn
  <2> HIDE DEF b
  <2> QED BY <2>1, <2>2, OfBlock
<1> QED BY <1>1, <1>2, <1>3, <1>4 DEF Taken

LEMMA SplitType ==
  ASSUME NEW x \in Takes, NEW o \in Orders
  PROVE  Split(x, o) \in Takes
<1>1. x.pmm \in PmmStates /\ x.addr \in Nat
  BY DEF Takes
<1>2. CASE x.addr = 0
  BY <1>2 DEF Split
<1>3. CASE x.addr # 0 /\ Exhausted(x.pmm)
  <2>1. Split(x, o) = [x EXCEPT !.addr = 0]
    BY <1>3 DEF Split
  <2> QED BY <2>1 DEF Takes
<1>4. CASE x.addr # 0 /\ ~Exhausted(x.pmm)
  <2>1. PICK w : w = Prepend(x.pmm, x.addr + OrderSize[o], o)
    OBVIOUS
  <2>2. x.addr + OrderSize[o] \in Nat
    BY <1>1, Sizes
  <2>3. w \in PmmStates
    BY <1>1, <1>4, <2>1, <2>2, PrependFields, Zenon
  <2>4. Split(x, o) = [x EXCEPT !.pmm = w]
    BY <1>4, <2>1 DEF Split
  <2> QED BY <2>3, <2>4 DEF Takes
<1> QED BY <1>2, <1>3, <1>4

LEMMA SplitTaken ==
  ASSUME NEW x, NEW H, NEW R, NEW o \in Orders, o # MaxOrder, Taken(x, H, o + 1, R)
  PROVE  Taken(Split(x, o), H, o, R)
<1>1. x \in Takes /\ x.pmm \in PmmStates /\ x.addr \in Nat
  BY DEF Taken, Takes
<1>2. Split(x, o) \in Takes
  BY <1>1, SplitType
<1>3. CASE x.addr = 0
  <2>1. Split(x, o) = x
    BY <1>3 DEF Split
  <2> QED BY <1>3, <2>1 DEF Taken
<1>4. CASE x.addr # 0 /\ Exhausted(x.pmm)
  <2>1. Split(x, o) = [x EXCEPT !.addr = 0]
    BY <1>4 DEF Split
  <2>2. Split(x, o).addr = 0 /\ Split(x, o).pmm = x.pmm
    BY <1>1, <2>1 DEF Takes
  <2>3. Account(x.pmm, H \cup {Half(x.addr, o + 1)}, R)
    BY <1>4 DEF Taken
  <2>4. Account(x.pmm, H, R)
    BY <1>4, <2>3, Drop, SMTT(30)
  <2> QED BY <1>2, <2>2, <2>4 DEF Taken
<1>5. CASE x.addr # 0 /\ ~Exhausted(x.pmm)
  <2>1. PICK lo, hi, b : /\ b = Half(x.addr, o + 1) /\ lo = Half(x.addr, o)
                        /\ hi = Half(x.addr + OrderSize[o], o)
    OBVIOUS
  <2>2. /\ b \in Block /\ lo \in Block /\ hi \in Block /\ lo # hi
        /\ Disjoint({lo, hi}) /\ PagesIn({b}) = PagesIn({lo, hi})
    BY <1>1, <2>1, Halves, SMTT(30)
  <2>3. Account(x.pmm, H \cup {b}, R) /\ b \notin H
    BY <1>5, <2>1 DEF Taken
  <2>4. Account(x.pmm, H \cup {lo, hi}, R) /\ {lo, hi} \cap H = {}
    <3>1. {b} \in SUBSET Block /\ {lo, hi} \in SUBSET Block /\ {b} \cap H = {}
      BY <2>2, <2>3
    <3> QED BY <2>2, <2>3, <3>1, Recut, Zenon
  <2>5. Account(x.pmm, (H \cup {lo}) \cup {hi}, R) /\ hi \notin H \cup {lo} /\ lo \notin H
    <3>1. H \cup {lo, hi} = (H \cup {lo}) \cup {hi}
      OBVIOUS
    <3> QED BY <2>2, <2>4, <3>1
  <2>6. PICK w : w = Prepend(x.pmm, x.addr + OrderSize[o], o)
    OBVIOUS
  <2>7. Account(w, H \cup {lo}, R)
    <3>1. x.addr + OrderSize[o] \in Nat
      BY <1>1, Sizes
    <3> QED BY <2>1, <2>5, <2>6, <3>1, PrependAccount
  <2>8. Split(x, o) = [x EXCEPT !.pmm = w]
    BY <1>5, <2>6 DEF Split
  <2>9. Split(x, o).pmm = w /\ Split(x, o).addr = x.addr
    BY <1>1, <2>8 DEF Takes
  <2> QED BY <1>2, <1>5, <2>1, <2>5, <2>7, <2>9 DEF Taken
<1> QED BY <1>3, <1>4, <1>5

\* What the calls for each order return, one calling the next.
IsTake(f, m) ==
  f = [o \in Orders |-> IF m.lists[o] # <<>> THEN Popped(m, o)
                        ELSE IF o = MaxOrder THEN [pmm |-> m, addr |-> 0]
                        ELSE Split(f[o + 1], o)]

LEMMA TakeExists ==
  ASSUME NEW m \in PmmStates,
         \A o \in Orders : m.lists[o] # <<>> => Popped(m, o) \in Takes
  PROVE  \E f : IsTake(f, m)
<1> DEFINE Low(k) == MaxOrder - k
           a == IF m.lists[MaxOrder] # <<>> THEN Popped(m, MaxOrder)
                ELSE [pmm |-> m, addr |-> 0]
           Call(k, x) == IF m.lists[Low(k)] # <<>> THEN Popped(m, Low(k)) ELSE Split(x, Low(k))
           G == [p \in (1 .. MaxOrder) \X Takes |-> Call(p[1], p[2])]
<1>0. MaxOrder \in Nat /\ MaxOrder \in Orders
  BY PmmAssumptions DEF Orders
<1>1. \A k \in 1 .. MaxOrder : Low(k) \in Orders /\ Low(k) # MaxOrder /\ Low(k) + 1 = Low(k - 1)
  BY <1>0 DEF Orders
<1>2. a \in Takes
  BY <1>0 DEF Takes
<1>3. \A k \in 1 .. MaxOrder : \A x \in Takes : Call(k, x) \in Takes
  <2> HIDE DEF Low
  <2> QED BY <1>1, SplitType
<1> HIDE DEF a, Call
<1>4. G \in [(1 .. MaxOrder) \X Takes -> Takes]
  BY <1>3
<1>5. PICK f \in [0 .. MaxOrder -> Takes] : IsRecursion(f, MaxOrder, a, G)
  <2> HIDE DEF G
  <2> QED BY <1>0, <1>2, <1>4, Recursion, Zenon
<1>6. \A k \in 1 .. MaxOrder : f[k] = Call(k, f[k - 1])
  <2> SUFFICES ASSUME NEW k \in 1 .. MaxOrder PROVE f[k] = Call(k, f[k - 1])
    OBVIOUS
  <2>1. f[k - 1] \in Takes
    BY <1>0
  <2>2. G[<<k, f[k - 1]>>] = Call(k, f[k - 1])
    BY <2>1
  <2> HIDE DEF G
  <2> QED BY <1>5, <2>2 DEF IsRecursion
<1> DEFINE g == [o \in Orders |-> f[MaxOrder - o]]
<1>7. ASSUME NEW o \in Orders
      PROVE  g[o] = IF m.lists[o] # <<>> THEN Popped(m, o)
                    ELSE IF o = MaxOrder THEN [pmm |-> m, addr |-> 0]
                    ELSE Split(g[o + 1], o)
  <2>1. CASE o = MaxOrder
    <3>1. g[o] = a
      BY <1>0, <1>5, <2>1 DEF IsRecursion
    <3> HIDE DEF g
    <3> QED BY <2>1, <3>1 DEF a
  <2>2. CASE o # MaxOrder
    <3>1. PICK k \in 1 .. MaxOrder : k = MaxOrder - o /\ Low(k) = o
      BY <1>0, <2>2 DEF Orders
    <3>2. o + 1 \in Orders /\ MaxOrder - (o + 1) = k - 1
      BY <1>0, <2>2, <3>1 DEF Orders
    <3>3. g[o] = f[k] /\ g[o + 1] = f[k - 1]
      BY <3>1, <3>2
    <3> HIDE DEF g, Low
    <3>4. f[k] = Call(k, f[k - 1])
      BY <1>6
    <3> QED BY <2>2, <3>1, <3>3, <3>4 DEF Call
  <2> QED BY <2>1, <2>2
<1>8. g = [o \in Orders |-> g[o]]
  OBVIOUS
<1> HIDE DEF g
<1>9. IsTake(g, m)
  BY <1>7, <1>8, Zenon DEF IsTake
<1> QED BY <1>9

LEMMA AllocTaken ==
  ASSUME NEW m, NEW H, NEW R, Account(m, H, R), 0 \notin R, NEW order \in Orders
  PROVE  Taken(Allocated(m, order), H, order, R)
<1> DEFINE take == CHOOSE f : IsTake(f, m)
<1>0. m \in PmmStates /\ MaxOrder \in Nat
  BY PmmAssumptions DEF Account
<1>1. IsTake(take, m)
  <2>1. \A o \in Orders : m.lists[o] # <<>> => Popped(m, o) \in Takes
    BY PopTaken, Zenon DEF Taken
  <2> QED BY <1>0, <2>1, TakeExists
<1>2. Allocated(m, order) = take[order]
  BY Zenon DEF Allocated, IsTake
<1> HIDE DEF take
<1> DEFINE S == {k \in 0 .. MaxOrder : Taken(take[MaxOrder - k], H, MaxOrder - k, R)}
<1>3. ASSUME NEW o \in Orders, m.lists[o] # <<>> PROVE Taken(take[o], H, o, R)
  <2>1. take[o] = Popped(m, o)
    BY <1>1, <1>3 DEF IsTake
  <2> QED BY <1>3, <2>1, PopTaken
<1>4. 0 \in S
  <2>1. MaxOrder \in Orders /\ MaxOrder - 0 = MaxOrder
    BY <1>0 DEF Orders
  <2>2. CASE m.lists[MaxOrder] # <<>>
    BY <1>0, <1>3, <2>1, <2>2
  <2>3. CASE m.lists[MaxOrder] = <<>>
    <3>1. take[MaxOrder] = [pmm |-> m, addr |-> 0]
      BY <1>1, <2>1, <2>3 DEF IsTake
    <3>2. Taken(take[MaxOrder], H, MaxOrder, R)
      BY <1>0, <3>1 DEF Taken, Takes
    <3> QED BY <1>0, <2>1, <3>2
  <2> QED BY <2>2, <2>3
<1>5. ASSUME NEW k \in 1 .. MaxOrder, k - 1 \in S PROVE k \in S
  <2>1. PICK o \in Orders : o = MaxOrder - k /\ o # MaxOrder /\ o + 1 = MaxOrder - (k - 1)
    BY <1>0 DEF Orders
  <2>2. Taken(take[o + 1], H, o + 1, R)
    BY <1>5, <2>1
  <2>3. Taken(take[o], H, o, R)
    <3>1. CASE m.lists[o] # <<>>
      BY <1>3, <3>1
    <3>2. CASE m.lists[o] = <<>>
      <4>1. take[o] = Split(take[o + 1], o)
        BY <1>1, <2>1, <3>2, Zenon DEF IsTake
      <4> QED BY <2>1, <2>2, <4>1, SplitTaken
    <3> QED BY <3>1, <3>2
  <2>4. k \in 0 .. MaxOrder
    BY <1>0
  <2> QED BY <2>1, <2>3, <2>4
<1>6. \A k \in 0 .. MaxOrder : k \in S
  <2> HIDE DEF S
  <2> QED BY <1>0, <1>4, <1>5, UpTo
<1>7. PICK k \in 0 .. MaxOrder : order = MaxOrder - k
  <2>1. MaxOrder - order \in 0 .. MaxOrder /\ order = MaxOrder - (MaxOrder - order)
    BY <1>0 DEF Orders
  <2> QED BY <2>1
<1> QED BY <1>2, <1>6, <1>7

------------------------------------------------------------------------------
(* pmm_free.  x is the block being freed, after some merges. *)

Frees == [pmm : PmmStates, addr : Nat, order : Orders]

Freeing(x, H, R) ==
  /\ x \in Frees
  /\ Account(x.pmm, H \cup {Half(x.addr, x.order)}, R)
  /\ Half(x.addr, x.order) \notin H

LEMMA BuddyBeside ==
  ASSUME NEW a \in Nat, NEW o \in Orders
  PROVE  Buddy(a, o) = a + OrderSize[o] \/ Buddy(a, o) = a - OrderSize[o]
BY DEF Buddy

\* A block and its buddy are the halves of the next larger block.
LEMMA MergedFreeing ==
  ASSUME NEW x, NEW H, NEW R, Freeing(x, H, R)
  PROVE  Freeing(Merged(x), H, R)
<1>1. PICK a \in Nat, o \in Orders, m \in PmmStates : a = x.addr /\ o = x.order /\ m = x.pmm
  BY DEF Freeing, Frees
<1>2. PICK c : c = Buddy(a, o)
  OBVIOUS
<1>3. CASE ~(o < MaxOrder /\ c \in Range(m.lists[o]))
  <2>1. Merged(x) = x
    BY <1>1, <1>2, <1>3 DEF Merged
  <2> QED BY <2>1
<1>4. CASE o < MaxOrder /\ c \in Range(m.lists[o])
  <2>1. PICK b, d : b = Half(a, o) /\ d = Half(c, o)
    OBVIOUS
  <2>2. Account(m, H \cup {b}, R) /\ b \notin H
    BY <1>1, <2>1 DEF Freeing
  <2>3. PICK w : w = Unlinked(m, c, o)
    OBVIOUS
  <2>4. c \in Nat /\ w \in PmmStates /\ Account(w, (H \cup {b}) \cup {d}, R) /\ d \notin H \cup {b}
    BY <1>4, <2>1, <2>2, <2>3, UnlinkAccount
  <2>5. PICK z \in Nat \ {0} : z = OrderSize[o]
    BY Sizes
  <2>6. c = a + z \/ c = a - z
    BY <1>2, <2>5, BuddyBeside
  <2>7. PICK l \in Nat : l = IF a < c THEN a ELSE c
    BY <2>4
  <2>8. {b, d} = {Half(l, o), Half(l + z, o)}
    <3>1. (a = l /\ c = l + z) \/ (c = l /\ a = l + z)
      BY <2>4, <2>6, <2>7
    <3> QED BY <2>1, <3>1
  <2>9. /\ Half(l, o + 1) \in Block /\ {b, d} \subseteq Block
        /\ Disjoint({Half(l, o + 1)}) /\ PagesIn({Half(l, o + 1)}) = PagesIn({b, d})
    <3>1. o # MaxOrder
      BY <1>4, PmmAssumptions DEF Orders
    <3> QED BY <2>5, <2>8, <3>1, Halves, Zenon
  <2>10. Account(w, H \cup {b, d}, R) /\ {b, d} \cap H = {}
    <3>1. H \cup {b, d} = (H \cup {b}) \cup {d}
      OBVIOUS
    <3> QED BY <2>2, <2>4, <3>1
  <2>11. Account(w, H \cup {Half(l, o + 1)}, R) /\ {Half(l, o + 1)} \cap H = {}
    <3>1. {b, d} \in SUBSET Block /\ {Half(l, o + 1)} \in SUBSET Block
      BY <2>9
    <3> QED BY <2>9, <2>10, <3>1, Recut
  <2>12. Merged(x) = [pmm |-> w, addr |-> l, order |-> o + 1]
    BY <1>1, <1>2, <1>4, <2>3, <2>7 DEF Merged
  <2>13. o + 1 \in Orders
    BY <1>4, PmmAssumptions DEF Orders
  <2> QED BY <2>4, <2>11, <2>12, <2>13 DEF Freeing, Frees
<1> QED BY <1>3, <1>4

LEMMA MergedType ==
  ASSUME NEW x \in Frees
  PROVE  Merged(x) \in Frees
<1>1. PICK a \in Nat, o \in Orders, m \in PmmStates : a = x.addr /\ o = x.order /\ m = x.pmm
  BY DEF Frees
<1>2. PICK c : c = Buddy(a, o)
  OBVIOUS
<1>3. CASE ~(o < MaxOrder /\ c \in Range(m.lists[o]))
  BY <1>1, <1>2, <1>3 DEF Merged
<1>4. CASE o < MaxOrder /\ c \in Range(m.lists[o])
  <2>1. c \in Nat
    BY <1>4, Fields DEF Range
  <2>2. Merged(x) = [pmm |-> Unlinked(m, c, o), addr |-> IF a < c THEN a ELSE c, order |-> o + 1]
    BY <1>1, <1>2, <1>4 DEF Merged
  <2>3. o + 1 \in Orders
    BY <1>4, PmmAssumptions DEF Orders
  <2>4. Unlinked(m, c, o) \in PmmStates
    <3>1. PICK l \in Seq(Nat) : l = m.lists[o] /\ c \in Range(l)
      BY <1>4, Fields
    <3>2. PICK k : k = Without(l, c)
      OBVIOUS
    <3>3. k \in Seq(Nat)
      BY <3>1, <3>2, WithoutType
    <3>4. PICK L \in [Orders -> Seq(Nat)] : L = [m.lists EXCEPT ![o] = k]
      BY <3>3, Fields, Zenon
    <3>5. PICK f \in Int : f = m.free_pages - OrderSize[o]
      <4>1. m.free_pages \in Int /\ OrderSize[o] \in Nat
        BY Fields, Sizes
      <4> QED BY <4>1
    <3>6. Unlinked(m, c, o) = [m EXCEPT !.lists = L, !.recycled = m.recycled + 1, !.free_pages = f]
      BY <3>1, <3>2, <3>4, <3>5 DEF Unlinked
    <3>7. m.recycled + 1 \in Nat
      BY Fields
    <3> QED BY <3>4, <3>5, <3>6, <3>7, Zenon DEF PmmStates
  <2> QED BY <2>1, <2>2, <2>3, <2>4 DEF Frees
<1> QED BY <1>3, <1>4

\* The block after each possible merge.
IsUp(f, x) == f = [n \in Orders |-> IF n = 0 THEN x ELSE Merged(f[n - 1])]

LEMMA UpExists ==
  ASSUME NEW x \in Frees
  PROVE  \E f : IsUp(f, x)
<1> DEFINE G == [p \in (1 .. MaxOrder) \X Frees |-> Merged(p[2])]
<1>0. MaxOrder \in Nat
  BY PmmAssumptions
<1>1. G \in [(1 .. MaxOrder) \X Frees -> Frees]
  BY MergedType
<1>2. PICK f \in [0 .. MaxOrder -> Frees] : IsRecursion(f, MaxOrder, x, G)
  <2> HIDE DEF G
  <2> QED BY <1>0, <1>1, Recursion, Zenon
<1>3. ASSUME NEW k \in 1 .. MaxOrder PROVE f[k] = Merged(f[k - 1])
  <2>1. f[k - 1] \in Frees
    BY <1>0
  <2>2. G[<<k, f[k - 1]>>] = Merged(f[k - 1])
    BY <2>1
  <2> HIDE DEF G
  <2> QED BY <1>2, <2>2 DEF IsRecursion
<1>4. f = [n \in Orders |-> f[n]] /\ f[0] = x
  BY <1>2 DEF Orders, IsRecursion
<1>5. \A n \in Orders : f[n] = IF n = 0 THEN x ELSE Merged(f[n - 1])
  <2> SUFFICES ASSUME NEW n \in Orders, n # 0 PROVE f[n] = Merged(f[n - 1])
    BY <1>4, Zenon
  <2>1. n \in 1 .. MaxOrder
    BY <1>0 DEF Orders
  <2> QED BY <1>3, <2>1
<1>6. IsUp(f, x)
  BY <1>4, <1>5, Zenon DEF IsUp
<1> QED BY <1>6

LEMMA ReturnAccount ==
  ASSUME NEW m, NEW H, NEW R, NEW a \in Nat, NEW o \in Orders,
         Half(a, o) \notin H, Account(m, H \cup {Half(a, o)}, R)
  PROVE  Account(Returned(m, a, o), H, R)
<1> DEFINE x == [pmm |-> m, addr |-> a, order |-> o]
           up == CHOOSE f : IsUp(f, x)
<1>0. MaxOrder \in Nat
  BY PmmAssumptions
<1>1. x \in Frees /\ Freeing(x, H, R)
  BY DEF Freeing, Frees, Account
<1>2. Returned(m, a, o) = Prepend(up[MaxOrder].pmm, up[MaxOrder].addr, up[MaxOrder].order)
  BY Zenon DEF Returned, IsUp
<1> HIDE DEF x
<1>3. IsUp(up, x)
  BY <1>1, UpExists
<1> HIDE DEF up
<1> DEFINE S == {n \in Orders : Freeing(up[n], H, R)}
<1>4. 0 \in S
  BY <1>0, <1>1, <1>3 DEF IsUp, Orders
<1>5. ASSUME NEW n \in 1 .. MaxOrder, n - 1 \in S PROVE n \in S
  <2>1. n \in Orders /\ n # 0
    BY <1>0 DEF Orders
  <2>2. up[n] = Merged(up[n - 1])
    BY <1>3, <2>1, Zenon DEF IsUp
  <2>3. Freeing(up[n - 1], H, R)
    BY <1>5
  <2> QED BY <2>1, <2>2, <2>3, MergedFreeing
<1>6. MaxOrder \in S
  <2> HIDE DEF S
  <2> QED BY <1>0, <1>4, <1>5, UpTo
<1>7. PICK y : y = up[MaxOrder]
  OBVIOUS
<1>8. /\ y.addr \in Nat /\ y.order \in Orders /\ Half(y.addr, y.order) \notin H
      /\ Account(y.pmm, H \cup {Half(y.addr, y.order)}, R)
  BY <1>6, <1>7 DEF Freeing, Frees
<1>9. Account(Prepend(y.pmm, y.addr, y.order), H, R)
  BY <1>8, PrependAccount
<1> QED BY <1>2, <1>7, <1>9

------------------------------------------------------------------------------
(* pmm_init.  x is the loop's state; the pages before x.cur are covered. *)

Covers(s) == [pmm : PmmStates, cur : {c \in Nat : s <= c}]

Covering(x, s) ==
  /\ x \in Covers(s)
  /\ x.cur <= s + Pages
  /\ Account(x.pmm, {}, s .. x.cur - 1)
  /\ PagesIn(FreeIn(x.pmm)) = s .. x.cur - 1

LEMMA LargestFits ==
  ASSUME NEW s \in Nat, NEW c \in Nat, s <= c, ~(c >= s + Pages)
  PROVE  /\ Largest(s, c) \in Orders /\ c + OrderSize[Largest(s, c)] <= s + Pages
         /\ (c - s) % OrderSize[Largest(s, c)] = 0
         /\ \A o \in Orders : c + OrderSize[o] <= s + Pages /\ (c - s) % OrderSize[o] = 0
                             => o <= Largest(s, c)
<1> DEFINE T == {o \in Orders : c + OrderSize[o] <= s + Pages /\ (c - s) % OrderSize[o] = 0}
           U == {MaxOrder - o : o \in T}
<1>0. MaxOrder \in Nat /\ Pages \in Nat
  BY PmmAssumptions
<1>1. 0 \in T
  BY <1>0, Sizes DEF Orders
<1>2. U \in SUBSET Nat /\ U # {}
  BY <1>0, <1>1 DEF Orders
<1>3. PICK u \in U : \A v \in U : u <= v
  <2> HIDE DEF U
  <2> QED BY <1>2, Least
<1>4. PICK g \in T : u = MaxOrder - g
  OBVIOUS
<1>5. \A o \in T : g >= o
  <2> SUFFICES ASSUME NEW o \in T PROVE g >= o
    OBVIOUS
  <2>1. u <= MaxOrder - o
    BY <1>3
  <2> QED BY <1>0, <1>4, <2>1 DEF Orders
<1> HIDE DEF T
<1>6. Max(T) \in T /\ \A o \in T : Max(T) >= o
  BY <1>5 DEF Max
<1>7. Largest(s, c) \in T /\ \A o \in T : Largest(s, c) >= o
  BY <1>6 DEF Largest, T
<1>8. \A o \in T : o <= Largest(s, c)
  BY <1>0, <1>7 DEF T, Orders
<1> QED BY <1>7, <1>8 DEF T

\* Q are the pages from s up to c, R those and the block at c.
NextUp(s, c, o, Q, R) ==
  /\ s \in Nat /\ c \in Nat /\ s <= c /\ o \in Orders
  /\ Q = s .. c - 1 /\ R = s .. c + OrderSize[o] - 1

\* The next block joins the pages that are covered.
LEMMA Extend ==
  ASSUME NEW m, NEW s, NEW c, NEW o, NEW Q, NEW R, NextUp(s, c, o, Q, R),
         Account(m, {}, Q), PagesIn(FreeIn(m)) = Q
  PROVE  /\ Account(m, {} \cup {Half(c, o)}, R)
         /\ PagesIn(FreeIn(m) \cup {Half(c, o)}) = R
<1> USE DEF NextUp
<1>0. OrderSize[o] \in Nat \ {0}
  BY Sizes
<1>1. \E F, b, z : F = FreeIn(m) /\ b = Half(c, o) /\ z = OrderSize[o]
  OBVIOUS
<1>a. PICK F, b, z : F = FreeIn(m) /\ b = Half(c, o) /\ z = OrderSize[o]
  BY <1>1, Zenon
<1>b. z \in Nat /\ z > 0
  BY <1>0, <1>a
<1>2. b \in Block /\ PagesOf(b) = c .. c + z - 1
  BY <1>a DEF Half, Block, PagesOf
<1>3. /\ F \subseteq Block /\ Disjoint(F) /\ PagesIn(F) \subseteq s .. c - 1
      /\ PagesIn(F) # s .. c - 1 => m.count = PoolCap
  <2>1. F \cup {} = F
    OBVIOUS
  <2> QED BY <1>a, <2>1 DEF Account, Tiled
<1>4. \A d \in F : PagesOf(d) \cap PagesOf(b) = {}
  <2>1. \A d \in F : PagesOf(d) \subseteq s .. c - 1
    BY <1>3 DEF PagesIn
  <2> QED BY <1>2, <2>1
<1>5. Disjoint(F \cup {b})
  BY <1>3, <1>4 DEF Disjoint
<1>6. PagesIn(F \cup {b}) = PagesIn(F) \cup (c .. c + z - 1)
  BY <1>2, Zenon DEF PagesIn
<1>7. PagesIn(F \cup {b}) \subseteq s .. c + z - 1
  <2>1. s .. c - 1 \subseteq s .. c + z - 1 /\ c .. c + z - 1 \subseteq s .. c + z - 1
    BY <1>b
  <2> QED BY <1>3, <1>6, <2>1, Zenon
<1>8. PagesIn(F \cup {b}) = s .. c + z - 1
  <2>1. (s .. c - 1) \cup (c .. c + z - 1) = s .. c + z - 1
    BY <1>b
  <2> QED BY <1>a, <1>6, <2>1, Zenon
<1>9. b \notin F
  BY <1>2, <1>4, OfBlock, Zenon
<1>10. F \cup ({} \cup {b}) = F \cup {b} /\ F \cap ({} \cup {b}) = {}
  BY <1>9
<1>11. /\ m \in PmmStates /\ (\A x \in Orders : IsInjective(m.lists[x]))
       /\ Counts(m, FreeIn(m))
  BY DEF Account
<1>12. Tiled(F \cup {b}, s .. c + z - 1)
  BY <1>2, <1>3, <1>5, <1>7, Zenon DEF Tiled
<1>13. Account(m, {} \cup {b}, s .. c + z - 1)
  BY <1>a, <1>8, <1>10, <1>11, <1>12, Zenon DEF Account
<1>14. s .. c + z - 1 = R
  BY <1>a, <1>b
<1> QED BY <1>a, <1>8, <1>13, <1>14, Zenon

LEMMA PrependType ==
  ASSUME NEW m \in PmmStates, NEW a \in Nat, NEW o \in Orders
  PROVE  Prepend(m, a, o) \in PmmStates
<1>1. CASE Exhausted(m)
  BY <1>1 DEF Prepend
<1>2. CASE ~Exhausted(m)
  BY <1>2, PrependFields, Zenon
<1> QED BY <1>1, <1>2

\* What a round that lists a block does.
LEMMA CutLists ==
  ASSUME NEW s \in Nat, NEW x \in Covers(s), Cut(s, x) # x
  PROVE  \E o \in Orders :
           /\ Cut(s, x) = [pmm |-> Prepend(x.pmm, x.cur, o), cur |-> x.cur + OrderSize[o]]
           /\ x.cur + OrderSize[o] <= s + Pages
           /\ ~Exhausted(x.pmm)
           /\ (x.cur - s) % OrderSize[o] = 0
           /\ \A i \in Orders :
                x.cur + OrderSize[i] <= s + Pages /\ (x.cur - s) % OrderSize[i] = 0 => i <= o
<1>1. ~(x.cur >= s + Pages \/ Exhausted(x.pmm))
  BY DEF Cut
<1>2. x.cur \in Nat /\ s <= x.cur
  BY DEF Covers
<1>3. PICK o : o = Largest(s, x.cur)
  OBVIOUS
<1>4. /\ o \in Orders /\ x.cur + OrderSize[o] <= s + Pages
      /\ (x.cur - s) % OrderSize[o] = 0
      /\ \A i \in Orders :
           x.cur + OrderSize[i] <= s + Pages /\ (x.cur - s) % OrderSize[i] = 0 => i <= o
  BY <1>1, <1>2, <1>3, LargestFits
<1>5. Cut(s, x) = [pmm |-> Prepend(x.pmm, x.cur, o), cur |-> x.cur + OrderSize[o]]
  BY <1>1, <1>3 DEF Cut
<1> QED BY <1>1, <1>4, <1>5

LEMMA CutType ==
  ASSUME NEW s \in Nat, NEW x \in Covers(s)
  PROVE  Cut(s, x) \in Covers(s)
<1> SUFFICES ASSUME Cut(s, x) # x PROVE Cut(s, x) \in Covers(s)
  OBVIOUS
<1>1. PICK o \in Orders : Cut(s, x) = [pmm |-> Prepend(x.pmm, x.cur, o), cur |-> x.cur + OrderSize[o]]
  BY CutLists
<1>2. x.pmm \in PmmStates /\ x.cur \in Nat /\ s <= x.cur
  BY DEF Covers
<1>3. PICK w \in PmmStates : w = Prepend(x.pmm, x.cur, o)
  BY <1>2, PrependType
<1>4. PICK c \in Nat : c = x.cur + OrderSize[o] /\ s <= c
  BY <1>2, Sizes
<1> QED BY <1>1, <1>3, <1>4 DEF Covers

LEMMA CutCovering ==
  ASSUME NEW s \in Nat, NEW x, Covering(x, s)
  PROVE  Covering(Cut(s, x), s)
<1> SUFFICES ASSUME Cut(s, x) # x PROVE Covering(Cut(s, x), s)
  OBVIOUS
<1>1. /\ x \in Covers(s) /\ Account(x.pmm, {}, s .. x.cur - 1)
      /\ PagesIn(FreeIn(x.pmm)) = s .. x.cur - 1
  BY DEF Covering
<1>2. PICK o \in Orders :
        /\ Cut(s, x) = [pmm |-> Prepend(x.pmm, x.cur, o), cur |-> x.cur + OrderSize[o]]
        /\ x.cur + OrderSize[o] <= s + Pages
        /\ ~Exhausted(x.pmm)
  BY <1>1, CutLists
<1>3. x.cur \in Nat /\ s <= x.cur
  BY <1>1 DEF Covers
<1>4. PICK m, w, p, c : /\ m = x.pmm /\ w = Prepend(m, p, o) /\ p = x.cur
                        /\ c = p + OrderSize[o]
  OBVIOUS
<1>5. PICK Q : Q = s .. p - 1
  OBVIOUS
<1>c. /\ Account(m, {}, Q) /\ PagesIn(FreeIn(m)) = Q
      /\ p \in Nat /\ s <= p /\ ~Exhausted(m)
  BY <1>1, <1>2, <1>3, <1>4, <1>5
<1>6. PICK I : I = s .. c - 1
  OBVIOUS
<1>d. c \in Nat
  BY <1>c, <1>4, Sizes
<1>a. Account(m, {} \cup {Half(p, o)}, I) /\ PagesIn(FreeIn(m) \cup {Half(p, o)}) = I
  <2>1. NextUp(s, p, o, Q, I)
    BY <1>c, <1>d, <1>4, <1>5, <1>6, Sizes, SMTT(30) DEF NextUp
  <2> QED BY <1>c, <2>1, Extend
<1>b. Account(w, {}, I)
  BY <1>4, <1>c, <1>a, PrependAccount
<1>7. FreeIn(w) = FreeIn(m) \cup {Half(p, o)}
  <2>1. FreeIn(Prepend(m, p, o)) = FreeIn(m) \cup {Half(p, o)}
    <3>1. m \in PmmStates /\ IsInjective(m.lists[o]) /\ p \notin Range(m.lists[o])
      BY <1>c, <1>a, NotListed, Zenon DEF Account
    <3> QED BY <1>c, <3>1, PrependFree
  <2> QED BY <1>4, <2>1
<1>8. PICK y : y = Cut(s, x)
  OBVIOUS
<1>9. y.pmm = w /\ y.cur = c
  BY <1>2, <1>4, <1>8
<1>10. y \in Covers(s) /\ y.cur <= s + Pages
  BY <1>1, <1>2, <1>4, <1>8, <1>9, CutType
<1>12. Account(w, {}, s .. c - 1) /\ PagesIn(FreeIn(w)) = s .. c - 1
  BY <1>6, <1>7, <1>a, <1>b
<1>13. Account(y.pmm, {}, s .. y.cur - 1) /\ PagesIn(FreeIn(y.pmm)) = s .. y.cur - 1
  BY <1>9, <1>12
<1> QED BY <1>8, <1>10, <1>13 DEF Covering

IsRound(f, s) ==
  f = [n \in 0 .. Pages |->
         IF n = 0 THEN [pmm |-> Nothing, cur |-> s] ELSE Cut(s, f[n - 1])]

LEMMA NothingCovering ==
  ASSUME NEW s \in Nat
  PROVE  Covering([pmm |-> Nothing, cur |-> s], s)
<1>0. Pages \in Nat /\ PoolCap \in Nat
  BY PmmAssumptions
<1>1. Nothing \in PmmStates
  BY <1>0 DEF Nothing, PmmStates
<1>2. \A o \in Orders : Nothing.lists[o] = <<>>
  BY DEF Nothing
<1>3. \A o \in Orders : Range(Nothing.lists[o]) = {} /\ IsInjective(Nothing.lists[o])
  BY <1>2 DEF Range, IsInjective
<1>4. FreeIn(Nothing) = {}
  BY <1>3 DEF FreeIn
<1>5. PagesIn({}) = {} /\ s .. s - 1 = {}
  BY DEF PagesIn
<1>6. Tiled({}, s .. s - 1)
  BY <1>5 DEF Tiled, Disjoint
<1>7. Counts(Nothing, {})
  BY <1>5, FS_EmptySet DEF Counts, Nothing
<1>8. Account(Nothing, {}, s .. s - 1)
  <2>1. {} \cup {} = {} /\ {} \cap {} = {}
    OBVIOUS
  <2> QED BY <1>1, <1>3, <1>4, <1>5, <1>6, <1>7, <2>1, Zenon DEF Account
<1>9. PICK x : x = [pmm |-> Nothing, cur |-> s]
  BY Zenon
<1>10. x.pmm = Nothing /\ x.cur = s /\ x \in Covers(s)
  BY <1>1, <1>9 DEF Covers
<1>11. PagesIn(FreeIn(Nothing)) = s .. s - 1
  BY <1>4, <1>5
<1> QED BY <1>0, <1>8, <1>9, <1>10, <1>11 DEF Covering

LEMMA RoundExists ==
  ASSUME NEW s \in Nat
  PROVE  \E f : IsRound(f, s)
<1> DEFINE D == Covers(s)
           x == [pmm |-> Nothing, cur |-> s]
           G == [p \in (1 .. Pages) \X D |-> Cut(s, p[2])]
<1>0. Pages \in Nat /\ x \in D
  BY PmmAssumptions, NothingCovering DEF Covering
<1> HIDE DEF x, D
<1>1. G \in [(1 .. Pages) \X D -> D]
  BY CutType DEF D
<1>2. PICK f \in [0 .. Pages -> D] : IsRecursion(f, Pages, x, G)
  <2> HIDE DEF G
  <2> QED BY <1>0, <1>1, Recursion, Zenon
<1>3. ASSUME NEW k \in 1 .. Pages PROVE f[k] = Cut(s, f[k - 1])
  <2>1. f[k - 1] \in D
    BY <1>0
  <2>2. G[<<k, f[k - 1]>>] = Cut(s, f[k - 1])
    BY <2>1
  <2> HIDE DEF G
  <2> QED BY <1>2, <2>2 DEF IsRecursion
<1>4. f = [n \in 0 .. Pages |-> f[n]] /\ f[0] = x
  BY <1>2 DEF IsRecursion
<1>5. \A n \in 0 .. Pages : f[n] = IF n = 0 THEN x ELSE Cut(s, f[n - 1])
  <2> SUFFICES ASSUME NEW n \in 0 .. Pages, n # 0 PROVE f[n] = Cut(s, f[n - 1])
    BY <1>4
  <2>1. n \in 1 .. Pages
    BY <1>0
  <2> QED BY <1>3, <2>1
<1>6. IsRound(f, s)
  BY <1>4, <1>5, Zenon DEF IsRound, x
<1> QED BY <1>6

LEMMA CoverCovering ==
  ASSUME NEW s \in Nat
  PROVE  Covering(Cover(s), s)
<1> DEFINE round == CHOOSE f : IsRound(f, s)
           S == {n \in 0 .. Pages : Covering(round[n], s)}
<1>0. Pages \in Nat
  BY PmmAssumptions
<1>1. IsRound(round, s)
  BY RoundExists, Zenon
<1>2. Cover(s) = round[Pages]
  BY DEF Cover, IsRound
<1> HIDE DEF round
<1>3. round[0] = [pmm |-> Nothing, cur |-> s]
  BY <1>0, <1>1 DEF IsRound
<1>4. 0 \in S
  BY <1>0, <1>3, NothingCovering
<1>5. ASSUME NEW k \in 1 .. Pages, k - 1 \in S PROVE k \in S
  <2>1. round[k] = Cut(s, round[k - 1])
    BY <1>0, <1>1 DEF IsRound
  <2>2. Covering(Cut(s, round[k - 1]), s)
    BY <1>5, CutCovering
  <2> QED BY <1>0, <2>1, <2>2
<1>6. \A k \in 0 .. Pages : k \in S
  <2> HIDE DEF S
  <2> QED BY <1>0, <1>4, <1>5, UpTo
<1> QED BY <1>0, <1>2, <1>6

LEMMA CoveredAccount ==
  ASSUME NEW s \in Starts
  PROVE  Account(Covered(s), {}, s .. s + Pages - 1)
<1>0. s \in Nat /\ Pages \in Nat
  BY PmmAssumptions
<1>1. PICK m, c : m = Cover(s).pmm /\ c = Cover(s).cur
  OBVIOUS
<1>2. c = s + Pages
  BY <1>1, PoolAssumption
<1>3. PICK R : R = s .. c - 1
  OBVIOUS
<1>4. Account(m, {}, R) /\ PagesIn(FreeIn(m)) = R
  <2>1. PICK x : x = Cover(s)
    OBVIOUS
  <2>2. Covering(x, s) /\ m = x.pmm /\ c = x.cur
    BY <1>0, <1>1, <2>1, CoverCovering
  <2> QED BY <1>3, <2>2 DEF Covering
<1>5. m \in PmmStates
  BY <1>4 DEF Account
<1>6. PICK w : w = Covered(s)
  OBVIOUS
<1>7. w = [m EXCEPT !.free_pages = Pages]
  BY <1>1, <1>6 DEF Covered
<1>8. /\ w \in PmmStates /\ w.lists = m.lists /\ w.free_pages = Pages
      /\ w.count = m.count /\ w.recycled = m.recycled
  BY <1>0, <1>5, <1>7 DEF PmmStates
<1>9. FreeIn(w) = FreeIn(m)
  BY <1>8 DEF FreeIn
<1>10. Cardinality(R) = Pages /\ R = s .. s + Pages - 1
  BY <1>0, <1>2, <1>3, FS_Interval
<1>11. Counts(w, FreeIn(w))
  <2>1. Counts(m, FreeIn(m))
    BY <1>4 DEF Account
  <2> QED BY <1>4, <1>8, <1>9, <1>10, <2>1 DEF Counts
<1>12. Account(w, {}, R)
  BY <1>4, <1>8, <1>9, <1>11 DEF Account
<1> QED BY <1>6, <1>10, <1>12

------------------------------------------------------------------------------
(* The steps. *)

PmmInv == start \in Starts /\ Account(pmm, out, Memory)

LEMMA ZeroOutside ==
  ASSUME start \in Starts
  PROVE  0 \notin Memory
BY PmmAssumptions DEF Memory

LEMMA PmmAllocPreserves ==
  ASSUME PmmInv, NEW o \in Orders, PmmAlloc(o)
  PROVE  PmmInv'
<1>1. PICK a : a = Allocated(pmm, o)
  OBVIOUS
<1>2. /\ pmm' = a.pmm /\ start' = start
      /\ out' = IF a.addr = 0 THEN out ELSE out \cup {Half(a.addr, o)}
  BY <1>1 DEF PmmAlloc, Half
<1>3. Memory' = Memory /\ start' \in Starts
  BY <1>2 DEF Memory, PmmInv
<1>4. Taken(a, out, o, Memory)
  BY <1>1, AllocTaken, ZeroOutside DEF PmmInv
<1>5. Account(pmm', out', Memory)
  BY <1>2, <1>4 DEF Taken
<1> QED BY <1>3, <1>5 DEF PmmInv

LEMMA PmmFreePreserves ==
  ASSUME PmmInv, NEW b \in out, PmmFree(b)
  PROVE  PmmInv'
<1>1. Account(pmm, out, Memory) /\ start \in Starts
  BY DEF PmmInv
<1>2. b \in Block
  BY <1>1 DEF Account, Tiled
<1>3. PICK a \in Nat, o \in Orders : a = b.addr /\ o = b.order /\ b = Half(a, o)
  BY <1>2 DEF Block, Half
<1>4. PICK H : H = out \ {b}
  BY Zenon
<1>5. b \notin H /\ H \cup {b} = out
  BY <1>4
<1>6. Account(pmm, H \cup {Half(a, o)}, Memory) /\ Half(a, o) \notin H
  BY <1>1, <1>3, <1>5
<1>7. Account(Returned(pmm, a, o), H, Memory)
  BY <1>6, ReturnAccount
<1>8. pmm' = Returned(pmm, a, o) /\ out' = H /\ start' = start
  BY <1>3, <1>4 DEF PmmFree
<1>9. Memory' = Memory
  BY <1>8 DEF Memory
<1> QED BY <1>1, <1>7, <1>8, <1>9 DEF PmmInv

\* pmm_init establishes the account of the memory and of what callers hold,
\* and every pmm_alloc and pmm_free keeps it.
THEOREM PmmInvariant == PmmSpec => []PmmInv
<1>1. PmmInit => PmmInv
  BY CoveredAccount DEF PmmInit, PmmInv, Memory
<1>2. PmmInv /\ [PmmNext]_pmmVars => PmmInv'
  <2> SUFFICES ASSUME PmmInv, [PmmNext]_pmmVars PROVE PmmInv'
    OBVIOUS
  <2>1. CASE \E o \in Orders : PmmAlloc(o)
    BY <2>1, PmmAllocPreserves
  <2>2. CASE \E b \in out : PmmFree(b)
    BY <2>2, PmmFreePreserves
  <2>3. CASE UNCHANGED pmmVars
    <3>1. start' = start /\ pmm' = pmm /\ out' = out
      BY <2>3 DEF pmmVars
    <3> QED BY <3>1 DEF PmmInv, Memory
  <2> QED BY <2>1, <2>2, <2>3 DEF PmmNext
<1> QED BY <1>1, <1>2, PTL DEF PmmSpec

\* Whatever is allocated and freed in whatever order, no page is on two
\* blocks, free or held; free_pages is exact; and a page is lost only once the
\* pool has no fresh node.
THEOREM PagesAccountedHolds == PmmSpec => []PagesAccounted
<1>1. PmmInv => PagesAccounted
  BY DEF PmmInv, Account, Counts, Tiled, PagesAccounted, FreeBlocks
<1> QED BY <1>1, PmmInvariant, PTL

\* The lists, the counters and the held blocks stay in their ranges; the pool
\* never hands out more nodes than it has.
THEOREM PmmTypeCorrect == PmmSpec => []PmmTypeOK
<1>1. PmmInv => PmmTypeOK
  <2> SUFFICES ASSUME PmmInv PROVE PmmTypeOK
    OBVIOUS
  <2>1. /\ start \in Starts /\ pmm \in PmmStates /\ Counts(pmm, FreeBlocks)
        /\ out \subseteq Block
    BY DEF PmmInv, Account, Tiled, FreeBlocks
  <2>2. Cardinality(FreeBlocks) \in Nat
    BY <2>1, FS_CardinalityType DEF Counts
  <2>3. pmm.recycled \in 0 .. PoolCap /\ pmm.count \in 0 .. PoolCap
    BY <2>1, <2>2, Fields, PmmAssumptions DEF Counts
  <2> QED BY <2>1, <2>3 DEF PmmStates, PmmTypeOK
<1> QED BY <1>1, PmmInvariant, PTL

==============================================================================
