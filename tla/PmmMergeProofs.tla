--------------------------- MODULE PmmMergeProofs ----------------------------
(***************************************************************************)
(* The proof that Pmm merges blocks back, when the memory begins at a      *)
(* multiple of the largest block.                                          *)
(*                                                                         *)
(* Then every block lies at a multiple of its size (Aligned): of two that  *)
(* meet one is inside the other, and a block and its buddy are the halves  *)
(* of a block.  Tidy is the invariant of the free blocks: they are aligned *)
(* and no two are buddies.  Given the pages, only one set of blocks is     *)
(* tidy (OneWay), so what is listed when all is back is what pmm_init      *)
(* listed.                                                                 *)
(***************************************************************************)
EXTENDS PmmProofs

------------------------------------------------------------------------------
(* Multiples of the block sizes. *)

Aligned(a, o) == \E q \in Nat : a = q * OrderSize[o]

LEMMA Quotient ==
  ASSUME NEW s \in Nat \ {0}, NEW q \in Nat, NEW a, a = q * s
  PROVE  a \div s = q /\ a % s = 0
OBVIOUS

LEMMA Divides ==
  ASSUME NEW s \in Nat \ {0}, NEW a \in Nat, a % s = 0
  PROVE  \E q \in Nat : a = q * s
<1>1. a = (a \div s) * s
  OBVIOUS
<1>2. a \div s \in Nat
  OBVIOUS
<1> QED BY <1>1, <1>2

LEMMA EvenOdd ==
  ASSUME NEW q \in Nat
  PROVE  \E r \in Nat : (q % 2 = 0 /\ q = 2 * r) \/ (q % 2 # 0 /\ q = 2 * r + 1)
<1>1. q \div 2 \in Nat /\ (q = 2 * (q \div 2) \/ q = 2 * (q \div 2) + 1)
  OBVIOUS
<1> QED BY <1>1

LEMMA AlignedIsRest ==
  ASSUME NEW a \in Nat, NEW o \in Orders
  PROVE  Aligned(a, o) <=> a % OrderSize[o] = 0
<1>1. OrderSize[o] \in Nat \ {0}
  BY Sizes
<1>2. ASSUME Aligned(a, o) PROVE a % OrderSize[o] = 0
  <2>1. PICK q \in Nat : a = q * OrderSize[o]
    BY <1>2 DEF Aligned
  <2> QED BY <1>1, <2>1, Quotient, Zenon
<1>3. ASSUME a % OrderSize[o] = 0 PROVE Aligned(a, o)
  BY <1>1, <1>3, Divides, Zenon DEF Aligned
<1> QED BY <1>2, <1>3

\* A block of the next order is two of this one.
LEMMA AlignedHalves ==
  ASSUME NEW a \in Nat, NEW o \in Orders, o # MaxOrder, Aligned(a, o + 1)
  PROVE  /\ Aligned(a, o) /\ Aligned(a + OrderSize[o], o)
         /\ Buddy(a, o) = a + OrderSize[o]
         /\ Buddy(a + OrderSize[o], o) = a
<1>1. PICK z \in Nat \ {0} : z = OrderSize[o]
  BY Sizes
<1>2. OrderSize[o + 1] = 2 * z
  BY <1>1, Sizes
<1>3. PICK q \in Nat : a = q * (2 * z)
  BY <1>2 DEF Aligned
<1>4. a = (2 * q) * z /\ a + z = (2 * q + 1) * z /\ 2 * q \in Nat /\ 2 * q + 1 \in Nat
  BY <1>3
<1>5. a \div z = 2 * q /\ (a + z) \div z = 2 * q + 1
  BY <1>4, Quotient, Zenon
<1>6. (a \div z) % 2 = 0 /\ ((a + z) \div z) % 2 # 0
  BY <1>5
<1>7. Aligned(a, o) /\ Aligned(a + z, o)
  BY <1>1, <1>4 DEF Aligned
<1>8. Buddy(a, o) = a + z /\ Buddy(a + z, o) = (a + z) - z
  BY <1>1, <1>6 DEF Buddy
<1>9. (a + z) - z = a
  OBVIOUS
<1> QED BY <1>1, <1>7, <1>8, <1>9

\* A block and its buddy are the halves of a block of the next order.
LEMMA AlignedPair ==
  ASSUME NEW a \in Nat, NEW o \in Orders, o # MaxOrder, Aligned(a, o)
  PROVE  \E l \in Nat :
           /\ Aligned(l, o + 1)
           /\ \/ a = l /\ Buddy(a, o) = l + OrderSize[o]
              \/ a = l + OrderSize[o] /\ Buddy(a, o) = l
<1>1. PICK z \in Nat \ {0} : z = OrderSize[o]
  BY Sizes
<1>2. OrderSize[o + 1] = 2 * z
  BY <1>1, Sizes
<1>3. PICK q \in Nat : a = q * z
  BY <1>1 DEF Aligned
<1>4. PICK r \in Nat : q = 2 * r \/ q = 2 * r + 1
  BY EvenOdd, Zenon
<1>5. PICK l \in Nat : l = r * (2 * z)
  OBVIOUS
<1>6. Aligned(l, o + 1)
  BY <1>2, <1>5 DEF Aligned
<1>7. Buddy(l, o) = l + z /\ Buddy(l + z, o) = l
  BY <1>1, <1>6, AlignedHalves
<1>8. CASE q = 2 * r
  <2>1. a = l
    BY <1>3, <1>5, <1>8
  <2> QED BY <1>1, <1>6, <1>7, <2>1
<1>9. CASE q = 2 * r + 1
  <2>1. a = l + z
    BY <1>3, <1>5, <1>9
  <2> QED BY <1>1, <1>6, <1>7, <2>1
<1> QED BY <1>4, <1>8, <1>9

\* A larger block is a number of smaller ones.
LEMMA SizeMultiple ==
  ASSUME NEW i \in Orders, NEW j \in Orders, i <= j
  PROVE  \E f \in Nat \ {0} : OrderSize[j] = f * OrderSize[i]
<1> DEFINE Is(k) == \E f \in Nat \ {0} : OrderSize[i + k] = f * OrderSize[i]
           S == {k \in 0 .. MaxOrder - i : Is(k)}
<1>0. MaxOrder \in Nat /\ i \in Nat /\ i <= MaxOrder /\ j \in Nat /\ j <= MaxOrder
  BY PmmAssumptions DEF Orders
<1>1. PICK z \in Nat \ {0} : z = OrderSize[i]
  BY Sizes
<1>2. 0 \in S
  <2>1. i + 0 = i /\ z = 1 * z /\ 0 \in 0 .. MaxOrder - i
    BY <1>0
  <2>2. Is(0)
    BY <1>1, <2>1
  <2> QED BY <2>1, <2>2
<1>3. ASSUME NEW k \in 1 .. MaxOrder - i, k - 1 \in S PROVE k \in S
  <2>1. PICK o \in Orders : o = i + (k - 1) /\ o # MaxOrder /\ o + 1 = i + k
    BY <1>0 DEF Orders
  <2>2. PICK f \in Nat \ {0} : OrderSize[o] = f * z
    BY <1>1, <1>3, <2>1
  <2>3. OrderSize[o + 1] = 2 * OrderSize[o]
    BY <2>1, Sizes
  <2>4. OrderSize[i + k] = (2 * f) * z
    BY <2>1, <2>2, <2>3
  <2>5. Is(k) /\ k \in 0 .. MaxOrder - i
    BY <1>0, <1>1, <2>2, <2>4
  <2> HIDE DEF Is
  <2> QED BY <2>5
<1> HIDE DEF S
<1>4. \A k \in 0 .. MaxOrder - i : k \in S
  <2>1. MaxOrder - i \in Nat
    BY <1>0
  <2> QED BY <1>2, <1>3, <2>1, UpTo
<1>5. j - i \in 0 .. MaxOrder - i /\ i + (j - i) = j
  BY <1>0
<1>6. Is(j - i)
  BY <1>4, <1>5 DEF S
<1> QED BY <1>5, <1>6

LEMMA AlignedDown ==
  ASSUME NEW a \in Nat, NEW i \in Orders, NEW j \in Orders, i <= j, Aligned(a, j)
  PROVE  Aligned(a, i)
<1>1. PICK f \in Nat \ {0} : OrderSize[j] = f * OrderSize[i]
  BY SizeMultiple
<1>2. PICK q \in Nat : a = q * OrderSize[j]
  BY DEF Aligned
<1>3. PICK z \in Nat \ {0} : z = OrderSize[i]
  BY Sizes
<1>4. a = (q * f) * z /\ q * f \in Nat
  BY <1>1, <1>2, <1>3
<1> QED BY <1>3, <1>4 DEF Aligned

\* Blocks that meet are nested.
LEMMA Nested ==
  ASSUME NEW a \in Nat, NEW b \in Nat, NEW i \in Orders, NEW j \in Orders, i <= j,
         Aligned(a, i), Aligned(b, j),
         a < b + OrderSize[j], b < a + OrderSize[i]
  PROVE  b <= a /\ a + OrderSize[i] <= b + OrderSize[j]
<1>1. PICK f \in Nat \ {0} : OrderSize[j] = f * OrderSize[i]
  BY SizeMultiple
<1>2. PICK z \in Nat \ {0} : z = OrderSize[i]
  BY Sizes
<1>3. PICK q \in Nat : a = q * z
  BY <1>2 DEF Aligned
<1>4. PICK r \in Nat : b = r * OrderSize[j]
  BY DEF Aligned
<1>5. PICK p \in Nat : p = r * f /\ b = p * z /\ b + OrderSize[j] = (p + f) * z
  <2>1. r * f \in Nat /\ b = (r * f) * z /\ b + f * z = (r * f + f) * z
    BY <1>1, <1>2, <1>4
  <2> QED BY <1>1, <1>2, <2>1
<1>6. q < p + f
  <2>1. q * z < (p + f) * z
    BY <1>3, <1>5
  <2> QED BY <2>1
<1>7. p <= q
  <2>1. p * z < (q + 1) * z
    BY <1>2, <1>3, <1>5
  <2> QED BY <2>1
<1>8. p * z <= q * z /\ (q + 1) * z <= (p + f) * z
  BY <1>6, <1>7
<1>9. (q + 1) * z = q * z + z
  OBVIOUS
<1> QED BY <1>2, <1>3, <1>5, <1>8, <1>9

------------------------------------------------------------------------------
(* Blocks and their buddies. *)

On(b) == Aligned(b.addr, b.order)

Mate(b) == Half(Buddy(b.addr, b.order), b.order)

Meets(b, c) ==
  /\ b.addr < c.addr + OrderSize[c.order]
  /\ c.addr < b.addr + OrderSize[b.order]

Inside(b, c) ==
  /\ c.addr <= b.addr
  /\ b.addr + OrderSize[b.order] <= c.addr + OrderSize[c.order]

LEMMA Parts ==
  ASSUME NEW b \in Block
  PROVE  /\ b.addr \in Nat /\ b.order \in Orders /\ OrderSize[b.order] \in Nat \ {0}
         /\ b = Half(b.addr, b.order)
         /\ b.addr \in PagesOf(b)
         /\ \A p : p \in PagesOf(b) <=>
                   p \in Nat /\ b.addr <= p /\ p < b.addr + OrderSize[b.order]
<1>1. b.addr \in Nat /\ b.order \in Orders /\ b = Half(b.addr, b.order)
  BY DEF Block, Half
<1>2. OrderSize[b.order] \in Nat \ {0}
  BY <1>1, Sizes
<1>3. ASSUME NEW p
      PROVE  p \in PagesOf(b) <=> p \in Nat /\ b.addr <= p /\ p < b.addr + OrderSize[b.order]
  BY <1>1, <1>2 DEF PagesOf
<1>4. b.addr \in PagesOf(b)
  BY <1>1, <1>2 DEF PagesOf
<1> QED BY <1>1, <1>2, <1>3, <1>4

LEMMA MeetsPages ==
  ASSUME NEW b \in Block, NEW c \in Block
  PROVE  Meets(b, c) <=> PagesOf(b) \cap PagesOf(c) # {}
<1>1. ASSUME Meets(b, c) PROVE PagesOf(b) \cap PagesOf(c) # {}
  <2>1. CASE b.addr <= c.addr
    <3>1. c.addr \in PagesOf(b) /\ c.addr \in PagesOf(c)
      BY <1>1, <2>1, Parts DEF Meets
    <3> QED BY <3>1
  <2>2. CASE ~(b.addr <= c.addr)
    <3>1. b.addr \in PagesOf(b) /\ b.addr \in PagesOf(c)
      BY <1>1, <2>2, Parts DEF Meets
    <3> QED BY <3>1
  <2> QED BY <2>1, <2>2
<1>2. ASSUME NEW p \in PagesOf(b), p \in PagesOf(c) PROVE Meets(b, c)
  BY <1>2, Parts DEF Meets
<1> QED BY <1>1, <1>2

LEMMA NestedBlocks ==
  ASSUME NEW b \in Block, NEW c \in Block, On(b), On(c), Meets(b, c), b.order <= c.order
  PROVE  Inside(b, c) /\ (b.order = c.order => b = c)
<1>1. PICK a \in Nat, i \in Orders : a = b.addr /\ i = b.order /\ b = Half(a, i)
  BY Parts
<1>2. PICK d \in Nat, j \in Orders : d = c.addr /\ j = c.order /\ c = Half(d, j)
  BY Parts
<1>3. Aligned(a, i) /\ Aligned(d, j) /\ a < d + OrderSize[j] /\ d < a + OrderSize[i] /\ i <= j
  BY <1>1, <1>2 DEF On, Meets
<1>4. d <= a /\ a + OrderSize[i] <= d + OrderSize[j]
  BY <1>3, Nested
<1>5. i = j => a = d
  BY <1>4, Sizes
<1>6. Inside(b, c)
  BY <1>1, <1>2, <1>4 DEF Inside
<1> QED BY <1>1, <1>2, <1>5, <1>6

LEMMA Mates ==
  ASSUME NEW b \in Block, On(b), b.order < MaxOrder
  PROVE  /\ Mate(b) \in Block /\ On(Mate(b)) /\ Mate(b).order = b.order
         /\ Mate(Mate(b)) = b /\ Mate(b) # b
<1>1. PICK a \in Nat, o \in Orders : a = b.addr /\ o = b.order /\ b = Half(a, o)
  BY Parts
<1>2. Aligned(a, o) /\ o # MaxOrder
  BY <1>1, PmmAssumptions DEF On, Orders
<1>3. PICK l \in Nat :
        /\ Aligned(l, o + 1)
        /\ \/ a = l /\ Buddy(a, o) = l + OrderSize[o]
           \/ a = l + OrderSize[o] /\ Buddy(a, o) = l
  BY <1>2, AlignedPair
<1>4. /\ Aligned(l, o) /\ Aligned(l + OrderSize[o], o)
      /\ Buddy(l, o) = l + OrderSize[o] /\ Buddy(l + OrderSize[o], o) = l
  BY <1>2, <1>3, AlignedHalves
<1>5. OrderSize[o] \in Nat \ {0}
  BY Sizes
<1>6. PICK c : c = Buddy(a, o)
  OBVIOUS
<1>7. c \in Nat /\ Aligned(c, o) /\ Buddy(c, o) = a /\ c # a
  BY <1>3, <1>4, <1>5, <1>6
<1>8. Mate(b) = Half(c, o)
  BY <1>1, <1>6, Zenon DEF Mate
<1>9. Half(c, o) \in Block /\ Half(c, o).addr = c /\ Half(c, o).order = o
  BY <1>7 DEF Half, Block
<1>10. On(Half(c, o))
  BY <1>7, <1>9 DEF On
<1>11. Mate(Half(c, o)) = b
  BY <1>1, <1>7, <1>9 DEF Mate
<1>12. Half(c, o) # b
  BY <1>1, <1>7, <1>9
<1> QED BY <1>1, <1>8, <1>9, <1>10, <1>11, <1>12, Zenon

\* A larger block holds with a block its buddy.
LEMMA MateInside ==
  ASSUME NEW b \in Block, NEW c \in Block, On(b), On(c), b.order < c.order, Meets(b, c)
  PROVE  Inside(Mate(b), c) /\ Meets(Mate(b), c)
<1>1. PICK a \in Nat, o \in Orders : a = b.addr /\ o = b.order /\ b = Half(a, o)
  BY Parts
<1>2. PICK d \in Nat, j \in Orders : d = c.addr /\ j = c.order /\ c = Half(d, j)
  BY Parts
<1>3. /\ Aligned(a, o) /\ Aligned(d, j) /\ a < d + OrderSize[j] /\ d < a + OrderSize[o]
      /\ o # MaxOrder /\ o + 1 \in Orders /\ o + 1 <= j
  BY <1>1, <1>2, PmmAssumptions DEF On, Meets, Orders
<1>4. PICK l \in Nat :
        /\ Aligned(l, o + 1)
        /\ \/ a = l /\ Buddy(a, o) = l + OrderSize[o]
           \/ a = l + OrderSize[o] /\ Buddy(a, o) = l
  BY <1>3, AlignedPair
<1>5. PICK z \in Nat \ {0} : z = OrderSize[o] /\ OrderSize[o + 1] = 2 * z
  BY <1>3, Sizes
<1>6. OrderSize[j] \in Nat \ {0}
  BY Sizes
<1>7. l < d + OrderSize[j] /\ d < l + OrderSize[o + 1]
  BY <1>3, <1>4, <1>5, <1>6
<1>8. d <= l /\ l + 2 * z <= d + OrderSize[j]
  BY <1>3, <1>4, <1>5, <1>7, Nested
<1>9. PICK e \in Nat : e = Buddy(a, o)
  BY <1>4, <1>5
<1>10. d <= e /\ e + z <= d + OrderSize[j]
  BY <1>4, <1>5, <1>6, <1>8, <1>9
<1>11. Mate(b).addr = e /\ Mate(b).order = o
  BY <1>1, <1>9 DEF Mate, Half
<1> QED BY <1>2, <1>5, <1>6, <1>10, <1>11 DEF Inside, Meets

------------------------------------------------------------------------------
(* Sets of aligned, disjoint blocks without a pair of buddies. *)

Apart(F) == \A b \in F : b.order < MaxOrder => Mate(b) \notin F

Tidy(F) == (\A b \in F : On(b)) /\ Apart(F)

LEMMA NoFiner ==
  ASSUME NEW F \in SUBSET Block, Disjoint(F), Tidy(F),
         NEW b \in Block, On(b), PagesOf(b) \subseteq PagesIn(F)
  PROVE  \A c \in F : Meets(c, b) => ~(c.order < b.order)
<1> DEFINE C == {c \in F : Meets(c, b) /\ c.order < b.order}
           T == {c.order : c \in C}
<1> SUFFICES ASSUME C # {} PROVE FALSE
  OBVIOUS
<1>1. T \in SUBSET Nat /\ T # {}
  BY Parts, PmmAssumptions DEF Orders
<1>2. PICK x \in T : \A y \in T : x <= y
  <2> HIDE DEF T
  <2> QED BY <1>1, Least
<1>3. PICK c \in C : \A d \in C : c.order <= d.order
  BY <1>2
<1>4. c \in F /\ c \in Block /\ On(c) /\ Meets(c, b) /\ c.order < b.order
  BY DEF Tidy
<1>5. PICK e : e = Mate(c)
  OBVIOUS
<1>6. c.order < MaxOrder
  BY <1>4, Parts, PmmAssumptions DEF Orders
<1>7. e \in Block /\ On(e) /\ e.order = c.order /\ Mate(e) = c
  BY <1>4, <1>5, <1>6, Mates
<1>8. e \notin F
  BY <1>4, <1>5, <1>6 DEF Tidy, Apart
<1>9. Inside(e, b)
  BY <1>4, <1>5, MateInside
<1>10. e.addr \in PagesOf(b)
  BY <1>7, <1>9, Parts DEF Inside
<1>11. PICK d \in F : e.addr \in PagesOf(d)
  BY <1>10 DEF PagesIn
<1>12. d \in Block /\ On(d)
  BY DEF Tidy
<1>13. Meets(d, b)
  BY <1>10, <1>11, <1>12, MeetsPages
<1>14. Meets(e, d)
  BY <1>7, <1>11, <1>12, Parts, MeetsPages
<1>15. e.order <= d.order
  <2>1. d.order < b.order => d \in C
    BY <1>13
  <2>2. /\ c.order \in Int /\ b.order \in Int /\ d.order \in Int
    BY <1>4, <1>12, Parts DEF Orders
  <2> QED BY <1>3, <1>4, <1>7, <2>1, <2>2, SMTT(30)
<1>16. e.order # d.order
  BY <1>7, <1>8, <1>12, <1>14, <1>15, NestedBlocks
<1>17. e.order < d.order
  <2>1. e.order \in Int /\ d.order \in Int
    BY <1>7, <1>12, Parts DEF Orders
  <2> QED BY <1>15, <1>16, <2>1
<1>18. Meets(c, d)
  BY <1>7, <1>12, <1>14, <1>17, MateInside
<1>19. c = d
  BY <1>4, <1>12, <1>18, MeetsPages DEF Disjoint
<1> QED BY <1>7, <1>16, <1>19

\* Such a set is determined by its pages.
LEMMA OneWay ==
  ASSUME NEW F \in SUBSET Block, Disjoint(F), Tidy(F),
         NEW C \in SUBSET Block, Disjoint(C), Tidy(C), PagesIn(F) = PagesIn(C)
  PROVE  F \subseteq C
<1> SUFFICES ASSUME NEW b \in F PROVE b \in C
  OBVIOUS
<1>1. b \in Block /\ On(b) /\ b.addr \in PagesOf(b) /\ PagesOf(b) \subseteq PagesIn(F)
  BY Parts DEF Tidy, PagesIn
<1>2. PICK c \in C : b.addr \in PagesOf(c)
  BY <1>1 DEF PagesIn
<1>3. c \in Block /\ On(c) /\ PagesOf(c) \subseteq PagesIn(C)
  BY DEF Tidy, PagesIn
<1>4. Meets(b, c) /\ Meets(c, b)
  BY <1>1, <1>2, <1>3, MeetsPages
<1>5. ~(c.order < b.order)
  BY <1>1, <1>4, NoFiner
<1>6. ~(b.order < c.order)
  BY <1>3, <1>4, NoFiner
<1>7. b.order = c.order /\ b.order <= c.order
  BY <1>1, <1>3, <1>5, <1>6, Parts DEF Orders
<1>8. b = c
  BY <1>1, <1>3, <1>4, <1>7, NestedBlocks
<1> QED BY <1>8

LEMMA TidyLess ==
  ASSUME NEW F, Tidy(F), NEW G, G \subseteq F
  PROVE  Tidy(G)
BY DEF Tidy, Apart

LEMMA TidyMore ==
  ASSUME NEW F \in SUBSET Block, Tidy(F), NEW n \in Block, On(n),
         n.order < MaxOrder => Mate(n) \notin F
  PROVE  Tidy(F \cup {n})
<1>1. \A b \in F \cup {n} : On(b)
  BY DEF Tidy
<1>2. ASSUME NEW b \in F \cup {n}, b.order < MaxOrder PROVE Mate(b) \notin F \cup {n}
  <2>1. b \in Block /\ On(b)
    BY <1>1
  <2>2. Mate(b).order = b.order /\ Mate(Mate(b)) = b /\ Mate(b) # b
    BY <1>2, <2>1, Mates
  <2>3. CASE b = n
    BY <1>2, <2>2, <2>3
  <2>4. CASE b \in F
    <3>1. Mate(b) \notin F
      BY <1>2, <2>4 DEF Tidy, Apart
    <3>2. Mate(b) # n
      <4> SUFFICES ASSUME Mate(b) = n PROVE FALSE
        OBVIOUS
      <4>1. n.order < MaxOrder /\ Mate(n) = b
        BY <1>2, <2>2
      <4> QED BY <2>4, <4>1
    <3> QED BY <3>1, <3>2
  <2> QED BY <2>3, <2>4
<1> QED BY <1>1, <1>2 DEF Tidy, Apart

LEMMA HalfParts ==
  ASSUME NEW a \in Nat, NEW o \in Orders
  PROVE  /\ Half(a, o) \in Block /\ Half(a, o).addr = a /\ Half(a, o).order = o
         /\ On(Half(a, o)) <=> Aligned(a, o)
         /\ Mate(Half(a, o)) = Half(Buddy(a, o), o)
BY DEF Half, Block, On, Mate

------------------------------------------------------------------------------
(* pmm_alloc. *)

TidyTake(x, o) == Tidy(FreeIn(x.pmm)) /\ (x.addr # 0 => Aligned(x.addr, o))

LEMMA PopTidy ==
  ASSUME NEW m, NEW H, NEW R, Account(m, H, R), Tidy(FreeIn(m)),
         NEW o \in Orders, m.lists[o] # <<>>
  PROVE  TidyTake(Popped(m, o), o)
<1>1. PICK x : x = Popped(m, o)
  OBVIOUS
<1>2. x.addr \in Nat /\ Half(x.addr, o) \in FreeIn(m) /\ FreeIn(x.pmm) \subseteq FreeIn(m)
  BY <1>1, PopAccount, Zenon
<1>3. On(Half(x.addr, o))
  BY <1>2 DEF Tidy
<1>4. Aligned(x.addr, o)
  BY <1>2, <1>3, HalfParts
<1> QED BY <1>1, <1>2, <1>4, TidyLess DEF TidyTake

\* Neither half of a block in hand is listed.
LEMMA HalfUnlisted ==
  ASSUME NEW m, NEW H, NEW R, NEW a \in Nat, NEW o \in Orders, o # MaxOrder,
         Account(m, H \cup {Half(a, o + 1)}, R), NEW c \in {a, a + OrderSize[o]}
  PROVE  Half(c, o) \notin FreeIn(m)
<1>1. PICK z \in Nat \ {0} : z = OrderSize[o] /\ OrderSize[o + 1] = 2 * z
  BY Sizes
<1>2. o + 1 \in Orders /\ o \in Int
  BY PmmAssumptions DEF Orders
<1>3. PICK b, d : b = Half(a, o + 1) /\ d = Half(c, o)
  OBVIOUS
<1>4. c \in Nat
  BY <1>1
<1>5. /\ b \in Block /\ b.addr = a /\ b.order = o + 1
      /\ d \in Block /\ d.addr = c /\ d.order = o
  BY <1>2, <1>3, <1>4, HalfParts
<1>6. Meets(d, b)
  BY <1>1, <1>4, <1>5 DEF Meets
<1>7. PagesOf(d) \cap PagesOf(b) # {}
  BY <1>5, <1>6, MeetsPages
<1>8. Disjoint(FreeIn(m) \cup (H \cup {b}))
  BY <1>3 DEF Account, Tiled
<1>9. d # b
  BY <1>2, <1>5
<1> QED BY <1>3, <1>7, <1>8, <1>9 DEF Disjoint

LEMMA SplitTidy ==
  ASSUME NEW x, NEW H, NEW R, NEW o \in Orders, o # MaxOrder, Taken(x, H, o + 1, R),
         TidyTake(x, o + 1)
  PROVE  TidyTake(Split(x, o), o)
<1>1. x \in Takes /\ x.pmm \in PmmStates /\ x.addr \in Nat
  BY DEF Taken, Takes
<1>2. CASE x.addr = 0
  <2>1. Split(x, o) = x
    BY <1>2 DEF Split
  <2> QED BY <1>2, <2>1 DEF TidyTake
<1>3. CASE x.addr # 0 /\ Exhausted(x.pmm)
  <2>1. Split(x, o) = [x EXCEPT !.addr = 0]
    BY <1>3 DEF Split
  <2>2. Split(x, o).addr = 0 /\ Split(x, o).pmm = x.pmm
    BY <1>1, <2>1 DEF Takes
  <2> QED BY <2>2 DEF TidyTake
<1>4. CASE x.addr # 0 /\ ~Exhausted(x.pmm)
  <2>1. PICK a \in Nat, m \in PmmStates : a = x.addr /\ m = x.pmm
    BY <1>1
  <2>2. PICK h \in Nat : h = a + OrderSize[o]
    BY Sizes
  <2>3. Account(m, H \cup {Half(a, o + 1)}, R) /\ Aligned(a, o + 1) /\ Tidy(FreeIn(m))
    BY <1>4, <2>1 DEF Taken, TidyTake
  <2>4. Aligned(a, o) /\ Aligned(h, o) /\ Buddy(h, o) = a
    BY <2>2, <2>3, AlignedHalves
  <2>5. Half(a, o) \notin FreeIn(m) /\ Half(h, o) \notin FreeIn(m)
    BY <2>2, <2>3, HalfUnlisted, Zenon
  <2>6. /\ Half(h, o) \in Block /\ On(Half(h, o)) /\ Mate(Half(h, o)) = Half(a, o)
        /\ Half(h, o).addr = h /\ Half(h, o).order = o
    BY <2>4, HalfParts
  <2>7. FreeIn(m) \in SUBSET Block
    BY <2>3 DEF Account, Tiled
  <2>8. Tidy(FreeIn(m) \cup {Half(h, o)})
    BY <2>3, <2>5, <2>6, <2>7, TidyMore
  <2>9. PICK w : w = Prepend(m, h, o)
    OBVIOUS
  <2>10. FreeIn(w) = FreeIn(m) \cup {Half(h, o)}
    <3>1. h \notin Range(m.lists[o])
      BY <2>5, <2>6, InFree
    <3>2. IsInjective(m.lists[o]) /\ ~Exhausted(m)
      BY <1>4, <2>1, <2>3 DEF Account
    <3> QED BY <2>9, <3>1, <3>2, PrependFree
  <2>11. Split(x, o) = [x EXCEPT !.pmm = w]
    BY <1>4, <2>1, <2>2, <2>9 DEF Split
  <2>12. Split(x, o).pmm = w /\ Split(x, o).addr = a
    BY <1>1, <2>1, <2>11 DEF Takes
  <2> QED BY <2>4, <2>8, <2>10, <2>12, Zenon DEF TidyTake
<1> QED BY <1>2, <1>3, <1>4

LEMMA AllocTidy ==
  ASSUME NEW m, NEW H, NEW R, Account(m, H, R), 0 \notin R, Tidy(FreeIn(m)),
         NEW order \in Orders
  PROVE  TidyTake(Allocated(m, order), order)
<1> DEFINE take == CHOOSE f : IsTake(f, m)
<1>0. m \in PmmStates /\ MaxOrder \in Nat
  BY PmmAssumptions DEF Account
<1>1. IsTake(take, m)
  <2>1. \A o \in Orders : m.lists[o] # <<>> => Popped(m, o) \in Takes
    BY PopTaken, Zenon DEF Taken
  <2> QED BY <1>0, <2>1, TakeExists
<1>2. \A o \in Orders : Allocated(m, o) = take[o]
  BY Zenon DEF Allocated, IsTake
<1> HIDE DEF take
<1> DEFINE S == {k \in 0 .. MaxOrder : TidyTake(take[MaxOrder - k], MaxOrder - k)}
<1>3. ASSUME NEW o \in Orders, m.lists[o] # <<>> PROVE TidyTake(take[o], o)
  <2>1. take[o] = Popped(m, o)
    BY <1>1, <1>3 DEF IsTake
  <2> QED BY <1>3, <2>1, PopTidy
<1>4. 0 \in S
  <2>1. MaxOrder \in Orders /\ MaxOrder - 0 = MaxOrder
    BY <1>0 DEF Orders
  <2>2. CASE m.lists[MaxOrder] # <<>>
    BY <1>0, <1>3, <2>1, <2>2
  <2>3. CASE m.lists[MaxOrder] = <<>>
    <3>1. take[MaxOrder] = [pmm |-> m, addr |-> 0]
      BY <1>1, <2>1, <2>3 DEF IsTake
    <3>2. TidyTake(take[MaxOrder], MaxOrder)
      BY <1>0, <3>1 DEF TidyTake
    <3> QED BY <1>0, <2>1, <3>2
  <2> QED BY <2>2, <2>3
<1>5. ASSUME NEW k \in 1 .. MaxOrder, k - 1 \in S PROVE k \in S
  <2>1. PICK o \in Orders : o = MaxOrder - k /\ o # MaxOrder /\ o + 1 = MaxOrder - (k - 1)
    BY <1>0 DEF Orders
  <2>2. TidyTake(take[o + 1], o + 1)
    BY <1>5, <2>1
  <2>3. Taken(take[o + 1], H, o + 1, R)
    <3>1. o + 1 \in Orders
      BY <1>0, <2>1 DEF Orders
    <3> QED BY <1>2, <3>1, AllocTaken
  <2>4. TidyTake(take[o], o)
    <3>1. CASE m.lists[o] # <<>>
      BY <1>3, <3>1
    <3>2. CASE m.lists[o] = <<>>
      <4>1. take[o] = Split(take[o + 1], o)
        BY <1>1, <2>1, <3>2, Zenon DEF IsTake
      <4> QED BY <2>1, <2>2, <2>3, <4>1, SplitTidy, SMTT(30)
    <3> QED BY <3>1, <3>2
  <2>5. k \in 0 .. MaxOrder
    BY <1>0
  <2> QED BY <2>1, <2>4, <2>5
<1>6. \A k \in 0 .. MaxOrder : k \in S
  <2> HIDE DEF S
  <2> QED BY <1>0, <1>4, <1>5, UpTo
<1>7. PICK k \in 0 .. MaxOrder : order = MaxOrder - k
  <2>1. MaxOrder - order \in 0 .. MaxOrder /\ order = MaxOrder - (MaxOrder - order)
    BY <1>0 DEF Orders
  <2> QED BY <2>1
<1> QED BY <1>2, <1>6, <1>7

------------------------------------------------------------------------------
(* pmm_free. *)

TidyFree(x) == Tidy(FreeIn(x.pmm)) /\ Aligned(x.addr, x.order)

\* The block is merged no further.
Stuck(x) == x.order = MaxOrder \/ Buddy(x.addr, x.order) \notin Range(x.pmm.lists[x.order])

LEMMA StuckStays ==
  ASSUME NEW x \in Frees, Stuck(x)
  PROVE  Merged(x) = x
BY PmmAssumptions DEF Stuck, Merged, Frees, Orders

LEMMA MergedTidy ==
  ASSUME NEW x, NEW H, NEW R, Freeing(x, H, R), TidyFree(x), ~Stuck(x)
  PROVE  TidyFree(Merged(x)) /\ Merged(x).order = x.order + 1
<1>1. PICK a \in Nat, o \in Orders, m \in PmmStates : a = x.addr /\ o = x.order /\ m = x.pmm
  BY DEF Freeing, Frees
<1>2. PICK c : c = Buddy(a, o)
  OBVIOUS
<1>3. o # MaxOrder /\ o < MaxOrder /\ c \in Range(m.lists[o])
  BY <1>1, <1>2, PmmAssumptions DEF Stuck, Orders
<1>4. PICK w : w = Unlinked(m, c, o)
  OBVIOUS
<1>5. Account(m, H \cup {Half(a, o)}, R)
  BY <1>1 DEF Freeing
<1>6. c \in Nat /\ FreeIn(w) \subseteq FreeIn(m)
  BY <1>3, <1>4, <1>5, UnlinkAccount, Zenon
<1>7. Tidy(FreeIn(m)) /\ Aligned(a, o)
  BY <1>1 DEF TidyFree
<1>8. PICK l \in Nat : /\ Aligned(l, o + 1)
                      /\ \/ a = l /\ c = l + OrderSize[o]
                         \/ a = l + OrderSize[o] /\ c = l
  BY <1>2, <1>3, <1>7, AlignedPair
<1>9. l = IF a < c THEN a ELSE c
  BY <1>8, Sizes
<1>10. Merged(x) = [pmm |-> w, addr |-> l, order |-> o + 1]
  BY <1>1, <1>2, <1>3, <1>4, <1>9 DEF Merged
<1>11. Merged(x).pmm = w /\ Merged(x).addr = l /\ Merged(x).order = o + 1
  BY <1>10
<1>12. Tidy(FreeIn(w))
  BY <1>6, <1>7, TidyLess
<1> QED BY <1>1, <1>8, <1>11, <1>12 DEF TidyFree

LEMMA ReturnTidy ==
  ASSUME NEW m, NEW H, NEW R, NEW a \in Nat, NEW o \in Orders,
         Half(a, o) \notin H, Account(m, H \cup {Half(a, o)}, R),
         Tidy(FreeIn(m)), Aligned(a, o)
  PROVE  Tidy(FreeIn(Returned(m, a, o)))
<1> DEFINE x == [pmm |-> m, addr |-> a, order |-> o]
           up == CHOOSE f : IsUp(f, x)
<1>0. MaxOrder \in Nat
  BY PmmAssumptions
<1>1. x \in Frees /\ Freeing(x, H, R) /\ TidyFree(x)
  BY DEF Freeing, Frees, Account, TidyFree
<1>2. Returned(m, a, o) = Prepend(up[MaxOrder].pmm, up[MaxOrder].addr, up[MaxOrder].order)
  BY Zenon DEF Returned, IsUp
<1> HIDE DEF x
<1>3. IsUp(up, x)
  BY <1>1, UpExists
<1> HIDE DEF up
<1> DEFINE Good(y, n) == Freeing(y, H, R) /\ TidyFree(y) /\ (Stuck(y) \/ n <= y.order)
           S == {n \in Orders : Good(up[n], n)}
<1>4. 0 \in S
  <2>1. 0 \in Orders /\ up[0] = x
    BY <1>0, <1>3 DEF IsUp, Orders
  <2>2. 0 <= x.order
    BY <1>1, <1>0 DEF Frees, Orders
  <2> QED BY <1>1, <2>1, <2>2
<1>5. ASSUME NEW n \in 1 .. MaxOrder, n - 1 \in S PROVE n \in S
  <2>1. n \in Orders /\ n # 0
    BY <1>0 DEF Orders
  <2>2. up[n] = Merged(up[n - 1])
    BY <1>3, <2>1, Zenon DEF IsUp
  <2>3. PICK y : y = up[n - 1]
    OBVIOUS
  <2>4. Freeing(y, H, R) /\ TidyFree(y) /\ (Stuck(y) \/ n - 1 <= y.order) /\ y \in Frees
    BY <1>5, <2>3 DEF Freeing
  <2>5. Good(Merged(y), n)
    <3>1. CASE Stuck(y)
      <4>1. Merged(y) = y
        BY <2>4, <3>1, StuckStays
      <4> QED BY <2>4, <3>1, <4>1
    <3>2. CASE ~Stuck(y)
      <4>1. TidyFree(Merged(y)) /\ Merged(y).order = y.order + 1
        BY <2>4, <3>2, MergedTidy
      <4>2. Freeing(Merged(y), H, R)
        BY <2>4, MergedFreeing
      <4>3. n <= y.order + 1
        BY <1>0, <2>4, <3>2 DEF Frees, Orders
      <4> QED BY <4>1, <4>2, <4>3
    <3> QED BY <3>1, <3>2
  <2> HIDE DEF Good
  <2> QED BY <2>1, <2>2, <2>3, <2>5
<1>6. MaxOrder \in S
  <2> HIDE DEF S
  <2> QED BY <1>0, <1>4, <1>5, UpTo
<1>7. PICK y : y = up[MaxOrder]
  OBVIOUS
<1>8. Freeing(y, H, R) /\ TidyFree(y) /\ (Stuck(y) \/ MaxOrder <= y.order)
  BY <1>6, <1>7
<1>9. PICK c \in Nat, i \in Orders, v \in PmmStates : c = y.addr /\ i = y.order /\ v = y.pmm
  BY <1>8 DEF Freeing, Frees
<1>10. /\ Account(v, H \cup {Half(c, i)}, R) /\ Tidy(FreeIn(v)) /\ Aligned(c, i)
       /\ Returned(m, a, o) = Prepend(v, c, i)
  BY <1>2, <1>7, <1>8, <1>9 DEF Freeing, TidyFree
<1>11. CASE Exhausted(v)
  BY <1>10, <1>11 DEF Prepend
<1>12. CASE ~Exhausted(v)
  <2>1. IsInjective(v.lists[i]) /\ c \notin Range(v.lists[i])
    BY <1>10, NotListed, Zenon DEF Account
  <2>2. FreeIn(Prepend(v, c, i)) = FreeIn(v) \cup {Half(c, i)}
    BY <1>12, <2>1, PrependFree
  <2>3. /\ Half(c, i) \in Block /\ Half(c, i).order = i /\ On(Half(c, i))
        /\ Mate(Half(c, i)) = Half(Buddy(c, i), i)
    BY <1>10, HalfParts
  <2>4. ASSUME i < MaxOrder PROVE Half(Buddy(c, i), i) \notin FreeIn(v)
    <3>1. Buddy(c, i) \notin Range(v.lists[i])
      BY <1>0, <1>8, <1>9, <2>4, SMTT(30) DEF Stuck, Orders
    <3>2. Half(Buddy(c, i), i).addr = Buddy(c, i) /\ Half(Buddy(c, i), i).order = i
      BY DEF Half
    <3> QED BY <3>1, <3>2, InFree, SMTT(30)
  <2>5. FreeIn(v) \in SUBSET Block
    BY <1>10 DEF Account, Tiled
  <2>6. Tidy(FreeIn(v) \cup {Half(c, i)})
    BY <1>10, <2>3, <2>4, <2>5, TidyMore, SMTT(30)
  <2> QED BY <1>10, <2>2, <2>6
<1> QED BY <1>11, <1>12

------------------------------------------------------------------------------
(* pmm_init, for a start that is a multiple of the largest block.           *)

\* Every listed block is as large as its place and the end e allow.
Greedy(F, e) ==
  \A b \in F :
    On(b) /\ (b.order < MaxOrder /\ Aligned(b.addr, b.order + 1)
              => ~(b.addr + OrderSize[b.order + 1] <= e))

LEMMA GreedyTidy ==
  ASSUME NEW s \in Nat, NEW e \in Nat, NEW F \in SUBSET Block, Greedy(F, e),
         PagesIn(F) \subseteq s .. e - 1
  PROVE  Tidy(F)
<1>1. \A b \in F : On(b)
  BY DEF Greedy
<1>2. ASSUME NEW b \in F, b.order < MaxOrder, Mate(b) \in F PROVE FALSE
  <2>1. PICK a \in Nat, o \in Orders, z \in Nat \ {0} :
          a = b.addr /\ o = b.order /\ z = OrderSize[o] /\ b = Half(a, o)
    BY Parts
  <2>2. o # MaxOrder /\ OrderSize[o + 1] = 2 * z
    BY <1>2, <2>1, Sizes, PmmAssumptions, SMTT(30) DEF Orders
  <2>3. PICK l \in Nat :
          /\ Aligned(l, o + 1)
          /\ \/ a = l /\ Buddy(a, o) = l + z
             \/ a = l + z /\ Buddy(a, o) = l
    BY <1>1, <2>1, <2>2, AlignedPair DEF On
  <2>4. Half(l, o) \in F /\ Half(l + z, o) \in F
    <3>1. Half(a, o) \in F /\ Half(Buddy(a, o), o) \in F
      BY <1>2, <2>1 DEF Mate
    <3> QED BY <2>3, <3>1
  <2>5. l + z \in Nat
    OBVIOUS
  <2>6. PICK g, h : g = Half(l, o) /\ h = Half(l + z, o)
    OBVIOUS
  <2>7. /\ g \in F /\ g.addr = l /\ g.order = o
        /\ h \in F /\ h.addr = l + z /\ h.order = o
    BY <2>4, <2>5, <2>6, HalfParts, SMTT(30)
  <2>8. ~(l + 2 * z <= e)
    BY <1>2, <2>1, <2>2, <2>3, <2>7, SMTT(30) DEF Greedy
  <2>9. l + 2 * z - 1 \in s .. e - 1
    <3>1. PagesOf(h) = l + z .. (l + z) + z - 1
      BY <2>1, <2>7, Zenon DEF PagesOf
    <3>2. l + 2 * z - 1 \in PagesOf(h)
      BY <3>1
    <3> QED BY <2>7, <3>2 DEF PagesIn
  <2> QED BY <2>8, <2>9
<1> QED BY <1>1, <1>2 DEF Tidy, Apart

\* Distances from an aligned start, and addresses.
LEMMA AlignedFrom ==
  ASSUME NEW s \in Nat, NEW c \in Nat, s <= c, NEW o \in Orders, Aligned(s, o)
  PROVE  Aligned(c, o) <=> (c - s) % OrderSize[o] = 0
<1>1. PICK z \in Nat \ {0} : z = OrderSize[o]
  BY Sizes
<1>2. PICK q \in Nat : s = q * z
  BY <1>1 DEF Aligned
<1>3. c - s \in Nat
  OBVIOUS
<1>4. ASSUME Aligned(c, o) PROVE (c - s) % z = 0
  <2>1. PICK p \in Nat : c = p * z
    BY <1>1, <1>4 DEF Aligned
  <2>2. p >= q
    <3> SUFFICES ASSUME q >= p + 1 PROVE FALSE
      OBVIOUS
    <3>1. PICK t \in Nat : q = p + 1 + t
      <4>1. q - p - 1 \in Nat /\ q = p + 1 + (q - p - 1)
        OBVIOUS
      <4> QED BY <4>1
    <3>2. s = p * z + z + t * z /\ t * z \in Nat /\ p * z \in Nat
      BY <1>2, <3>1
    <3> QED BY <2>1, <3>2
  <2>3. PICK t \in Nat : p = q + t
    <3>1. p - q \in Nat /\ p = q + (p - q)
      BY <2>2
    <3> QED BY <3>1
  <2>4. c - s = t * z
    BY <1>2, <2>1, <2>3
  <2> QED BY <1>3, <2>4, Quotient, Zenon
<1>5. ASSUME (c - s) % z = 0 PROVE Aligned(c, o)
  <2>1. PICK t \in Nat : c - s = t * z
    BY <1>3, <1>5, Divides, Zenon
  <2>2. c = (q + t) * z /\ q + t \in Nat
    BY <1>2, <2>1
  <2> QED BY <1>1, <2>2 DEF Aligned
<1> QED BY <1>1, <1>4, <1>5

LEMMA CutGreedy ==
  ASSUME NEW s \in Nat, Aligned(s, MaxOrder), NEW x, Covering(x, s),
         Greedy(FreeIn(x.pmm), s + Pages)
  PROVE  Greedy(FreeIn(Cut(s, x).pmm), s + Pages)
<1> SUFFICES ASSUME Cut(s, x) # x PROVE Greedy(FreeIn(Cut(s, x).pmm), s + Pages)
  OBVIOUS
<1>0. MaxOrder \in Orders /\ MaxOrder \in Nat /\ Pages \in Nat
  BY PmmAssumptions DEF Orders
<1>1. /\ x \in Covers(s) /\ Account(x.pmm, {}, s .. x.cur - 1)
      /\ PagesIn(FreeIn(x.pmm)) = s .. x.cur - 1
  BY DEF Covering
<1>2. PICK o \in Orders :
        /\ Cut(s, x) = [pmm |-> Prepend(x.pmm, x.cur, o), cur |-> x.cur + OrderSize[o]]
        /\ ~Exhausted(x.pmm)
        /\ (x.cur - s) % OrderSize[o] = 0
        /\ \A i \in Orders :
             x.cur + OrderSize[i] <= s + Pages /\ (x.cur - s) % OrderSize[i] = 0 => i <= o
  BY <1>1, CutLists
<1>m. PICK m : m = x.pmm
  OBVIOUS
<1>3. PICK c \in Nat : c = x.cur /\ m = x.pmm /\ s <= c
  BY <1>1, <1>m DEF Covers
<1>4. \A i \in Orders : Aligned(s, i)
  BY <1>0, AlignedDown DEF Orders
<1>5. Aligned(c, o)
  BY <1>2, <1>3, <1>4, AlignedFrom
<1>6. ASSUME o < MaxOrder, Aligned(c, o + 1), c + OrderSize[o + 1] <= s + Pages PROVE FALSE
  <2>1. o + 1 \in Orders /\ ~(o + 1 <= o)
    BY <1>0, <1>6 DEF Orders
  <2>2. (c - s) % OrderSize[o + 1] = 0
    BY <1>3, <1>4, <1>6, <2>1, AlignedFrom, SMTT(30)
  <2> QED BY <1>2, <1>3, <1>6, <2>1, <2>2, SMTT(30)
<1>7. FreeIn(Prepend(m, c, o)) = FreeIn(m) \cup {Half(c, o)}
  <2>1. PICK Q, R : Q = s .. c - 1 /\ R = s .. c + OrderSize[o] - 1
    OBVIOUS
  <2>2. NextUp(s, c, o, Q, R)
    BY <1>3, <2>1 DEF NextUp
  <2>3. Account(m, {}, Q) /\ PagesIn(FreeIn(m)) = Q
    BY <1>1, <1>3, <2>1
  <2>4. Account(m, {} \cup {Half(c, o)}, R)
    BY <2>2, <2>3, Extend, Zenon
  <2>5. m \in PmmStates /\ IsInjective(m.lists[o]) /\ c \notin Range(m.lists[o])
    BY <2>4, NotListed, Zenon DEF Account
  <2> QED BY <1>2, <1>3, <2>5, PrependFree, SMTT(30)
<1>8. Half(c, o).addr = c /\ Half(c, o).order = o /\ On(Half(c, o))
  BY <1>5, HalfParts
<1>9. Greedy(FreeIn(m) \cup {Half(c, o)}, s + Pages)
  BY <1>3, <1>6, <1>8 DEF Greedy
<1>10. Cut(s, x).pmm = Prepend(m, c, o)
  BY <1>2, <1>3
<1> QED BY <1>7, <1>9, <1>10

LEMMA CoverGreedy ==
  ASSUME NEW s \in Nat, Aligned(s, MaxOrder)
  PROVE  Greedy(FreeIn(Cover(s).pmm), s + Pages)
<1> DEFINE round == CHOOSE f : IsRound(f, s)
           Good(x) == Covering(x, s) /\ Greedy(FreeIn(x.pmm), s + Pages)
           S == {n \in 0 .. Pages : Good(round[n])}
<1>0. Pages \in Nat
  BY PmmAssumptions
<1>1. IsRound(round, s)
  BY RoundExists, Zenon
<1>2. Cover(s) = round[Pages]
  BY DEF Cover, IsRound
<1> HIDE DEF round
<1>3. round[0] = [pmm |-> Nothing, cur |-> s]
  BY <1>0, <1>1 DEF IsRound
<1>4. 0 \in S
  <2>1. FreeIn(Nothing) = {}
    BY DEF FreeIn, Nothing, Range
  <2>2. Greedy(FreeIn(Nothing), s + Pages)
    BY <2>1 DEF Greedy
  <2>3. round[0].pmm = Nothing
    BY <1>3
  <2>4. Covering(round[0], s)
    BY <1>3, NothingCovering
  <2> QED BY <1>0, <2>2, <2>3, <2>4
<1>5. ASSUME NEW k \in 1 .. Pages, k - 1 \in S PROVE k \in S
  <2>1. round[k] = Cut(s, round[k - 1])
    BY <1>0, <1>1 DEF IsRound
  <2>2. Good(Cut(s, round[k - 1]))
    BY <1>5, CutCovering, CutGreedy
  <2> HIDE DEF Good
  <2> QED BY <1>0, <2>1, <2>2
<1>6. \A k \in 0 .. Pages : k \in S
  <2> HIDE DEF S
  <2> QED BY <1>0, <1>4, <1>5, UpTo
<1> QED BY <1>0, <1>2, <1>6

LEMMA CoveredTidy ==
  ASSUME NEW s \in Starts, s % OrderSize[MaxOrder] = 0
  PROVE  /\ Tidy(FreeIn(Covered(s)))
         /\ PagesIn(FreeIn(Covered(s))) = s .. s + Pages - 1
<1>0. s \in Nat /\ Pages \in Nat /\ MaxOrder \in Orders
  BY PmmAssumptions DEF Orders
<1>1. PICK x : x = Cover(s)
  OBVIOUS
<1>2. Covering(x, s) /\ x.cur = s + Pages
  BY <1>0, <1>1, CoverCovering, PoolAssumption
<1>3. Greedy(FreeIn(x.pmm), s + Pages)
  BY <1>0, <1>1, CoverGreedy, AlignedIsRest
<1>4. x.pmm \in PmmStates /\ Covered(s).lists = x.pmm.lists
  BY <1>1, <1>2 DEF Covering, Covers, Covered, PmmStates
<1>5. FreeIn(Covered(s)) = FreeIn(x.pmm)
  BY <1>4 DEF FreeIn
<1>6. PagesIn(FreeIn(x.pmm)) = s .. s + Pages - 1
  <2>1. PICK c : c = x.cur /\ PagesIn(FreeIn(x.pmm)) = s .. c - 1
    BY <1>2 DEF Covering
  <2>2. c = s + Pages
    BY <1>2, <2>1
  <2> QED BY <1>0, <2>1, <2>2
<1>7. FreeIn(x.pmm) \in SUBSET Block
  BY <1>4, InFree
<1>8. Tidy(FreeIn(x.pmm))
  <2>1. PICK e \in Nat : e = s + Pages
    BY <1>0
  <2> QED BY <1>0, <1>3, <1>6, <1>7, <2>1, GreedyTidy, SMTT(30)
<1> QED BY <1>5, <1>6, <1>8

------------------------------------------------------------------------------
(* The steps. *)

Whole == start % OrderSize[MaxOrder] = 0

MergeInv ==
  /\ PmmInv
  /\ Whole => (\A b \in out : On(b)) /\ Tidy(FreeBlocks)

LEMMA AllocMerges ==
  ASSUME MergeInv, NEW o \in Orders, PmmAlloc(o)
  PROVE  MergeInv'
<1>1. PmmInv /\ PmmInv'
  BY PmmAllocPreserves DEF MergeInv
<1>2. PICK a : a = Allocated(pmm, o)
  OBVIOUS
<1>3. /\ pmm' = a.pmm /\ start' = start
      /\ out' = IF a.addr = 0 THEN out ELSE out \cup {Half(a.addr, o)}
  BY <1>2 DEF PmmAlloc, Half
<1>4. ASSUME Whole PROVE (\A b \in out' : On(b)) /\ Tidy(FreeIn(pmm'))
  <2>1. (\A b \in out : On(b)) /\ Tidy(FreeIn(pmm))
    BY <1>4 DEF MergeInv, FreeBlocks
  <2>2. Account(pmm, out, Memory) /\ 0 \notin Memory
    BY <1>1, ZeroOutside DEF PmmInv
  <2>3. TidyTake(a, o)
    BY <1>2, <2>1, <2>2, AllocTidy
  <2>4. a.addr \in Nat
    <3>1. Taken(a, out, o, Memory)
      BY <1>2, <2>2, AllocTaken
    <3> QED BY <3>1 DEF Taken, Takes
  <2>5. ASSUME a.addr # 0 PROVE On(Half(a.addr, o))
    BY <2>3, <2>4, <2>5, HalfParts DEF TidyTake
  <2> QED BY <1>3, <2>1, <2>3, <2>5 DEF TidyTake
<1>5. Whole' <=> Whole
  BY <1>3 DEF Whole
<1> QED BY <1>1, <1>4, <1>5 DEF MergeInv, FreeBlocks

LEMMA FreeMerges ==
  ASSUME MergeInv, NEW b \in out, PmmFree(b)
  PROVE  MergeInv'
<1>1. PmmInv /\ PmmInv'
  BY PmmFreePreserves DEF MergeInv
<1>2. Account(pmm, out, Memory)
  BY <1>1 DEF PmmInv
<1>3. PICK a \in Nat, o \in Orders : a = b.addr /\ o = b.order /\ b = Half(a, o)
  BY <1>2 DEF Account, Tiled, Block, Half
<1>4. PICK H : H = out \ {b}
  BY Zenon
<1>5. Account(pmm, H \cup {Half(a, o)}, Memory) /\ Half(a, o) \notin H
  <2>1. H \cup {b} = out /\ b \notin H
    BY <1>4
  <2> QED BY <1>2, <1>3, <2>1
<1>6. pmm' = Returned(pmm, a, o) /\ out' = H /\ start' = start
  BY <1>3, <1>4 DEF PmmFree
<1>7. ASSUME Whole PROVE (\A c \in out' : On(c)) /\ Tidy(FreeIn(pmm'))
  <2>1. (\A c \in out : On(c)) /\ Tidy(FreeIn(pmm))
    BY <1>7 DEF MergeInv, FreeBlocks
  <2>2. Aligned(a, o)
    BY <1>3, <2>1 DEF On
  <2>3. Tidy(FreeIn(Returned(pmm, a, o)))
    BY <1>5, <2>1, <2>2, ReturnTidy
  <2> QED BY <1>4, <1>6, <2>1, <2>3
<1>8. Whole' <=> Whole
  BY <1>6 DEF Whole
<1> QED BY <1>1, <1>7, <1>8 DEF MergeInv, FreeBlocks

\* If the memory begins at a multiple of the largest block, the blocks that
\* pmm_alloc hands out and those on the lists stay at multiples of their
\* sizes, and no two buddies are listed.
THEOREM MergeInvariant == PmmSpec => []MergeInv
<1>1. PmmInit => MergeInv
  <2> SUFFICES ASSUME PmmInit PROVE MergeInv
    OBVIOUS
  <2>1. start \in Starts /\ pmm = Covered(start) /\ out = {}
    BY DEF PmmInit
  <2>2. PmmInv
    BY <2>1, CoveredAccount DEF PmmInv, Memory
  <2>3. Whole => Tidy(FreeBlocks)
    BY <2>1, CoveredTidy DEF Whole, FreeBlocks
  <2> QED BY <2>1, <2>2, <2>3 DEF MergeInv
<1>2. MergeInv /\ [PmmNext]_pmmVars => MergeInv'
  <2> SUFFICES ASSUME MergeInv, [PmmNext]_pmmVars PROVE MergeInv'
    OBVIOUS
  <2>1. CASE \E o \in Orders : PmmAlloc(o)
    BY <2>1, AllocMerges
  <2>2. CASE \E b \in out : PmmFree(b)
    BY <2>2, FreeMerges
  <2>3. CASE UNCHANGED pmmVars
    <3>1. start' = start /\ pmm' = pmm /\ out' = out
      BY <2>3 DEF pmmVars
    <3> QED BY <3>1 DEF MergeInv, PmmInv, Memory, Whole, FreeBlocks
  <2> QED BY <2>1, <2>2, <2>3 DEF PmmNext
<1> QED BY <1>1, <1>2, PTL DEF PmmSpec

\* If the memory begins at a multiple of the largest block, it never stays
\* fragmented: two buddies are never free side by side, and when every block
\* is back, none lost, the lists hold exactly the blocks of pmm_init.
THEOREM MergesBackHolds == PmmSpec => []MergesBack
<1>1. MergeInv => MergesBack
  <2> SUFFICES ASSUME MergeInv, Whole
               PROVE  /\ \A b \in FreeBlocks :
                           b.order < MaxOrder =>
                             [b EXCEPT !.addr = Buddy(b.addr, b.order)] \notin FreeBlocks
                      /\ out = {} /\ PagesIn(FreeBlocks) = Memory =>
                           \A o \in Orders : Range(pmm.lists[o]) = Range(Covered(start).lists[o])
    BY Zenon DEF MergesBack, Whole
  <2>1. PICK F : F = FreeIn(pmm)
    OBVIOUS
  <2>2. /\ Tidy(F) /\ F \in SUBSET Block /\ pmm \in PmmStates /\ start \in Starts
        /\ Disjoint(F)
    BY <2>1 DEF MergeInv, PmmInv, Account, Tiled, FreeBlocks, Disjoint
  <2>3. ASSUME NEW b \in F, b.order < MaxOrder
        PROVE  [b EXCEPT !.addr = Buddy(b.addr, b.order)] \notin F
    <3>1. Mate(b) \notin F
      BY <2>2, <2>3 DEF Tidy, Apart
    <3>2. [b EXCEPT !.addr = Buddy(b.addr, b.order)] = Mate(b)
      BY <2>2 DEF Mate, Half, Block
    <3> QED BY <3>1, <3>2
  <2>4. ASSUME PagesIn(F) = Memory, NEW o \in Orders
        PROVE  Range(pmm.lists[o]) = Range(Covered(start).lists[o])
    <3>1. PICK w, C : w = Covered(start) /\ C = FreeIn(w)
      OBVIOUS
    <3>2. Tidy(C) /\ PagesIn(C) = Memory
      BY <2>2, <3>1, CoveredTidy DEF Whole, Memory
    <3>3. w \in PmmStates /\ C \in SUBSET Block /\ Disjoint(C)
      <4>1. Account(w, {}, start .. start + Pages - 1) /\ C \cup {} = C
        BY <2>2, <3>1, CoveredAccount
      <4> QED BY <3>1, <4>1 DEF Account, Tiled
    <3>4. F \subseteq C /\ C \subseteq F
      BY <2>2, <2>4, <3>2, <3>3, OneWay, SMTT(30)
    <3>5. \A m \in PmmStates : \A c \in Range(m.lists[o]) : c \in Nat
      BY Fields DEF Range
    <3>6. ASSUME NEW c \in Nat PROVE c \in Range(pmm.lists[o]) <=> c \in Range(w.lists[o])
      <4>1. PICK h : h = Half(c, o)
        OBVIOUS
      <4>2. h \in Block /\ h.addr = c /\ h.order = o
        BY <4>1, HalfParts
      <4>3. h \in F <=> c \in Range(pmm.lists[o])
        BY <2>1, <2>2, <4>2, InFree, SMTT(30)
      <4>4. h \in C <=> c \in Range(w.lists[o])
        BY <3>1, <3>3, <4>2, InFree
      <4> QED BY <3>4, <4>3, <4>4
    <3> QED BY <2>2, <3>1, <3>3, <3>5, <3>6, SMTT(30)
  <2> QED BY <2>1, <2>3, <2>4 DEF FreeBlocks
<1> QED BY <1>1, MergeInvariant, PTL

==============================================================================
