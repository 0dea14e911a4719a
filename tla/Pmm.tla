--------------------------------- MODULE Pmm ---------------------------------
(***************************************************************************)
(* The physical page allocator of womb/kernel/mm/pmm.vuma: buddy blocks of *)
(* 2^0 .. 2^MaxOrder pages on one free list per order, whose nodes come    *)
(* from a pool of fixed size.                                              *)
(*                                                                         *)
(* Addresses are counted in pages.  A free list is the sequence of the     *)
(* addresses its nodes hold, and of the pool only the number of nodes ever *)
(* taken and the number returned are kept: pmm_alloc returns no node when  *)
(* it pops a block, so nodes of popped blocks are gone.                    *)
(***************************************************************************)
EXTENDS Integers, Sequences, FiniteSets, FiniteSetsExt, Functions

CONSTANTS Starts,    \* where the memory may begin: mem_start
          Pages,     \* its size: mem_size
          MaxOrder,  \* 10 in the code
          PoolCap    \* 4096 in the code

ASSUME PmmAssumptions ==
  /\ Starts \subseteq Nat \ {0}
  /\ Pages \in Nat
  /\ MaxOrder \in Nat
  /\ PoolCap \in Nat

VARIABLES
  start,  \* where the memory begins
  pmm,    \* PmmState and FlatPool: lists, free_pages; count, recycled
  out     \* the blocks callers hold

pmmVars == <<start, pmm, out>>

Orders == 0 .. MaxOrder

\* pmm_order_size, in pages: 1 << order.
OrderSize[o \in Orders] == IF o = 0 THEN 1 ELSE 2 * OrderSize[o - 1]

Block == [addr : Nat, order : Orders]

PmmTypeOK ==
  /\ start \in Starts
  /\ pmm \in [lists : [Orders -> Seq(Nat)], free_pages : Int,
              count : 0 .. PoolCap, recycled : 0 .. PoolCap]
  /\ out \subseteq Block

------------------------------------------------------------------------------
(* The node pool and the free lists. *)

\* pool_alloc_node finds no node.
Exhausted(m) == m.recycled = 0 /\ m.count = PoolCap

\* pool_alloc_node, where it finds one.
WithNode(m) ==
  IF m.recycled > 0 THEN [m EXCEPT !.recycled = @ - 1]
  ELSE [m EXCEPT !.count = @ + 1]

\* A node for the block is put at the head of its list; without a node the
\* block is left out.
Prepend(m, addr, order) ==
  IF Exhausted(m) THEN m
  ELSE [WithNode(m) EXCEPT !.lists[order] = <<addr>> \o @,
                           !.free_pages = @ + OrderSize[order]]

\* Mutant: the node is recycled but stays on its list.
UnlinkedOnlyInPool(m, addr, order) ==
  [m EXCEPT !.recycled = @ + 1, !.free_pages = @ - OrderSize[order]]

\* The list without the first node that holds addr.
Without(list, addr) ==
  LET found == Min({i \in DOMAIN list : list[i] = addr})
  IN [i \in 1 .. Len(list) - 1 |-> IF i < found THEN list[i] ELSE list[i + 1]]

\* The node of a block that is on its list is taken off and recycled.
Unlinked(m, addr, order) ==
  [m EXCEPT !.lists[order] = Without(@, addr),
            !.recycled = @ + 1,
            !.free_pages = @ - OrderSize[order]]

\* Mutant: the buddy is always the block above.
BuddyAbove(addr, order) == addr + OrderSize[order]

\* pmm_buddy: addr XOR the size of the block.
Buddy(addr, order) ==
  IF (addr \div OrderSize[order]) % 2 = 0 THEN addr + OrderSize[order] ELSE addr - OrderSize[order]

------------------------------------------------------------------------------
(* The operations. *)

\* The order pmm_init gives the block at `cur`: the largest that fits and
\* whose size divides the distance from the start.
Largest(s, cur) ==
  Max({o \in Orders : cur + OrderSize[o] <= s + Pages /\ (cur - s) % OrderSize[o] = 0})

\* One round of pmm_init's loop: the block at x.cur is listed.
Cut(s, x) ==
  IF x.cur >= s + Pages \/ Exhausted(x.pmm) THEN x
  ELSE LET o == Largest(s, x.cur)
       IN [pmm |-> Prepend(x.pmm, x.cur, o), cur |-> x.cur + OrderSize[o]]

Nothing == [lists |-> [o \in Orders |-> <<>>], free_pages |-> 0,
            count |-> 0, recycled |-> 0]

\* The loop; every round takes at least a page.
Cover(s) ==
  LET round[n \in 0 .. Pages] ==
        IF n = 0 THEN [pmm |-> Nothing, cur |-> s] ELSE Cut(s, round[n - 1])
  IN round[Pages]

\* The pool has nodes enough for pmm_init, which does not correct free_pages
\* if it stops early.
ASSUME PoolAssumption == \A s \in Starts : Cover(s).cur = s + Pages

\* pmm_init
Covered(s) == [Cover(s).pmm EXCEPT !.free_pages = Pages]

PmmInit ==
  /\ start \in Starts
  /\ pmm = Covered(start)
  /\ out = {}

\* The head of a list is handed out; its node is not returned to the pool.
Popped(m, order) ==
  [pmm |-> [m EXCEPT !.lists[order] = Tail(@), !.free_pages = @ - OrderSize[order]],
   addr |-> Head(m.lists[order])]

\* The upper half of a block that was taken for a smaller one is listed;
\* without a node for it the whole block is dropped.
Split(a, order) ==
  IF a.addr = 0 THEN a
  ELSE IF Exhausted(a.pmm) THEN [a EXCEPT !.addr = 0]
  ELSE [a EXCEPT !.pmm = Prepend(@, a.addr + OrderSize[order], order)]

\* pmm_alloc: the new state and the address, 0 for none.
Allocated(m, order) ==
  LET take[o \in Orders] ==
        IF m.lists[o] # <<>> THEN Popped(m, o)
        ELSE IF o = MaxOrder THEN [pmm |-> m, addr |-> 0]
        ELSE Split(take[o + 1], o)
  IN take[order]

PmmAlloc(order) ==
  LET a == Allocated(pmm, order) IN
  /\ pmm' = a.pmm
  /\ out' = IF a.addr = 0 THEN out
            ELSE out \cup {[addr |-> a.addr, order |-> order]}
  /\ UNCHANGED start

\* A block that is being freed is joined with its buddy, if that is free.
Merged(x) ==
  LET buddy == Buddy(x.addr, x.order) IN
  IF x.order < MaxOrder /\ buddy \in Range(x.pmm.lists[x.order])
  THEN [pmm   |-> Unlinked(x.pmm, buddy, x.order),
        addr  |-> IF x.addr < buddy THEN x.addr ELSE buddy,
        order |-> x.order + 1]
  ELSE x

\* pmm_free: the new state.
Returned(m, addr, order) ==
  LET up[n \in Orders] ==
        IF n = 0 THEN [pmm |-> m, addr |-> addr, order |-> order]
        ELSE Merged(up[n - 1])
      last == up[MaxOrder]
  IN Prepend(last.pmm, last.addr, last.order)

\* A caller frees a block it holds, with the order it asked for.
PmmFree(b) ==
  /\ pmm' = Returned(pmm, b.addr, b.order)
  /\ out' = out \ {b}
  /\ UNCHANGED start

PmmNext ==
  \/ \E o \in Orders : PmmAlloc(o)
  \/ \E b \in out : PmmFree(b)

PmmSpec == PmmInit /\ [][PmmNext]_pmmVars

------------------------------------------------------------------------------
(* Properties. *)

PagesOf(b) == b.addr .. b.addr + OrderSize[b.order] - 1

FreeIn(m) ==
  UNION {{[addr |-> a, order |-> o] : a \in Range(m.lists[o])} : o \in Orders}

FreeBlocks == FreeIn(pmm)

Disjoint(S) ==
  \A b, c \in S : PagesOf(b) \cap PagesOf(c) # {} => b = c

PagesIn(S) == UNION {PagesOf(b) : b \in S}

Memory == start .. start + Pages - 1

\* Through every split and merge, for a start that is not aligned to the
\* largest block too, no page is on two free blocks, or free and held, or
\* held twice; no block is listed twice; free_pages counts exactly the pages
\* that can still be given out; and a page is neither free nor held only if
\* the pool has run out of nodes.
PagesAccounted ==
  /\ Disjoint(FreeBlocks \cup out) /\ FreeBlocks \cap out = {}
  /\ \A o \in Orders : IsInjective(pmm.lists[o])
  /\ PagesIn(FreeBlocks \cup out) \subseteq Memory
  /\ pmm.free_pages = Cardinality(PagesIn(FreeBlocks))
  /\ PagesIn(FreeBlocks \cup out) # Memory => pmm.count = PoolCap

\* If the memory begins at a multiple of the largest block, memory never
\* stays fragmented: two buddies are never free side by side, and when all
\* blocks are back, none lost, the free blocks are those of pmm_init.
MergesBack ==
  start % OrderSize[MaxOrder] = 0 =>
    /\ \A b \in FreeBlocks :
         b.order < MaxOrder =>
           [b EXCEPT !.addr = Buddy(b.addr, b.order)] \notin FreeBlocks
    /\ out = {} /\ PagesIn(FreeBlocks) = Memory =>
         \A o \in Orders : Range(pmm.lists[o]) = Range(Covered(start).lists[o])

==============================================================================
