--------------------------- MODULE SchedulerProofs ---------------------------
(***************************************************************************)
(* Proofs about the run queue, for any number of tasks and any constants:  *)
(* the list threaded through the process table stays sound, a task picked  *)
(* is never above the head, and the list implements the abstract line of   *)
(* RunqueueAbs.                                                            *)
(***************************************************************************)
EXTENDS Scheduler, SequenceTheorems, FiniteSetTheorems, WellFoundedInduction, TLAPS

-----------------------------------------------------------------------------
(* A queue q whose links spell the sequence l. *)

Line(l) == l \in Seq(Tasks) /\ \A i, j \in 1..Len(l) : l[i] = l[j] => i = j

\* head and tail are the ends of the first n elements of l, next links them,
\* and t is one of them.
EndsAt(l, n, head, tail) ==
  /\ n = 0 => head = None /\ tail = None
  /\ n # 0 => head = l[1] /\ tail = l[n]

Chain(next, l, n) ==
  /\ n # 0 => next[l[n]] = None
  /\ \A i \in 1..n : i # n => next[l[i]] = l[i + 1]

Holds(l, n, t) == \E i \in 1..n : l[i] = t

Ends(q, l) == EndsAt(l, Len(l), q.rq.head, q.rq.tail) /\ q.rq.count = Len(l)

Links(q, l) == Chain(q.tbl.next, l, Len(l))

Readies(q, l) ==
  \A t \in Tasks : q.tbl.state[t] = "READY" <=> Holds(l, Len(l), t)

Spells(q, l) == Line(l) /\ Ends(q, l) /\ Links(q, l) /\ Readies(q, l)

SchedInv ==
  /\ TypeOK
  /\ Spells(State, List(State))
  /\ current # None => tbl.state[current] = "RUNNING"

LEMMA Least ==
  ASSUME NEW T \in SUBSET Nat, T # {}
  PROVE  \E x \in T : \A y \in T : x <= y
<1> DEFINE Less == {ss \in Nat \X Nat : ss[1] < ss[2]}
<1>1. IsWellFoundedOn(Less, Nat)
  BY NatLessThanWellFounded DEF OpToRel
<1>2. PICK x \in T : \A y \in T : ~(<<y, x>> \in Less)
  BY <1>1, WFMin, Zenon
<1>3. ASSUME NEW y \in T PROVE x <= y
  <2>1. ~(y < x)
    BY <1>2, Zenon
  <2> QED BY <2>1
<1> QED BY <1>3

\* A list without repetition is no longer than there are tasks.
LEMMA LenBound ==
  ASSUME NEW l \in Seq(Tasks), \A i, j \in 1..Len(l) : l[i] = l[j] => i = j
  PROVE  Len(l) \in Nat /\ Cardinality(Tasks) \in Nat /\ Len(l) <= Cardinality(Tasks)
<1>1. Len(l) \in Nat /\ l \in [1..Len(l) -> Tasks]
  BY LenProperties
<1>2. l \in Injection(1..Len(l), Tasks)
  BY <1>1 DEF Injection, IsInjective
<1>3. IsFiniteSet(Tasks)
  BY SchedulerAssumptions
<1>4. Cardinality(1..Len(l)) <= Cardinality(Tasks)
  BY <1>2, <1>3, FS_Injection
<1>5. Cardinality(1..Len(l)) = Len(l)
  BY <1>1, FS_Interval
<1> QED BY <1>1, <1>3, <1>4, <1>5, FS_CardinalityType

\* One step of the walk, and where it is after k of them on the sequence l.
WalkStep(q, w) ==
  IF w.at = None THEN w
  ELSE [seen |-> Append(w.seen, w.at), at |-> q.tbl.next[w.at]]

Start(q) == [seen |-> <<>>, at |-> q.rq.head]

Reached(l, k) ==
  IF k < Len(l) THEN [seen |-> SubSeq(l, 1, k), at |-> l[k + 1]]
  ELSE [seen |-> l, at |-> None]

LEMMA ReachedStart ==
  ASSUME NEW q, NEW l, Spells(q, l), Len(l) \in Nat
  PROVE  Reached(l, 0) = Start(q)
<1>1. SubSeq(l, 1, 0) = <<>>
  BY SubSeqEmpty
<1>2. CASE Len(l) = 0
  <2>1. l = <<>>
    BY <1>2, EmptySeq DEF Spells, Line
  <2> QED BY <1>2, <2>1 DEF Spells, Ends, EndsAt, Reached, Start
<1>3. CASE Len(l) # 0
  BY <1>1, <1>3 DEF Spells, Ends, EndsAt, Reached, Start
<1> QED BY <1>2, <1>3

LEMMA ReachedStep ==
  ASSUME NEW q, NEW l, Spells(q, l), NEW k \in Nat, k # 0, Len(l) \in Nat
  PROVE  Reached(l, k) = WalkStep(q, Reached(l, k - 1))
<1>0. None \notin Tasks /\ l \in Seq(Tasks)
  BY SchedulerAssumptions DEF Spells, Line
<1>1. CASE k - 1 < Len(l)
  <2>1. k \in 1..Len(l) /\ l[k] \in Tasks /\ l[k] # None
    BY <1>0, <1>1
  <2>2. Reached(l, k - 1) = [seen |-> SubSeq(l, 1, k - 1), at |-> l[k]]
    BY <1>1 DEF Reached
  <2>3. q.tbl.next[l[k]] = IF k = Len(l) THEN None ELSE l[k + 1]
    BY <2>1 DEF Spells, Links, Chain
  <2>4. SubSeq(l, 1, k) = Append(SubSeq(l, 1, k - 1), l[k])
    BY <1>0, <2>1, SubSeqRecursiveSecond
  <2>5. WalkStep(q, Reached(l, k - 1))
          = [seen |-> SubSeq(l, 1, k), at |-> q.tbl.next[l[k]]]
    <3>1. /\ Reached(l, k - 1).seen = SubSeq(l, 1, k - 1)
          /\ Reached(l, k - 1).at = l[k]
      BY <2>2
    <3> QED BY <2>1, <2>4, <3>1, Zenon DEF WalkStep
  <2>6. CASE k = Len(l)
    <3>1. SubSeq(l, 1, k) = l
      BY <1>0, <2>6, SubSeqFull
    <3> QED BY <2>3, <2>5, <2>6, <3>1 DEF Reached
  <2>7. CASE k # Len(l)
    BY <2>1, <2>3, <2>5, <2>7 DEF Reached
  <2> QED BY <2>6, <2>7
<1>2. CASE ~(k - 1 < Len(l))
  <2>1. Reached(l, k - 1) = [seen |-> l, at |-> None]
        /\ Reached(l, k) = [seen |-> l, at |-> None]
    BY <1>2 DEF Reached
  <2> QED BY <2>1 DEF WalkStep
<1> QED BY <1>1, <1>2

\* Two functions that start and go on alike are one.
LEMMA WalkUnique ==
  ASSUME NEW q, NEW n \in Nat, NEW f, NEW g,
         f = [k \in 0..n |-> IF k = 0 THEN Start(q) ELSE WalkStep(q, f[k - 1])],
         g = [k \in 0..n |-> IF k = 0 THEN Start(q) ELSE WalkStep(q, g[k - 1])]
  PROVE  f = g
<1> DEFINE Bad == {k \in 0..n : f[k] # g[k]}
<1>1. SUFFICES Bad = {}
  BY Zenon
<1>2. SUFFICES ASSUME Bad # {} PROVE FALSE
  OBVIOUS
<1>3. Bad \in SUBSET Nat
  OBVIOUS
<1>4. PICK k \in Bad : \A j \in Bad : k <= j
  BY <1>2, <1>3, Least, Zenon
<1>5. k \in 0..n /\ f[k] # g[k]
  BY <1>4
<1>6. k # 0
  BY <1>5
<1>7. k - 1 \in 0..n /\ ~(k <= k - 1)
  BY <1>5, <1>6
<1>8. f[k - 1] = g[k - 1]
  BY <1>4, <1>7
<1>9. f[k] = WalkStep(q, f[k - 1]) /\ g[k] = WalkStep(q, g[k - 1])
  BY <1>5, <1>6
<1> QED BY <1>5, <1>8, <1>9

\* The walk of a queue that spells l is l.
LEMMA ListIs ==
  ASSUME NEW q, NEW l, Spells(q, l)
  PROVE  List(q) = l
<1>0. SUFFICES ASSUME NEW n, n = Cardinality(Tasks) + 1 PROVE List(q) = l
  BY Zenon
<1>1. Len(l) \in Nat /\ n \in Nat /\ Len(l) < n
  BY <1>0, LenBound DEF Spells, Line
<1> DEFINE g == [k \in 0..n |-> Reached(l, k)]
<1>2. g = [k \in 0..n |-> IF k = 0 THEN Start(q) ELSE WalkStep(q, g[k - 1])]
  <2>1. ASSUME NEW k \in 0..n
        PROVE  Reached(l, k) = IF k = 0 THEN Start(q) ELSE WalkStep(q, g[k - 1])
    <3>1. k # 0 => g[k - 1] = Reached(l, k - 1)
      BY <1>1
    <3>2. k # 0 => Reached(l, k) = WalkStep(q, Reached(l, k - 1))
      BY <1>1, ReachedStep
    <3> QED BY <1>1, <3>1, <3>2, ReachedStart
  <2> QED BY <2>1
<1> HIDE DEF g
<1>3. (CHOOSE f : f = [k \in 0..n |-> IF k = 0 THEN Start(q)
                                      ELSE WalkStep(q, f[k - 1])]) = g
  BY <1>1, <1>2, WalkUnique
<1>4. List(q) = g[n].seen
  BY <1>0, <1>3, Zenon DEF List, Walk, Start, WalkStep
<1>5. g[n].seen = l
  BY <1>1 DEF g, Reached
<1> QED BY <1>4, <1>5

-----------------------------------------------------------------------------
(* sched_enqueue and sched_dequeue. *)

RqType == [head : Tasks \cup {None}, tail : Tasks \cup {None}, count : Nat,
           need_resched : {0, 1}]

TblType == [next : [Tasks -> Tasks \cup {None}], state : [Tasks -> States],
            vruntime : [Tasks -> 0..MaxVruntime], prio : [Tasks -> 0..MaxPrio]]

LEMMA EnqueueFields ==
  ASSUME NEW q, q.rq \in RqType, q.tbl \in TblType, NEW t \in Tasks
  PROVE  /\ Enqueue(q, t).rq \in RqType /\ Enqueue(q, t).tbl \in TblType
         /\ Enqueue(q, t).rq.head = IF q.rq.head = None THEN t ELSE q.rq.head
         /\ Enqueue(q, t).rq.tail = t
         /\ Enqueue(q, t).rq.count = q.rq.count + 1
         /\ q.rq.head = None
              => Enqueue(q, t).tbl.next = [q.tbl.next EXCEPT ![t] = None]
         /\ q.rq.head # None
              => Enqueue(q, t).tbl.next = [q.tbl.next EXCEPT ![q.rq.tail] = t, ![t] = None]
         /\ Enqueue(q, t).tbl.state = [q.tbl.state EXCEPT ![t] = "READY"]
         /\ Enqueue(q, t).tbl.vruntime = q.tbl.vruntime
<1>1. /\ Enqueue(q, t).rq = [q.rq EXCEPT !.head = IF @ = None THEN t ELSE @,
                                         !.tail = t, !.count = @ + 1]
      /\ Enqueue(q, t).tbl =
           [q.tbl EXCEPT !.next = IF q.rq.head = None THEN [@ EXCEPT ![t] = None]
                                  ELSE [@ EXCEPT ![q.rq.tail] = t, ![t] = None],
                         !.state[t] = "READY"]
  BY Zenon DEF Enqueue
<1> DEFINE nx == IF q.rq.head = None THEN [q.tbl.next EXCEPT ![t] = None]
                 ELSE [q.tbl.next EXCEPT ![q.rq.tail] = t, ![t] = None]
           st == [q.tbl.state EXCEPT ![t] = "READY"]
<1>2. nx \in [Tasks -> Tasks \cup {None}] /\ st \in [Tasks -> States]
  BY DEF TblType, States
<1>3. Enqueue(q, t).tbl = [q.tbl EXCEPT !.next = nx, !.state = st]
  BY <1>1 DEF TblType
<1>4. /\ Enqueue(q, t).rq \in RqType
      /\ Enqueue(q, t).rq.head = IF q.rq.head = None THEN t ELSE q.rq.head
      /\ Enqueue(q, t).rq.tail = t
      /\ Enqueue(q, t).rq.count = q.rq.count + 1
  <2> DEFINE h == IF q.rq.head = None THEN t ELSE q.rq.head
             c == q.rq.count + 1
  <2>1. h \in Tasks \cup {None} /\ c \in Nat
    BY DEF RqType
  <2>2. Enqueue(q, t).rq = [q.rq EXCEPT !.head = h, !.tail = t, !.count = c]
    BY <1>1 DEF RqType
  <2> HIDE DEF h, c
  <2>3. /\ Enqueue(q, t).rq \in RqType /\ Enqueue(q, t).rq.head = h
        /\ Enqueue(q, t).rq.tail = t /\ Enqueue(q, t).rq.count = c
    BY <2>1, <2>2, Zenon DEF RqType
  <2> QED BY <2>3 DEF h, c
<1>5. /\ Enqueue(q, t).tbl \in TblType /\ Enqueue(q, t).tbl.next = nx
      /\ Enqueue(q, t).tbl.state = st /\ Enqueue(q, t).tbl.vruntime = q.tbl.vruntime
  <2> HIDE DEF nx, st
  <2> QED BY <1>2, <1>3, Zenon DEF TblType
<1> QED BY <1>4, <1>5

\* m is l, of length n, with t, which is not in it, at its end.
Addition(l, n, t, m) ==
  /\ \A i \in 1..n : l[i] \in Tasks
  /\ \A i, j \in 1..n : l[i] = l[j] => i = j
  /\ \A i \in 1..n : m[i] = l[i]
  /\ m[n + 1] = t
  /\ \A i \in 1..n : l[i] # t

LEMMA AdditionInjective ==
  ASSUME NEW n \in Nat, NEW t \in Tasks, NEW l, NEW m, Addition(l, n, t, m),
         NEW i \in 1..(n + 1), NEW j \in 1..(n + 1), m[i] = m[j]
  PROVE  i = j
<1>1. \A k \in 1..(n + 1) : k # n + 1 => k \in 1..n
  OBVIOUS
<1> QED BY <1>1 DEF Addition

LEMMA AdditionHolds ==
  ASSUME NEW n \in Nat, NEW t \in Tasks, NEW l, NEW m, Addition(l, n, t, m), NEW u
  PROVE  Holds(m, n + 1, u) <=> u = t \/ Holds(l, n, u)
<1>1. \A k \in 1..(n + 1) : k # n + 1 => k \in 1..n
  OBVIOUS
<1>2. n + 1 \in 1..(n + 1) /\ \A k \in 1..n : k \in 1..(n + 1)
  OBVIOUS
<1> QED BY <1>1, <1>2 DEF Addition, Holds

LEMMA AdditionChain ==
  ASSUME NEW n \in Nat, NEW t \in Tasks, NEW l, NEW m, Addition(l, n, t, m),
         NEW next \in [Tasks -> Tasks \cup {None}], NEW next2, Chain(next, l, n),
         n = 0 => next2 = [next EXCEPT ![t] = None],
         n # 0 => next2 = [next EXCEPT ![l[n]] = t, ![t] = None]
  PROVE  Chain(next2, m, n + 1)
<1>1. next2[m[n + 1]] = None
  BY DEF Addition
<1>2. ASSUME NEW i \in 1..n PROVE next2[m[i]] = m[i + 1]
  <2>1. n # 0 /\ n \in 1..n /\ m[i] = l[i] /\ l[i] \in Tasks /\ l[i] # t
        /\ l[n] \in Tasks
    BY <1>2 DEF Addition
  <2>2. CASE i = n
    BY <2>1, <2>2 DEF Addition
  <2>3. CASE i # n
    <3>1. l[i] # l[n]
      BY <2>1, <2>3 DEF Addition
    <3>2. i + 1 \in 1..n
      BY <2>3
    <3>3. next[l[i]] = l[i + 1]
      BY <2>3 DEF Chain
    <3> QED BY <2>1, <3>1, <3>2, <3>3 DEF Addition
  <2> QED BY <2>2, <2>3
<1>3. \A i \in 1..(n + 1) : i # n + 1 => i \in 1..n
  OBVIOUS
<1> QED BY <1>1, <1>2, <1>3, Zenon DEF Chain

\* sched_enqueue appends.
LEMMA EnqueueSpells ==
  ASSUME NEW q, q.rq \in RqType, q.tbl \in TblType, NEW l, Spells(q, l),
         NEW t \in Tasks, q.tbl.state[t] # "READY"
  PROVE  Spells(Enqueue(q, t), Append(l, t))
<1>0. SUFFICES ASSUME NEW e, e = Enqueue(q, t), NEW m, m = Append(l, t), NEW n, n = Len(l)
               PROVE  Spells(e, m)
  BY Zenon
<1>s. l \in Seq(Tasks) /\ n \in Nat
  BY <1>0, LenProperties DEF Spells, Line
<1>1. n \in Nat
  BY <1>s
<1>2. m \in Seq(Tasks) /\ Len(m) = n + 1
  BY <1>0, <1>s, AppendProperties
<1>3. Addition(l, n, t, m)
  <2>1. (\A i \in 1..n : m[i] = l[i]) /\ m[n + 1] = t
    BY <1>0, <1>s, AppendProperties
  <2>2. \A i \in 1..n : l[i] \in Tasks
    BY <1>0, <1>s, LenProperties
  <2>3. \A i, j \in 1..n : l[i] = l[j] => i = j
    BY <1>0 DEF Spells, Line
  <2>4. \A i \in 1..n : l[i] # t
    BY <1>0 DEF Spells, Readies, Holds
  <2> QED BY <2>1, <2>2, <2>3, <2>4 DEF Addition
<1>4. EndsAt(l, n, q.rq.head, q.rq.tail) /\ q.rq.count = n /\ Chain(q.tbl.next, l, n)
  BY <1>0 DEF Spells, Ends, Links
<1>h. (q.rq.head = None <=> n = 0) /\ (n # 0 => q.rq.head = l[1] /\ q.rq.tail = l[n])
  <2>1. n # 0 => l[1] \in Tasks
    BY <1>1, <1>3 DEF Addition
  <2> QED BY <1>4, <2>1, SchedulerAssumptions DEF EndsAt
<1>n. q.tbl.next \in [Tasks -> Tasks \cup {None}] /\ q.tbl.state \in [Tasks -> States]
  BY DEF TblType
<1>5. /\ e.rq.head = IF q.rq.head = None THEN t ELSE q.rq.head
      /\ e.rq.tail = t /\ e.rq.count = q.rq.count + 1
  <2>1. /\ Enqueue(q, t).rq.head = IF q.rq.head = None THEN t ELSE q.rq.head
        /\ Enqueue(q, t).rq.tail = t /\ Enqueue(q, t).rq.count = q.rq.count + 1
    BY EnqueueFields, ZenonT(30)
  <2> QED BY <1>0, <2>1, Zenon
<1>6. /\ n = 0 => e.tbl.next = [q.tbl.next EXCEPT ![t] = None]
      /\ n # 0 => e.tbl.next = [q.tbl.next EXCEPT ![l[n]] = t, ![t] = None]
      /\ e.tbl.state = [q.tbl.state EXCEPT ![t] = "READY"]
  <2>1. n = 0 => e.tbl.next = [q.tbl.next EXCEPT ![t] = None]
    BY <1>0, <1>h, EnqueueFields, Zenon
  <2>2. n # 0 => e.tbl.next = [q.tbl.next EXCEPT ![l[n]] = t, ![t] = None]
    <3>1. n # 0 => e.tbl.next = [q.tbl.next EXCEPT ![q.rq.tail] = t, ![t] = None]
      BY <1>0, <1>h, EnqueueFields, Zenon
    <3> QED BY <1>h, <3>1
  <2>3. e.tbl.state = [q.tbl.state EXCEPT ![t] = "READY"]
    BY <1>0, EnqueueFields, Zenon
  <2> QED BY <2>1, <2>2, <2>3
<1>7. Line(m)
  <2>1. \A i, j \in 1..(n + 1) : m[i] = m[j] => i = j
    BY <1>1, <1>3, AdditionInjective
  <2> QED BY <1>2, <2>1, Zenon DEF Line
<1>8. Ends(e, m)
  <2>1. m[1] = IF n = 0 THEN t ELSE l[1]
    BY <1>1, <1>3 DEF Addition
  <2>2. e.rq.head = m[1]
    BY <1>5, <1>h, <2>1, Zenon
  <2>3. e.rq.tail = m[n + 1]
    BY <1>3, <1>5 DEF Addition
  <2>4. EndsAt(m, n + 1, e.rq.head, e.rq.tail)
    BY <1>1, <2>2, <2>3 DEF EndsAt
  <2>5. e.rq.count = n + 1
    BY <1>4, <1>5
  <2> QED BY <1>2, <2>4, <2>5, Zenon DEF Ends
<1>9. Links(e, m)
  <2>1. Chain(e.tbl.next, m, n + 1)
    BY <1>1, <1>3, <1>4, <1>6, <1>n, AdditionChain
  <2> QED BY <1>2, <2>1, Zenon DEF Links
<1>10. ASSUME NEW u \in Tasks
       PROVE  e.tbl.state[u] = "READY" <=> Holds(m, n + 1, u)
  <2>1. q.tbl.state[u] = "READY" <=> Holds(l, n, u)
    BY <1>0 DEF Spells, Readies
  <2>2. Holds(m, n + 1, u) <=> u = t \/ Holds(l, n, u)
    BY <1>1, <1>3, AdditionHolds
  <2>3. e.tbl.state[u] = "READY" <=> u = t \/ q.tbl.state[u] = "READY"
    BY <1>6, <1>n
  <2> QED BY <2>1, <2>2, <2>3, Zenon
<1>11. Readies(e, m)
  BY <1>2, <1>10, Zenon DEF Readies
<1> QED BY <1>7, <1>8, <1>9, <1>11, Zenon DEF Spells

LEMMA MaxIs ==
  ASSUME NEW n \in Nat, NEW T \in SUBSET (0..n), T # {}
  PROVE  Max(T) \in T /\ \A y \in T : Max(T) >= y
<1> DEFINE D == {n - i : i \in T}
<1>1. D \in SUBSET Nat /\ D # {}
  <2>1. \A i \in T : n - i \in Nat
    OBVIOUS
  <2> QED BY <2>1, Zenon
<1>2. PICK d \in D : \A e \in D : d <= e
  BY <1>1, Least, Zenon
<1>3. PICK x \in T : d = n - x
  BY <1>2
<1>4. \A y \in T : x >= y
  <2>1. SUFFICES ASSUME NEW y \in T PROVE x >= y
    OBVIOUS
  <2>2. n - x <= n - y
    BY <1>2, <1>3, Zenon
  <2>3. x \in 0..n /\ y \in 0..n
    OBVIOUS
  <2> QED BY <2>2, <2>3
<1>5. \E z \in T : \A y \in T : z >= y
  BY <1>4, Zenon
<1> QED BY <1>5, Zenon DEF Max

\* The position picked is one of the list, at or below the head.
LEMMA PickedIs ==
  ASSUME NEW q, NEW l, Spells(q, l), Len(l) # 0
  PROVE  /\ PickedAt(q) \in 1..Len(l)
         /\ Picked(q) = l[PickedAt(q)]
         /\ PickedAt(q) # 1 => q.tbl.vruntime[Picked(q)] < q.tbl.vruntime[l[1]]
<1>0. List(q) = l
  BY ListIs
<1>1. Len(l) \in Nat
  BY LenProperties DEF Spells, Line
<1> DEFINE lower == {i \in 2..Len(l) : q.tbl.vruntime[l[i]] < q.tbl.vruntime[l[1]]}
<1>2. PickedAt(q) = IF lower = {} THEN 1 ELSE Max(lower)
  BY <1>0, Zenon DEF PickedAt
<1>3. lower # {} => Max(lower) \in lower
  <2>1. lower \in SUBSET (0..Len(l))
    BY <1>1
  <2> QED BY <1>1, <2>1, MaxIs, Zenon
<1>4. Picked(q) = l[PickedAt(q)]
  BY <1>0, Zenon DEF Picked
<1>5. CASE lower = {}
  BY <1>1, <1>2, <1>4, <1>5
<1>6. CASE lower # {}
  <2>1. PickedAt(q) \in lower
    BY <1>2, <1>3, <1>6
  <2> QED BY <1>1, <1>4, <2>1, SMTT(30)
<1> QED BY <1>5, <1>6

\* l without its element at i.
Without(l, i) == SubSeq(l, 1, i - 1) \o SubSeq(l, i + 1, Len(l))

LEMMA WithoutIs ==
  ASSUME NEW l \in Seq(Tasks), NEW i \in 1..Len(l)
  PROVE  /\ Without(l, i) \in Seq(Tasks)
         /\ Len(Without(l, i)) = Len(l) - 1
         /\ \A j \in 1..Len(l) - 1 : Without(l, i)[j] = IF j < i THEN l[j] ELSE l[j + 1]
<1>1. Len(l) \in Nat /\ \A j \in 1..Len(l) : l[j] \in Tasks
  BY LenProperties
<1> DEFINE a == SubSeq(l, 1, i - 1)
           b == SubSeq(l, i + 1, Len(l))
<1>2. /\ a \in Seq(Tasks) /\ Len(a) = i - 1
      /\ \A j \in 1..i - 1 : a[j] = l[j]
  <2>1. \A j \in 1..(i - 1) : l[j] \in Tasks
    BY <1>1
  <2>2. /\ SubSeq(l, 1, i - 1) \in Seq(Tasks)
        /\ Len(SubSeq(l, 1, i - 1)) = IF 1 <= i - 1 THEN (i - 1) - 1 + 1 ELSE 0
        /\ \A j \in 1..((i - 1) - 1 + 1) : SubSeq(l, 1, i - 1)[j] = l[1 + j - 1]
    BY <1>1, <2>1, SubSeqProperties
  <2> QED BY <1>1, <2>2
<1>3. /\ b \in Seq(Tasks) /\ Len(b) = Len(l) - i
      /\ \A j \in 1..Len(l) - i : b[j] = l[i + j]
  <2>1. \A j \in (i + 1)..Len(l) : l[j] \in Tasks
    BY <1>1
  <2>2. /\ SubSeq(l, i + 1, Len(l)) \in Seq(Tasks)
        /\ Len(SubSeq(l, i + 1, Len(l))) = IF i + 1 <= Len(l) THEN Len(l) - (i + 1) + 1 ELSE 0
        /\ \A j \in 1..(Len(l) - (i + 1) + 1) : SubSeq(l, i + 1, Len(l))[j] = l[(i + 1) + j - 1]
    BY <1>1, <2>1, SubSeqProperties
  <2> QED BY <1>1, <2>2
<1> HIDE DEF a, b
<1>4. /\ a \o b \in Seq(Tasks) /\ Len(a \o b) = Len(a) + Len(b)
      /\ \A j \in 1..(Len(a) + Len(b)) :
           (a \o b)[j] = IF j <= Len(a) THEN a[j] ELSE b[j - Len(a)]
  BY <1>2, <1>3, ConcatProperties, SMTT(30)
<1>5. Without(l, i) = a \o b
  BY DEF Without, a, b
<1>6. Len(a \o b) = Len(l) - 1
  BY <1>1, <1>2, <1>3, <1>4
<1>7. ASSUME NEW j \in 1..Len(l) - 1
      PROVE  (a \o b)[j] = IF j < i THEN l[j] ELSE l[j + 1]
  <2>1. (a \o b)[j] = IF j <= i - 1 THEN a[j] ELSE b[j - (i - 1)]
    BY <1>1, <1>2, <1>3, <1>4
  <2>2. CASE j < i
    BY <1>1, <1>2, <2>1, <2>2
  <2>3. CASE ~(j < i)
    <3>1. j - (i - 1) \in 1..Len(l) - i /\ i + (j - (i - 1)) = j + 1
      BY <1>1, <2>3
    <3>2. b[j - (i - 1)] = l[j + 1]
      BY <1>3, <3>1
    <3> QED BY <1>1, <2>1, <2>3, <3>2
  <2> QED BY <2>2, <2>3, Zenon
<1> QED BY <1>4, <1>5, <1>6, <1>7, Zenon

\* What sched_dequeue makes of q, e, when it takes the task at i: if that is
\* the head, if it is not, and in both cases.
TakesHead(q, e, l, i) ==
  /\ e.rq.head = q.tbl.next[l[i]] /\ e.tbl.next = q.tbl.next
  /\ e.rq.tail = IF q.tbl.next[l[i]] = None THEN None ELSE q.rq.tail

TakesOther(q, e, l, i) ==
  /\ e.rq.head = q.rq.head
  /\ e.tbl.next = [q.tbl.next EXCEPT ![l[i - 1]] = q.tbl.next[l[i]]]
  /\ e.rq.tail = IF i = Len(l) THEN l[i - 1] ELSE q.rq.tail

TakesEither(q, e, l, i) ==
  /\ e.rq = [head |-> e.rq.head, tail |-> e.rq.tail, count |-> q.rq.count - 1,
             need_resched |-> q.rq.need_resched]
  /\ e.tbl = [next |-> e.tbl.next,
              state |-> [q.tbl.state EXCEPT ![l[i]] = "RUNNING"],
              vruntime |-> q.tbl.vruntime, prio |-> q.tbl.prio]

LEMMA DequeueFields ==
  ASSUME NEW q, q.rq \in RqType, q.tbl \in TblType, NEW l, Spells(q, l), Len(l) # 0,
         NEW i \in 1..Len(l), PickedAt(q) = i
  PROVE  /\ i = 1 => TakesHead(q, Dequeue(q), l, i)
         /\ i # 1 => TakesOther(q, Dequeue(q), l, i)
         /\ TakesEither(q, Dequeue(q), l, i)
<1>0. List(q) = l
  BY ListIs
<1>1. /\ Len(l) \in Nat /\ l \in [1..Len(l) -> Tasks] /\ None \notin Tasks
      /\ \A j, k \in 1..Len(l) : l[j] = l[k] => j = k
  BY LenProperties, SchedulerAssumptions DEF Spells, Line
<1>2. q.rq.head = l[1] /\ q.rq.tail = l[Len(l)] /\ q.rq.head # None
  BY <1>1 DEF Spells, Ends, EndsAt
<1>t. l[i] = q.rq.tail <=> i = Len(l)
  <2>1. Len(l) \in 1..Len(l)
    BY <1>1
  <2> QED BY <1>1, <1>2, <2>1, Zenon
<1>3. PICK t, nt : t = l[i] /\ nt = q.tbl.next[t]
  BY Zenon
<1>4. PICK head : head = IF i = 1 THEN nt ELSE q.rq.head
  BY Zenon
<1>5. PICK tail : tail = IF head = None THEN None
                         ELSE IF i > 1 /\ t = q.rq.tail THEN l[i - 1] ELSE q.rq.tail
  BY Zenon
<1>6. PICK nx : nx = IF i = 1 THEN q.tbl.next ELSE [q.tbl.next EXCEPT ![l[i - 1]] = nt]
  BY Zenon
<1>7. PICK st : st = [q.tbl.state EXCEPT ![t] = "RUNNING"]
  BY Zenon
<1>8. /\ Dequeue(q).rq = [q.rq EXCEPT !.head = head, !.tail = tail, !.count = @ - 1]
      /\ Dequeue(q).tbl = [q.tbl EXCEPT !.next = nx, !.state = st]
  BY <1>0, <1>3, <1>4, <1>5, <1>6, <1>7 DEF Dequeue
<1>9. /\ Dequeue(q).rq.head = head /\ Dequeue(q).rq.tail = tail
      /\ Dequeue(q).rq = [head |-> head, tail |-> tail, count |-> q.rq.count - 1,
                          need_resched |-> q.rq.need_resched]
  BY <1>8, Zenon DEF RqType
<1>10. /\ Dequeue(q).tbl.next = nx
       /\ Dequeue(q).tbl = [next |-> nx, state |-> st,
                            vruntime |-> q.tbl.vruntime, prio |-> q.tbl.prio]
  BY <1>8, Zenon DEF TblType
<1>11. ASSUME i = 1
       PROVE  /\ head = q.tbl.next[l[i]] /\ nx = q.tbl.next
              /\ tail = IF q.tbl.next[l[i]] = None THEN None ELSE q.rq.tail
  <2>1. head = q.tbl.next[l[i]]
    BY <1>3, <1>4, <1>11, Zenon
  <2>2. nx = q.tbl.next
    BY <1>6, <1>11, Zenon
  <2>3. ~(i > 1)
    BY <1>11
  <2> QED BY <1>5, <2>1, <2>2, <2>3, Zenon
<1>12. ASSUME i # 1
       PROVE  /\ head = q.rq.head
              /\ nx = [q.tbl.next EXCEPT ![l[i - 1]] = q.tbl.next[l[i]]]
              /\ tail = IF i = Len(l) THEN l[i - 1] ELSE q.rq.tail
  <2>1. head = q.rq.head
    BY <1>4, <1>12, Zenon
  <2>2. nx = [q.tbl.next EXCEPT ![l[i - 1]] = q.tbl.next[l[i]]]
    BY <1>3, <1>6, <1>12, Zenon
  <2>3. i > 1
    BY <1>12
  <2> QED BY <1>2, <1>3, <1>5, <1>t, <2>1, <2>2, <2>3, Zenon
<1>13. st = [q.tbl.state EXCEPT ![l[i]] = "RUNNING"]
  BY <1>3, <1>7, Zenon
<1>14. TakesEither(q, Dequeue(q), l, i)
  BY <1>9, <1>10, <1>13, Zenon DEF TakesEither
<1>15. i = 1 => TakesHead(q, Dequeue(q), l, i)
  BY <1>9, <1>10, <1>11, Zenon DEF TakesHead
<1>16. i # 1 => TakesOther(q, Dequeue(q), l, i)
  BY <1>9, <1>10, <1>12, Zenon DEF TakesOther
<1> QED BY <1>14, <1>15, <1>16

\* m is l, of length n, without its element at i.
Removal(l, n, i, m) ==
  /\ \A j \in 1..n : l[j] \in Tasks
  /\ \A j, k \in 1..n : l[j] = l[k] => j = k
  /\ \A j \in 1..(n - 1) : j < i => m[j] = l[j]
  /\ \A j \in 1..(n - 1) : ~(j < i) => m[j] = l[j + 1]

LEMMA RemovalFrom ==
  ASSUME NEW n \in Nat, NEW i \in 1..n, NEW l, NEW m, Removal(l, n, i, m),
         NEW j \in 1..(n - 1)
  PROVE  \E a \in 1..n : /\ m[j] = l[a] /\ a # i
                         /\ j < i => a = j
                         /\ ~(j < i) => a = j + 1
<1>1. CASE j < i
  <2>1. j \in 1..n /\ j # i /\ m[j] = l[j]
    BY <1>1 DEF Removal
  <2> QED BY <1>1, <2>1
<1>2. CASE ~(j < i)
  <2>1. j + 1 \in 1..n /\ j + 1 # i /\ m[j] = l[j + 1]
    BY <1>2 DEF Removal
  <2> QED BY <1>2, <2>1
<1> QED BY <1>1, <1>2

LEMMA RemovalInjective ==
  ASSUME NEW n \in Nat, NEW i \in 1..n, NEW l, NEW m, Removal(l, n, i, m),
         NEW j \in 1..(n - 1), NEW k \in 1..(n - 1), m[j] = m[k]
  PROVE  j = k
<1>1. PICK a \in 1..n : m[j] = l[a] /\ (j < i => a = j) /\ (~(j < i) => a = j + 1)
  BY RemovalFrom
<1>2. PICK b \in 1..n : m[k] = l[b] /\ (k < i => b = k) /\ (~(k < i) => b = k + 1)
  BY RemovalFrom
<1>3. a = b
  BY <1>1, <1>2, Zenon DEF Removal
<1> QED BY <1>1, <1>2, <1>3

LEMMA RemovalKeeps ==
  ASSUME NEW n \in Nat, NEW i \in 1..n, NEW l, NEW m, Removal(l, n, i, m), NEW t
  PROVE  Holds(m, n - 1, t) <=> t # l[i] /\ Holds(l, n, t)
<1>1. ASSUME NEW j \in 1..(n - 1), m[j] = t
      PROVE  t # l[i] /\ \E a \in 1..n : l[a] = t
  <2>1. PICK a \in 1..n : /\ m[j] = l[a] /\ a # i
                          /\ j < i => a = j
                          /\ ~(j < i) => a = j + 1
    BY RemovalFrom
  <2> QED BY <1>1, <2>1 DEF Removal
<1>2. ASSUME NEW a \in 1..n, l[a] = t, t # l[i]
      PROVE  \E j \in 1..(n - 1) : m[j] = t
  <2>1. CASE a < i
    <3>1. a \in 1..(n - 1) /\ m[a] = l[a]
      BY <2>1 DEF Removal
    <3> QED BY <1>2, <3>1
  <2>2. CASE ~(a < i)
    <3>0. a # i
      BY <1>2
    <3>1. a - 1 \in 1..(n - 1) /\ ~(a - 1 < i) /\ a - 1 + 1 = a
      BY <2>2, <3>0
    <3>2. m[a - 1] = l[a]
      BY <3>1 DEF Removal
    <3> QED BY <1>2, <3>1, <3>2
  <2> QED BY <2>1, <2>2
<1> QED BY <1>1, <1>2 DEF Holds

\* The links are sound after sched_dequeue has cut the task at i out of them.
LEMMA RemovalLinks ==
  ASSUME NEW n \in Nat, NEW i \in 1..n, NEW l, NEW m, Removal(l, n, i, m),
         NEW next \in [Tasks -> Tasks \cup {None}], NEW next2,
         Chain(next, l, n),
         i = 1 => next2 = next,
         i # 1 => next2 = [next EXCEPT ![l[i - 1]] = next[l[i]]]
  PROVE  Chain(next2, m, n - 1)
<1>0. n # 0 /\ next[l[n]] = None /\ \A j \in 1..n : j # n => next[l[j]] = l[j + 1]
  BY DEF Chain
<1>j. SUFFICES ASSUME NEW j \in 1..(n - 1)
               PROVE  /\ j = n - 1 => next2[m[j]] = None
                      /\ j # n - 1 => next2[m[j]] = m[j + 1]
  <2>1. n - 1 # 0 => n - 1 \in 1..(n - 1)
    OBVIOUS
  <2> QED BY <2>1, Zenon DEF Chain
<1>1. PICK a \in 1..n : /\ m[j] = l[a] /\ a # i
                        /\ j < i => a = j
                        /\ ~(j < i) => a = j + 1
  BY RemovalFrom
<1>2. l[a] \in Tasks
  BY DEF Removal
<1>3. CASE i # 1 /\ j = i - 1
  <2>1. a = i - 1 /\ next2[m[j]] = next[l[i]]
    <3>1. a = i - 1
      BY <1>1, <1>3
    <3> QED BY <1>1, <1>2, <1>3, <3>1
  <2>2. CASE j = n - 1
    <3>1. i = n
      BY <1>3, <2>2
    <3> QED BY <1>0, <2>1, <2>2, <3>1
  <2>3. CASE j # n - 1
    <3>1. i # n /\ j + 1 \in 1..(n - 1) /\ ~(j + 1 < i) /\ j + 1 + 1 = i + 1
      BY <1>3, <2>3
    <3>2. m[j + 1] = l[i + 1]
      BY <3>1 DEF Removal
    <3> QED BY <1>0, <2>1, <2>3, <3>1, <3>2
  <2> QED BY <2>2, <2>3
<1>4. CASE ~(i # 1 /\ j = i - 1)
  <2>1. next2[m[j]] = next[l[a]]
    <3>1. CASE i = 1
      BY <1>1, <3>1
    <3>2. CASE i # 1
      <4>1. a # i - 1 /\ i - 1 \in 1..n
        BY <1>1, <1>4, <3>2
      <4>2. l[a] # l[i - 1]
        BY <4>1 DEF Removal
      <4> QED BY <1>1, <1>2, <3>2, <4>2
    <3> QED BY <3>1, <3>2
  <2>2. CASE j = n - 1
    <3>1. a = n
      BY <1>1, <1>4, <2>2
    <3> QED BY <1>0, <2>1, <2>2, <3>1
  <2>3. CASE j # n - 1
    <3>1. a # n /\ j + 1 \in 1..(n - 1)
      BY <1>1, <2>3
    <3>2. m[j + 1] = l[a + 1]
      <4>1. CASE j + 1 < i
        <5>1. j = a
          BY <1>1, <4>1
        <5> QED BY <3>1, <4>1, <5>1 DEF Removal
      <4>2. CASE ~(j + 1 < i)
        <5>1. ~(j < i)
          BY <1>4, <4>2
        <5>2. a = j + 1
          BY <1>1, <5>1
        <5> QED BY <3>1, <4>2, <5>2 DEF Removal
      <4> QED BY <4>1, <4>2
    <3> QED BY <1>0, <2>1, <2>3, <3>1, <3>2
  <2> QED BY <2>2, <2>3
<1> QED BY <1>3, <1>4

\* head and tail are the ends of what is left.
LEMMA RemovalEnds ==
  ASSUME NEW n \in Nat, NEW i \in 1..n, NEW l, NEW m, Removal(l, n, i, m),
         NEW next, Chain(next, l, n),
         NEW head, NEW tail,
         i = 1 => /\ head = next[l[i]]
                  /\ tail = IF next[l[i]] = None THEN None ELSE l[n],
         i # 1 => /\ head = l[1]
                  /\ tail = IF i = n THEN l[i - 1] ELSE l[n]
  PROVE  EndsAt(m, n - 1, head, tail)
<1>c. n # 0 /\ next[l[n]] = None /\ \A j \in 1..n : j # n => next[l[j]] = l[j + 1]
  BY DEF Chain
<1>s. SUFFICES /\ n - 1 = 0 => head = None /\ tail = None
               /\ n - 1 # 0 => head = m[1] /\ tail = m[n - 1]
  BY Zenon DEF EndsAt
<1>0. None \notin Tasks
  BY SchedulerAssumptions
<1>1. CASE n = 1
  <2>1. i = 1 /\ next[l[i]] = None
    BY <1>1, <1>c
  <2> QED BY <1>1, <2>1
<1>2. CASE n # 1 /\ i = 1
  <2>1. 1 \in 1..(n - 1) /\ n - 1 \in 1..(n - 1) /\ ~(1 < i) /\ ~(n - 1 < i)
        /\ 1 \in 1..n /\ 2 \in 1..n /\ n - 1 + 1 = n /\ 1 + 1 = 2
    BY <1>2
  <2>2. m[1] = l[2] /\ m[n - 1] = l[n] /\ l[2] \in Tasks
    BY <2>1 DEF Removal
  <2>3. next[l[1]] = l[2]
    BY <1>2, <1>c, <2>1
  <2> QED BY <1>0, <1>2, <2>2, <2>3
<1>3. CASE i # 1
  <2>1. 1 \in 1..(n - 1) /\ n - 1 \in 1..(n - 1) /\ 1 < i /\ n - 1 + 1 = n
    BY <1>3
  <2>2. m[1] = l[1]
    BY <2>1 DEF Removal
  <2>3. CASE i = n
    <3>1. n - 1 < i /\ i - 1 = n - 1
      BY <2>3
    <3>2. m[n - 1] = l[i - 1]
      BY <2>1, <3>1 DEF Removal
    <3> QED BY <1>3, <2>2, <2>3, <3>2
  <2>4. CASE i # n
    <3>1. ~(n - 1 < i)
      BY <2>4
    <3>2. m[n - 1] = l[n]
      BY <2>1, <3>1 DEF Removal
    <3> QED BY <1>3, <2>2, <2>4, <3>2
  <2> QED BY <2>3, <2>4
<1> QED BY <1>1, <1>2, <1>3

\* sched_dequeue removes the task it picks and keeps the order of the others.
LEMMA DequeueSpells ==
  ASSUME NEW q, q.rq \in RqType, q.tbl \in TblType, NEW l, Spells(q, l), Len(l) # 0,
         NEW i \in 1..Len(l), PickedAt(q) = i
  PROVE  /\ Dequeue(q).rq \in RqType /\ Dequeue(q).tbl \in TblType
         /\ Spells(Dequeue(q), Without(l, i))
<1>0. SUFFICES ASSUME NEW e, e = Dequeue(q), NEW m, m = Without(l, i), NEW n, n = Len(l)
               PROVE  e.rq \in RqType /\ e.tbl \in TblType /\ Spells(e, m)
  BY Zenon
<1>s. l \in Seq(Tasks) /\ n \in Nat /\ n # 0 /\ i \in 1..n
  BY <1>0, LenProperties DEF Spells, Line
<1>1. n \in Nat /\ n # 0 /\ i \in 1..n
  BY <1>s
<1>2. m \in Seq(Tasks) /\ Len(m) = n - 1
  BY <1>0, <1>s, WithoutIs
<1>3. Removal(l, n, i, m)
  <2>1. \A j \in 1..(n - 1) : m[j] = IF j < i THEN l[j] ELSE l[j + 1]
    BY <1>0, <1>s, WithoutIs, Zenon
  <2>2. \A j \in 1..n : l[j] \in Tasks
    BY <1>0, <1>s, LenProperties
  <2>3. \A j, k \in 1..n : l[j] = l[k] => j = k
    BY <1>0 DEF Spells, Line
  <2> QED BY <2>1, <2>2, <2>3 DEF Removal
<1>h. q.rq.head = l[1] /\ q.rq.tail = l[n] /\ q.rq.count = n
  BY <1>0 DEF Spells, Ends, EndsAt
<1>l. Chain(q.tbl.next, l, n)
  BY <1>0 DEF Spells, Links
<1>n. /\ q.tbl.next \in [Tasks -> Tasks \cup {None}]
      /\ q.tbl.state \in [Tasks -> States]
  BY DEF TblType
<1>d. /\ i = 1 => TakesHead(q, e, l, i)
      /\ i # 1 => TakesOther(q, e, l, i)
      /\ TakesEither(q, e, l, i)
  BY <1>0, DequeueFields, Zenon
<1>4. i = 1 => /\ e.rq.head = q.tbl.next[l[i]] /\ e.tbl.next = q.tbl.next
               /\ e.rq.tail = IF q.tbl.next[l[i]] = None THEN None ELSE l[n]
  BY <1>d, <1>h, Zenon DEF TakesHead
<1>5. i # 1 => /\ e.rq.head = l[1]
               /\ e.tbl.next = [q.tbl.next EXCEPT ![l[i - 1]] = q.tbl.next[l[i]]]
               /\ e.rq.tail = IF i = n THEN l[i - 1] ELSE l[n]
  BY <1>0, <1>d, <1>h, Zenon DEF TakesOther
<1>7. /\ e.rq = [head |-> e.rq.head, tail |-> e.rq.tail, count |-> n - 1,
                 need_resched |-> q.rq.need_resched]
      /\ e.tbl = [next |-> e.tbl.next,
                  state |-> [q.tbl.state EXCEPT ![l[i]] = "RUNNING"],
                  vruntime |-> q.tbl.vruntime, prio |-> q.tbl.prio]
  BY <1>d, <1>h, Zenon DEF TakesEither
<1>c. e.rq.count = n - 1
  BY <1>7
<1>6. /\ e.tbl.state = [q.tbl.state EXCEPT ![l[i]] = "RUNNING"]
      /\ e.tbl.vruntime = q.tbl.vruntime /\ e.tbl.prio = q.tbl.prio
      /\ e.rq.need_resched = q.rq.need_resched
  BY <1>7
<1>8. /\ \A j \in 1..(n - 1) : m[j] \in Tasks
      /\ n - 1 \in Nat
      /\ l[i] \in Tasks /\ (i # 1 => l[i - 1] \in Tasks)
  BY <1>1, <1>3 DEF Removal
<1>9. Line(m)
  <2>1. \A j, k \in 1..(n - 1) : m[j] = m[k] => j = k
    BY <1>1, <1>3, RemovalInjective
  <2> QED BY <1>2, <2>1 DEF Line
<1>10. EndsAt(m, n - 1, e.rq.head, e.rq.tail)
  <2>1. i = 1 => /\ e.rq.head = q.tbl.next[l[i]]
                 /\ e.rq.tail = IF q.tbl.next[l[i]] = None THEN None ELSE l[n]
    BY <1>4, Zenon
  <2>2. i # 1 => e.rq.head = l[1] /\ e.rq.tail = IF i = n THEN l[i - 1] ELSE l[n]
    BY <1>5, Zenon
  <2> QED BY <1>1, <1>3, <1>l, <2>1, <2>2, RemovalEnds, Zenon
<1>11. Ends(e, m)
  BY <1>2, <1>c, <1>10, Zenon DEF Ends
<1>12. Chain(e.tbl.next, m, n - 1)
  <2>1. i = 1 => e.tbl.next = q.tbl.next
    BY <1>4, Zenon
  <2>2. i # 1 => e.tbl.next = [q.tbl.next EXCEPT ![l[i - 1]] = q.tbl.next[l[i]]]
    BY <1>5, Zenon
  <2> QED BY <1>1, <1>3, <1>l, <1>n, <2>1, <2>2, RemovalLinks, Zenon
<1>13. Links(e, m)
  BY <1>2, <1>12, Zenon DEF Links
<1>14. ASSUME NEW t \in Tasks
       PROVE  e.tbl.state[t] = "READY" <=> Holds(m, n - 1, t)
  <2>1. q.tbl.state[t] = "READY" <=> Holds(l, n, t)
    BY <1>0 DEF Spells, Readies
  <2>2. e.tbl.state[t] = "READY" <=> t # l[i] /\ q.tbl.state[t] = "READY"
    BY <1>6, <1>8, <1>n
  <2>3. Holds(m, n - 1, t) <=> t # l[i] /\ Holds(l, n, t)
    BY <1>1, <1>3, RemovalKeeps
  <2> QED BY <2>1, <2>2, <2>3, Zenon
<1>15. Readies(e, m)
  BY <1>2, <1>14, Zenon DEF Readies
<1>16. e.rq \in RqType
  <2>1. e.rq.head \in Tasks \cup {None} /\ e.rq.tail \in Tasks \cup {None}
    <3>1. n - 1 # 0 => 1 \in 1..(n - 1) /\ n - 1 \in 1..(n - 1)
      BY <1>1
    <3> QED BY <1>8, <1>10, <3>1 DEF EndsAt
  <2>2. e.rq.need_resched \in {0, 1} /\ e.rq.count \in Nat
    BY <1>8, <1>c, <1>6 DEF RqType
  <2> QED BY <1>7, <2>1, <2>2 DEF RqType
<1>17. e.tbl \in TblType
  <2>1. /\ q.tbl.vruntime \in [Tasks -> 0..MaxVruntime]
        /\ q.tbl.prio \in [Tasks -> 0..MaxPrio]
    BY DEF TblType
  <2>2. e.tbl.next \in [Tasks -> Tasks \cup {None}]
    BY <1>4, <1>5, <1>8, <1>n
  <2>3. e.tbl.state \in [Tasks -> States]
    BY <1>6, <1>8, <1>n DEF States
  <2> QED BY <1>6, <1>7, <2>1, <2>2, <2>3, Zenon DEF TblType
<1> QED BY <1>9, <1>11, <1>13, <1>15, <1>16, <1>17 DEF Spells

-----------------------------------------------------------------------------
(* The CPU's steps. *)

LEMMA SameSpells ==
  ASSUME NEW q, NEW e, NEW l, Spells(q, l),
         e.rq.head = q.rq.head, e.rq.tail = q.rq.tail, e.rq.count = q.rq.count,
         e.tbl.next = q.tbl.next,
         \A t \in Tasks : e.tbl.state[t] = "READY" <=> q.tbl.state[t] = "READY"
  PROVE  Spells(e, l)
<1>1. Ends(e, l) /\ Links(e, l)
  BY Zenon DEF Spells, Ends, Links
<1>2. Readies(e, l)
  BY Zenon DEF Spells, Readies
<1> QED BY <1>1, <1>2, Zenon DEF Spells

\* sched_tick changes one vruntime and the request to reschedule.
LEMMA TickFields ==
  ASSUME NEW q, q.rq \in RqType, q.tbl \in TblType, NEW t \in Tasks, NEW delta \in Deltas,
         q.tbl.vruntime[t] + Charge(q, t, delta) <= MaxVruntime
  PROVE  /\ Tick(q, t, delta).rq \in RqType /\ Tick(q, t, delta).tbl \in TblType
         /\ Tick(q, t, delta).rq.head = q.rq.head
         /\ Tick(q, t, delta).rq.tail = q.rq.tail
         /\ Tick(q, t, delta).rq.count = q.rq.count
         /\ Tick(q, t, delta).tbl.next = q.tbl.next
         /\ Tick(q, t, delta).tbl.state = q.tbl.state
         /\ \A u \in Tasks : u # t =>
              Tick(q, t, delta).tbl.vruntime[u] = q.tbl.vruntime[u]
<1> DEFINE v == q.tbl.vruntime[t] + Charge(q, t, delta)
<1>1. v \in 0..MaxVruntime
  <2>1. q.tbl.prio[t] \in Nat /\ Scale \in Nat /\ Scale # 0 /\ delta \in Nat
        /\ q.tbl.vruntime[t] \in Nat /\ MaxVruntime \in Nat
    BY SchedulerAssumptions DEF TblType
  <2>2. Scale \div (q.tbl.prio[t] + 1) \in Nat
    BY <2>1
  <2>3. delta * (Scale \div (q.tbl.prio[t] + 1)) \in Nat
    BY <2>1, <2>2
  <2>4. Charge(q, t, delta) \in Nat
    BY <2>1, <2>3 DEF Charge
  <2> QED BY <2>1, <2>4
<1>2. PICK r \in {0, 1} : Tick(q, t, delta).rq = [q.rq EXCEPT !.need_resched = r]
  <2>1. q.rq.need_resched \in {0, 1}
    BY DEF RqType
  <2> DEFINE w == {q.tbl.vruntime[u] : u \in Range(List(q))}
             r == IF w # {} /\ v - Min(w) > Threshold THEN 1 ELSE q.rq.need_resched
  <2>2. Tick(q, t, delta).rq = [q.rq EXCEPT !.need_resched = r]
    BY Zenon DEF Tick
  <2>3. r \in {0, 1}
    BY <2>1, Zenon
  <2> QED BY <2>2, <2>3, Zenon
<1>3. Tick(q, t, delta).tbl = [q.tbl EXCEPT !.vruntime[t] = v]
  BY Zenon DEF Tick
<1> HIDE DEF v
<1>4. /\ Tick(q, t, delta).rq \in RqType
      /\ Tick(q, t, delta).rq.head = q.rq.head
      /\ Tick(q, t, delta).rq.tail = q.rq.tail
      /\ Tick(q, t, delta).rq.count = q.rq.count
  BY <1>2 DEF RqType
<1>5. /\ Tick(q, t, delta).tbl \in TblType
      /\ Tick(q, t, delta).tbl.next = q.tbl.next
      /\ Tick(q, t, delta).tbl.state = q.tbl.state
      /\ \A u \in Tasks : u # t =>
           Tick(q, t, delta).tbl.vruntime[u] = q.tbl.vruntime[u]
  BY <1>1, <1>3 DEF TblType
<1> QED BY <1>4, <1>5

LEMMA StateTypes ==
  ASSUME SchedInv
  PROVE  /\ State.rq \in RqType /\ State.tbl \in TblType
         /\ State.rq = rq /\ State.tbl = tbl
         /\ current \in Tasks \cup {None} /\ None \notin Tasks
         /\ Spells(State, List(State))
         /\ current # None => tbl.state[current] = "RUNNING"
<1>1. State.rq = rq /\ State.tbl = tbl
  BY DEF State
<1>2. rq \in RqType /\ tbl \in TblType
  <2>1. 0..Cardinality(Tasks) \subseteq Nat
    BY SchedulerAssumptions, FS_CardinalityType
  <2> QED BY <2>1 DEF SchedInv, TypeOK, RqType, TblType
<1> QED BY <1>1, <1>2, SchedulerAssumptions DEF SchedInv, TypeOK

\* A step to the queue q.
LEMMA StepTo ==
  ASSUME NEW q, q.rq \in RqType, q.tbl \in TblType, NEW l, Spells(q, l), Set(q),
         current' \in Tasks \cup {None},
         current' # None => q.tbl.state[current'] = "RUNNING"
  PROVE  SchedInv' /\ List(State)' = l
<1>1. rq' = q.rq /\ tbl' = q.tbl
  BY DEF Set
<1>2. State'.rq = q.rq /\ State'.tbl = q.tbl
  BY <1>1 DEF State
<1>3. Spells(State', l)
  <2>1. /\ State'.rq.head = q.rq.head /\ State'.rq.tail = q.rq.tail
        /\ State'.rq.count = q.rq.count /\ State'.tbl.next = q.tbl.next
        /\ \A t \in Tasks : State'.tbl.state[t] = "READY" <=> q.tbl.state[t] = "READY"
    BY <1>2
  <2> QED BY <2>1, SameSpells
<1>4. List(State') = l
  BY <1>3, ListIs, Zenon
<1>5. TypeOK'
  <2>1. rq'.count \in 0..Cardinality(Tasks)
    <3>1. q.rq.count = Len(l) /\ l \in Seq(Tasks)
          /\ \A i, j \in 1..Len(l) : l[i] = l[j] => i = j
      BY DEF Spells, Ends, Line
    <3>2. Len(l) \in Nat /\ Cardinality(Tasks) \in Nat /\ Len(l) <= Cardinality(Tasks)
      BY <3>1, LenBound
    <3> QED BY <1>1, <3>1, <3>2
  <2> QED BY <1>1, <2>1 DEF TypeOK, RqType, TblType
<1>6. current' # None => tbl'.state[current'] = "RUNNING"
  BY <1>1
<1> QED BY <1>3, <1>4, <1>5, <1>6 DEF SchedInv

\* The task next on the CPU is not above the first of the line it is taken from.
LEMMA DequeueStep ==
  ASSUME NEW q, q.rq \in RqType, q.tbl \in TblType, NEW l, Spells(q, l), Len(l) # 0,
         NEW e, e.rq \in RqType, e.tbl \in TblType,
         e.rq.head = Dequeue(q).rq.head, e.rq.tail = Dequeue(q).rq.tail,
         e.rq.count = Dequeue(q).rq.count, e.tbl = Dequeue(q).tbl,
         Set(e), current' = Picked(q)
  PROVE  /\ SchedInv'
         /\ \E i \in 1..Len(l) :
              /\ current' = l[i]
              /\ List(State)' = Without(l, i)
              /\ i # 1 => q.tbl.vruntime[current'] < q.tbl.vruntime[l[1]]
<1>1. PICK i \in 1..Len(l) : /\ PickedAt(q) = i /\ Picked(q) = l[i]
                             /\ i # 1 => q.tbl.vruntime[Picked(q)] < q.tbl.vruntime[l[1]]
  BY PickedIs
<1>2. Spells(Dequeue(q), Without(l, i))
  BY <1>1, DequeueSpells, Zenon
<1>3. Spells(e, Without(l, i))
  <2>1. /\ e.tbl.next = Dequeue(q).tbl.next
        /\ \A t \in Tasks : e.tbl.state[t] = "READY" <=> Dequeue(q).tbl.state[t] = "READY"
    BY Zenon
  <2> QED BY <1>2, <2>1, SameSpells
<1>4. current' \in Tasks /\ l[i] \in Tasks
  <2>1. l \in Seq(Tasks)
    BY DEF Spells, Line
  <2> QED BY <1>1, <2>1, LenProperties
<1>5. e.tbl.state[current'] = "RUNNING"
  <2>1. TakesEither(q, Dequeue(q), l, i)
    BY <1>1, DequeueFields, Zenon
  <2>2. e.tbl.state = [q.tbl.state EXCEPT ![l[i]] = "RUNNING"]
    BY <2>1 DEF TakesEither
  <2>3. q.tbl.state \in [Tasks -> States]
    BY DEF TblType
  <2> QED BY <1>1, <1>4, <2>2, <2>3
<1>6. SchedInv' /\ List(State)' = Without(l, i)
  BY <1>3, <1>4, <1>5, StepTo
<1> QED BY <1>1, <1>6

LEMMA DequeueTypes ==
  ASSUME NEW q, q.rq \in RqType, q.tbl \in TblType, NEW l, Spells(q, l), Len(l) # 0
  PROVE  Dequeue(q).rq \in RqType /\ Dequeue(q).tbl \in TblType
<1>1. PICK i \in 1..Len(l) : PickedAt(q) = i
  BY PickedIs
<1> QED BY <1>1, DequeueSpells, Zenon

-----------------------------------------------------------------------------
(* Every step keeps the invariant, is a step of the abstract line, and picks *)
(* no task above the head.                                                   *)

NotAboveHead ==
  current' # None /\ current' # current =>
    \A h \in {t \in Tasks : t = rq.head} : tbl.vruntime[current'] <= tbl.vruntime[h]

AbsStep == Abs!Next \/ UNCHANGED <<List(State), current>>

Good == SchedInv' /\ AbsStep /\ NotAboveHead

LEMMA WakeStep ==
  ASSUME SchedInv, NEW t \in Tasks, Wake(t)
  PROVE  Good
<1>0. SUFFICES ASSUME NEW l, l = List(State) PROVE Good
  BY Zenon
<1>1. /\ State.rq \in RqType /\ State.tbl \in TblType /\ Spells(State, l)
      /\ current \in Tasks \cup {None} /\ State.tbl.state = tbl.state
      /\ current # None => tbl.state[current] = "RUNNING"
  BY <1>0, StateTypes
<1>2. State.tbl.state[t] # "READY" /\ Set(Enqueue(State, t)) /\ current' = current
      /\ t # current /\ State.tbl.state[t] = "OFF"
  BY <1>1, SchedulerAssumptions DEF Wake
<1>3. Spells(Enqueue(State, t), Append(l, t))
  BY <1>1, <1>2, EnqueueSpells, Zenon
<1>4. Enqueue(State, t).rq \in RqType /\ Enqueue(State, t).tbl \in TblType
      /\ Enqueue(State, t).tbl.state = [tbl.state EXCEPT ![t] = "READY"]
  <2>1. Enqueue(State, t).tbl.state = [State.tbl.state EXCEPT ![t] = "READY"]
    BY <1>1, EnqueueFields, Zenon
  <2> QED BY <1>1, <2>1, EnqueueFields, Zenon
<1>5. current' # None => Enqueue(State, t).tbl.state[current'] = "RUNNING"
  <2>1. tbl.state \in [Tasks -> States]
    BY <1>1 DEF TblType
  <2> QED BY <1>1, <1>2, <1>4, <2>1
<1>6. SchedInv' /\ List(State)' = Append(l, t)
  BY <1>1, <1>2, <1>3, <1>4, <1>5, StepTo, Zenon
<1>7. Abs!Join(t)
  <2>1. t \notin {l[i] : i \in 1..Len(l)}
    BY <1>1, <1>2 DEF Spells, Readies, Holds
  <2> QED BY <1>0, <1>2, <1>6, <2>1, SMTT(30) DEF Abs!Join
<1>8. AbsStep
  BY <1>7 DEF AbsStep, Abs!Next
<1>9. NotAboveHead
  BY <1>2 DEF NotAboveHead
<1> QED BY <1>6, <1>8, <1>9 DEF Good

LEMMA ScheduleStep ==
  ASSUME SchedInv, Schedule
  PROVE  Good
<1>0. SUFFICES ASSUME NEW l, l = List(State) PROVE Good
  BY Zenon
<1>1. State.rq \in RqType /\ State.tbl \in TblType /\ Spells(State, l)
      /\ State.rq = rq /\ State.tbl = tbl
  BY <1>0, StateTypes
<1>2. current = None /\ rq.head # None /\ Set(Dequeue(State)) /\ current' = Picked(State)
  BY DEF Schedule
<1>3. Len(l) # 0 /\ rq.head = l[1]
  BY <1>1, <1>2 DEF Spells, Ends, EndsAt
<1>4. Dequeue(State).rq \in RqType /\ Dequeue(State).tbl \in TblType
  BY <1>1, <1>3, DequeueTypes
<1>5. SchedInv' /\ \E i \in 1..Len(l) :
                      /\ current' = l[i]
                      /\ List(State)' = Without(l, i)
                      /\ i # 1 => tbl.vruntime[current'] < tbl.vruntime[l[1]]
  BY <1>1, <1>2, <1>3, <1>4, DequeueStep, Zenon
<1>6. Abs!Dispatch
  BY <1>0, <1>2, <1>5, Zenon DEF Abs!Dispatch, Abs!TakeFrom, Without
<1>7. AbsStep
  BY <1>6 DEF AbsStep, Abs!Next
<1>8. NotAboveHead
  <2>1. \A i \in 1..Len(l) : l[i] \in Tasks
    BY <1>1, LenProperties DEF Spells, Line
  <2>2. Len(l) \in Nat
    BY <1>1, LenProperties DEF Spells, Line
  <2>3. l[1] \in Tasks /\ current' \in Tasks
    BY <1>3, <1>5, <2>1, <2>2
  <2>4. tbl.vruntime[l[1]] \in Nat /\ tbl.vruntime[current'] \in Nat
    BY <1>1, <2>3, SchedulerAssumptions DEF TblType
  <2>5. tbl.vruntime[current'] <= tbl.vruntime[l[1]]
    BY <1>5, <2>4
  <2> QED BY <1>3, <2>5 DEF NotAboveHead
<1> QED BY <1>5, <1>7, <1>8 DEF Good

\* The running task goes to the end of the line of q, where the others'
\* vruntimes are what they are now, and the CPU takes one.
LEMMA RotateStep ==
  ASSUME SchedInv, current # None,
         NEW q, q.rq \in RqType, q.tbl \in TblType, Spells(q, List(State)),
         q.rq.head = rq.head, q.tbl.state = tbl.state,
         \A u \in Tasks : u # current => q.tbl.vruntime[u] = tbl.vruntime[u],
         NEW e, e.rq \in RqType, e.tbl \in TblType,
         e.rq.head = Dequeue(Enqueue(q, current)).rq.head,
         e.rq.tail = Dequeue(Enqueue(q, current)).rq.tail,
         e.rq.count = Dequeue(Enqueue(q, current)).rq.count,
         e.tbl = Dequeue(Enqueue(q, current)).tbl,
         Set(e), current' = Picked(Enqueue(q, current))
  PROVE  Good
<1>0. SUFFICES ASSUME NEW l, l = List(State), NEW y, y = Enqueue(q, current),
                      NEW m, m = Append(l, current)
               PROVE  Good
  BY Zenon
<1>1. current \in Tasks /\ tbl.state[current] = "RUNNING" /\ Spells(State, l)
  BY <1>0, StateTypes
<1>l. l \in Seq(Tasks) /\ Len(l) \in Nat /\ \A i \in 1..Len(l) : l[i] \in Tasks
  BY <1>1, LenProperties DEF Spells, Line
<1>2. Spells(y, m)
  <2>1. q.tbl.state[current] # "READY" /\ Spells(q, l)
    BY <1>0, <1>1
  <2> QED BY <1>0, <1>1, <2>1, EnqueueSpells, Zenon
<1>3. y.rq \in RqType /\ y.tbl \in TblType /\ y.tbl.vruntime = q.tbl.vruntime
  BY <1>0, <1>1, EnqueueFields, Zenon
<1>4. /\ Len(m) = Len(l) + 1 /\ Len(m) # 0
      /\ \A i \in 1..Len(l) : m[i] = l[i]
      /\ m[Len(l) + 1] = current
  BY <1>0, <1>1, <1>l, AppendProperties
<1>5. SchedInv' /\ \E i \in 1..Len(m) :
                      /\ current' = m[i]
                      /\ List(State)' = Without(m, i)
                      /\ i # 1 => y.tbl.vruntime[current'] < y.tbl.vruntime[m[1]]
  <2>1. /\ e.rq.head = Dequeue(y).rq.head /\ e.rq.tail = Dequeue(y).rq.tail
        /\ e.rq.count = Dequeue(y).rq.count /\ e.tbl = Dequeue(y).tbl
        /\ current' = Picked(y)
    BY <1>0, Zenon
  <2> QED BY <1>2, <1>3, <1>4, <2>1, DequeueStep, Zenon
<1>6. Abs!Rotate
  BY <1>0, <1>5, Zenon DEF Abs!Rotate, Abs!TakeFrom, Without
<1>7. AbsStep
  BY <1>6 DEF AbsStep, Abs!Next
<1>8. ASSUME current' # current, NEW h \in Tasks, h = rq.head
      PROVE  tbl.vruntime[current'] <= tbl.vruntime[h]
  <2>1. PICK i \in 1..Len(m) : /\ current' = m[i]
                               /\ i # 1 => y.tbl.vruntime[current'] < y.tbl.vruntime[m[1]]
    BY <1>5
  <2>2. i # Len(l) + 1
    BY <1>4, <1>8, <2>1, SMTT(30)
  <2>3. i \in 1..Len(l) /\ 1 \in 1..Len(l) /\ Len(l) # 0
    BY <1>l, <1>4, <2>2
  <2>4. current' = l[i] /\ m[1] = l[1] /\ l[1] \in Tasks /\ l[i] \in Tasks
    BY <1>l, <1>4, <2>1, <2>3, SMTT(30)
  <2>5. h = l[1]
    <3>1. State.rq = rq
      BY DEF State
    <3> QED BY <1>1, <1>8, <2>3, <3>1, SMTT(30) DEF Spells, Ends, EndsAt
  <2>6. l[1] # current
    <3>1. State.tbl = tbl
      BY DEF State
    <3>2. Holds(l, Len(l), l[1])
      BY <2>3, SMTT(30) DEF Holds
    <3>3. tbl.state[l[1]] = "READY"
      BY <1>1, <2>4, <3>1, <3>2, SMTT(30) DEF Spells, Readies
    <3> QED BY <1>1, <3>3
  <2>7. /\ q.tbl.vruntime[l[i]] = tbl.vruntime[l[i]]
        /\ q.tbl.vruntime[l[1]] = tbl.vruntime[l[1]]
    BY <1>8, <2>4, <2>6, SMTT(30)
  <2>8. q.tbl.vruntime[l[i]] \in Nat /\ q.tbl.vruntime[l[1]] \in Nat
    BY <2>4, SchedulerAssumptions, SMTT(30) DEF TblType
  <2>9. i # 1 => tbl.vruntime[l[i]] < tbl.vruntime[l[1]]
    BY <1>3, <2>1, <2>4, <2>7, SMTT(30)
  <2> QED BY <2>4, <2>5, <2>7, <2>8, <2>9, SMTT(30)
<1>9. NotAboveHead
  BY <1>8 DEF NotAboveHead
<1> QED BY <1>5, <1>7, <1>9 DEF Good

LEMMA RotateTypes ==
  ASSUME NEW q, q.rq \in RqType, q.tbl \in TblType, NEW l, Spells(q, l),
         NEW t \in Tasks, q.tbl.state[t] # "READY"
  PROVE  /\ Dequeue(Enqueue(q, t)).rq \in RqType
         /\ Dequeue(Enqueue(q, t)).tbl \in TblType
<1>1. Spells(Enqueue(q, t), Append(l, t))
  BY EnqueueSpells, Zenon
<1>2. Enqueue(q, t).rq \in RqType /\ Enqueue(q, t).tbl \in TblType
  BY EnqueueFields, Zenon
<1>3. Len(Append(l, t)) # 0
  <2>1. l \in Seq(Tasks)
    BY DEF Spells, Line
  <2> QED BY <2>1, AppendProperties, LenProperties
<1> QED BY <1>1, <1>2, <1>3, DequeueTypes, Zenon

LEMMA YieldStep ==
  ASSUME SchedInv, Yield
  PROVE  Good
<1>1. /\ State.rq \in RqType /\ State.tbl \in TblType /\ Spells(State, List(State))
      /\ State.rq = rq /\ State.tbl = tbl /\ current \in Tasks \cup {None}
      /\ current # None => tbl.state[current] = "RUNNING"
  BY StateTypes
<1>2. current # None /\ Set(Dequeue(Enqueue(State, current)))
      /\ current' = Picked(Enqueue(State, current)) /\ current \in Tasks
  BY <1>1 DEF Yield
<1>3. Dequeue(Enqueue(State, current)).rq \in RqType
      /\ Dequeue(Enqueue(State, current)).tbl \in TblType
  <2>1. State.tbl.state[current] # "READY"
    BY <1>1, <1>2
  <2> QED BY <1>1, <1>2, <2>1, RotateTypes, Zenon
<1> QED BY <1>1, <1>2, <1>3, RotateStep, Zenon

\* A step that leaves the line and the running task as they are.
LEMMA QuietStep ==
  ASSUME SchedInv, NEW q, q.rq \in RqType, q.tbl \in TblType,
         q.rq.head = rq.head, q.rq.tail = rq.tail, q.rq.count = rq.count,
         q.tbl.next = tbl.next, q.tbl.state = tbl.state,
         Set(q), current' = current
  PROVE  Good
<1>1. /\ Spells(State, List(State)) /\ State.rq = rq /\ State.tbl = tbl
      /\ current \in Tasks \cup {None} /\ (current # None => tbl.state[current] = "RUNNING")
  BY StateTypes
<1>2. Spells(q, List(State))
  BY <1>1, SameSpells
<1>3. SchedInv' /\ List(State)' = List(State)
  <2>1. current' \in Tasks \cup {None}
        /\ (current' # None => q.tbl.state[current'] = "RUNNING")
    BY <1>1
  <2> QED BY <1>2, <2>1, StepTo, Zenon
<1> QED BY <1>3 DEF Good, AbsStep, NotAboveHead

LEMMA TimerIrqStep ==
  ASSUME SchedInv, NEW delta \in Deltas, NEW preemptable \in BOOLEAN,
         TimerIrq(delta, preemptable)
  PROVE  Good
<1>1. /\ State.rq \in RqType /\ State.tbl \in TblType /\ Spells(State, List(State))
      /\ State.rq = rq /\ State.tbl = tbl /\ current \in Tasks \cup {None}
      /\ current # None => tbl.state[current] = "RUNNING"
  BY StateTypes
<1>2. /\ current # None /\ current \in Tasks
      /\ State.tbl.vruntime[current] + Charge(State, current, delta) <= MaxVruntime
  BY <1>1 DEF TimerIrq
<1>3. PICK q : q = Tick(State, current, delta)
  BY Zenon
<1>4. /\ q.rq \in RqType /\ q.tbl \in TblType
      /\ q.rq.head = rq.head /\ q.rq.tail = rq.tail /\ q.rq.count = rq.count
      /\ q.tbl.next = tbl.next /\ q.tbl.state = tbl.state
      /\ \A u \in Tasks : u # current => q.tbl.vruntime[u] = tbl.vruntime[u]
  BY <1>1, <1>2, <1>3, TickFields, Zenon
<1>5. CASE q.rq.need_resched = 1 /\ preemptable
  <2>1. PICK d : d = Dequeue(Enqueue(q, current))
    BY Zenon
  <2>2. Spells(q, List(State))
    BY <1>1, <1>4, SameSpells
  <2>3. d.rq \in RqType /\ d.tbl \in TblType
    <3>1. q.tbl.state[current] # "READY"
      BY <1>1, <1>2, <1>4
    <3> QED BY <1>2, <1>4, <2>1, <2>2, <3>1, RotateTypes, Zenon
  <2>4. PICK e : e = Cleared(d)
    BY Zenon
  <2>5. Set(e) /\ current' = Picked(Enqueue(q, current))
    BY <1>3, <1>5, <2>1, <2>4, SMTT(30) DEF TimerIrq
  <2>6. e.rq = [d.rq EXCEPT !.need_resched = 0] /\ e.tbl = d.tbl
    BY <2>1, <2>4 DEF Cleared, Dequeue
  <2>7. /\ e.rq \in RqType /\ e.tbl \in TblType
        /\ e.rq.head = d.rq.head /\ e.rq.tail = d.rq.tail /\ e.rq.count = d.rq.count
    BY <2>3, <2>6 DEF RqType
  <2> QED BY <1>2, <1>4, <2>1, <2>2, <2>5, <2>6, <2>7, RotateStep, Zenon
<1>6. CASE ~(q.rq.need_resched = 1 /\ preemptable)
  <2>1. PICK e : e = Cleared(q)
    BY Zenon
  <2>2. Set(e) /\ current' = current
    BY <1>3, <1>6, <2>1 DEF TimerIrq
  <2>3. e.rq = [q.rq EXCEPT !.need_resched = 0] /\ e.tbl = q.tbl
    BY <1>3, <2>1 DEF Cleared, Tick
  <2>4. /\ e.rq \in RqType /\ e.tbl \in TblType
        /\ e.rq.head = rq.head /\ e.rq.tail = rq.tail /\ e.rq.count = rq.count
        /\ e.tbl.next = tbl.next /\ e.tbl.state = tbl.state
    BY <1>4, <2>3 DEF RqType
  <2> QED BY <2>2, <2>4, QuietStep, Zenon
<1> QED BY <1>5, <1>6, Zenon

LEMMA NiceStep ==
  ASSUME SchedInv, NEW t \in Tasks, NEW inc \in Incs, Nice(t, inc)
  PROVE  Good
<1>1. State.rq \in RqType /\ State.tbl \in TblType /\ State.rq = rq /\ State.tbl = tbl
  BY StateTypes
<1>2. PICK p : /\ p = LET np == tbl.prio[t] + inc IN
                        IF np < 0 THEN 0 ELSE IF np > MaxPrio THEN MaxPrio ELSE np
               /\ tbl' = [tbl EXCEPT !.prio[t] = p]
  BY SMTT(30) DEF Nice
<1>3. p \in 0..MaxPrio
  <2>1. tbl.prio[t] \in Int /\ inc \in Int /\ MaxPrio \in Nat
    BY <1>1, SchedulerAssumptions DEF TblType
  <2> QED BY <1>2, <2>1
<1>4. PICK q : q = [rq |-> rq, tbl |-> tbl']
  BY Zenon
<1>5. rq' = rq /\ current' = current
  BY DEF Nice
<1>6. /\ q.rq = rq /\ q.tbl = tbl' /\ Set(q)
  BY <1>4, <1>5 DEF Set
<1>7. /\ q.tbl \in TblType /\ q.tbl.next = tbl.next /\ q.tbl.state = tbl.state
  BY <1>1, <1>2, <1>3, <1>6 DEF TblType
<1> QED BY <1>1, <1>5, <1>6, <1>7, QuietStep, Zenon

LEMMA StopStep ==
  ASSUME SchedInv, Stop
  PROVE  Good
<1>1. /\ State.rq \in RqType /\ State.tbl \in TblType /\ State.rq = rq /\ State.tbl = tbl
      /\ Spells(State, List(State)) /\ current \in Tasks \cup {None} /\ None \notin Tasks
      /\ current # None => tbl.state[current] = "RUNNING"
  BY StateTypes
<1>2. /\ current # None /\ current \in Tasks /\ current' = None
      /\ tbl' = [tbl EXCEPT !.state[current] = "OFF"] /\ rq' = rq
  BY <1>1 DEF Stop
<1>3. PICK q : q = [rq |-> rq, tbl |-> tbl']
  BY Zenon
<1>4. q.rq = rq /\ q.tbl = tbl' /\ Set(q)
  BY <1>2, <1>3 DEF Set
<1>5. /\ q.tbl \in TblType /\ q.tbl.next = tbl.next
      /\ \A t \in Tasks : q.tbl.state[t] = "READY" <=> tbl.state[t] = "READY"
  BY <1>1, <1>2, <1>4 DEF TblType, States
<1>6. Spells(q, List(State))
  BY <1>1, <1>4, <1>5, SameSpells
<1>7. SchedInv' /\ List(State)' = List(State)
  <2>1. current' \in Tasks \cup {None}
        /\ (current' # None => q.tbl.state[current'] = "RUNNING")
    BY <1>2
  <2> QED BY <1>1, <1>4, <1>5, <1>6, <2>1, StepTo, Zenon
<1>8. Abs!Leave
  BY <1>2, <1>7 DEF Abs!Leave
<1> QED BY <1>2, <1>7, <1>8 DEF Good, AbsStep, NotAboveHead, Abs!Next

LEMMA StutterStep ==
  ASSUME SchedInv, UNCHANGED vars
  PROVE  Good
<1>1. State.rq \in RqType /\ State.tbl \in TblType /\ State.rq = rq /\ State.tbl = tbl
  BY StateTypes
<1>2. Set(State) /\ current' = current
  BY <1>1 DEF vars, Set
<1> QED BY <1>1, <1>2, QuietStep, Zenon

LEMMA InitIs ==
  ASSUME Init
  PROVE  SchedInv /\ List(State) = <<>>
<1>1. State.rq = rq /\ State.tbl = tbl
  BY DEF State
<1>2. Len(<<>>) = 0 /\ <<>> \in Seq(Tasks)
  BY EmptySeq
<1>3. Spells(State, <<>>)
  BY <1>1, <1>2 DEF Init, Spells, Line, Ends, EndsAt, Links, Chain, Readies, Holds
<1>4. List(State) = <<>>
  BY <1>3, ListIs
<1>5. TypeOK
  <2>1. Cardinality(Tasks) \in Nat /\ MaxPrio \in Nat /\ MaxVruntime \in Nat
    BY SchedulerAssumptions, FS_CardinalityType
  <2> QED BY <2>1 DEF Init, TypeOK, States
<1> QED BY <1>3, <1>4, <1>5 DEF SchedInv, Init

LEMMA NextGood == SchedInv /\ [Next]_vars => Good
<1> SUFFICES ASSUME SchedInv, [Next]_vars PROVE Good
  OBVIOUS
<1>1. CASE UNCHANGED vars
  BY <1>1, StutterStep
<1>2. CASE Next
  BY <1>2, WakeStep, ScheduleStep, YieldStep, StopStep, TimerIrqStep, NiceStep DEF Next
<1> QED BY <1>1, <1>2

-----------------------------------------------------------------------------
\* The inductive invariant of the run queue: the links from rq.head spell a
\* line of tasks without repetition, with its ends at head and tail and its
\* length in count, that are exactly the READY tasks; the task on the CPU is
\* RUNNING.
THEOREM QueueInvariant == Spec => []SchedInv
<1>1. Init => SchedInv
  BY InitIs
<1>2. SchedInv /\ [Next]_vars => SchedInv'
  BY NextGood DEF Good
<1> QED BY <1>1, <1>2, PTL DEF Spec

\* The fields keep their types; count never passes the number of tasks.
THEOREM SchedulerTypes == Spec => []TypeOK
<1>1. SchedInv => TypeOK
  BY DEF SchedInv
<1> QED BY <1>1, QueueInvariant, PTL

\* sched_enqueue and sched_dequeue keep the list sound in any order of
\* arrivals, switches and preemptions.
THEOREM QueueStaysWellFormed == Spec => []QueueWellFormed
<1>1. ASSUME SchedInv PROVE QueueWellFormed
  <2>0. SUFFICES ASSUME NEW l, l = List(State)
                 PROVE  /\ IsInjective(l)
                        /\ Range(l) = {t \in Tasks : tbl.state[t] = "READY"}
                        /\ rq.count = Len(l)
                        /\ rq.tail = IF l = <<>> THEN None ELSE l[Len(l)]
    BY Zenon DEF QueueWellFormed
  <2>1. Spells(State, l) /\ State.rq = rq /\ State.tbl = tbl
    BY <1>1, <2>0, StateTypes
  <2>2. l \in Seq(Tasks) /\ DOMAIN l = 1..Len(l) /\ \A i \in 1..Len(l) : l[i] \in Tasks
    BY <2>1, LenProperties DEF Spells, Line
  <2>3. IsInjective(l)
    BY <2>1, <2>2 DEF Spells, Line, IsInjective
  <2>4. Range(l) = {t \in Tasks : tbl.state[t] = "READY"}
    BY <2>1, <2>2 DEF Spells, Readies, Holds, Range
  <2>5. rq.count = Len(l) /\ rq.tail = IF l = <<>> THEN None ELSE l[Len(l)]
    BY <2>1, <2>2, EmptySeq DEF Spells, Ends, EndsAt
  <2> QED BY <2>3, <2>4, <2>5
<1> QED BY <1>1, QueueInvariant, PTL

\* The task sched_dequeue switches to has no more virtual runtime than the
\* longest waiting one.
THEOREM PickedNotAboveHead == Spec => PickNotAboveHead
<1>1. SchedInv /\ [Next]_vars => [NotAboveHead]_vars
  BY NextGood DEF Good
<1>2. PickNotAboveHead <=> [][NotAboveHead]_vars
  BY PTL DEF PickNotAboveHead, NotAboveHead
<1> QED BY <1>1, <1>2, QueueInvariant, PTL DEF Spec

\* The linked list in the process table implements the abstract line: tasks
\* join at its end, and the CPU takes one out of it.
THEOREM RunqueueRefinement == Spec => ImplementsRunqueue
<1>1. Init => Abs!Init
  BY InitIs DEF Init, Abs!Init
<1>2. SchedInv /\ [Next]_vars => [Abs!Next]_(Abs!vars)
  BY NextGood DEF Good, AbsStep, Abs!vars
<1> QED BY <1>1, <1>2, QueueInvariant, PTL DEF Spec, ImplementsRunqueue, Abs!Spec
=============================================================================
