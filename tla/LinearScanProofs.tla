-------------------------- MODULE LinearScanProofs --------------------------
(***************************************************************************)
(* Proofs about the linear-scan allocator, for any set of registers, any   *)
(* interval map and whatever the weights are, and about the compiler pass  *)
(* that runs it.                                                           *)
(***************************************************************************)
EXTENDS RegallocEmit, FiniteSetTheorems, WellFoundedInduction, TLAPS

\* An interval that is still to come, or none at all, has no register.
NotYet == \A v \in Vregs : v \in todo \/ v \notin DOMAIN iv =>
                             active[v] = None /\ preg[v] = None

\* An active interval is mapped to the register it holds.
Held == \A v \in Vregs : active[v] # None => preg[v] = active[v]

\* An interval that is mapped to a register it no longer holds ended before
\* every interval that is still to come: this is what makes it safe to hand
\* the register on.
Ended == \A v \in DOMAIN iv, w \in todo :
           preg[v] \in Allocatable /\ active[v] = None => iv[v].end < iv[w].start

ScanInv ==
  /\ TypeOK /\ NotYet /\ Held /\ Ended
  /\ RegistersPartitioned /\ NoConflict /\ CalleeSavedTracked

LEMMA IntervalTypes ==
  ASSUME IsIntervalMap(iv), NEW v \in DOMAIN iv
  PROVE  v \in Vregs /\ iv[v].start \in Nat /\ iv[v].end \in Nat
BY DEF IsIntervalMap, Interval

LEMMA InitScanInv == ScanInit => ScanInv
<1> SUFFICES ASSUME ScanInit PROVE ScanInv
  OBVIOUS
<1>1. TypeOK
  BY RegistersAssumption DEF ScanInit, TypeOK, NotSpilled, Allocatable
<1>2. NotYet /\ Held
  BY DEF ScanInit, NotYet, Held
<1>3. Ended /\ NoConflict
  BY RegistersAssumption DEF ScanInit, Ended, NoConflict, IsIntervalMap
<1>4. RegistersPartitioned
  BY RegistersAssumption DEF ScanInit, RegistersPartitioned, Allocatable
<1>5. CalleeSavedTracked
  BY RegistersAssumption DEF ScanInit, CalleeSavedTracked, NotSpilled, Allocatable
<1> QED BY <1>1, <1>2, <1>3, <1>4, <1>5 DEF ScanInv

\* Expiring intervals moves registers from the active map to the pools and
\* keeps them partitioned.
LEMMA Expiry ==
  ASSUME TypeOK, RegistersPartitioned, NEW pos
  PROVE  /\ Unexpired(pos) \in [Vregs -> Allocatable \cup {None}]
         /\ CallerAt(pos) \subseteq CallerSaved
         /\ CalleeAt(pos) \subseteq CalleeSaved
         /\ \A u, x \in Vregs : Unexpired(pos)[u] # None
              /\ Unexpired(pos)[u] = Unexpired(pos)[x] => u = x
         /\ \A u \in Vregs : Unexpired(pos)[u] \notin CallerAt(pos) \cup CalleeAt(pos)
         /\ \A r \in Allocatable :
              r \in CallerAt(pos) \cup CalleeAt(pos)
                \/ \E u \in Vregs : Unexpired(pos)[u] = r
<1> DEFINE A == Unexpired(pos)
           F == CallerAt(pos) \cup CalleeAt(pos)
<1>1. A \in [Vregs -> Allocatable \cup {None}]
  BY DEF TypeOK, Unexpired
<1>2. CallerAt(pos) \subseteq CallerSaved /\ CalleeAt(pos) \subseteq CalleeSaved
  BY DEF TypeOK, CallerAt, CalleeAt
<1>3. \A u \in Vregs : A[u] = None \/ (A[u] = active[u] /\ ~Expired(u, pos))
  BY DEF Unexpired
<1>4. \A u, x \in Vregs : A[u] # None /\ A[u] = A[x] => u = x
  BY <1>3 DEF RegistersPartitioned
<1>5. \A r \in F : \/ r \in freeCaller \cup freeCallee
                   \/ \E x \in Vregs : Expired(x, pos) /\ r = active[x]
  BY DEF CallerAt, CalleeAt, Freed
<1>6. \A u \in Vregs : A[u] \notin F
  <2> SUFFICES ASSUME NEW u \in Vregs, A[u] \in F PROVE FALSE
    OBVIOUS
  <2>1. A[u] # None
    BY <1>2, RegistersAssumption DEF Allocatable
  <2>2. A[u] = active[u] /\ ~Expired(u, pos)
    BY <1>3, <2>1
  <2>3. PICK x \in Vregs : Expired(x, pos) /\ active[u] = active[x]
    BY <1>5, <2>2 DEF RegistersPartitioned
  <2>4. x = u
    BY <2>1, <2>2, <2>3 DEF RegistersPartitioned
  <2> QED BY <2>2, <2>3, <2>4
<1>7. ASSUME NEW r \in Allocatable
      PROVE  r \in F \/ \E u \in Vregs : A[u] = r
  <2>1. CASE r \in freeCaller \cup freeCallee
    BY <2>1 DEF CallerAt, CalleeAt
  <2>2. CASE \E u \in Vregs : active[u] = r
    <3>1. PICK u \in Vregs : active[u] = r
      BY <2>2
    <3>2. CASE Expired(u, pos)
      <4>1. r \in Freed(pos)
        BY <3>1, <3>2 DEF Freed
      <4> QED BY <4>1 DEF CallerAt, CalleeAt, Allocatable
    <3>3. CASE ~Expired(u, pos)
      BY <3>1, <3>3 DEF Unexpired
    <3> QED BY <3>2, <3>3
  <2> QED BY <2>1, <2>2 DEF RegistersPartitioned
<1> HIDE DEF A, F
<1>8. \A r \in Allocatable : r \in F \/ \E u \in Vregs : A[u] = r
  BY <1>7
<1> QED BY <1>1, <1>2, <1>4, <1>6, <1>8 DEF A, F

\* What is known of the interval that is handled next.
LEMMA NextInterval ==
  ASSUME ScanInv, NEW v \in Vregs, IsNext(v)
  PROVE  /\ v \in todo /\ v \in DOMAIN iv
         /\ active[v] = None /\ preg[v] = None
         /\ Unexpired(iv[v].start)[v] = None
         /\ \A x \in todo : iv[v].start <= iv[x].start
<1>1. v \in todo /\ v \in DOMAIN iv
  BY DEF ScanInv, TypeOK, IsNext
<1>2. active[v] = None /\ preg[v] = None
  BY <1>1 DEF ScanInv, NotYet
<1>3. Unexpired(iv[v].start)[v] = None
  BY <1>2 DEF Unexpired
<1>4. ASSUME NEW x \in todo PROVE iv[v].start <= iv[x].start
  <2>1. x \in DOMAIN iv /\ IsIntervalMap(iv)
    BY DEF ScanInv, TypeOK
  <2>2. iv[v].start \in Nat /\ iv[x].start \in Nat
    BY <1>1, <2>1, IntervalTypes
  <2>3. NotAfter(iv[v], iv[x])
    BY DEF IsNext
  <2> QED BY <2>2, <2>3 DEF NotAfter
<1> QED BY <1>1, <1>2, <1>3, <1>4

\* Once the intervals before it expired, an interval mapped to a register it
\* does not hold ended before the current one and before all that follow.
LEMMA EndedBefore ==
  ASSUME ScanInv, NEW v \in Vregs, IsNext(v),
         NEW u \in DOMAIN iv, preg[u] \in Allocatable,
         Unexpired(iv[v].start)[u] = None, NEW x \in todo
  PROVE  iv[u].end < iv[x].start
<1>1. v \in DOMAIN iv /\ x \in DOMAIN iv /\ IsIntervalMap(iv)
  BY NextInterval DEF ScanInv, TypeOK
<1>2. /\ u \in Vregs
      /\ iv[u].end \in Nat /\ iv[v].start \in Nat /\ iv[x].start \in Nat
  BY <1>1, IntervalTypes
<1>3. CASE active[u] = None
  BY <1>3 DEF ScanInv, Ended
<1>4. CASE active[u] # None
  <2>1. Expired(u, iv[v].start)
    BY <1>2, <1>4 DEF Unexpired
  <2>2. iv[u].end < iv[v].start
    BY <2>1 DEF Expired
  <2>3. iv[v].start <= iv[x].start
    BY NextInterval
  <2> QED BY <1>2, <2>2, <2>3
<1> QED BY <1>3, <1>4

\* The invariants that mention the map and the active intervals, after any
\* step that gives the current interval v a register no unexpired interval
\* but an evicted one holds, or the scratch.
LEMMA Reassigned ==
  ASSUME ScanInv, NEW v \in Vregs, IsNext(v), iv' = iv, todo' = todo \ {v},
         NEW r \in Allocatable \cup {Scratch},
         NEW E \in SUBSET (Vregs \ {v}), \A u \in E : active[u] # None,
         \A u \in Vregs : Unexpired(iv[v].start)[u] = r => u \in E,
         preg' = [u \in Vregs |-> IF u = v THEN r
                                  ELSE IF u \in E THEN Scratch ELSE preg[u]],
         active' = [u \in Vregs |->
                      IF u = v THEN IF r = Scratch THEN None ELSE r
                      ELSE IF u \in E THEN None
                      ELSE Unexpired(iv[v].start)[u]]
  PROVE  NotYet' /\ Held' /\ Ended' /\ NoConflict'
<1> DEFINE A == Unexpired(iv[v].start)
<1>1. /\ v \in todo /\ v \in DOMAIN iv /\ IsIntervalMap(iv)
      /\ DOMAIN iv \subseteq Vregs
  BY NextInterval DEF ScanInv, TypeOK, IsIntervalMap
<1>2. \A u \in Vregs : A[u] = None \/ A[u] = active[u]
  BY DEF Unexpired
<1>3. None \notin Allocatable /\ Scratch \notin Allocatable /\ None # Scratch
  BY RegistersAssumption
<1> HIDE DEF A
<1>4. NotYet'
  <2> SUFFICES ASSUME NEW u \in Vregs, u \in todo' \/ u \notin DOMAIN iv'
               PROVE  active'[u] = None /\ preg'[u] = None
    BY DEF NotYet
  <2>1. u # v /\ (u \in todo \/ u \notin DOMAIN iv)
    BY <1>1
  <2>2. active[u] = None /\ preg[u] = None
    BY <2>1 DEF ScanInv, NotYet
  <2>3. u \notin E /\ A[u] = None
    BY <1>2, <2>2
  <2> QED BY <2>1, <2>2, <2>3 DEF A
<1>5. Held'
  <2> SUFFICES ASSUME NEW u \in Vregs, active'[u] # None
               PROVE  preg'[u] = active'[u]
    BY DEF Held
  <2>1. CASE u = v
    BY <2>1
  <2>2. CASE u # v
    <3>1. u \notin E /\ active'[u] = A[u] /\ preg'[u] = preg[u]
      BY <2>2 DEF A
    <3> QED BY <1>2, <3>1 DEF ScanInv, Held
  <2> QED BY <2>1, <2>2
<1>6. Ended'
  <2> SUFFICES ASSUME NEW u \in DOMAIN iv, NEW x \in todo \ {v},
                      preg'[u] \in Allocatable, active'[u] = None
               PROVE  iv[u].end < iv[x].start
    BY DEF Ended
  <2>1. u # v /\ u \notin E
    BY <1>1, <1>3
  <2>2. preg[u] \in Allocatable /\ Unexpired(iv[v].start)[u] = None
    BY <1>1, <2>1
  <2> QED BY <2>2, EndedBefore
<1>7. ASSUME NEW u \in DOMAIN iv, u # v, r \in Allocatable, preg'[u] = r
      PROVE  iv[u].end < iv[v].start
  <2>1. u \notin E /\ preg[u] = r
    BY <1>1, <1>3, <1>7
  <2>2. A[u] # r
    BY <1>1, <2>1 DEF A
  <2>3. A[u] = None
    BY <1>1, <1>2, <2>1, <2>2 DEF ScanInv, Held
  <2> QED BY <1>1, <1>7, <2>1, <2>3, EndedBefore DEF A
<1>8. NoConflict'
  <2> SUFFICES ASSUME NEW u \in DOMAIN iv, NEW x \in DOMAIN iv, u # x,
                      preg'[u] \in Allocatable, preg'[u] = preg'[x]
               PROVE  ~Overlaps(iv[u], iv[x])
    BY DEF NoConflict
  <2>1. /\ iv[u].start \in Nat /\ iv[u].end \in Nat
        /\ iv[x].start \in Nat /\ iv[x].end \in Nat
    BY <1>1, IntervalTypes
  <2>2. CASE u = v
    <3>1. iv[x].end < iv[u].start
      BY <1>1, <1>7, <2>2
    <3> QED BY <2>1, <3>1 DEF Overlaps
  <2>3. CASE x = v
    <3>1. iv[u].end < iv[x].start
      BY <1>1, <1>7, <2>3
    <3> QED BY <2>1, <3>1 DEF Overlaps
  <2>4. CASE u # v /\ x # v
    <3>1. preg'[u] = preg[u] /\ preg'[x] = preg[x]
      BY <1>1, <1>3, <2>4
    <3> QED BY <3>1 DEF ScanInv, NoConflict
  <2> QED BY <2>2, <2>3, <2>4
<1> QED BY <1>4, <1>5, <1>6, <1>8

LEMMA TakeFreeInv ==
  ASSUME ScanInv, NEW v \in Vregs, IsNext(v), iv' = iv, todo' = todo \ {v},
         TakeFree(v)
  PROVE  ScanInv'
<1> DEFINE pos == iv[v].start
           A == Unexpired(pos)
           C == CallerAt(pos)
           D == CalleeAt(pos)
<1>1. PICK r \in Pool(v) :
        /\ active' = [A EXCEPT ![v] = r]
        /\ freeCaller' = C \ {r}
        /\ freeCallee' = D \ {r}
        /\ preg' = [preg EXCEPT ![v] = r]
        /\ usedCallee' = usedCallee \cup ({r} \cap CalleeSaved)
        /\ UNCHANGED <<spill, slots>>
  BY Zenon DEF TakeFree, Assign
<1>2. r \in C \cup D
  BY <1>1 DEF Pool
<1>3. TypeOK /\ RegistersPartitioned /\ CalleeSavedTracked
  BY DEF ScanInv
<1>4. /\ A \in [Vregs -> Allocatable \cup {None}]
      /\ C \subseteq CallerSaved /\ D \subseteq CalleeSaved
      /\ \A u, x \in Vregs : A[u] # None /\ A[u] = A[x] => u = x
      /\ \A u \in Vregs : A[u] \notin C \cup D
      /\ \A q \in Allocatable : q \in C \cup D \/ \E u \in Vregs : A[u] = q
  BY <1>3, Expiry
<1>5. /\ None \notin Allocatable /\ Scratch \notin Allocatable /\ None # Scratch
      /\ r \in Allocatable
  BY <1>2, <1>4, RegistersAssumption DEF Allocatable
<1>6. A[v] = None
  BY NextInterval
<1> HIDE DEF A, C, D
<1>7. TypeOK'
  BY <1>1, <1>3, <1>4, <1>5 DEF TypeOK, Allocatable
<1>8. RegistersPartitioned'
  <2>1. ASSUME NEW u \in Vregs, NEW x \in Vregs, active'[u] # None,
               active'[u] = active'[x]
        PROVE  u = x
    BY <1>1, <1>2, <1>4, <2>1
  <2>2. ASSUME NEW u \in Vregs PROVE active'[u] \notin freeCaller' \cup freeCallee'
    BY <1>1, <1>4
  <2>3. ASSUME NEW q \in Allocatable
        PROVE  q \in freeCaller' \cup freeCallee' \/ \E u \in Vregs : active'[u] = q
    <3>1. CASE q = r
      BY <1>1, <1>4, <3>1
    <3>2. CASE q # r /\ q \in C \cup D
      BY <1>1, <3>2
    <3>3. CASE \E u \in Vregs : A[u] = q
      <4>1. PICK u \in Vregs : A[u] = q
        BY <3>3
      <4>2. u # v
        BY <1>5, <1>6, <4>1
      <4>3. active'[u] = q
        BY <1>1, <1>4, <4>1, <4>2
      <4> QED BY <4>3
    <3> QED BY <1>4, <3>1, <3>2, <3>3
  <2> QED BY <2>1, <2>2, <2>3 DEF RegistersPartitioned
<1>9. CalleeSavedTracked'
  BY <1>1, <1>3 DEF CalleeSavedTracked, TypeOK
<1>10. NotYet' /\ Held' /\ Ended' /\ NoConflict'
  <2>1. \A u \in Vregs : A[u] = r => u \in {}
    BY <1>2, <1>4
  <2>2. preg' = [u \in Vregs |-> IF u = v THEN r
                                 ELSE IF u \in {} THEN Scratch ELSE preg[u]]
    BY <1>1, <1>3, Zenon DEF TypeOK
  <2>3. active' = [u \in Vregs |-> IF u = v THEN IF r = Scratch THEN None ELSE r
                                   ELSE IF u \in {} THEN None ELSE A[u]]
    BY <1>1, <1>4, <1>5, Zenon
  <2>4. {} \in SUBSET (Vregs \ {v}) /\ \A u \in {} : active[u] # None
    OBVIOUS
  <2>5. r \in Allocatable \cup {Scratch}
    BY <1>5
  <2> QED BY <2>1, <2>2, <2>3, <2>4, <2>5, Reassigned, Zenon DEF A
<1> QED BY <1>3, <1>7, <1>8, <1>9, <1>10 DEF ScanInv

LEMMA SpillCurrentInv ==
  ASSUME ScanInv, NEW v \in Vregs, IsNext(v), iv' = iv, todo' = todo \ {v},
         SpillCurrent(v)
  PROVE  ScanInv'
<1> DEFINE pos == iv[v].start
           A == Unexpired(pos)
<1>1. /\ active' = A
      /\ freeCaller' = CallerAt(pos)
      /\ freeCallee' = CalleeAt(pos)
      /\ preg' = [preg EXCEPT ![v] = Scratch]
      /\ spill' = [spill EXCEPT ![v] = [slot |-> slots, at |-> 0, from |-> None]]
      /\ slots' = slots + 1
      /\ usedCallee' = usedCallee
  BY DEF SpillCurrent
<1>2. TypeOK /\ RegistersPartitioned /\ CalleeSavedTracked
  BY DEF ScanInv
<1>3. /\ A \in [Vregs -> Allocatable \cup {None}]
      /\ freeCaller' \subseteq CallerSaved /\ freeCallee' \subseteq CalleeSaved
      /\ RegistersPartitioned'
  BY <1>1, <1>2, Expiry DEF RegistersPartitioned
<1>4. None \notin Allocatable /\ Scratch \notin Allocatable /\ None # Scratch
  BY RegistersAssumption
<1>5. A[v] = None
  BY NextInterval
<1> HIDE DEF A
<1>6. TypeOK'
  BY <1>1, <1>2, <1>3 DEF TypeOK
<1>7. CalleeSavedTracked'
  <2> SUFFICES ASSUME NEW u \in Vregs
               PROVE  {preg'[u], spill'[u].from} \cap CalleeSaved \subseteq usedCallee'
    BY DEF CalleeSavedTracked
  <2>1. CASE u = v
    BY <1>1, <1>2, <1>4, <2>1 DEF TypeOK, Allocatable
  <2>2. CASE u # v
    BY <1>1, <1>2, <2>2 DEF TypeOK, CalleeSavedTracked
  <2> QED BY <2>1, <2>2
<1>8. NotYet' /\ Held' /\ Ended' /\ NoConflict'
  <2>1. \A u \in Vregs : A[u] = Scratch => u \in {}
    BY <1>3, <1>4
  <2>2. preg' = [u \in Vregs |-> IF u = v THEN Scratch
                                 ELSE IF u \in {} THEN Scratch ELSE preg[u]]
    BY <1>1, <1>2, Zenon DEF TypeOK
  <2>3. active' = [u \in Vregs |->
                     IF u = v THEN IF Scratch = Scratch THEN None ELSE Scratch
                     ELSE IF u \in {} THEN None ELSE A[u]]
    BY <1>1, <1>3, <1>5
  <2>4. {} \in SUBSET (Vregs \ {v}) /\ \A u \in {} : active[u] # None
    OBVIOUS
  <2>5. Scratch \in Allocatable \cup {Scratch}
    OBVIOUS
  <2> QED BY <2>1, <2>2, <2>3, <2>4, <2>5, Reassigned, Zenon DEF A
<1> QED BY <1>3, <1>6, <1>7, <1>8 DEF ScanInv

LEMMA EvictInv ==
  ASSUME ScanInv, NEW v \in Vregs, IsNext(v), iv' = iv, todo' = todo \ {v},
         Evict(v)
  PROVE  ScanInv'
<1> DEFINE pos == iv[v].start
           A == Unexpired(pos)
           C == CallerAt(pos)
           D == CalleeAt(pos)
<1>1. PICK w \in Vregs :
        /\ w \in ActiveAt(pos)
        /\ active' = [A EXCEPT ![w] = None, ![v] = active[w]]
        /\ preg' = [[preg EXCEPT ![w] = Scratch] EXCEPT ![v] = active[w]]
        /\ usedCallee' = (usedCallee \ {active[w]}) \cup ({active[w]} \cap CalleeSaved)
        /\ spill' = [spill EXCEPT ![w] =
                       [slot |-> slots, at |-> pos, from |-> active[w]]]
        /\ slots' = slots + 1
        /\ freeCaller' = C
        /\ freeCallee' = D
  BY Zenon DEF Evict, Candidate, Assign
<1>2. TypeOK /\ RegistersPartitioned /\ CalleeSavedTracked /\ Held
  BY DEF ScanInv
<1>3. /\ A \in [Vregs -> Allocatable \cup {None}]
      /\ C \subseteq CallerSaved /\ D \subseteq CalleeSaved
      /\ \A u, x \in Vregs : A[u] # None /\ A[u] = A[x] => u = x
      /\ \A u \in Vregs : A[u] \notin C \cup D
      /\ \A q \in Allocatable : q \in C \cup D \/ \E u \in Vregs : A[u] = q
  BY <1>2, Expiry
<1>4. None \notin Allocatable /\ Scratch \notin Allocatable /\ None # Scratch
  BY RegistersAssumption
<1>5. A[v] = None /\ v \in DOMAIN iv
  BY NextInterval
<1>6. A[w] # None /\ A[w] = active[w]
  BY <1>1 DEF ActiveAt, Unexpired
<1>7. w # v /\ active[w] \in Allocatable
  BY <1>3, <1>5, <1>6
<1>8. pos \in Nat
  BY <1>2, <1>5, IntervalTypes DEF TypeOK
<1> DEFINE r == active[w]
<1>9. active' = [u \in Vregs |-> IF u = v THEN r ELSE IF u = w THEN None ELSE A[u]]
  BY <1>1, <1>3, <1>7
<1>10. preg' = [u \in Vregs |-> IF u = v THEN r ELSE IF u = w THEN Scratch ELSE preg[u]]
  BY <1>1, <1>2, <1>7, Zenon DEF TypeOK
<1> HIDE DEF A, C, D, r, pos
<1>11. TypeOK'
  <2>1. active' \in [Vregs -> Allocatable \cup {None}]
    BY <1>3, <1>7, <1>9 DEF r
  <2>2. preg' \in [Vregs -> Allocatable \cup {Scratch, None}]
    BY <1>2, <1>7, <1>10 DEF r, TypeOK
  <2>3. spill' \in [Vregs -> [slot : Int, at : Nat, from : Allocatable \cup {None}]]
    BY <1>1, <1>2, <1>7, <1>8 DEF TypeOK
  <2> QED BY <1>1, <1>2, <1>3, <2>1, <2>2, <2>3 DEF TypeOK
<1>12. RegistersPartitioned'
  <2>1. ASSUME NEW u \in Vregs, NEW x \in Vregs, active'[u] # None,
               active'[u] = active'[x]
        PROVE  u = x
    BY <1>3, <1>6, <1>9, <2>1 DEF r
  <2>2. ASSUME NEW u \in Vregs PROVE active'[u] \notin freeCaller' \cup freeCallee'
    BY <1>1, <1>3, <1>5, <1>6, <1>9 DEF r
  <2>3. ASSUME NEW q \in Allocatable
        PROVE  q \in freeCaller' \cup freeCallee' \/ \E u \in Vregs : active'[u] = q
    <3>1. CASE q \in C \cup D
      BY <1>1, <3>1
    <3>2. CASE \E u \in Vregs : A[u] = q
      <4>1. PICK u \in Vregs : A[u] = q
        BY <3>2
      <4>2. CASE u = w
        <5>1. active'[v] = q
          BY <1>6, <1>9, <4>1, <4>2 DEF r
        <5> QED BY <5>1
      <4>3. CASE u # w
        <5>1. active'[u] = q
          BY <1>4, <1>5, <1>9, <4>1, <4>3
        <5> QED BY <5>1
      <4> QED BY <4>2, <4>3
    <3> QED BY <1>3, <3>1, <3>2
  <2> QED BY <2>1, <2>2, <2>3 DEF RegistersPartitioned
<1>13. CalleeSavedTracked'
  <2>1. usedCallee \subseteq usedCallee' /\ {r} \cap CalleeSaved \subseteq usedCallee'
    BY <1>1, <1>2 DEF r, TypeOK
  <2> SUFFICES ASSUME NEW u \in Vregs
               PROVE  {preg'[u], spill'[u].from} \cap CalleeSaved \subseteq usedCallee'
    BY DEF CalleeSavedTracked
  <2>2. preg'[u] \in {r, Scratch, preg[u]}
    BY <1>10
  <2>3. spill'[u].from \in {r, spill[u].from}
    BY <1>1, <1>2 DEF r, TypeOK
  <2>4. {preg[u], spill[u].from} \cap CalleeSaved \subseteq usedCallee
    BY <1>2 DEF CalleeSavedTracked
  <2> QED BY <1>4, <2>1, <2>2, <2>3, <2>4 DEF Allocatable
<1>14. NotYet' /\ Held' /\ Ended' /\ NoConflict'
  <2>1. \A u \in Vregs : A[u] = r => u \in {w}
    BY <1>3, <1>6 DEF r
  <2>2. preg' = [u \in Vregs |-> IF u = v THEN r
                                 ELSE IF u \in {w} THEN Scratch ELSE preg[u]]
    BY <1>10
  <2>3. active' = [u \in Vregs |-> IF u = v THEN IF r = Scratch THEN None ELSE r
                                   ELSE IF u \in {w} THEN None ELSE A[u]]
    BY <1>4, <1>7, <1>9 DEF r
  <2>4. {w} \in SUBSET (Vregs \ {v}) /\ \A u \in {w} : active[u] # None
    BY <1>6, <1>7
  <2>5. r \in Allocatable \cup {Scratch}
    BY <1>7 DEF r
  <2> QED BY <2>1, <2>2, <2>3, <2>4, <2>5, Reassigned, Zenon DEF A, pos
<1> QED BY <1>2, <1>11, <1>12, <1>13, <1>14 DEF ScanInv

LEMMA StepScanInv == ScanInv /\ [ScanNext]_scanVars => ScanInv'
<1> SUFFICES ASSUME ScanInv, [ScanNext]_scanVars PROVE ScanInv'
  OBVIOUS
<1>1. ASSUME NEW v \in Vregs, AllocateInterval(v) PROVE ScanInv'
  <2>1. IsNext(v) /\ iv' = iv /\ todo' = todo \ {v}
    BY <1>1 DEF AllocateInterval
  <2>2. CASE TakeFree(v)
    BY <2>1, <2>2, TakeFreeInv
  <2>3. CASE SpillCurrent(v)
    BY <2>1, <2>3, SpillCurrentInv
  <2>4. CASE Evict(v)
    BY <2>1, <2>4, EvictInv
  <2> QED BY <1>1, <2>2, <2>3, <2>4 DEF AllocateInterval
<1>2. CASE UNCHANGED scanVars
  BY <1>2 DEF scanVars, ScanInv, TypeOK, NotYet, Held, Ended,
              RegistersPartitioned, NoConflict, CalleeSavedTracked
<1> QED BY <1>1, <1>2 DEF ScanNext

\* The invariant the allocator's correctness rests on holds at every interval.
THEOREM ScanInvariant == ScanSpec => []ScanInv
<1>1. ScanInit => ScanInv
  BY InitScanInv
<1>2. ScanInv /\ [ScanNext]_scanVars => ScanInv'
  BY StepScanInv
<1> QED BY <1>1, <1>2, PTL DEF ScanSpec

\* The pass of the compiler, whatever function it compiles and while the code
\* it emitted runs, does to the allocator's state only what allocate_intervals
\* does.
THEOREM EmitRefinesScan == Spec => ScanSpec
<1>1. Init => ScanInit
  BY DEF Init, EmitInit
<1>2. [Next]_vars => [ScanNext]_scanVars
  <2> SUFFICES ASSUME [Next]_vars PROVE [ScanNext]_scanVars
    OBVIOUS
  <2>1. ASSUME NEW v \in Vregs, Allocate(v) PROVE ScanNext
    BY <2>1 DEF Allocate, ScanNext
  <2>2. CASE Start
    BY <2>2 DEF Start
  <2>3. CASE Execute
    BY <2>3 DEF Execute
  <2>4. CASE Return
    BY <2>4 DEF Return
  <2>5. CASE UNCHANGED vars
    BY <2>5 DEF vars
  <2> QED BY <2>1, <2>2, <2>3, <2>4, <2>5 DEF Next
<1> QED BY <1>1, <1>2, PTL DEF Spec, ScanSpec

\* The allocator's state is type correct (expire_old_intervals returns every
\* register to the pool it came from).
THEOREM TypeCorrect == Spec => []TypeOK
<1>1. ScanInv => TypeOK
  BY DEF ScanInv
<1> QED BY <1>1, ScanInvariant, EmitRefinesScan, PTL

\* allocate_intervals neither loses a register nor hands one out twice, for
\* any number of registers and intervals.
THEOREM Partition == Spec => []RegistersPartitioned
<1>1. ScanInv => RegistersPartitioned
  BY DEF ScanInv
<1> QED BY <1>1, ScanInvariant, EmitRefinesScan, PTL

\* Two values that are live at the same time never share an allocatable
\* register, although intervals are expired, spilled and evicted on the way.
THEOREM ConflictFree == Spec => []NoConflict
<1>1. ScanInv => NoConflict
  BY DEF ScanInv
<1> QED BY <1>1, ScanInvariant, EmitRefinesScan, PTL

\* verify_callee_saved never finds a register the prologue does not save.
THEOREM CalleeSavedRecorded == Spec => []CalleeSavedTracked
<1>1. ScanInv => CalleeSavedTracked
  BY DEF ScanInv
<1> QED BY <1>1, ScanInvariant, EmitRefinesScan, PTL

-----------------------------------------------------------------------------
(* The emitted code reads what the program names.  What that needs of the  *)
(* allocator beyond ScanInv: a handled interval either keeps a register of *)
(* the pools for good or is spilled to a slot of its own, and there is     *)
(* room for the slots.                                                     *)

SpillInv ==
  /\ \A v \in Vregs : v \in todo \/ v \notin DOMAIN iv => ~Spilled(v)
  /\ \A v \in DOMAIN iv \ todo : IF Spilled(v) THEN preg[v] = Scratch
                                                ELSE preg[v] \in Allocatable
  /\ \A v \in Vregs : Spilled(v) => spill[v].slot \in 0 .. slots - 1
  /\ \A v, w \in Vregs :
       Spilled(v) /\ Spilled(w) /\ spill[v].slot = spill[w].slot => v = w
  /\ slots <= Cardinality(DOMAIN iv \ todo)

\* An instruction before the next one defined v.
Defined(v) == \E k \in Defs(func, v) : k < pc

\* Where the code is: the moves of the terminator are all at its position.
Point == IF pc <= Len(func.body) THEN pc ELSE Len(func.body) + 1

\* The registers that return values have been moved to.
Moved == {RetRegs[j] : j \in 1 .. pc - Len(func.body) - 1}

\* A live value is in its register, if it has one that only instructions
\* defining it and moves of the terminator write.
InRegister(v) ==
  Defined(v) /\ OwnRegister(v) /\ preg[v] \notin Moved /\ Pos(Point) <= iv[v].end
    => regs[preg[v]] = val[v]

\* A value spilled from its definition on is in its slot, if it has one that
\* no conversion writes.
InSlot(v) == Defined(v) /\ OwnSlot(v) => stack[spill[v].slot] = val[v]

EmitTypes ==
  /\ func \in Functions
  /\ iv = Compute(func)
  /\ pc \in Nat
  /\ pc > 0 => todo = {}
  /\ DOMAIN regs = Registers
  /\ DOMAIN stack = 0 .. Cardinality(Vregs) - 1
  /\ DOMAIN val = Vregs

EmitInv ==
  /\ ScanInv /\ SpillInv /\ EmitTypes
  /\ pc > 0 => \A v \in Vregs : InRegister(v) /\ InSlot(v)

LEMMA InitSpillInv == ScanInit => SpillInv
<1> SUFFICES ASSUME ScanInit PROVE SpillInv
  OBVIOUS
<1>1. DOMAIN iv \ todo = {} /\ \A v \in Vregs : ~Spilled(v)
  BY DEF ScanInit, Spilled
<1>2. slots <= Cardinality(DOMAIN iv \ todo)
  BY <1>1, FS_EmptySet DEF ScanInit
<1> QED BY <1>1, <1>2 DEF SpillInv

\* Handling an interval makes one more handled interval.
LEMMA OneMoreHandled ==
  ASSUME TypeOK, NEW v \in todo, iv' = iv, todo' = todo \ {v}
  PROVE  /\ DOMAIN iv' \ todo' = (DOMAIN iv \ todo) \cup {v}
         /\ Cardinality(DOMAIN iv \ todo) \in Nat
         /\ Cardinality(DOMAIN iv' \ todo') = Cardinality(DOMAIN iv \ todo) + 1
<1> DEFINE H == DOMAIN iv \ todo
<1>1. v \in DOMAIN iv /\ DOMAIN iv \subseteq Vregs
  BY DEF TypeOK, IsIntervalMap
<1>2. IsFiniteSet(H)
  BY <1>1, FunctionsAssumption, FS_Subset
<1>3. DOMAIN iv' \ todo' = H \cup {v} /\ v \notin H
  BY <1>1
<1> QED BY <1>2, <1>3, FS_AddElement, FS_CardinalityType, SMTT(30)

\* Giving one virtual register the next slot.
LEMMA OneMoreSlot ==
  ASSUME TypeOK, SpillInv, NEW x \in Vregs, NEW p, NEW f,
         spill' = [spill EXCEPT ![x] = [slot |-> slots, at |-> p, from |-> f]],
         slots' = slots + 1
  PROVE  /\ \A u \in Vregs : Spilled(u)' <=> u = x \/ Spilled(u)
         /\ \A u \in Vregs : Spilled(u)' => spill'[u].slot \in 0 .. slots' - 1
         /\ \A u, w \in Vregs :
              Spilled(u)' /\ Spilled(w)' /\ spill'[u].slot = spill'[w].slot => u = w
<1>1. slots \in Nat /\ slots' \in Nat /\ slots \in 0 .. slots' - 1
  BY DEF TypeOK
<1>2. \A u \in Vregs : spill'[u] = IF u = x THEN [slot |-> slots, at |-> p, from |-> f]
                                             ELSE spill[u]
  BY DEF TypeOK
<1>3. [slot |-> slots, at |-> p, from |-> f] # NotSpilled
  BY <1>1 DEF NotSpilled
<1>4. \A u \in Vregs : Spilled(u)' <=> u = x \/ Spilled(u)
  BY <1>2, <1>3 DEF Spilled
<1>5. \A u \in Vregs : Spilled(u) => spill[u].slot \in 0 .. slots - 1
  BY DEF SpillInv
<1>6. spill'[x].slot = slots
  BY <1>2
<1>7. \A u \in Vregs : Spilled(u)' => spill'[u].slot \in 0 .. slots' - 1
  <2> SUFFICES ASSUME NEW u \in Vregs, Spilled(u)'
               PROVE  spill'[u].slot \in 0 .. slots' - 1
    OBVIOUS
  <2>1. CASE u = x
    BY <1>1, <1>6, <2>1
  <2>2. CASE u # x
    <3>1. Spilled(u) /\ spill'[u] = spill[u]
      BY <1>2, <1>4, <2>2
    <3> QED BY <1>1, <1>5, <3>1
  <2> QED BY <2>1, <2>2
<1>8. \A u, w \in Vregs :
        Spilled(u)' /\ Spilled(w)' /\ spill'[u].slot = spill'[w].slot => u = w
  <2> SUFFICES ASSUME NEW u \in Vregs, NEW w \in Vregs, Spilled(u)', Spilled(w)',
                      spill'[u].slot = spill'[w].slot, u # w
               PROVE  FALSE
    OBVIOUS
  <2>1. \A y \in {u, w} : y # x => Spilled(y) /\ spill'[y] = spill[y]
    BY <1>2, <1>4
  <2>2. \A y \in {u, w} : y # x => spill'[y].slot # slots
    BY <1>1, <1>5, <2>1
  <2>3. u # x /\ w # x
    BY <1>6, <2>2
  <2> QED BY <2>1, <2>3 DEF SpillInv
<1> QED BY <1>4, <1>7, <1>8

LEMMA StepSpillInv ==
  ASSUME ScanInv, SpillInv, NEW v \in Vregs, AllocateInterval(v)
  PROVE  SpillInv'
<1>1. IsNext(v) /\ iv' = iv /\ todo' = todo \ {v}
  BY DEF AllocateInterval
<1>2. TypeOK /\ v \in todo /\ v \in DOMAIN iv /\ preg[v] = None /\ active[v] = None
  BY <1>1, NextInterval DEF ScanInv
<1>3. /\ DOMAIN iv' \ todo' = (DOMAIN iv \ todo) \cup {v}
      /\ Cardinality(DOMAIN iv \ todo) \in Nat
      /\ Cardinality(DOMAIN iv' \ todo') = Cardinality(DOMAIN iv \ todo) + 1
  BY <1>1, <1>2, OneMoreHandled
<1>4. DOMAIN iv \subseteq Vregs /\ slots \in Nat
  BY <1>2 DEF TypeOK, IsIntervalMap
<1>5. slots <= Cardinality(DOMAIN iv \ todo)
  BY DEF SpillInv
<1>6. ~Spilled(v)
  BY <1>2 DEF SpillInv
<1>7. preg \in [Vregs -> Allocatable \cup {Scratch, None}]
  BY <1>2 DEF TypeOK
<1>8. \A u \in DOMAIN iv \ todo : IF Spilled(u) THEN preg[u] = Scratch
                                               ELSE preg[u] \in Allocatable
  BY DEF SpillInv
<1>9. \A u \in Vregs : u \in todo' \/ u \notin DOMAIN iv' =>
                         u # v /\ (u \in todo \/ u \notin DOMAIN iv) /\ ~Spilled(u)
  BY <1>1, <1>2 DEF SpillInv
<1>10. CASE TakeFree(v)
  <2>1. PICK r \in Pool(v) : preg' = [preg EXCEPT ![v] = r] /\ spill' = spill /\ slots' = slots
    BY <1>10, Zenon DEF TakeFree, Assign
  <2>2. r \in Allocatable
    <3>1. CallerAt(iv[v].start) \subseteq CallerSaved /\ CalleeAt(iv[v].start) \subseteq CalleeSaved
      BY <1>2, Expiry DEF ScanInv
    <3> QED BY <3>1, <2>1 DEF Pool, Allocatable
  <2>3. \A u : Spilled(u)' <=> Spilled(u)
    BY <2>1 DEF Spilled
  <2>4. \A u \in DOMAIN iv' \ todo' : IF Spilled(u)' THEN preg'[u] = Scratch
                                                   ELSE preg'[u] \in Allocatable
    <3> SUFFICES ASSUME NEW u \in (DOMAIN iv \ todo) \cup {v}
                 PROVE  IF Spilled(u) THEN preg'[u] = Scratch ELSE preg'[u] \in Allocatable
      BY <1>3, <2>3
    <3>1. CASE u = v
      BY <1>6, <1>7, <2>1, <2>2, <3>1
    <3>2. CASE u # v
      BY <1>4, <1>7, <1>8, <2>1, <3>2
    <3> QED BY <3>1, <3>2
  <2>5. slots' <= Cardinality(DOMAIN iv' \ todo')
    BY <1>3, <1>4, <1>5, <2>1
  <2>6. /\ \A u \in Vregs : Spilled(u)' => spill'[u].slot \in 0 .. slots' - 1
        /\ \A u, w \in Vregs :
             Spilled(u)' /\ Spilled(w)' /\ spill'[u].slot = spill'[w].slot => u = w
    BY <2>1, <2>3, SMTT(30) DEF SpillInv
  <2> QED BY <1>9, <2>3, <2>4, <2>5, <2>6 DEF SpillInv
<1>11. CASE SpillCurrent(v)
  <2>1. /\ preg' = [preg EXCEPT ![v] = Scratch]
        /\ spill' = [spill EXCEPT ![v] = [slot |-> slots, at |-> 0, from |-> None]]
        /\ slots' = slots + 1
    BY <1>11, SMTT(30) DEF SpillCurrent
  <2>2. /\ \A u \in Vregs : Spilled(u)' <=> u = v \/ Spilled(u)
        /\ \A u \in Vregs : Spilled(u)' => spill'[u].slot \in 0 .. slots' - 1
        /\ \A u, w \in Vregs :
             Spilled(u)' /\ Spilled(w)' /\ spill'[u].slot = spill'[w].slot => u = w
    BY <1>2, <2>1, OneMoreSlot, Zenon
  <2>3. \A u \in DOMAIN iv' \ todo' : IF Spilled(u)' THEN preg'[u] = Scratch
                                                   ELSE preg'[u] \in Allocatable
    <3> SUFFICES ASSUME NEW u \in (DOMAIN iv \ todo) \cup {v}
                 PROVE  IF Spilled(u)' THEN preg'[u] = Scratch ELSE preg'[u] \in Allocatable
      BY <1>3
    <3>1. CASE u = v
      BY <1>7, <2>1, <2>2, <3>1
    <3>2. CASE u # v
      <4>1. u \in Vregs /\ (Spilled(u)' <=> Spilled(u)) /\ preg'[u] = preg[u]
        BY <1>4, <1>7, <2>1, <2>2, <3>2
      <4> QED BY <1>8, <3>2, <4>1
    <3> QED BY <3>1, <3>2
  <2>4. slots' <= Cardinality(DOMAIN iv' \ todo')
    BY <1>3, <1>4, <1>5, <2>1
  <2>5. \A u \in Vregs : u \in todo' \/ u \notin DOMAIN iv' => ~Spilled(u)'
    BY <1>9, <2>2, SMTT(30)
  <2> QED BY <2>2, <2>3, <2>4, <2>5 DEF SpillInv
<1>12. CASE Evict(v)
  <2> DEFINE pos == iv[v].start
  <2>1. PICK w \in Vregs :
          /\ w \in ActiveAt(pos)
          /\ preg' = [[preg EXCEPT ![w] = Scratch] EXCEPT ![v] = active[w]]
          /\ spill' = [spill EXCEPT ![w] =
                         [slot |-> slots, at |-> pos, from |-> active[w]]]
          /\ slots' = slots + 1
    BY <1>12, Zenon DEF Evict, Candidate, Assign
  <2>2. active[w] # None
    BY <2>1 DEF ActiveAt, Unexpired
  <2>3. active[w] \in Allocatable /\ w # v /\ w \in DOMAIN iv \ todo
    BY <1>2, <2>2 DEF ScanInv, NotYet, TypeOK
  <2>4. /\ \A u \in Vregs : Spilled(u)' <=> u = w \/ Spilled(u)
        /\ \A u \in Vregs : Spilled(u)' => spill'[u].slot \in 0 .. slots' - 1
        /\ \A u, x \in Vregs :
             Spilled(u)' /\ Spilled(x)' /\ spill'[u].slot = spill'[x].slot => u = x
    BY <1>2, <2>1, OneMoreSlot, Zenon
  <2> HIDE DEF pos
  <2>5. \A u \in DOMAIN iv' \ todo' : IF Spilled(u)' THEN preg'[u] = Scratch
                                                   ELSE preg'[u] \in Allocatable
    <3> SUFFICES ASSUME NEW u \in (DOMAIN iv \ todo) \cup {v}
                 PROVE  IF Spilled(u)' THEN preg'[u] = Scratch ELSE preg'[u] \in Allocatable
      BY <1>3
    <3>1. CASE u = v
      BY <1>6, <1>7, <2>1, <2>3, <2>4, <3>1
    <3>2. CASE u = w
      BY <1>7, <2>1, <2>3, <2>4, <3>2
    <3>3. CASE u # v /\ u # w
      <4>1. u \in Vregs /\ (Spilled(u)' <=> Spilled(u)) /\ preg'[u] = preg[u]
        BY <1>4, <1>7, <2>1, <2>4, <3>3
      <4> QED BY <1>8, <3>3, <4>1
    <3> QED BY <3>1, <3>2, <3>3
  <2>6. slots' <= Cardinality(DOMAIN iv' \ todo')
    BY <1>3, <1>4, <1>5, <2>1
  <2>7. \A u \in Vregs : u \in todo' \/ u \notin DOMAIN iv' => ~Spilled(u)'
    BY <1>1, <1>9, <2>3, <2>4
  <2> QED BY <2>4, <2>5, <2>6, <2>7, SMTT(30) DEF SpillInv
<1> QED BY <1>10, <1>11, <1>12 DEF AllocateInterval

LEMMA Least ==
  ASSUME NEW T \in SUBSET Nat, T # {}
  PROVE  \E x \in T : \A y \in T : x <= y
<1> DEFINE Less == {ss \in Nat \X Nat : ss[1] < ss[2]}
<1>1. IsWellFoundedOn(Less, Nat)
  BY NatLessThanWellFounded DEF OpToRel
<1>2. PICK x \in T : \A y \in T : ~(<<y, x>> \in Less)
  BY <1>1, WFMin, Zenon
<1>3. ASSUME NEW y \in T PROVE x <= y
  <2>1. ~(y < x)
    BY <1>2, Zenon
  <2> QED BY <2>1
<1> QED BY <1>3

LEMMA Greatest ==
  ASSUME NEW n \in Nat, NEW T \in SUBSET (0 .. n), T # {}
  PROVE  \E x \in T : \A y \in T : x >= y
<1> DEFINE D == {n - i : i \in T}
<1>1. D \in SUBSET Nat /\ D # {}
  <2>1. \A i \in T : n - i \in Nat
    OBVIOUS
  <2> QED BY <2>1, Zenon
<1>2. PICK d \in D : \A e \in D : d <= e
  BY <1>1, Least, Zenon
<1>3. PICK x \in T : d = n - x
  BY <1>2
<1>4. ASSUME NEW y \in T PROVE x >= y
  <2>1. n - x <= n - y
    BY <1>2, <1>3, Zenon
  <2>2. x \in 0 .. n /\ y \in 0 .. n
    OBVIOUS
  <2> QED BY <2>1, <2>2
<1> QED BY <1>4

LEMMA Body ==
  ASSUME NEW f \in Functions
  PROVE  /\ DOMAIN f.body = 1 .. Len(f.body) /\ Len(f.body) \in Nat
         /\ DOMAIN f.ret = 1 .. Len(f.ret) /\ Len(f.ret) \in Nat
         /\ \A k \in DOMAIN f.body : f.body[k] \in Instruction
<1>1. f.body \in Seq(Instruction) /\ f.ret \in Seq(Vregs \cup Temps)
  BY FunctionsAssumption, Zenon DEF Modelled
<1> QED BY <1>1

\* The interval of a virtual register spans its definitions and uses.
LEMMA Spans ==
  ASSUME NEW f \in Functions, NEW v \in Vregs, NEW k \in Defs(f, v) \cup Uses(f, v)
  PROVE  /\ v \in DOMAIN Compute(f)
         /\ k \in Nat \ {0}
         /\ Compute(f)[v].start <= Pos(k) /\ Pos(k) <= Compute(f)[v].end
<1> DEFINE at == Defs(f, v) \cup Uses(f, v)
           n == Len(f.body) + 1
           first == CHOOSE i \in at : \A j \in at : i <= j
           last == CHOOSE i \in at : \A j \in at : i >= j
<1>1. DOMAIN f.body = 1 .. Len(f.body) /\ Len(f.body) \in Nat
  BY Body
<1>2. n \in Nat /\ at \subseteq 1 .. n /\ k \in at
  <2>1. Defs(f, v) \subseteq 1 .. n
    BY <1>1 DEF Defs
  <2>2. Uses(f, v) \subseteq 1 .. n
    BY <1>1 DEF Uses
  <2> QED BY <1>1, <2>1, <2>2
<1>3. at \in SUBSET Nat /\ at \in SUBSET (0 .. n) /\ at # {}
  BY <1>2
<1> HIDE DEF at, n
<1>4. first \in at /\ \A j \in at : first <= j
  <2>1. \E i \in at : \A j \in at : i <= j
    BY <1>3, Least
  <2> QED BY <2>1, Zenon
<1>5. last \in at /\ \A j \in at : last >= j
  <2>1. \E i \in at : \A j \in at : i >= j
    BY <1>2, <1>3, Greatest, Zenon
  <2> QED BY <2>1, Zenon
<1>6. v \in DOMAIN Compute(f) /\ Compute(f)[v] = LiveInterval(f, v)
  BY <1>3 DEF Compute, at
<1>7. LiveInterval(f, v).start = Pos(first) /\ LiveInterval(f, v).end = Pos(last)
  BY DEF LiveInterval, at
<1> HIDE DEF first, last
<1>8. first \in Nat /\ last \in Nat /\ k \in Nat \ {0} /\ first <= k /\ k <= last
  BY <1>2, <1>3, <1>4, <1>5
<1> QED BY <1>6, <1>7, <1>8 DEF Pos

\* The frame has room for every slot.
LEMMA SlotRoom ==
  ASSUME ScanInv, SpillInv, NEW v \in Vregs, Spilled(v)
  PROVE  spill[v].slot \in 0 .. Cardinality(Vregs) - 1
<1> DEFINE H == DOMAIN iv \ todo
<1>1. H \subseteq Vregs /\ slots \in Nat
  BY DEF ScanInv, TypeOK, IsIntervalMap
<1>2. Cardinality(H) <= Cardinality(Vregs) /\ IsFiniteSet(H)
  BY <1>1, FunctionsAssumption, FS_Subset
<1>3. Cardinality(H) \in Nat /\ Cardinality(Vregs) \in Nat
  BY <1>2, FunctionsAssumption, FS_CardinalityType
<1>4. slots <= Cardinality(H) /\ spill[v].slot \in 0 .. slots - 1
  BY DEF SpillInv
<1> HIDE DEF H
<1> QED BY <1>1, <1>2, <1>3, <1>4

\* Boundary spills leave the slot of a value that was not evicted alone.
LEMMA StackKept ==
  ASSUME EmitInv, NEW k
  PROVE  /\ DOMAIN StackAt(k) = 0 .. Cardinality(Vregs) - 1
         /\ \A v \in Vregs : Spilled(v) /\ ~Evicted(v) =>
              StackAt(k)[spill[v].slot] = stack[spill[v].slot]
<1>1. DOMAIN stack = 0 .. Cardinality(Vregs) - 1
  BY DEF EmitInv, EmitTypes
<1>2. DOMAIN StackAt(k) = DOMAIN stack
  BY DEF StackAt
<1>3. ASSUME NEW v \in Vregs, Spilled(v), ~Evicted(v)
      PROVE  StackAt(k)[spill[v].slot] = stack[spill[v].slot]
  <2>1. spill[v].slot \in DOMAIN stack
    BY <1>1, <1>3, SlotRoom DEF EmitInv
  <2>2. ~ \E w \in Boundary(k) : spill[w].slot = spill[v].slot
    BY <1>3, SMTT(30) DEF EmitInv, SpillInv, Boundary, Evicted
  <2> QED BY <2>1, <2>2 DEF StackAt
<1> QED BY <1>1, <1>2, <1>3

\* A conversion leaves the slot of a value alone that has one of its own.
LEMMA FrameKept ==
  ASSUME EmitInv, pc \in DOMAIN func.body
  PROVE  /\ DOMAIN FrameAt(pc) = 0 .. Cardinality(Vregs) - 1
         /\ \A v \in Vregs : OwnSlot(v) =>
              FrameAt(pc)[spill[v].slot] = stack[spill[v].slot]
<1>1. /\ DOMAIN StackAt(pc) = 0 .. Cardinality(Vregs) - 1
      /\ \A v \in Vregs : Spilled(v) /\ ~Evicted(v) =>
           StackAt(pc)[spill[v].slot] = stack[spill[v].slot]
  BY StackKept
<1>2. DOMAIN FrameAt(pc) = DOMAIN StackAt(pc)
  BY DEF FrameAt, Overwritten
<1>3. ASSUME NEW v \in Vregs, OwnSlot(v)
      PROVE  FrameAt(pc)[spill[v].slot] = stack[spill[v].slot]
  <2>1. Spilled(v) /\ ~Evicted(v)
    BY <1>3, Zenon DEF OwnSlot
  <2>2. spill[v].slot \in DOMAIN StackAt(pc)
    BY <1>1, <2>1, SlotRoom DEF EmitInv
  <2>3. func.body[pc].op = "float" => spill[v].slot # 0
    BY <1>3, Zenon DEF OwnSlot
  <2>4. FrameAt(pc)[spill[v].slot] = StackAt(pc)[spill[v].slot]
    BY <2>2, <2>3 DEF FrameAt, Overwritten
  <2> QED BY <1>1, <2>1, <2>4
<1> QED BY <1>1, <1>2, <1>3

\* Spill code and constants before an instruction write the scratch registers
\* only.
LEMMA RegsKept ==
  ASSUME EmitTypes, pc \in DOMAIN func.body
  PROVE  /\ DOMAIN Reading(pc) = Registers
         /\ \A r \in Registers \ ({Scratch} \cup Temps) : Reading(pc)[r] = regs[r]
         /\ Reading(pc)[Scratch] = RegsAt(pc)[Scratch]
<1>1. DOMAIN regs = Registers /\ Scratch \in Registers /\ AddrScratch \in Temps
  BY DEF EmitTypes, Registers, Temps
<1>2. func.body[pc].temps \subseteq Temps
  <2>1. func.body[pc] \in Instruction
    BY Body DEF EmitTypes
  <2> QED BY <2>1 DEF Instruction
<1>3. /\ DOMAIN RegsAt(pc) = Registers
      /\ \A r \in Registers \ ({Scratch} \cup Temps) : RegsAt(pc)[r] = regs[r]
  BY <1>1 DEF RegsAt, Addressed, Overwritten
<1>4. Scratch \notin Temps
  BY FunctionsAssumption
<1> QED BY <1>1, <1>2, <1>3, <1>4 DEF Reading, Overwritten

\* Where the register of a virtual register is, once all are allocated.
LEMMA Placed ==
  ASSUME EmitInv, pc > 0, NEW v \in Vregs, Defs(func, v) \cup Uses(func, v) # {}
  PROVE  /\ v \in DOMAIN iv
         /\ preg[v] \in Registers
         /\ Spilled(v) => preg[v] = Scratch
         /\ ~Spilled(v) => preg[v] \in Allocatable /\ preg[v] # Scratch
<1>1. v \in DOMAIN iv /\ todo = {}
  BY DEF EmitInv, EmitTypes, Compute
<1>2. IF Spilled(v) THEN preg[v] = Scratch ELSE preg[v] \in Allocatable
  BY <1>1 DEF EmitInv, SpillInv
<1> QED BY <1>1, <1>2, RegistersAssumption DEF Registers

\* A value that is live at an instruction shares no register of the pools with
\* the instruction's result.
LEMMA Apart ==
  ASSUME EmitInv, pc \in DOMAIN func.body, pc > 0,
         NEW v \in DOMAIN iv, NEW d \in Vregs, pc \in Defs(func, d), v # d,
         v \in Vregs, preg[v] \in Allocatable,
         iv[v].start <= Pos(pc), Pos(pc) <= iv[v].end
  PROVE  preg[d] # preg[v]
<1> SUFFICES ASSUME preg[d] = preg[v] PROVE FALSE
  OBVIOUS
<1>1. func \in Functions /\ iv = Compute(func) /\ pc \in Nat
  BY DEF EmitInv, EmitTypes
<1>2. d \in DOMAIN iv /\ iv[d].start <= Pos(pc) /\ Pos(pc) <= iv[d].end
  BY <1>1, Spans
<1>3. ~Overlaps(iv[v], iv[d])
  BY <1>2, Zenon DEF EmitInv, ScanInv, NoConflict
<1>4. /\ iv[d].start \in Nat /\ iv[d].end \in Nat
      /\ iv[v].start \in Nat /\ iv[v].end \in Nat
  BY <1>2, IntervalTypes DEF EmitInv, ScanInv, TypeOK
<1>5. Pos(pc) \in Int
  BY <1>1 DEF Pos
<1> QED BY <1>2, <1>3, <1>4, <1>5 DEF Overlaps

\* The emitted code of one instruction keeps every live value in its place.
LEMMA ExecuteInv ==
  ASSUME EmitInv, Execute
  PROVE  EmitInv'
<1> DEFINE d == func.body[pc].def
           R == Reading(pc)
           S == FrameAt(pc)
           slot == spill[d].slot
           after == IF d = None THEN R ELSE [R EXCEPT ![preg[d]] = pc]
<1>1. pc \in DOMAIN func.body /\ pc' = pc + 1 /\ UNCHANGED <<scanVars, func>>
  BY DEF Execute
<1>2. /\ func \in Functions /\ iv = Compute(func) /\ pc \in Nat
      /\ DOMAIN val = Vregs
  BY DEF EmitInv, EmitTypes
<1>3. /\ DOMAIN func.body = 1 .. Len(func.body) /\ Len(func.body) \in Nat
      /\ d \in Vregs \cup {None} /\ pc > 0
  <2>1. DOMAIN func.body = 1 .. Len(func.body) /\ Len(func.body) \in Nat
    BY <1>2, Body
  <2>2. func.body[pc] \in Instruction
    BY <1>1, <1>2, Body
  <2>3. d \in Vregs \cup {None}
    BY <2>2 DEF Instruction
  <2>4. pc > 0
    BY <1>1, <2>1
  <2> QED BY <2>1, <2>3, <2>4, Zenon
<1>4. /\ iv' = iv /\ todo' = todo /\ active' = active /\ preg' = preg
      /\ spill' = spill /\ slots' = slots /\ freeCaller' = freeCaller
      /\ freeCallee' = freeCallee /\ usedCallee' = usedCallee /\ func' = func
  BY <1>1, Zenon DEF scanVars
<1>5. ScanInv' /\ SpillInv'
  <2>1. ScanInv'
    BY <1>1, StepScanInv DEF EmitInv
  <2>2. SpillInv'
    BY <1>4 DEF EmitInv, SpillInv, Spilled
  <2> QED BY <2>1, <2>2
<1>6. /\ DOMAIN R = Registers
      /\ \A r \in Registers \ ({Scratch} \cup Temps) : R[r] = regs[r]
  BY <1>1, RegsKept, Zenon DEF EmitInv
<1>7. /\ DOMAIN S = 0 .. Cardinality(Vregs) - 1
      /\ \A v \in Vregs : OwnSlot(v) => S[spill[v].slot] = stack[spill[v].slot]
  BY <1>1, FrameKept, Zenon
<1>8. d # None => d \in Vregs /\ pc \in Defs(func, d)
  BY <1>1, <1>3, Zenon DEF Defs
<1>9. d # None => /\ d \in DOMAIN iv /\ preg[d] \in Registers
                  /\ Spilled(d) => preg[d] = Scratch
                  /\ ~Spilled(d) => preg[d] \in Allocatable /\ preg[d] # Scratch
  BY <1>3, <1>8, Placed, Zenon
<1>10. SpillsAfter(pc) => d # None /\ Spilled(d)
  BY Zenon DEF SpillsAfter
<1>11. d # None /\ Spilled(d) /\ ~Evicted(d) => SpillsAfter(pc)
  BY Zenon DEF SpillsAfter
<1>12. /\ DOMAIN val' = Vregs
       /\ \A v \in Vregs : val'[v] = IF v = d THEN pc ELSE val[v]
  <2>1. val' = IF d = None THEN val ELSE [val EXCEPT ![d] = pc]
    BY Zenon DEF Execute
  <2> HIDE DEF d
  <2> QED BY <1>2, <2>1, FunctionsAssumption
<1>13. /\ DOMAIN after = Registers
       /\ d # None => after[preg[d]] = pc
       /\ \A r \in Registers : d = None \/ r # preg[d] => after[r] = R[r]
  <2> HIDE DEF d, R
  <2> QED BY <1>6, <1>9
<1>14. /\ DOMAIN regs' = Registers
       /\ \A r \in Registers \ {AddrScratch} : regs'[r] = after[r]
  <2>1. regs' = IF SpillsAfter(pc) THEN Addressed(after) ELSE after
    BY Zenon DEF Execute
  <2> HIDE DEF after
  <2> QED BY <1>13, <2>1 DEF Addressed, Overwritten
<1>15. /\ DOMAIN stack' = DOMAIN S
       /\ \A s \in DOMAIN S :
            stack'[s] = IF SpillsAfter(pc) /\ s = slot THEN after[Scratch] ELSE S[s]
  <2>1. stack' = IF SpillsAfter(pc) THEN [S EXCEPT ![slot] = after[Scratch]] ELSE S
    BY Zenon DEF Execute
  <2> HIDE DEF S, after, slot
  <2> QED BY <2>1
<1> HIDE DEF R, S, d, after, slot
<1>16. EmitTypes'
  <2>1. todo' = {} /\ pc' \in Nat /\ func' \in Functions /\ iv' = Compute(func')
    BY <1>1, <1>2, <1>3, <1>4 DEF EmitInv, EmitTypes
  <2> QED BY <1>7, <1>12, <1>14, <1>15, <2>1, Zenon DEF EmitTypes
<1>17. /\ \A u : (OwnRegister(u)' <=> OwnRegister(u)) /\ (OwnSlot(u)' <=> OwnSlot(u))
       /\ Point = pc /\ Point' = pc + 1 /\ Moved = {} /\ Moved' = {}
  <2>1. \A u : (OwnRegister(u)' <=> OwnRegister(u)) /\ (OwnSlot(u)' <=> OwnSlot(u))
    BY <1>4, Zenon DEF OwnRegister, OwnSlot, Spilled, Evicted
  <2>2. Point = pc /\ Point' = pc + 1
    BY <1>1, <1>2, <1>3, <1>4 DEF Point
  <2>3. 1 .. pc - Len(func.body) - 1 = {} /\ 1 .. pc' - Len(func.body) - 1 = {}
    BY <1>1, <1>2, <1>3
  <2>4. Moved = {} /\ Moved' = {}
    BY <1>4, <2>3, Zenon DEF Moved
  <2> QED BY <2>1, <2>2, <2>4, Zenon
<1>18. \A u \in Vregs : Defined(u)' /\ u # d => Defined(u)
  <2> SUFFICES ASSUME NEW u \in Vregs, NEW k \in Defs(func, u), k < pc + 1, u # d
               PROVE  k < pc
    BY <1>1, <1>4, Zenon DEF Defined
  <2>1. k \in Nat
    BY <1>2, Spans
  <2>2. k # pc
    BY Zenon DEF Defs, d
  <2> QED BY <1>2, <2>1, <2>2
<1>19. ASSUME NEW v \in Vregs, Defined(v)', OwnRegister(v), Pos(pc + 1) <= iv[v].end
       PROVE  regs'[preg[v]] = val'[v]
  <2>1. Defs(func, v) # {}
    BY <1>4, <1>19, Zenon DEF Defined
  <2>2. /\ v \in DOMAIN iv /\ preg[v] \in Registers
        /\ preg[v] \in Allocatable /\ preg[v] # Scratch
    <3>1. Defs(func, v) \cup Uses(func, v) # {}
      BY <2>1
    <3> QED BY <1>3, <1>19, <3>1, Placed, Zenon DEF OwnRegister
  <2>3. preg[v] \notin Temps /\ AddrScratch \in Temps
    BY <1>19 DEF OwnRegister, Temps
  <2>4. regs'[preg[v]] = after[preg[v]]
    BY <1>14, <2>2, <2>3
  <2>5. CASE v = d
    <3>1. d # None
      BY <2>5, FunctionsAssumption
    <3> QED BY <1>12, <1>13, <2>4, <2>5, <3>1
  <2>6. CASE v # d
    <3>1. Defined(v)
      BY <1>18, <1>19, <2>6, Zenon
    <3>2. PICK j \in Defs(func, v) : j < pc
      BY <3>1, Zenon DEF Defined
    <3>3. j \in Nat \ {0} /\ iv[v].start <= Pos(j)
      BY <1>2, <3>2, Spans, SMTT(30)
    <3>4. iv[v].start \in Nat /\ iv[v].end \in Nat
      BY <2>2, IntervalTypes DEF EmitInv, ScanInv, TypeOK
    <3>5. Pos(pc) <= iv[v].end /\ iv[v].start <= Pos(pc) /\ Pos(pc) \in Int
      BY <1>2, <1>19, <3>2, <3>3, <3>4 DEF Pos
    <3>6. InRegister(v)
      BY <1>3, Zenon DEF EmitInv
    <3>7. regs[preg[v]] = val[v]
      BY <1>17, <1>19, <3>1, <3>5, <3>6, Zenon DEF InRegister
    <3>8. d # None => preg[d] # preg[v]
      BY <1>1, <1>3, <1>8, <2>2, <2>6, <3>5, Apart, Zenon
    <3>9. R[preg[v]] = regs[preg[v]]
      BY <1>6, <2>2, <2>3
    <3> QED BY <1>12, <1>13, <2>2, <2>4, <2>6, <3>7, <3>8, <3>9
  <2> QED BY <2>5, <2>6
<1>20. ASSUME NEW v \in Vregs, Defined(v)', OwnSlot(v)
       PROVE  stack'[spill[v].slot] = val'[v]
  <2>1. Spilled(v) /\ ~Evicted(v)
    BY <1>20, Zenon DEF OwnSlot
  <2>2. spill[v].slot \in DOMAIN S
    BY <1>7, <2>1, SlotRoom DEF EmitInv
  <2>3. CASE v = d
    <3>1. d # None /\ preg[d] = Scratch
      BY <1>9, <2>3, <2>1, FunctionsAssumption
    <3>2. SpillsAfter(pc) /\ slot = spill[v].slot
      BY <1>11, <2>3, <2>1, <3>1 DEF slot
    <3> QED BY <1>12, <1>13, <1>15, <2>2, <2>3, <3>1, <3>2
  <2>4. CASE v # d
    <3>1. Defined(v)
      BY <1>18, <1>20, <2>4, Zenon
    <3>2. InSlot(v)
      BY <1>3, Zenon DEF EmitInv
    <3>3. stack[spill[v].slot] = val[v]
      BY <1>20, <3>1, <3>2, Zenon DEF InSlot
    <3>4. SpillsAfter(pc) => slot # spill[v].slot
      BY <1>8, <1>10, <2>4, <2>1, Zenon DEF EmitInv, SpillInv, slot
    <3> QED BY <1>7, <1>12, <1>15, <1>20, <2>2, <2>4, <3>3, <3>4
  <2> QED BY <2>3, <2>4
<1>21. \A v \in Vregs : InRegister(v)' /\ InSlot(v)'
  <2> SUFFICES ASSUME NEW v \in Vregs PROVE InRegister(v)' /\ InSlot(v)'
    OBVIOUS
  <2>1. InRegister(v)'
    BY <1>4, <1>17, <1>19, Zenon DEF InRegister
  <2>2. InSlot(v)'
    BY <1>4, <1>17, <1>20, Zenon DEF InSlot
  <2> QED BY <2>1, <2>2
<1> QED BY <1>5, <1>16, <1>21, Zenon DEF EmitInv

\* A move of the terminator writes the register it moves to and, for a
\* constant, a scratch register.
LEMMA ReturnInv ==
  ASSUME EmitInv, Return
  PROVE  EmitInv'
<1> DEFINE i == pc - Len(func.body)
           o == func.ret[i]
           file == Overwritten(regs, Temps \cap {o})
<1>1. /\ i \in Returned /\ pc' = pc + 1 /\ UNCHANGED <<scanVars, func, stack, val>>
      /\ regs' = [file EXCEPT ![RetRegs[i]] = file[Source(o)]]
  BY Zenon DEF Return
<1>2. func \in Functions /\ pc \in Nat /\ DOMAIN regs = Registers
  BY DEF EmitInv, EmitTypes
<1>3. Len(func.body) \in Nat /\ i \in Nat \ {0} /\ pc > 0
  <2>1. DOMAIN func.ret = 1 .. Len(func.ret) /\ Len(func.ret) \in Nat /\ Len(func.body) \in Nat
    BY <1>2, Body
  <2>2. i \in 1 .. Len(func.ret)
    BY <1>1, <2>1 DEF Returned
  <2> QED BY <1>2, <2>1, <2>2
<1>4. /\ iv' = iv /\ todo' = todo /\ preg' = preg /\ spill' = spill /\ slots' = slots
      /\ func' = func /\ stack' = stack /\ val' = val
  BY <1>1, Zenon DEF scanVars
<1>5. ScanInv' /\ SpillInv'
  <2>1. ScanInv'
    BY <1>1, StepScanInv DEF EmitInv
  <2>2. SpillInv'
    BY <1>4 DEF EmitInv, SpillInv, Spilled
  <2> QED BY <2>1, <2>2
<1>6. /\ DOMAIN regs' = Registers
      /\ \A r \in Registers \ Temps : r # RetRegs[i] => regs'[r] = regs[r]
  <2>1. /\ DOMAIN file = Registers
        /\ \A r \in Registers \ Temps : file[r] = regs[r]
    BY <1>2 DEF Overwritten
  <2> HIDE DEF file, i
  <2> QED BY <1>1, <2>1
<1>7. EmitTypes'
  <2>1. todo' = {} /\ pc' \in Nat
    BY <1>1, <1>2, <1>3, <1>4 DEF EmitInv, EmitTypes
  <2> QED BY <1>4, <1>6, <2>1, Zenon DEF EmitInv, EmitTypes
<1>8. /\ \A u : (OwnRegister(u)' <=> OwnRegister(u)) /\ (OwnSlot(u)' <=> OwnSlot(u))
      /\ Point' = Point /\ RetRegs[i] \in Moved' /\ Moved \subseteq Moved'
  <2>1. \A u : (OwnRegister(u)' <=> OwnRegister(u)) /\ (OwnSlot(u)' <=> OwnSlot(u))
    BY <1>4, Zenon DEF OwnRegister, OwnSlot, Spilled, Evicted
  <2>2. Point' = Point
    BY <1>1, <1>2, <1>3, <1>4 DEF Point
  <2>3. /\ i \in 1 .. pc' - Len(func.body) - 1
        /\ 1 .. pc - Len(func.body) - 1 \subseteq 1 .. pc' - Len(func.body) - 1
    BY <1>1, <1>2, <1>3
  <2> HIDE DEF i
  <2>4. RetRegs[i] \in Moved' /\ Moved \subseteq Moved'
    BY <1>4, <2>3, Zenon DEF Moved
  <2> QED BY <2>1, <2>2, <2>4, Zenon
<1>9. \A u \in Vregs : Defined(u)' => Defined(u)
  <2> SUFFICES ASSUME NEW u \in Vregs, NEW k \in Defs(func, u) PROVE k < pc
    BY <1>4, Zenon DEF Defined
  <2>1. k \in 1 .. Len(func.body)
    BY <1>2, Body DEF Defs
  <2> QED BY <1>2, <1>3, <2>1
<1>10. ASSUME NEW v \in Vregs PROVE InRegister(v)' /\ InSlot(v)'
  <2>1. InRegister(v) /\ InSlot(v)
    BY <1>3, Zenon DEF EmitInv
  <2>2. InSlot(v)'
    BY <1>4, <1>8, <1>9, <2>1, Zenon DEF InSlot
  <2>3. ASSUME Defined(v)', OwnRegister(v), preg[v] \notin Moved', Pos(Point) <= iv[v].end
        PROVE  regs'[preg[v]] = val[v]
    <3>1. Defined(v) /\ preg[v] \notin Moved /\ preg[v] # RetRegs[i]
      BY <1>8, <1>9, <2>3, Zenon
    <3>2. regs[preg[v]] = val[v]
      BY <2>1, <2>3, <3>1, Zenon DEF InRegister
    <3>3. preg[v] \in Registers \ Temps
      <4>1. Defs(func, v) \cup Uses(func, v) # {}
        BY <3>1, Zenon DEF Defined
      <4>2. preg[v] \in Registers
        BY <1>3, <4>1, Placed, Zenon
      <4> QED BY <2>3, <4>2 DEF OwnRegister
    <3> QED BY <1>6, <3>1, <3>2, <3>3, Zenon
  <2>4. InRegister(v)'
    BY <1>4, <1>8, <2>3, Zenon DEF InRegister
  <2> QED BY <2>2, <2>4
<1> QED BY <1>5, <1>7, <1>10, Zenon DEF EmitInv

LEMMA InitEmitInv == Init => EmitInv
<1> SUFFICES ASSUME Init PROVE EmitInv
  OBVIOUS
<1>1. ScanInit /\ pc = 0
  BY DEF Init, EmitInit
<1>2. EmitTypes
  BY DEF Init, EmitInit, EmitTypes
<1> QED BY <1>1, <1>2, InitScanInv, InitSpillInv DEF EmitInv

LEMMA StepEmitInv == EmitInv /\ [Next]_vars => EmitInv'
<1> SUFFICES ASSUME EmitInv, [Next]_vars PROVE EmitInv'
  OBVIOUS
<1>1. ASSUME NEW v \in Vregs, Allocate(v) PROVE EmitInv'
  <2>1. /\ AllocateInterval(v) /\ func' = func /\ pc' = pc
        /\ regs' = regs /\ stack' = stack /\ val' = val
    BY <1>1 DEF Allocate, emitVars
  <2>2. iv' = iv /\ v \in todo
    BY <2>1 DEF AllocateInterval, IsNext
  <2>3. ScanInv'
    BY <2>1, StepScanInv DEF ScanNext, EmitInv
  <2>4. SpillInv'
    BY <2>1, StepSpillInv DEF EmitInv
  <2>5. EmitTypes' /\ ~(pc' > 0)
    BY <2>1, <2>2, SMTT(30) DEF EmitInv, EmitTypes
  <2> QED BY <2>3, <2>4, <2>5 DEF EmitInv
<1>2. CASE Start
  <2>1. ScanInv'
    BY <1>2, StepScanInv, SMTT(30) DEF Start, EmitInv
  <2>2. SpillInv'
    BY <1>2 DEF Start, scanVars, EmitInv, SpillInv, Spilled
  <2>3. EmitTypes'
    BY <1>2, SMTT(30) DEF Start, scanVars, EmitInv, EmitTypes
  <2>4. \A v \in Vregs : ~Defined(v)'
    <3> SUFFICES ASSUME NEW v \in Vregs, NEW k \in Defs(func, v), k < 1 PROVE FALSE
      BY <1>2 DEF Start, Defined
    <3>1. k \in Nat \ {0}
      BY Spans DEF EmitInv, EmitTypes
    <3> QED BY <3>1
  <2> QED BY <2>1, <2>2, <2>3, <2>4 DEF EmitInv, InRegister, InSlot
<1>3. CASE Execute
  BY <1>3, ExecuteInv
<1>4. CASE Return
  BY <1>4, ReturnInv
<1>5. CASE UNCHANGED vars
  <2>1. ScanInv'
    BY <1>5, StepScanInv DEF vars, EmitInv
  <2>2. SpillInv' /\ EmitTypes' /\ (pc' > 0 => \A v \in Vregs : InRegister(v)' /\ InSlot(v)')
    BY <1>5, ZenonT(40) DEF vars, scanVars, emitVars, EmitInv, SpillInv, EmitTypes, InRegister,
                InSlot, Defined, OwnRegister, OwnSlot, Point, Moved, Spilled, Evicted
  <2> QED BY <2>1, <2>2 DEF EmitInv
<1> QED BY <1>1, <1>2, <1>3, <1>4, <1>5 DEF Next

\* The places of the values say what the next instruction reads, the first
\* time and, if it is a remainder, again after its division.
LEMMA InstructionReads ==
  ASSUME EmitInv, pc \in DOMAIN func.body, NEW u \in func.body[pc].uses,
         NEW file \in Reads(pc), ~Divided(u, pc)
  PROVE  /\ OwnRegister(u) => file[preg[u]] = val[u]
         /\ OwnSlot(u) /\ Reloads(pc) = {u} => file[Scratch] = val[u]
<1> DEFINE d == func.body[pc].def
<1>1. /\ func \in Functions /\ iv = Compute(func) /\ pc \in Nat
      /\ DOMAIN regs = Registers /\ EmitTypes
  BY DEF EmitInv, EmitTypes
<1>2. Modelled(func) /\ func.body[pc] \in Instruction
  BY <1>1, Body, FunctionsAssumption
<1>3. Len(func.body) \in Nat /\ pc \in 1 .. Len(func.body) /\ pc > 0
  BY <1>1, Body
<1>4. u \in Vregs /\ pc \in Uses(func, u)
  BY <1>2 DEF Uses, Instruction
<1>5. Defined(u)
  BY <1>2, <1>4, Zenon DEF Modelled, Defined
<1>6. InRegister(u) /\ InSlot(u)
  BY <1>3, <1>4, Zenon DEF EmitInv
<1>7. Point = pc /\ Moved = {}
  <2>1. 1 .. pc - Len(func.body) - 1 = {}
    BY <1>3
  <2> QED BY <1>3, <2>1 DEF Point, Moved
<1>8. u \in DOMAIN iv /\ iv[u].start <= Pos(pc) /\ Pos(pc) <= iv[u].end
  BY <1>1, <1>4, Spans, SMTT(30)
<1>9. /\ preg[u] \in Registers /\ Scratch \in Registers
      /\ ~Spilled(u) => preg[u] \in Allocatable /\ preg[u] # Scratch
  BY <1>3, <1>4, Placed DEF Registers
<1>10. /\ DOMAIN Reading(pc) = Registers
       /\ \A r \in Registers \ ({Scratch} \cup Temps) : Reading(pc)[r] = regs[r]
       /\ Reading(pc)[Scratch] = RegsAt(pc)[Scratch]
  BY <1>1, RegsKept, Zenon
<1>11. \A r \in Registers :
         (func.body[pc].op = "remainder" => r # preg[d]) => file[r] = Reading(pc)[r]
  BY <1>10 DEF Reads, Overwritten
<1>12. func.body[pc].op = "remainder" => d \in Vregs /\ pc \in Defs(func, d) /\ u # d
  <2> SUFFICES ASSUME func.body[pc].op = "remainder"
               PROVE  d \in Vregs /\ pc \in Defs(func, d) /\ u # d
    OBVIOUS
  <2>1. d # None
    BY <1>2, Zenon DEF Modelled
  <2>2. d \in Vregs
    BY <1>2, <2>1 DEF Instruction
  <2> QED BY <2>2, Zenon DEF Defs, Divided
<1>13. ASSUME OwnRegister(u) PROVE file[preg[u]] = val[u]
  <2>1. preg[u] \in Registers \ ({Scratch} \cup Temps) /\ preg[u] \in Allocatable
    BY <1>9, <1>13 DEF OwnRegister
  <2>2. func.body[pc].op = "remainder" => preg[d] # preg[u]
    BY <1>3, <1>4, <1>8, <1>12, <2>1, Apart, Zenon
  <2>3. regs[preg[u]] = val[u]
    <3>1. preg[u] \notin Moved /\ Pos(Point) <= iv[u].end
      BY <1>7, <1>8
    <3> QED BY <1>5, <1>6, <1>13, <3>1, Zenon DEF InRegister
  <2> QED BY <1>10, <1>11, <2>1, <2>2, <2>3
<1>14. ASSUME OwnSlot(u), Reloads(pc) = {u} PROVE file[Scratch] = val[u]
  <2>1. Spilled(u) /\ ~Evicted(u)
    BY <1>14, Zenon DEF OwnSlot
  <2>2. spill[u].slot \in Int
    BY <1>4 DEF EmitInv, ScanInv, TypeOK
  <2>3. LastReload(pc) = u
    BY <1>14, <2>2 DEF LastReload
  <2>4. RegsAt(pc)[Scratch] = StackAt(pc)[spill[u].slot]
    BY <1>1, <1>9, <1>14, <2>3 DEF RegsAt, Addressed, Overwritten
  <2>5. StackAt(pc)[spill[u].slot] = stack[spill[u].slot]
    BY <1>4, <2>1, StackKept
  <2>6. func.body[pc].op = "remainder" => preg[d] # Scratch
    <3> SUFFICES ASSUME func.body[pc].op = "remainder" PROVE preg[d] # Scratch
      OBVIOUS
    <3>1. ~Spilled(d)
      BY <2>1, Zenon DEF Divided
    <3>2. Defs(func, d) \cup Uses(func, d) # {}
      BY <1>12
    <3> QED BY <1>3, <1>12, <3>1, <3>2, Placed, Zenon
  <2>7. stack[spill[u].slot] = val[u]
    BY <1>5, <1>6, <1>14, Zenon DEF InSlot
  <2> QED BY <1>9, <1>10, <1>11, <2>4, <2>5, <2>6, <2>7
<1> QED BY <1>13, <1>14

\* They say as well what a move of the terminator reads.
LEMMA MoveReads ==
  ASSUME EmitInv, NEW i, i = pc - Len(func.body), i \in Returned,
         NEW u \in Vregs, u = func.ret[i], OwnRegister(u),
         \A j \in 1 .. i - 1 : RetRegs[j] # preg[u]
  PROVE  regs[preg[u]] = val[u]
<1>1. func \in Functions /\ iv = Compute(func) /\ pc \in Nat
  BY DEF EmitInv, EmitTypes
<1>2. i \in DOMAIN func.ret /\ i \in Nat \ {0} /\ Len(func.body) \in Nat /\ pc > 0
  <2>1. DOMAIN func.ret = 1 .. Len(func.ret) /\ Len(func.ret) \in Nat /\ Len(func.body) \in Nat
    BY <1>1, Body
  <2>2. i \in DOMAIN func.ret
    BY DEF Returned
  <2> QED BY <1>1, <2>1, <2>2
<1>3. Len(func.body) + 1 \in Uses(func, u)
  BY <1>2 DEF Uses, ReturnUses
<1>4. PICK k \in Defs(func, u) : k < Len(func.body) + 1
  BY <1>1, <1>3, FunctionsAssumption, Zenon DEF Modelled
<1>5. k < pc
  <2>1. k \in Nat
    BY <1>1, <1>4, Spans
  <2> QED BY <1>1, <1>2, <1>4, <2>1
<1>6. Point = Len(func.body) + 1 /\ preg[u] \notin Moved
  BY <1>1, <1>2 DEF Point, Moved
<1>7. Pos(Point) <= iv[u].end
  BY <1>1, <1>3, <1>6, Spans, SMTT(30)
<1>8. InRegister(u)
  BY <1>2, Zenon DEF EmitInv
<1> QED BY <1>4, <1>5, <1>6, <1>7, <1>8, Zenon DEF InRegister, Defined

LEMMA OperandsFollow == EmitInv => OperandsRead
<1> SUFFICES ASSUME EmitInv PROVE OperandsRead
  OBVIOUS
<1>1. ASSUME pc \in DOMAIN func.body, NEW u \in func.body[pc].uses,
             NEW file \in Reads(pc), ~Divided(u, pc)
      PROVE  /\ OwnRegister(u) => file[preg[u]] = val[u]
             /\ OwnSlot(u) /\ Reloads(pc) = {u} => file[Scratch] = val[u]
  BY <1>1, InstructionReads, Zenon
<1>2. ASSUME NEW i, i = pc - Len(func.body), i \in Returned,
             NEW u \in Vregs \cap {func.ret[i]}, OwnRegister(u),
             \A j \in 1 .. i - 1 : RetRegs[j] # preg[u]
      PROVE  regs[preg[u]] = val[u]
  <2>1. u \in Vregs /\ u = func.ret[i]
    BY <1>2
  <2> QED BY <1>2, <2>1, MoveReads, Zenon
<1> QED BY <1>1, <1>2, Zenon DEF OperandsRead

\* The code emit_function_regalloc lays down reads the values the program
\* names, for any function without a use before its definition, any set of
\* registers and whichever intervals are spilled or evicted: an operand in a
\* register of its own, at each of the reads of a remainder too; one spilled
\* at its definition that is the only reload of the instruction; and a return
\* value in a register of its own that no earlier return value was moved to.
THEOREM OperandsCorrect == Spec => []OperandsRead
<1>1. Init => EmitInv
  BY InitEmitInv
<1>2. EmitInv /\ [Next]_vars => EmitInv'
  BY StepEmitInv
<1>3. EmitInv => OperandsRead
  BY OperandsFollow
<1> QED BY <1>1, <1>2, <1>3, PTL DEF Spec

=============================================================================
