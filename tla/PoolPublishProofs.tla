------------------------ MODULE PoolPublishProofs ------------------------
(***************************************************************************)
(* Proofs about PoolPublish, for any number of publishers, any pool size   *)
(* and any bounds: what the two atomic steps of atomicCounter.next, with   *)
(* any number of calls between them, do to the counter and to the load.    *)
(***************************************************************************)
EXTENDS PoolPublish, FiniteSetTheorems, TLAPS

(* The calls between their load and their add.                             *)
Loading == {p \in Ops : loaded[p] # None}

(* The numbers below m that select client c if int does not overflow.      *)
Class(c, m) == {n \in 0..(m - 1) : n % PoolSize = c - 1}

(* The numbers given out so far that selected client c.                    *)
TakenBy(c) == {n \in taken : n % PoolSize = c - 1}

(* Every publication was counted once: by a number of its own, or as a     *)
(* repeat; and no number was given out that the counter has not reached.   *)
CountOK ==
    /\ pc \in [Procs -> Labels]
    /\ rrCounter \in Nat /\ repeats \in Nat
    /\ loaded \in [Ops -> Nat \cup {None}]
    /\ taken \in SUBSET Nat /\ IsFiniteSet(taken)
    /\ IsFiniteSet(Loading)
    /\ \A p \in Loading : pc[p] = "in"
    /\ rrCounter + Cardinality(Loading) = Cardinality(taken) + repeats
    /\ \A n \in taken : n < rrCounter \/ (n = rrCounter /\ Loading # {})

(* A client got the numbers of its residue class, and some of the repeats. *)
ServedOK ==
    /\ served \in [1..PoolSize -> Nat]
    /\ \A c \in 1..PoolSize :
        /\ Cardinality(TakenBy(c)) <= served[c]
        /\ served[c] <= Cardinality(TakenBy(c)) + repeats

USE OptionsAssumption, BoundsAssumption, ProcsAssumption, PoolAssumption
    DEF OptionsAssumption, BoundsAssumption, ProcsAssumption, PoolAssumption

USE DEF vars, clientVars, lockVars, connVars, flags, Goto, counterVars, poolVars

(* The steps of the client that leave the counter alone do not move a      *)
(* publisher either.                                                       *)
LEMMA OthersKeep ==
  ASSUME pc \in [Procs -> Labels], OthersNext
  PROVE  /\ pc' \in [Procs -> Labels]
         /\ \A p \in Ops : pc'[p] = pc[p]
  <1>0. /\ Ops \subseteq Procs /\ Stoppers \subseteq Procs /\ Watcher \in Procs
        /\ \A p \in Ops : p # Watcher /\ p \notin Stoppers
    BY DEF Procs
  <1>1. ASSUME NEW s \in Stoppers, StopNext(s)
        PROVE  pc' = pc \/ \E l \in Labels : pc' = [pc EXCEPT ![s] = l]
    BY <1>1 DEF StopNext, StopCall, StopBegin, StopUninitialized, StopDisconnect,
         StopUnlock, StopCancel, StopAnnounce, StopClear, Labels
  <1>2. CASE ConnectBegin \/ ConnectOK \/ ConnectFailed
    BY <1>0, <1>2 DEF ConnectBegin, ConnectOK, ConnectFailed, Labels, WatcherLabels
  <1>3. ASSUME NEW c \in Conns, ConnStep(c) PROVE pc' = pc
    BY <1>3 DEF ConnStep
  <1>. QED
    BY <1>0, <1>1, <1>2, <1>3 DEF OthersNext

(* No publication is lost or counted twice.                                *)
LEMMA CountInvariance == PoolSpec => []CountOK
  <1>1. PoolInit => CountOK
    <2>. SUFFICES ASSUME PoolInit PROVE CountOK
      OBVIOUS
    <2>1. Loading = {}
      BY DEF PoolInit, Loading
    <2>2. pc \in [Procs -> Labels]
      BY DEF PoolInit, Init, Labels, WatcherLabels
    <2>. QED
      BY <2>1, <2>2, FS_EmptySet DEF PoolInit, CountOK
  <1>2. CountOK /\ [PoolNext]_poolVars => CountOK'
    <2>. SUFFICES ASSUME CountOK, [PoolNext]_poolVars PROVE CountOK'
      OBVIOUS
    <2>0. /\ Cardinality(Loading) \in Nat /\ Cardinality(taken) \in Nat
          /\ Ops \subseteq Procs
      BY FS_CardinalityType DEF CountOK, Procs
    <2>1. ASSUME NEW p \in Ops, PublishBegin(p) PROVE CountOK'
      <3>1. p \notin Loading /\ Loading' = Loading \cup {p}
        BY <2>1 DEF PublishBegin, CountOK, Loading
      <3>2. IsFiniteSet(Loading') /\ Cardinality(Loading') = Cardinality(Loading) + 1
        BY <3>1, FS_AddElement DEF CountOK
      <3>3. /\ IsFiniteSet(taken') /\ taken' \in SUBSET Nat
            /\ Cardinality(taken') =
                 IF rrCounter \in taken THEN Cardinality(taken) ELSE Cardinality(taken) + 1
        BY <2>1, FS_AddElement DEF PublishBegin, CountOK
      <3>4. /\ pc' \in [Procs -> Labels] /\ \A q \in Loading' : pc'[q] = "in"
        BY <2>0, <2>1, <3>1 DEF PublishBegin, CountOK, Labels, Loading
      <3>5. /\ rrCounter' = rrCounter /\ loaded' \in [Ops -> Nat \cup {None}]
            /\ repeats' = IF rrCounter \in taken THEN repeats + 1 ELSE repeats
            /\ taken' = taken \cup {rrCounter}
        BY <2>1 DEF PublishBegin, CountOK
      <3>6. /\ repeats' \in Nat
            /\ rrCounter' + Cardinality(Loading') = Cardinality(taken') + repeats'
        BY <2>0, <3>2, <3>3, <3>5 DEF CountOK
      <3>7. \A n \in taken' : n < rrCounter' \/ (n = rrCounter' /\ Loading' # {})
        BY <3>1, <3>5 DEF CountOK
      <3>. QED
        BY <3>2, <3>3, <3>4, <3>5, <3>6, <3>7 DEF CountOK
    <2>2. ASSUME NEW p \in Ops, PublishAdd(p) PROVE CountOK'
      <3>1. p \in Loading /\ Loading' = Loading \ {p}
        BY <2>2 DEF PublishAdd, CountOK, Loading
      <3>2. IsFiniteSet(Loading') /\ Cardinality(Loading') = Cardinality(Loading) - 1
        BY <3>1, FS_RemoveElement DEF CountOK
      <3>3. /\ rrCounter' = rrCounter + 1 /\ UNCHANGED <<pc, taken, repeats>>
            /\ loaded' \in [Ops -> Nat \cup {None}]
        BY <2>2 DEF PublishAdd, CounterAfter, CountOK
      <3>4. \A n \in taken' : n < rrCounter'
        BY <3>3 DEF CountOK
      <3>. QED
        BY <2>0, <3>1, <3>2, <3>3, <3>4 DEF CountOK
    <2>3. ASSUME NEW p \in Ops, PublishEnd(p) PROVE CountOK'
      <3>1. p \notin Loading /\ UNCHANGED counterVars /\ Loading' = Loading
        BY <2>3 DEF PublishEnd, Loading
      <3>2. pc' \in [Procs -> Labels] /\ \A q \in Loading : pc'[q] = "in"
        BY <2>0, <2>3, <3>1 DEF PublishEnd, OpEnd, CountOK, Labels, WatcherLabels, Loading
      <3>. QED
        BY <3>1, <3>2 DEF CountOK
    <2>4. CASE OthersNext
      <3>1. UNCHANGED counterVars /\ Loading' = Loading
        BY <2>4 DEF OthersNext, Loading
      <3>2. pc' \in [Procs -> Labels] /\ \A q \in Loading : pc'[q] = "in"
        BY <2>4, OthersKeep DEF CountOK, Loading
      <3>. QED
        BY <3>1, <3>2 DEF CountOK
    <2>5. CASE UNCHANGED poolVars \/ \E p \in Ops : PublishUninitialized(p)
      BY <2>5 DEF CountOK, Loading, PublishUninitialized, OpUninitialized
    <2>. QED
      BY <2>1, <2>2, <2>3, <2>4, <2>5 DEF PoolNext, PublishNext
  <1>. QED
    BY <1>1, <1>2, PTL DEF PoolSpec

(* Concurrent calls may repeat numbers, but once they are over the counter *)
(* tells how many publications there were.                                 *)
THEOREM NoIncrementLostAlways == PoolSpec => []NoIncrementLost
  <1>1. CountOK => NoIncrementLost
    <2>. SUFFICES ASSUME CountOK, \A p \in Ops : loaded[p] = None
                  PROVE  rrCounter = Cardinality(taken) + repeats
      BY DEF NoIncrementLost
    <2>1. Loading = {}
      BY DEF Loading
    <2>. QED
      BY <2>1, FS_EmptySet DEF CountOK
  <1>. QED
    BY <1>1, CountInvariance, PTL

(* Of the numbers below m two clients get equally many, but for one.       *)
LEMMA ClassesAreEven ==
  ASSUME NEW m \in Nat, NEW c \in 1..PoolSize, NEW d \in 1..PoolSize
  PROVE  /\ IsFiniteSet(Class(c, m)) /\ IsFiniteSet(Class(d, m))
         /\ Cardinality(Class(c, m)) <= Cardinality(Class(d, m)) + 1
  <1>. DEFINE P == PoolSize
              k == IF d <= c THEN d - c ELSE d - c - P
              S == Class(c, m) \ {c - 1}
              f == [n \in S |-> n + k]
  <1>0. P \in Nat \ {0} /\ k \in Int
    OBVIOUS
  <1>1. IsFiniteSet(Class(c, m)) /\ IsFiniteSet(Class(d, m))
    <2>1. IsFiniteSet(0..(m - 1))
      BY FS_Interval
    <2>. QED
      BY <2>1, FS_Subset DEF Class
  <1>2. ASSUME NEW n \in S PROVE n + k \in Class(d, m)
    <2>1. n \in Nat /\ n < m /\ n % P = c - 1 /\ n # c - 1
      BY <1>2 DEF Class
    <2>2. PICK q \in Nat : n = P * q + (c - 1)
      <3>1. n \div P \in Nat /\ n = P * (n \div P) + (n % P)
        BY <1>0, <2>1
      <3>. QED
        BY <2>1, <3>1
    <2>3. q >= 1 /\ q - 1 \in Nat
      <3>1. q = 0 => n = c - 1
        BY <1>0, <2>2
      <3>. QED
        BY <2>1, <2>2, <3>1
    <2>4. CASE d <= c
      <3>1. n + k = P * q + (d - 1) /\ d - 1 \in 0..(P - 1)
        BY <1>0, <2>2, <2>4
      <3>2. (P * q + (d - 1)) % P = d - 1
        BY <1>0, <2>2, <3>1
      <3>3. n + k \in 0..(m - 1)
        <4>1. P * q \in Nat
          BY <1>0, <2>2
        <4>. QED
          BY <2>1, <2>4, <3>1, <4>1
      <3>. QED
        BY <3>1, <3>2, <3>3 DEF Class
    <2>5. CASE ~(d <= c)
      <3>1. P * q = P * (q - 1) + P /\ P * (q - 1) \in Nat
        BY <1>0, <2>3
      <3>2. n + k = P * (q - 1) + (d - 1) /\ d - 1 \in 0..(P - 1)
        BY <1>0, <2>2, <2>5, <3>1
      <3>3. (P * (q - 1) + (d - 1)) % P = d - 1
        BY <1>0, <2>3, <3>2
      <3>4. n + k \in 0..(m - 1)
        BY <1>0, <2>1, <2>5, <3>1, <3>2
      <3>. QED
        BY <3>2, <3>3, <3>4 DEF Class
    <2>. QED
      BY <2>4, <2>5
  <1>3. f \in Injection(S, Class(d, m))
    <2>1. f \in [S -> Class(d, m)]
      BY <1>2
    <2>2. \A x, y \in S : f[x] = f[y] => x = y
      BY <1>0 DEF Class
    <2>. QED
      BY <2>1, <2>2 DEF Injection, IsInjective
  <1>4. Cardinality(S) <= Cardinality(Class(d, m))
    BY <1>1, <1>3, FS_Injection
  <1>5. Cardinality(S) >= Cardinality(Class(c, m)) - 1
    <2>1. Cardinality(S) = IF c - 1 \in Class(c, m) THEN Cardinality(Class(c, m)) - 1
                                                    ELSE Cardinality(Class(c, m))
      BY <1>1, FS_RemoveElement
    <2>. QED
      BY <1>1, <2>1, FS_CardinalityType
  <1>6. /\ Cardinality(S) \in Nat /\ Cardinality(Class(c, m)) \in Nat
        /\ Cardinality(Class(d, m)) \in Nat
    BY <1>1, FS_CardinalityType, FS_RemoveElement
  <1>. QED
    BY <1>1, <1>4, <1>5, <1>6

(* What the clients got, as long as the counter fits into int.             *)
LEMMA ServedInvariance ==
  ASSUME \A n \in 0..MaxPublishes : ToInt(n) = n
  PROVE  PoolSpec => [](CountOK /\ ServedOK)
  <1>1. PoolInit => ServedOK
    <2>. SUFFICES ASSUME PoolInit PROVE ServedOK
      OBVIOUS
    <2>1. \A c \in 1..PoolSize : TakenBy(c) = {}
      BY DEF PoolInit, TakenBy
    <2>2. Cardinality({}) = 0
      BY FS_EmptySet
    <2>3. served = [c \in 1..PoolSize |-> 0] /\ repeats = 0
      BY DEF PoolInit
    <2>4. \A c \in 1..PoolSize : Cardinality(TakenBy(c)) = 0
      BY <2>1, <2>2
    <2>. QED
      BY <2>3, <2>4 DEF ServedOK
  <1>2. CountOK /\ ServedOK /\ [PoolNext]_poolVars => ServedOK'
    <2>. SUFFICES ASSUME CountOK, ServedOK, [PoolNext]_poolVars PROVE ServedOK'
      OBVIOUS
    <2>1. ASSUME NEW p \in Ops, PublishBegin(p) PROVE ServedOK'
      <3>1. rrCounter \in 0..MaxPublishes /\ ClientIndex(rrCounter) = rrCounter % PoolSize
        <4>1. Cardinality(Loading) \in Nat /\ Published < MaxPublishes
              /\ Published = rrCounter + Cardinality(Loading)
          BY <2>1, FS_CardinalityType DEF PublishBegin, Published, CountOK, Loading
        <4>2. rrCounter \in 0..MaxPublishes
          BY <4>1 DEF CountOK
        <4>3. ToInt(rrCounter) = rrCounter
          BY <4>2
        <4>. QED
          BY <4>2, <4>3 DEF ClientIndex, Remainder
      <3>2. /\ taken' = taken \cup {rrCounter}
            /\ repeats' = IF rrCounter \in taken THEN repeats + 1 ELSE repeats
            /\ served' = [c \in 1..PoolSize |->
                           IF c = (rrCounter % PoolSize) + 1 THEN served[c] + 1 ELSE served[c]]
        BY <2>1, <3>1 DEF PublishBegin
      <3>3. ASSUME NEW c \in 1..PoolSize
            PROVE  /\ Cardinality(TakenBy(c))' <= served'[c]
                   /\ served'[c] <= Cardinality(TakenBy(c))' + repeats'
        <4>1. /\ rrCounter \in Nat /\ repeats \in Nat /\ served[c] \in Nat
              /\ Cardinality(TakenBy(c)) <= served[c]
              /\ served[c] <= Cardinality(TakenBy(c)) + repeats
          BY DEF CountOK, ServedOK
        <4>2. IsFiniteSet(TakenBy(c)) /\ Cardinality(TakenBy(c)) \in Nat
          BY FS_Subset, FS_CardinalityType DEF CountOK, TakenBy
        <4>3. rrCounter % PoolSize \in Nat
          BY <4>1
        <4>4. CASE rrCounter % PoolSize = c - 1
          <5>1. TakenBy(c)' = TakenBy(c) \cup {rrCounter}
                /\ (rrCounter \in TakenBy(c) <=> rrCounter \in taken)
            BY <3>2, <4>4 DEF TakenBy
          <5>2. Cardinality(TakenBy(c)') =
                  IF rrCounter \in taken THEN Cardinality(TakenBy(c))
                                         ELSE Cardinality(TakenBy(c)) + 1
            BY <4>2, <5>1, FS_AddElement
          <5>3. served'[c] = served[c] + 1
            BY <3>2, <4>3, <4>4
          <5>. QED
            BY <3>2, <4>1, <4>2, <5>2, <5>3
        <4>5. CASE rrCounter % PoolSize # c - 1
          <5>1. TakenBy(c)' = TakenBy(c)
            BY <3>2, <4>5 DEF TakenBy
          <5>2. served'[c] = served[c]
            BY <3>2, <4>3, <4>5
          <5>. QED
            BY <3>2, <4>1, <4>2, <5>1, <5>2
        <4>. QED
          BY <4>4, <4>5
      <3>4. served' \in [1..PoolSize -> Nat]
        BY <3>2 DEF ServedOK
      <3>. QED
        BY <3>3, <3>4 DEF ServedOK
    <2>2. CASE UNCHANGED <<served, taken, repeats>>
      BY <2>2 DEF ServedOK, TakenBy
    <2>3. CASE \E p \in Ops : PublishAdd(p) \/ PublishEnd(p) \/ PublishUninitialized(p)
      BY <2>2, <2>3 DEF PublishAdd, PublishEnd, PublishUninitialized
    <2>4. CASE OthersNext \/ UNCHANGED poolVars
      BY <2>2, <2>4 DEF OthersNext
    <2>. QED
      BY <2>1, <2>3, <2>4 DEF PoolNext, PublishNext
  <1>. QED
    BY <1>1, <1>2, CountInvariance, PTL DEF PoolSpec

(* The clients of the pool share the load evenly but for two publications  *)
(* per repeated number, as long as the counter fits into int, that is for  *)
(* the first 2^31 publications with 32 bits: of the numbers up to the      *)
(* counter two clients get equally many but for one, no more numbers are   *)
(* missing than are repeated, and a repeat adds one publication to a       *)
(* client.                                                                 *)
THEOREM LoadIsSharedAlways ==
  ASSUME \A n \in 0..MaxPublishes : ToInt(n) = n
  PROVE  PoolSpec => []LoadIsShared
  <1>1. CountOK /\ ServedOK => LoadIsShared
    <2>. SUFFICES ASSUME CountOK, ServedOK, NEW c \in 1..PoolSize, NEW d \in 1..PoolSize
                  PROVE  served[c] - served[d] <= 1 + 2 * repeats
      BY DEF LoadIsShared
    <2>1. /\ Cardinality(taken) \in Nat /\ Cardinality(Loading) \in Nat
          /\ rrCounter \in Nat /\ repeats \in Nat
          /\ rrCounter + Cardinality(Loading) = Cardinality(taken) + repeats
          /\ Loading # {} => Cardinality(Loading) >= 1
      BY FS_CardinalityType, FS_EmptySet DEF CountOK
    (* All numbers given out are below m, and few below m are missing.     *)
    <2>2. PICK m \in Nat : /\ taken \subseteq 0..(m - 1)
                           /\ m <= Cardinality(taken) + repeats
      <3>1. CASE Loading = {}
        <4>1. taken \subseteq 0..(rrCounter - 1)
          BY <3>1 DEF CountOK
        <4>. QED
          BY <2>1, <4>1
      <3>2. CASE Loading # {}
        <4>1. taken \subseteq 0..((rrCounter + 1) - 1)
          BY <3>2 DEF CountOK
        <4>2. rrCounter + 1 \in Nat /\ rrCounter + 1 <= Cardinality(taken) + repeats
          BY <2>1, <3>2
        <4>. QED
          BY <4>1, <4>2
      <3>. QED
        BY <3>1, <3>2
    <2>3. /\ IsFiniteSet(0..(m - 1)) /\ Cardinality(0..(m - 1)) = m
      <3>1. 0 \in Int /\ m - 1 \in Int
        OBVIOUS
      <3>2. /\ IsFiniteSet(0..(m - 1))
            /\ Cardinality(0..(m - 1)) = IF 0 > m - 1 THEN 0 ELSE (m - 1) - 0 + 1
        BY <3>1, FS_Interval
      <3>. QED
        BY <3>2
    <2>. DEFINE Missing == (0..(m - 1)) \ taken
    <2>4. IsFiniteSet(Missing) /\ Cardinality(Missing) <= repeats /\ Cardinality(Missing) \in Nat
      <3>1. (0..(m - 1)) \cap taken = taken
        BY <2>2
      <3>2. IsFiniteSet(Missing) /\ Cardinality(Missing) = m - Cardinality(taken)
        BY <2>3, <3>1, FS_Difference
      <3>. QED
        BY <2>1, <2>2, <3>2, FS_CardinalityType
    <2>5. \A e \in 1..PoolSize : TakenBy(e) \subseteq Class(e, m)
      BY <2>2 DEF TakenBy, Class
    <2>6. /\ IsFiniteSet(Class(c, m)) /\ IsFiniteSet(Class(d, m))
          /\ Cardinality(Class(c, m)) <= Cardinality(Class(d, m)) + 1
          /\ Cardinality(Class(c, m)) \in Nat /\ Cardinality(Class(d, m)) \in Nat
      BY ClassesAreEven, FS_CardinalityType
    <2>7. /\ IsFiniteSet(TakenBy(c)) /\ IsFiniteSet(TakenBy(d))
          /\ Cardinality(TakenBy(c)) <= Cardinality(Class(c, m))
          /\ Cardinality(TakenBy(c)) \in Nat /\ Cardinality(TakenBy(d)) \in Nat
      BY <2>5, <2>6, FS_Subset, FS_CardinalityType
    <2>8. Cardinality(Class(d, m)) - Cardinality(TakenBy(d)) <= repeats
      <3>1. Class(d, m) \ TakenBy(d) \subseteq Missing
        BY DEF Class, TakenBy
      <3>2. Class(d, m) \cap TakenBy(d) = TakenBy(d)
        BY <2>5
      <3>3. Cardinality(Class(d, m) \ TakenBy(d)) =
              Cardinality(Class(d, m)) - Cardinality(TakenBy(d))
        BY <2>6, <3>2, FS_Difference
      <3>4. Cardinality(Class(d, m) \ TakenBy(d)) <= Cardinality(Missing)
        BY <2>4, <3>1, FS_Subset
      <3>. QED
        BY <2>1, <2>4, <2>6, <2>7, <3>3, <3>4
    <2>9. /\ served[c] <= Cardinality(TakenBy(c)) + repeats
          /\ Cardinality(TakenBy(d)) <= served[d]
          /\ served[c] \in Nat /\ served[d] \in Nat
      BY DEF ServedOK
    <2>. QED
      BY <2>1, <2>6, <2>7, <2>8, <2>9
  <1>. QED
    BY <1>1, ServedInvariance, PTL
==========================================================================
