---------------------- MODULE ConsulResolverProofs -----------------------
(***************************************************************************)
(* Proofs about ConsulResolver, for any set of services, addresses and     *)
(* callbacks and any bounds.                                               *)
(*                                                                         *)
(* The inductive invariant IInv says where the wait index of a query comes *)
(* from (LogOK, IndexOK), that whoever is parked on updateChan is there    *)
(* once and nowhere else (QueueOK), what the goroutines have left behind   *)
(* when the channel is closed (EndOK), and who will publish a pending list *)
(* (PendingOK).                                                            *)
(***************************************************************************)
EXTENDS ConsulResolver, FiniteSetTheorems, SequenceTheorems, WellFoundedInduction,
        TLAPS

(* Consul knows an index for every service.                                *)
LogOK ==
    /\ Len(log) <= MaxLog
    /\ \A s \in Services : \E i \in 1..Len(log) : log[i] = s

(* An answer that waits for mu has the index of the service it is about.   *)
IndexOK ==
    /\ WaitIndexOfService
    /\ \A d \in Discoverers : pc[d] = "apply" =>
        /\ local[d].name \in Services
        /\ local[d].index \in 1..Len(log)
        /\ log[local[d].index] = local[d].name

(* Senders queue once each, and do nothing else meanwhile.                 *)
QueueOK ==
    /\ \A i \in 1..Len(sendq) : pc[sendq[i]] = "parked"
    /\ \A i, j \in 1..Len(sendq) : i # j => sendq[i] # sendq[j]

(* Start discovers before it starts the loops, the loops only exit once    *)
(* doneChan is closed, and updateChan is closed after all of them.         *)
EndOK ==
    /\ pc["main"] \notin {"wait", "exited"} => \A d \in {"svc", "kv"} : pc[d] = "off"
    /\ stop \in {"closing", "returned"} => done
    /\ \A d \in {"svc", "kv"} : pc[d] = "exited" => done
    /\ closed => \A d \in Discoverers : pc[d] = "exited"

(* Only debouncing leaves lists pending, and a pending list is news.       *)
PendingOK ==
    /\ PendingHasCarrier
    /\ pendingAddresses # Nil => pendingAddresses # lastAddresses
    /\ ~Debounced => /\ pendingAddresses = Nil /\ timer = Nil
                     /\ \A c \in Callbacks : pc[c] = "off"

IInv == TypeOK /\ LogOK /\ IndexOK /\ QueueOK /\ EndOK /\ PendingOK

USE ConsulAssumption DEF ConsulAssumption

-----------------------------------------------------------------------------
(* The indices of Consul.                                                  *)

(* A non-empty set of indices has a largest one.                           *)
LEMMA LastIndexExists ==
  ASSUME NEW n \in Nat, NEW T, T \subseteq 1..n, T # {}
  PROVE  \E i \in T : \A j \in (i + 1)..n : j \notin T
  <1>. DEFINE Suffixes == {i..n : i \in T}
  <1>1. FiniteSubsetsOf(1..n) = SUBSET (1..n)
    BY FS_Interval, FS_FiniteSubsetsOfFinite
  <1>2. Suffixes \subseteq SUBSET (1..n) /\ Suffixes # {}
    <2>1. \A i \in T : i..n \subseteq 1..n
      OBVIOUS
    <2>. QED
      BY <2>1
  <1>3. PICK X \in Suffixes :
          \A Y \in Suffixes : ~ (<<Y, X>> \in StrictSubsetOrdering(1..n))
    <2>1. IsWellFoundedOn(StrictSubsetOrdering(1..n), SUBSET (1..n))
      BY <1>1, FS_StrictSubsetOrderingWellFounded
    <2>. HIDE DEF Suffixes
    <2>. QED
      BY <1>2, <2>1, WFMin
  <1>4. PICK i \in T : X = i..n
    BY <1>3
  <1>5. ASSUME NEW j \in (i + 1)..n, j \in T PROVE FALSE
    <2>1. j..n \in Suffixes /\ j..n \subseteq X /\ i \in X /\ i \notin j..n
      BY <1>4, <1>5
    <2>2. X \in SUBSET (1..n) /\ j..n \in SUBSET (1..n)
      BY <1>4, <1>5
    <2>. QED
      BY <1>3, <2>1, <2>2 DEF StrictSubsetOrdering
  <1>. QED
    BY <1>5

(* The index Consul reports for a service is one at which it changed.      *)
LEMMA IndexOfService ==
  ASSUME TypeOK, LogOK, NEW s \in Services
  PROVE  IndexOf(s) \in 1..Len(log) /\ log[IndexOf(s)] = s /\ IndexOf(s) \in 0..MaxLog
  <1>. DEFINE T == {i \in 1..Len(log) : log[i] = s}
  <1>0. PICK first \in 1..Len(log) : log[first] = s
    BY DEF LogOK
  <1>1. Len(log) \in Nat /\ T \subseteq 1..Len(log) /\ T # {}
    BY <1>0 DEF TypeOK
  <1>2. \E i \in T : \A j \in (i + 1)..Len(log) : j \notin T
    <2>. HIDE DEF T
    <2>. QED
      BY <1>1, LastIndexExists
  <1>3. \E i \in 1..Len(log) : log[i] = s /\ \A j \in (i + 1)..Len(log) : log[j] # s
    BY <1>1, <1>2
  <1>4. IndexOf(s) \in 1..Len(log) /\ log[IndexOf(s)] = s
    BY <1>3 DEF IndexOf
  <1>. QED
    BY <1>1, <1>4 DEF LogOK

-----------------------------------------------------------------------------

(* The initial state satisfies the inductive invariant.                    *)
LEMMA InitInvariant == Init => IInv
  <1>. SUFFICES ASSUME Init PROVE IInv
    OBVIOUS
  <1>1. log \in Seq(Services) /\ Len(log) = Cardinality(Services)
        /\ Cardinality(Services) \in Nat
    BY FS_CardinalityType DEF Init
  <1>2. TypeOK
    <2>1. FlagsOK
      BY Zenon DEF Init, FlagsOK
    <2>2. local \in [Senders -> Locals]
      BY DEF Init, Locals, NoLocals, Lists
    <2>3. pc \in [Senders -> Labels]
      BY DEF Init, Labels
    <2>. QED
      BY <1>1, <2>1, <2>2, <2>3 DEF Init, TypeOK, Lists, Cap
  <1>3. LogOK
    BY <1>1 DEF Init, LogOK
  <1>4. IndexOK /\ QueueOK /\ EndOK
    BY DEF Init, IndexOK, WaitIndexOfService, QueueOK, EndOK, Senders, Discoverers
  <1>5. PendingOK
    BY DEF Init, PendingOK, PendingHasCarrier, Senders, Discoverers
  <1>. QED
    BY <1>2, <1>3, <1>4, <1>5 DEF IInv

USE DEF vars, mine, channel, consul, Goto, Return

-----------------------------------------------------------------------------
(* Types.                                                                  *)

(* The flags are only ever assigned Booleans.                              *)
LEMMA FlagsPreserved == FlagsOK /\ [Next]_vars => FlagsOK'
  <1>. SUFFICES ASSUME FlagsOK, [Next]_vars PROVE FlagsOK'
    OBVIOUS
  <1>. USE DEF FlagsOK
  <1>1. CASE UNCHANGED <<timerEpoch, closed, done, panicked>>
    BY <1>1, Zenon
  <1>2. ASSUME NoTimer, UNCHANGED <<closed, done, panicked>> PROVE FlagsOK'
    BY <1>2, Zenon DEF NoTimer
  <1>3. CASE MainNext \/ KVNext
    BY <1>1, <1>3, Zenon DEF MainNext, KVNext, StartReadKV, SetServiceName,
       StartSpawn, StartClose, KVAnswer, KVError, KVApply
  <1>4. ASSUME NEW d \in Discoverers, DiscoverNext(d) PROVE FlagsOK'
    BY <1>1, <1>2, <1>4, Zenon DEF DiscoverNext, DiscoverRead, DiscoverAnswer,
       DiscoverError, DiscoverApply, Schedule
  <1>5. ASSUME NEW d \in {"svc", "kv"}, LoopNext(d) PROVE FlagsOK'
    BY <1>1, <1>5, Zenon DEF LoopNext, LoopCheck, Backoff
  <1>6. ASSUME NEW q \in Senders, SendNext(q) PROVE FlagsOK'
    BY <1>1, <1>6, Zenon DEF SendNext, Send, Park, SendAborted, SendPanics
  <1>7. ASSUME NEW c \in Callbacks, CallbackNext(c) PROVE FlagsOK'
    BY <1>1, <1>2, <1>7, Zenon DEF CallbackNext, TimerFires, CallbackCheck, CallbackTake
  <1>8. CASE Receive \/ ReceiveNil
    BY <1>1, <1>8, Zenon DEF Receive, ReceiveNil
  <1>9. CASE StopNext
    BY <1>1, <1>2, <1>9, Zenon DEF StopNext, StopCall, StopClose, StopTimer
  <1>10. CASE KVChanges \/ \E s \in Services : CatalogChanges(s)
    BY <1>1, <1>10, Zenon DEF KVChanges, CatalogChanges
  <1>. QED
    BY <1>1, <1>3, <1>4, <1>5, <1>6, <1>7, <1>8, <1>9, <1>10, Zenon DEF Next

(* A goroutine goes on to some label.                                      *)
LEMMA GotoTyped ==
  ASSUME TypeOK, NEW p \in Senders, NEW l \in Labels, Goto(p, l)
  PROVE  pc' \in [Senders -> Labels]
  BY DEF TypeOK

(* A goroutine returns from discover or from its callback.                 *)
LEMMA ReturnTyped ==
  ASSUME TypeOK, NEW p \in Senders, NEW l \in Labels, Return(p, l)
  PROVE  pc' \in [Senders -> Labels] /\ local' \in [Senders -> Locals]
  <1>1. NoLocals \in Locals
    BY DEF NoLocals, Locals, Lists
  <1>. QED
    BY <1>1, GotoTyped DEF TypeOK

(* Where the functions return to.                                          *)
LEMMA AfterTyped ==
  /\ \A d \in Discoverers : AfterDiscover(d) \in Labels /\ AfterFailure(d) \in Labels
  /\ \A p \in Senders : AfterSend(p) \in Labels
  BY DEF Labels, AfterDiscover, AfterFailure, AfterSend, Discoverers

(* publishAddressUpdate and its caller return.                             *)
LEMMA PublishedTyped ==
  ASSUME TypeOK, NEW p \in Senders, Published(p)
  PROVE  /\ pc' \in [Senders -> Labels] /\ local' \in [Senders -> Locals]
         /\ mu' \in Discoverers \cup {Nil}
  BY ReturnTyped, AfterTyped DEF TypeOK, Published

(* Every step keeps the types.                                             *)
LEMMA TypePreserved ==
  ASSUME TypeOK, LogOK, [Next]_vars PROVE TypeOK'
  <1>0. FlagsOK' /\ Discoverers \subseteq Senders /\ Callbacks \subseteq Senders
    BY FlagsPreserved DEF TypeOK, Senders
  <1>1. CASE MainNext
    <2>1. "main" \in Senders /\ {"read", "exited"} \subseteq Labels
      BY DEF Senders, Discoverers, Labels
    <2>2. CASE StartReadKV
      BY <1>0, <2>1, <2>2, GotoTyped
         DEF StartReadKV, SetServiceName, IndexForNewName, TypeOK
    <2>3. CASE StartSpawn
      BY <1>0, <2>3 DEF StartSpawn, TypeOK, Labels
    <2>4. CASE StartClose
      BY <1>0, <2>1, <2>4, GotoTyped DEF StartClose, TypeOK
    <2>. QED
      BY <1>1, <2>2, <2>3, <2>4 DEF MainNext
  <1>2. ASSUME NEW d \in Discoverers, DiscoverNext(d) PROVE TypeOK'
    <2>0. d \in Senders /\ {"query", "apply", "schedule", "send"} \subseteq Labels
      BY <1>0 DEF Labels
    <2>1. CASE DiscoverRead(d)
      <3>1. local' \in [Senders -> Locals]
        BY <2>1 DEF DiscoverRead, TypeOK, Locals
      <3>. QED
        BY <1>0, <2>0, <2>1, <3>1, GotoTyped DEF DiscoverRead, TypeOK
    <2>2. CASE DiscoverAnswer(d)
      <3>1. local[d].name \in Services
        BY <2>0, <2>2 DEF DiscoverAnswer, TypeOK, Locals
      <3>2. catalog[local[d].name] \in Lists /\ IndexOf(local[d].name) \in 0..MaxLog
        BY <3>1, IndexOfService DEF TypeOK
      <3>3. local' \in [Senders -> Locals]
        BY <2>2, <3>2 DEF DiscoverAnswer, TypeOK, Locals
      <3>. QED
        BY <1>0, <2>0, <2>2, <3>3, GotoTyped DEF DiscoverAnswer, TypeOK
    <2>3. CASE DiscoverError(d)
      BY <1>0, <2>0, <2>3, ReturnTyped, AfterTyped DEF DiscoverError, TypeOK
    <2>4. CASE DiscoverApply(d)
      <3>1. local[d].index \in 0..MaxLog /\ local[d].addrs \in Lists
        BY <2>0 DEF TypeOK, Locals
      <3>2. pc' \in [Senders -> Labels] /\ local' \in [Senders -> Locals]
        <4>1. [NoLocals EXCEPT !.addrs = local[d].addrs] \in Locals
          BY <3>1 DEF NoLocals, Locals
        <4>2. CASE StillCurrent(d)
          BY <2>0, <2>4, <4>1, <4>2, GotoTyped DEF DiscoverApply, TypeOK
        <4>. QED
          BY <2>0, <2>4, <4>2, ReturnTyped, AfterTyped DEF DiscoverApply
      <3>3. lastIndex' \in 0..MaxLog
        BY <2>4, <3>1 DEF DiscoverApply, TypeOK
      <3>. QED
        BY <1>0, <2>4, <3>2, <3>3 DEF DiscoverApply, TypeOK
    <2>5. CASE Schedule(d)
      <3>1. local[d].addrs \in Lists
        BY <2>0 DEF TypeOK, Locals
      <3>2. pc' \in [Senders -> Labels] /\ local' \in [Senders -> Locals]
        BY <2>0, <2>5, ReturnTyped, GotoTyped, AfterTyped DEF Schedule, TypeOK
      <3>3. /\ timer' \in Discoverers \cup {Nil} /\ lastAddresses' \in Lists
            /\ pendingAddresses' = Nil \/ pendingAddresses' \in Lists
            /\ mu' \in Discoverers \cup {Nil}
        BY <2>5, <3>1 DEF Schedule, NoTimer, PendingAfterEqual, MuWhileSending, TypeOK
      <3>. QED
        BY <1>0, <2>5, <3>2, <3>3 DEF Schedule, TypeOK
    <2>. QED
      BY <1>2, <2>1, <2>2, <2>3, <2>4, <2>5 DEF DiscoverNext
  <1>3. ASSUME NEW d \in {"svc", "kv"}, LoopNext(d) PROVE TypeOK'
    <2>1. d \in Senders /\ {"loop", "exited", NextTurn(d)} \subseteq Labels
      BY DEF Senders, Discoverers, Labels, NextTurn
    <2>2. pc' \in [Senders -> Labels]
      BY <1>3, <2>1, GotoTyped DEF LoopNext, LoopCheck, Backoff
    <2>. QED
      BY <1>0, <1>3, <2>2 DEF LoopNext, LoopCheck, Backoff, TypeOK
  <1>4. CASE KVNext
    <2>1. "kv" \in Senders /\ {"kv_apply", "backoff", "read", "loop"} \subseteq Labels
      BY DEF Senders, Discoverers, Labels
    <2>2. CASE KVAnswer
      <3>1. local' \in [Senders -> Locals]
        BY <2>2 DEF KVAnswer, TypeOK, Locals
      <3>. QED
        BY <1>0, <2>1, <2>2, <3>1, GotoTyped DEF KVAnswer, TypeOK
    <2>3. CASE KVError
      BY <1>0, <2>1, <2>3, GotoTyped DEF KVError, TypeOK
    <2>4. CASE KVApply
      <3>1. local["kv"].name \in Services \cup {Nil}
        BY <2>1 DEF TypeOK, Locals
      <3>2. pc' \in [Senders -> Labels] /\ local' \in [Senders -> Locals]
        BY <2>1, <2>4, ReturnTyped DEF KVApply
      <3>. QED
        BY <1>0, <2>4, <3>1, <3>2 DEF KVApply, SetServiceName, IndexForNewName, TypeOK
    <2>. QED
      BY <1>4, <2>2, <2>3, <2>4 DEF KVNext
  <1>5. ASSUME NEW q \in Senders, SendNext(q) PROVE TypeOK'
    <2>0. local[q].addrs \in Lists /\ "parked" \in Labels
      BY DEF TypeOK, Locals, Labels
    <2>1. CASE Send(q)
      <3>1. updateChan' \in Seq(Lists) /\ Len(updateChan') <= Cap
        BY <2>0, <2>1 DEF Send, HasRoom, Cap, TypeOK
      <3>. QED
        BY <1>0, <2>1, <3>1, PublishedTyped DEF Send, TypeOK
    <2>2. CASE Park(q)
      BY <1>0, <2>0, <2>2, GotoTyped DEF Park, TypeOK
    <2>3. CASE SendAborted(q)
      BY <1>0, <2>3, PublishedTyped DEF SendAborted, TypeOK
    <2>4. CASE SendPanics(q)
      BY <1>0, <2>4 DEF SendPanics, TypeOK
    <2>. QED
      BY <1>5, <2>1, <2>2, <2>3, <2>4 DEF SendNext
  <1>6. ASSUME NEW c \in Callbacks, CallbackNext(c) PROVE TypeOK'
    <2>0. c \in Senders /\ {"check", "off", "take", "send"} \subseteq Labels
      BY <1>0 DEF Labels
    <2>1. CASE TimerFires(c)
      BY <1>0, <2>0, <2>1, GotoTyped DEF TimerFires, NoTimer, TypeOK
    <2>2. CASE CallbackCheck(c)
      BY <1>0, <2>0, <2>2, GotoTyped DEF CallbackCheck, TypeOK
    <2>3. CASE CallbackTake(c)
      <3>1. pc' \in [Senders -> Labels]
        BY <2>0, <2>3, GotoTyped DEF CallbackTake
      <3>2. local' \in [Senders -> Locals]
        <4>1. CASE UNCHANGED local
          BY <4>1 DEF TypeOK
        <4>2. ASSUME NEW l \in Lists, local' = [local EXCEPT ![c].addrs = l]
              PROVE  local' \in [Senders -> Locals]
          BY <4>2 DEF TypeOK, Locals
        <4>. QED
          BY <2>3, <4>1, <4>2 DEF CallbackTake, TypeOK
      <3>. QED
        BY <1>0, <2>3, <3>1, <3>2 DEF CallbackTake, PendingAfterTake, TypeOK
    <2>. QED
      BY <1>6, <2>1, <2>2, <2>3 DEF CallbackNext
  <1>7. CASE Receive \/ ReceiveNil
    <2>1. CASE ReceiveNil
      BY <1>0, <2>1 DEF ReceiveNil, TypeOK, Lists
    <2>2. CASE Receive
      <3>1. Head(updateChan) \in Lists /\ Tail(updateChan) = <<>>
        BY <2>2 DEF Receive, TypeOK, Cap
      <3>2. CASE sendq = <<>>
        BY <1>0, <2>2, <3>1, <3>2 DEF Receive, TypeOK, Cap
      <3>3. CASE sendq # <<>>
        <4>1. Head(sendq) \in Senders /\ Tail(sendq) \in Seq(Senders)
          BY <3>3 DEF TypeOK
        <4>2. local[Head(sendq)].addrs \in Lists
          BY <4>1 DEF TypeOK, Locals
        <4>3. updateChan' \in Seq(Lists) /\ Len(updateChan') <= Cap
          BY <2>2, <3>1, <3>3, <4>2 DEF Receive, Cap
        <4>4. Published(Head(sendq)) /\ sendq' \in Seq(Senders)
          BY <2>2, <3>3, <4>1 DEF Receive
        <4>. QED
          BY <1>0, <2>2, <3>1, <4>1, <4>3, <4>4, PublishedTyped DEF Receive, TypeOK
      <3>. QED
        BY <3>2, <3>3
    <2>. QED
      BY <1>7, <2>1, <2>2
  <1>8. CASE StopNext
    <2>1. CASE StopCall
      BY <1>0, <2>1 DEF StopCall, TypeOK
    <2>2. CASE StopClose
      <3>1. pc' \in [Senders -> Labels] /\ local' \in [Senders -> Locals]
        <4>1. NoLocals \in Locals
          BY DEF NoLocals, Locals, Lists
        <4>. QED
          BY <2>2, <4>1, AfterTyped DEF StopClose, TypeOK
      <3>. QED
        BY <1>0, <2>2, <3>1 DEF StopClose, TypeOK
    <2>3. CASE StopTimer
      BY <1>0, <2>3 DEF StopTimer, NoTimer, TypeOK
    <2>. QED
      BY <1>8, <2>1, <2>2, <2>3 DEF StopNext
  <1>9. CASE KVChanges \/ \E s \in Services : CatalogChanges(s)
    <2>1. CASE KVChanges
      BY <1>0, <2>1 DEF KVChanges, TypeOK
    <2>2. ASSUME NEW s \in Services, CatalogChanges(s) PROVE TypeOK'
      BY <1>0, <2>2 DEF CatalogChanges, TypeOK
    <2>. QED
      BY <1>9, <2>1, <2>2
  <1>10. CASE UNCHANGED vars
    BY <1>0, <1>10 DEF TypeOK
  <1>. QED
    BY <1>1, <1>2, <1>3, <1>4, <1>5, <1>6, <1>7, <1>8, <1>9, <1>10 DEF Next

-----------------------------------------------------------------------------
(* Who moves, from where to where: the facts about pc the rest builds on.  *)

Moved(p) == \A q \in Senders \ {p} : pc'[q] = pc[q] /\ local'[q] = local[q]

(* A step of discover.                                                     *)
LEMMA DiscoverMoves ==
  ASSUME TypeOK, NEW d \in Discoverers, DiscoverNext(d)
  PROVE  /\ Moved(d) /\ UNCHANGED <<sendq, updateChan, closed, done, stop, received>>
         /\ pc[d] \in {"read", "query", "apply", "schedule"}
         /\ pc'[d] \in {"query", "apply", "schedule", "send"}
                        \cup IF d = "main" THEN {"spawn"} ELSE {"loop", "backoff"}
         /\ pc'[d] = "apply" => DiscoverAnswer(d)
         /\ pc'[d] = "send" => Schedule(d)
  BY DEF TypeOK, Senders, DiscoverNext, DiscoverRead, DiscoverAnswer, DiscoverError,
         DiscoverApply, Schedule, AfterDiscover, AfterFailure, Moved

(* A step of a watch loop between two queries.                             *)
LEMMA LoopMoves ==
  ASSUME TypeOK, NEW d \in {"svc", "kv"}, LoopNext(d)
  PROVE  /\ Moved(d) /\ UNCHANGED <<mine, channel, stop>>
         /\ pc[d] \in {"loop", "backoff"}
         /\ pc'[d] \in {"loop", "exited", "read", "kv_query"}
         /\ pc'[d] = "exited" => done
  BY DEF TypeOK, Senders, Discoverers, LoopNext, LoopCheck, Backoff, NextTurn, Moved

(* A step of watchKV with an answer.                                       *)
LEMMA KVMoves ==
  ASSUME TypeOK, KVNext
  PROVE  /\ Moved("kv") /\ UNCHANGED <<channel, stop>>
         /\ UNCHANGED <<lastAddresses, pendingAddresses, timer>>
         /\ pc["kv"] \in {"kv_query", "kv_apply"}
         /\ pc'["kv"] \in {"kv_apply", "backoff", "read", "loop"}
  BY DEF TypeOK, Senders, Discoverers, KVNext, KVAnswer, KVError, KVApply,
         SetServiceName, Moved

(* A step of publishAddressUpdate.                                         *)
LEMMA SendMoves ==
  ASSUME TypeOK, NEW p \in Senders, SendNext(p)
  PROVE  /\ Moved(p) /\ UNCHANGED <<mine, closed, done, stop>>
         /\ pc[p] = "send"
         /\ pc'[p] \in {"send", "parked", AfterSend(p)}
         /\ UNCHANGED sendq \/ (sendq' = Append(sendq, p) /\ pc'[p] = "parked")
  BY DEF TypeOK, SendNext, Send, Park, SendAborted, SendPanics, Published, Moved

(* A step of a timer callback.                                             *)
LEMMA CallbackMoves ==
  ASSUME TypeOK, NEW c \in Callbacks, CallbackNext(c)
  PROVE  /\ Moved(c) /\ UNCHANGED <<channel, stop>>
         /\ pc[c] \in {"off", "check", "take"}
         /\ pc'[c] \in {"off", "check", "take", "send"}
  BY DEF TypeOK, Senders, CallbackNext, TimerFires, CallbackCheck, CallbackTake, Moved

(* The senders that a receive and Stop set free.                           *)
LEMMA ReceiveMoves ==
  ASSUME TypeOK, QueueOK, Receive
  PROVE  /\ UNCHANGED <<mine, closed, done, stop>>
         /\ \/ sendq = <<>> /\ UNCHANGED <<pc, local, sendq>>
            \/ /\ sendq # <<>> /\ Head(sendq) \in Senders /\ sendq' = Tail(sendq)
               /\ Moved(Head(sendq))
               /\ pc[Head(sendq)] = "parked"
               /\ pc'[Head(sendq)] = AfterSend(Head(sendq))
  <1>1. CASE sendq = <<>>
    BY <1>1 DEF Receive
  <1>2. CASE sendq # <<>>
    <2>1. Head(sendq) = sendq[1] /\ 1 \in 1..Len(sendq) /\ Head(sendq) \in Senders
      BY <1>2 DEF TypeOK
    <2>. QED
      BY <1>2, <2>1 DEF Receive, Published, QueueOK, TypeOK, Moved
  <1>. QED
    BY <1>1, <1>2

-----------------------------------------------------------------------------
(* The parts of the invariant, one lemma each.                             *)

(* The catalog's log only grows.                                           *)
LEMMA LogPreserved ==
  ASSUME TypeOK, LogOK, [Next]_vars
  PROVE  /\ LogOK'
         /\ Len(log) <= Len(log')
         /\ \A i \in 1..Len(log) : log'[i] = log[i]
  <1>1. CASE UNCHANGED log
    BY <1>1 DEF LogOK, TypeOK
  <1>2. ASSUME NEW s \in Services, CatalogChanges(s)
        PROVE  /\ LogOK' /\ Len(log) <= Len(log')
               /\ \A i \in 1..Len(log) : log'[i] = log[i]
    <2>1. /\ log' = Append(log, s) /\ Len(log') = Len(log) + 1 /\ Len(log) \in Nat
          /\ \A i \in 1..Len(log) : log'[i] = log[i]
      BY <1>2 DEF CatalogChanges, TypeOK
    <2>2. LogOK'
      BY <1>2, <2>1 DEF CatalogChanges, LogOK
    <2>. QED
      BY <2>1, <2>2
  <1>3. UNCHANGED log \/ \E s \in Services : CatalogChanges(s)
    BY Zenon DEF Next, MainNext, StartReadKV, StartSpawn, StartClose, DiscoverNext,
       DiscoverRead, DiscoverAnswer, DiscoverError, DiscoverApply, Schedule,
       LoopNext, LoopCheck, Backoff, KVNext, KVAnswer, KVError, KVApply, SendNext,
       Send, Park, SendAborted, SendPanics, CallbackNext, TimerFires,
       CallbackCheck, CallbackTake, Receive, ReceiveNil, StopNext, StopCall,
       StopClose, StopTimer, KVChanges
  <1>. QED
    BY <1>1, <1>2, <1>3

(* Parked senders stay where they are until they leave the queue.          *)
LEMMA QueuePreserved ==
  ASSUME TypeOK, QueueOK, EndOK, [Next]_vars PROVE QueueOK'
  <1>0. \A i \in 1..Len(sendq) : sendq[i] \in Senders
    BY DEF TypeOK
  <1>1. ASSUME UNCHANGED sendq,
               \A q \in Senders : pc[q] = "parked" => pc'[q] = "parked"
        PROVE  QueueOK'
    BY <1>0, <1>1 DEF QueueOK
  <1>2. CASE MainNext
    <2>1. UNCHANGED sendq
      BY <1>2 DEF MainNext, StartReadKV, StartSpawn, StartClose
    <2>2. \A q \in Senders : pc[q] = "parked" => pc'[q] = "parked"
      BY <1>2 DEF MainNext, StartReadKV, StartSpawn, StartClose, TypeOK, EndOK
    <2>. QED
      BY <1>1, <2>1, <2>2
  <1>3. ASSUME NEW d \in Discoverers, DiscoverNext(d) PROVE QueueOK'
    BY <1>1, <1>3, DiscoverMoves DEF Moved
  <1>4. ASSUME NEW d \in {"svc", "kv"}, LoopNext(d) PROVE QueueOK'
    BY <1>1, <1>4, LoopMoves DEF Moved
  <1>5. CASE KVNext
    BY <1>1, <1>5, KVMoves DEF Moved
  <1>6. ASSUME NEW q \in Senders, SendNext(q) PROVE QueueOK'
    <2>1. /\ \A r \in Senders : pc[r] = "parked" => pc'[r] = "parked"
          /\ \A i \in 1..Len(sendq) : sendq[i] # q
      BY <1>0, <1>6, SendMoves DEF Moved, QueueOK
    <2>2. CASE UNCHANGED sendq
      BY <1>1, <2>1, <2>2
    <2>3. CASE sendq' = Append(sendq, q) /\ pc'[q] = "parked"
      <3>1. /\ Len(sendq) \in Nat /\ Len(sendq') = Len(sendq) + 1
            /\ \A i \in 1..Len(sendq) : sendq'[i] = sendq[i]
            /\ sendq'[Len(sendq) + 1] = q
        BY <2>3 DEF TypeOK
      <3>. QED
        BY <1>0, <2>1, <2>3, <3>1 DEF QueueOK
    <2>. QED
      BY <1>6, <2>2, <2>3, SendMoves
  <1>7. ASSUME NEW c \in Callbacks, CallbackNext(c) PROVE QueueOK'
    BY <1>1, <1>7, CallbackMoves DEF Moved
  <1>8. CASE Receive
    <2>1. CASE sendq = <<>>
      BY <1>1, <1>8, <2>1, ReceiveMoves
    <2>2. CASE sendq # <<>>
      <3>1. /\ Len(sendq) \in Nat /\ Len(sendq') = Len(sendq) - 1
            /\ \A i \in 1..Len(sendq') : sendq'[i] = sendq[i + 1] /\ i + 1 \in 1..Len(sendq)
            /\ Head(sendq) = sendq[1] /\ 1 \in 1..Len(sendq)
        <4>1. sendq' = Tail(sendq) /\ sendq \in Seq(Senders)
          BY <1>8, <2>2, ReceiveMoves DEF TypeOK
        <4>. QED
          BY <2>2, <4>1
      <3>2. \A i \in 1..Len(sendq') : sendq[i + 1] # sendq[1] /\ sendq[i + 1] \in Senders
        BY <1>0, <3>1 DEF QueueOK
      <3>3. \A i \in 1..Len(sendq') : pc'[sendq'[i]] = "parked"
        BY <1>8, <2>2, <3>1, <3>2, ReceiveMoves DEF QueueOK, Moved
      <3>4. \A i, j \in 1..Len(sendq') : i # j => sendq'[i] # sendq'[j]
        <4>. SUFFICES ASSUME NEW i \in 1..Len(sendq'), NEW j \in 1..Len(sendq'), i # j
                      PROVE  sendq'[i] # sendq'[j]
          OBVIOUS
        <4>. QED
          BY <3>1 DEF QueueOK
      <3>. QED
        BY <3>3, <3>4 DEF QueueOK
    <2>. QED
      BY <2>1, <2>2
  <1>9. CASE StopNext
    BY <1>1, <1>9 DEF StopNext, StopCall, StopClose, StopTimer, QueueOK
  <1>10. CASE ReceiveNil \/ KVChanges \/ (\E s \in Services : CatalogChanges(s))
              \/ UNCHANGED vars
    BY <1>1, <1>10 DEF ReceiveNil, KVChanges, CatalogChanges
  <1>. QED
    BY <1>2, <1>3, <1>4, <1>5, <1>6, <1>7, <1>8, <1>9, <1>10 DEF Next

(* A wait index is only taken over from an answer about the same service,  *)
(* and the log keeps what it has.                                          *)
LEMMA IndexPreserved ==
  ASSUME TypeOK, LogOK, IndexOK, QueueOK, [Next]_vars PROVE IndexOK'
  <1>. DEFINE Fits(d) == /\ local[d].name \in Services
                         /\ local[d].index \in 1..Len(log)
                         /\ log[local[d].index] = local[d].name
              Kept(d) == pc'[d] = "apply" => pc[d] = "apply" /\ local'[d] = local[d]
  <1>0. /\ Discoverers \subseteq Senders /\ {"main", "svc", "kv"} \subseteq Discoverers
        /\ Len(log) \in Nat /\ lastIndex \in Nat /\ Len(log') \in Nat
    BY TypePreserved DEF Senders, Discoverers, TypeOK
  <1>1. /\ Len(log) <= Len(log')
        /\ \A i \in 1..Len(log) : log'[i] = log[i]
    BY LogPreserved
  <1>2. ASSUME NEW d \in Discoverers, Fits(d), local'[d] = local[d] PROVE Fits(d)'
    BY <1>0, <1>1, <1>2
  <1>3. ASSUME UNCHANGED <<serviceName, lastIndex>> PROVE WaitIndexOfService'
    BY <1>0, <1>1, <1>3 DEF IndexOK, WaitIndexOfService
  <1>4. ASSUME WaitIndexOfService', \A d \in Discoverers : Kept(d) PROVE IndexOK'
    BY <1>2, <1>4 DEF IndexOK
  <1>5. CASE MainNext
    <2>1. WaitIndexOfService'
      BY <1>3, <1>5 DEF MainNext, StartReadKV, SetServiceName, IndexForNewName,
                        StartSpawn, StartClose, WaitIndexOfService
    <2>2. \A d \in Discoverers : Kept(d)
      BY <1>0, <1>5 DEF MainNext, StartReadKV, StartSpawn, StartClose, TypeOK
    <2>. QED
      BY <1>4, <2>1, <2>2
  <1>6. ASSUME NEW d \in Discoverers, DiscoverNext(d) PROVE IndexOK'
    <2>0. \A e \in Discoverers \ {d} : Kept(e)
      BY <1>0, <1>6, DiscoverMoves DEF Moved
    <2>1. CASE DiscoverAnswer(d)
      <3>1. local[d].name \in Services
        BY <1>0, <2>1 DEF DiscoverAnswer, TypeOK, Locals
      <3>2. /\ local'[d].name = local[d].name /\ UNCHANGED log
            /\ local'[d].index = IndexOf(local[d].name)
        BY <1>0, <2>1 DEF DiscoverAnswer, TypeOK, Locals
      <3>3. Fits(d)'
        BY <3>1, <3>2, IndexOfService
      <3>4. WaitIndexOfService'
        BY <1>3, <2>1 DEF DiscoverAnswer
      <3>. QED
        BY <1>2, <2>0, <3>3, <3>4 DEF IndexOK
    <2>2. CASE ~DiscoverAnswer(d)
      <3>1. \A e \in Discoverers : Kept(e)
        BY <1>6, <2>0, <2>2, DiscoverMoves
      <3>2. CASE DiscoverApply(d) /\ StillCurrent(d)
        <4>1. Fits(d) /\ local[d].index \in Nat
          BY <1>0, <3>2 DEF DiscoverApply, IndexOK
        <4>. QED
          BY <1>4, <3>1, <3>2, <4>1
             DEF DiscoverApply, StillCurrent, WaitIndexOfService
      <3>3. CASE ~(DiscoverApply(d) /\ StillCurrent(d))
        <4>1. UNCHANGED <<serviceName, lastIndex>>
          BY <1>6, <3>3 DEF DiscoverNext, DiscoverRead, DiscoverAnswer,
                            DiscoverError, DiscoverApply, Schedule
        <4>. QED
          BY <1>3, <1>4, <3>1, <4>1
      <3>. QED
        BY <3>2, <3>3
    <2>. QED
      BY <2>1, <2>2
  <1>7. ASSUME NEW d \in {"svc", "kv"}, LoopNext(d) PROVE IndexOK'
    BY <1>0, <1>3, <1>4, <1>7, LoopMoves DEF Moved
  <1>8. CASE KVNext
    <2>1. WaitIndexOfService'
      BY <1>3, <1>8 DEF KVNext, KVAnswer, KVError, KVApply, SetServiceName,
                        IndexForNewName, WaitIndexOfService
    <2>. QED
      BY <1>0, <1>4, <1>8, <2>1, KVMoves DEF Moved
  <1>9. ASSUME NEW q \in Senders, SendNext(q) PROVE IndexOK'
    <2>1. AfterSend(q) # "apply"
      BY DEF AfterSend, AfterDiscover
    <2>. QED
      BY <1>0, <1>3, <1>4, <1>9, <2>1, SendMoves DEF Moved
  <1>10. ASSUME NEW c \in Callbacks, CallbackNext(c) PROVE IndexOK'
    <2>1. UNCHANGED <<serviceName, lastIndex>>
      BY <1>10 DEF CallbackNext, TimerFires, CallbackCheck, CallbackTake
    <2>. QED
      BY <1>0, <1>3, <1>4, <1>10, <2>1, CallbackMoves DEF Moved, Senders
  <1>11. CASE Receive
    <2>1. \A q \in Senders : AfterSend(q) # "apply"
      BY DEF AfterSend, AfterDiscover
    <2>. QED
      BY <1>0, <1>3, <1>4, <1>11, <2>1, ReceiveMoves DEF Moved
  <1>12. CASE StopNext
    <2>1. UNCHANGED <<serviceName, lastIndex>>
      BY <1>12 DEF StopNext, StopCall, StopClose, StopTimer
    <2>2. \A d \in Discoverers : Kept(d)
      BY <1>0, <1>12 DEF StopNext, StopCall, StopClose, StopTimer, Parked,
                         AfterSend, AfterDiscover, TypeOK
    <2>. QED
      BY <1>3, <1>4, <2>1, <2>2
  <1>13. CASE ReceiveNil \/ KVChanges \/ (\E s \in Services : CatalogChanges(s))
              \/ UNCHANGED vars
    BY <1>3, <1>4, <1>13 DEF ReceiveNil, KVChanges, CatalogChanges
  <1>. QED
    BY <1>5, <1>6, <1>7, <1>8, <1>9, <1>10, <1>11, <1>12, <1>13 DEF Next

(* The loops exit only after doneChan is closed, updateChan is closed only *)
(* after they have exited, and nobody comes back.                          *)
LEMMA EndPreserved ==
  ASSUME TypeOK, QueueOK, EndOK, [Next]_vars PROVE EndOK'
  <1>0. /\ Discoverers \subseteq Senders /\ Callbacks \subseteq Senders
        /\ {"main", "svc", "kv"} = Discoverers
        /\ \A c \in Callbacks : c \notin Discoverers
    BY DEF Senders, Discoverers
  <1>1. ASSUME UNCHANGED closed, done => done', stop' = stop \/ done',
               NEW p \in Senders, Moved(p), pc[p] \notin {"exited"},
               p = "main" => pc[p] # "wait" /\ pc'[p] \notin {"wait", "exited"},
               p \in {"svc", "kv"} => pc[p] # "off" /\ (pc'[p] = "exited" => done)
        PROVE  EndOK'
    BY <1>0, <1>1 DEF EndOK, Moved
  <1>2. ASSUME UNCHANGED <<closed, pc>>, done => done', stop' = stop \/ done'
        PROVE  EndOK'
    BY <1>2 DEF EndOK
  <1>3. \A q \in Senders : /\ AfterSend(q) \notin {"wait", "exited"}
    BY DEF AfterSend, AfterDiscover
  <1>4. CASE MainNext
    <2>1. CASE StartReadKV
      BY <1>0, <2>1 DEF StartReadKV, EndOK, TypeOK
    <2>2. CASE StartSpawn
      BY <1>0, <2>2 DEF StartSpawn, EndOK, TypeOK
    <2>3. CASE StartClose
      BY <1>0, <2>3 DEF StartClose, WatchersExited, EndOK, TypeOK
    <2>. QED
      BY <1>4, <2>1, <2>2, <2>3 DEF MainNext
  <1>5. ASSUME NEW d \in Discoverers, DiscoverNext(d) PROVE EndOK'
    BY <1>0, <1>1, <1>5, DiscoverMoves
  <1>6. ASSUME NEW d \in {"svc", "kv"}, LoopNext(d) PROVE EndOK'
    BY <1>0, <1>1, <1>6, LoopMoves
  <1>7. CASE KVNext
    BY <1>0, <1>1, <1>7, KVMoves
  <1>8. ASSUME NEW q \in Senders, SendNext(q) PROVE EndOK'
    BY <1>1, <1>3, <1>8, SendMoves
  <1>9. ASSUME NEW c \in Callbacks, CallbackNext(c) PROVE EndOK'
    BY <1>0, <1>1, <1>9, CallbackMoves
  <1>10. CASE Receive
    BY <1>1, <1>2, <1>3, <1>10, ReceiveMoves
  <1>11. CASE StopNext
    <2>1. CASE StopClose
      BY <1>0, <2>1 DEF StopClose, EndOK, TypeOK, Parked, AfterSend, AfterDiscover
    <2>2. CASE StopCall \/ StopTimer
      BY <2>2 DEF StopCall, StopTimer, EndOK
    <2>. QED
      BY <1>11, <2>1, <2>2 DEF StopNext
  <1>12. CASE ReceiveNil \/ KVChanges \/ (\E s \in Services : CatalogChanges(s))
              \/ UNCHANGED vars
    BY <1>2, <1>12 DEF ReceiveNil, KVChanges, CatalogChanges
  <1>. QED
    BY <1>4, <1>5, <1>6, <1>7, <1>8, <1>9, <1>10, <1>11, <1>12 DEF Next

(* A pending list keeps its carrier and stays different from the last one  *)
(* published.                                                              *)
LEMMA PendingPreserved ==
  ASSUME TypeOK, QueueOK, EndOK, PendingOK, [Next]_vars PROVE PendingOK'
  <1>0. /\ Discoverers \subseteq Senders /\ Callbacks \subseteq Senders
        /\ \A c \in Callbacks : c \notin Discoverers
    BY DEF Senders
  <1>. DEFINE Looking(c) == pc[c] \in {"check", "take"}
  <1>1. ASSUME UNCHANGED <<pendingAddresses, lastAddresses>>, done => done',
               timer' = timer \/ (timer' = Nil /\ done'),
               \A c \in Callbacks : (Looking(c) => Looking(c)' \/ done')
                                    /\ (pc[c] = "off" => pc'[c] = "off")
        PROVE  PendingOK'
    BY <1>1 DEF PendingOK, PendingHasCarrier
  <1>2. CASE MainNext
    BY <1>0, <1>1, <1>2 DEF MainNext, StartReadKV, SetServiceName, StartSpawn,
                       StartClose, TypeOK, Discoverers
  <1>3. ASSUME NEW d \in Discoverers, DiscoverNext(d) PROVE PendingOK'
    <2>1. \A c \in Callbacks : pc'[c] = pc[c]
      BY <1>0, <1>3, DiscoverMoves DEF Moved
    <2>2. CASE Schedule(d)
      BY <2>1, <2>2 DEF Schedule, NoTimer, PendingAfterEqual, areAddressesEqual,
           PendingOK, PendingHasCarrier, Discoverers, Senders
    <2>3. CASE ~Schedule(d)
      <3>1. UNCHANGED <<pendingAddresses, lastAddresses, timer, done>>
        BY <1>3, <2>3 DEF DiscoverNext, DiscoverRead, DiscoverAnswer,
             DiscoverError, DiscoverApply
      <3>. QED
        BY <1>1, <2>1, <3>1
    <2>. QED
      BY <2>2, <2>3
  <1>4. ASSUME NEW d \in {"svc", "kv"}, LoopNext(d) PROVE PendingOK'
    BY <1>0, <1>1, <1>4, LoopMoves DEF Moved, Discoverers
  <1>5. CASE KVNext
    BY <1>0, <1>1, <1>5, KVMoves DEF Moved, Discoverers
  <1>6. ASSUME NEW q \in Senders, SendNext(q) PROVE PendingOK'
    BY <1>0, <1>1, <1>6, SendMoves DEF Moved
  <1>7. ASSUME NEW c \in Callbacks, CallbackNext(c) PROVE PendingOK'
    <2>0. Moved(c) /\ UNCHANGED done
      BY <1>7, CallbackMoves
    <2>1. CASE TimerFires(c)
      BY <1>0, <2>0, <2>1 DEF TimerFires, PendingOK, PendingHasCarrier, TypeOK
    <2>2. CASE CallbackCheck(c)
      <3>1. pc[c] = "check" /\ (done \/ pc'[c] = "take")
        BY <1>0, <2>2 DEF CallbackCheck, TypeOK
      <3>2. UNCHANGED <<pendingAddresses, lastAddresses, timer>>
        BY <2>2 DEF CallbackCheck
      <3>. QED
        BY <1>0, <1>1, <2>0, <3>1, <3>2 DEF Moved
    <2>3. CASE CallbackTake(c)
      <3>1. pendingAddresses' = Nil /\ UNCHANGED timer
        BY <2>3 DEF CallbackTake, PendingAfterTake
      <3>2. Debounced
        BY <2>3 DEF CallbackTake, PendingOK
      <3>. QED
        BY <3>1, <3>2 DEF PendingOK, PendingHasCarrier
    <2>. QED
      BY <1>7, <2>1, <2>2, <2>3 DEF CallbackNext
  <1>8. CASE Receive
    BY <1>0, <1>1, <1>8, ReceiveMoves DEF Moved
  <1>9. CASE StopNext
    <2>1. CASE StopClose
      BY <1>0, <1>1, <2>1 DEF StopClose, Parked, TypeOK
    <2>2. CASE StopCall \/ StopTimer
      BY <1>1, <2>2 DEF StopCall, StopTimer, NoTimer, EndOK
    <2>. QED
      BY <1>9, <2>1, <2>2 DEF StopNext
  <1>10. CASE ReceiveNil \/ KVChanges \/ (\E s \in Services : CatalogChanges(s))
              \/ UNCHANGED vars
    BY <1>1, <1>10 DEF ReceiveNil, KVChanges, CatalogChanges
  <1>. QED
    BY <1>2, <1>3, <1>4, <1>5, <1>6, <1>7, <1>8, <1>9, <1>10 DEF Next

-----------------------------------------------------------------------------

(* The inductive invariant holds in every reachable state.                 *)
THEOREM Invariance == Spec => []IInv
  <1>1. IInv /\ [Next]_vars => IInv'
    BY TypePreserved, LogPreserved, IndexPreserved, QueuePreserved, EndPreserved,
       PendingPreserved DEF IInv
  <1>. QED
    BY <1>1, InitInvariant, PTL DEF Spec

(* Every variable of the resolver keeps its type.                          *)
THEOREM TypeCorrect == Spec => []TypeOK
  <1>1. IInv => TypeOK
    BY DEF IInv
  <1>. QED
    BY <1>1, Invariance, PTL

(* discover never passes Consul the wait index of another service: the     *)
(* name is compared again, with mu locked, before an index is taken over,  *)
(* and a new name resets it.                                               *)
THEOREM WaitIndexOfServiceAlways == Spec => []WaitIndexOfService
  <1>1. IInv => WaitIndexOfService
    BY DEF IInv, IndexOK
  <1>. QED
    BY <1>1, Invariance, PTL

(* No list that scheduleAddressUpdate left pending is forgotten, however   *)
(* stopping, arming and firing timers interleave.                          *)
THEOREM PendingHasCarrierAlways == Spec => []PendingHasCarrier
  <1>1. IInv => PendingHasCarrier
    BY DEF IInv, PendingOK
  <1>. QED
    BY <1>1, Invariance, PTL

(* Without debouncing only the goroutines that Start waits for send, so    *)
(* that none of them meets the closed updateChan.                          *)
THEOREM NoSendOnClosedAlways ==
  ASSUME ~Debounced
  PROVE  Spec => []NoSendOnClosed
  <1>1. Init => NoSendOnClosed
    BY DEF Init, NoSendOnClosed
  <1>2. IInv /\ NoSendOnClosed /\ [Next]_vars => NoSendOnClosed'
    <2>. SUFFICES ASSUME IInv, ~panicked, [Next]_vars PROVE ~panicked'
      BY DEF NoSendOnClosed
    <2>1. ASSUME NEW q \in Senders PROVE ~SendPanics(q)
      BY DEF SendPanics, IInv, EndOK, PendingOK, Senders
    <2>. QED
      BY <2>1, Zenon DEF Next, MainNext, StartReadKV, StartSpawn, StartClose,
         DiscoverNext, DiscoverRead, DiscoverAnswer, DiscoverError, DiscoverApply,
         Schedule, LoopNext, LoopCheck, Backoff, KVNext, KVAnswer, KVError, KVApply,
         SendNext, Send, Park, SendAborted, CallbackNext, TimerFires, CallbackCheck,
         CallbackTake, Receive, ReceiveNil, StopNext, StopCall, StopClose,
         StopTimer, KVChanges, CatalogChanges
  <1>. QED
    BY <1>1, <1>2, Invariance, PTL DEF Spec

-----------------------------------------------------------------------------
(* The resolver implements AddressFeed. What changes the number of times a *)
(* list is under way: a sender begins or ends, the buffer takes or gives.  *)

Sending == {"send", "parked"}

(* Every count is a natural number, and the buffer holds at most one list. *)
CountsOK ==
    /\ Inflight \in [Lists -> Nat]
    /\ \A l \in Lists :
        /\ IsFiniteSet(Publishing(l)) /\ Cardinality(Publishing(l)) \in Nat
        /\ Cardinality(Buffered(l)) \in Nat
        /\ Cardinality(Buffered(l)) =
             IF updateChan # <<>> /\ Head(updateChan) = l THEN 1 ELSE 0

(* The counts are what the types make them.                                *)
LEMMA InflightTyped == TypeOK => CountsOK
  <1>. SUFFICES ASSUME TypeOK PROVE CountsOK
    OBVIOUS
  <1>1. IsFiniteSet(Senders)
    <2>1. IsFiniteSet({"main"} \cup {"svc"}) /\ IsFiniteSet(({"main"} \cup {"svc"}) \cup {"kv"})
      BY FS_Singleton, FS_AddElement
    <2>2. IsFiniteSet(Discoverers)
      <3>1. Discoverers = ({"main"} \cup {"svc"}) \cup {"kv"}
        BY DEF Discoverers
      <3>. QED
        BY <2>1, <3>1
    <2>. QED
      BY <2>2, FS_Union DEF Senders
  <1>2. ASSUME NEW l \in Lists
        PROVE  IsFiniteSet(Publishing(l)) /\ Cardinality(Publishing(l)) \in Nat
    <2>1. Publishing(l) \in SUBSET Senders
      BY DEF Publishing
    <2>. QED
      BY <1>1, <2>1, FS_Subset, FS_CardinalityType
  <1>3. ASSUME NEW l \in Lists
        PROVE  Cardinality(Buffered(l)) =
                 IF updateChan # <<>> /\ Head(updateChan) = l THEN 1 ELSE 0
    <2>1. CASE updateChan # <<>> /\ Head(updateChan) = l
      <3>0. updateChan \in Seq(Lists) /\ Len(updateChan) <= 1
        BY DEF TypeOK, Cap
      <3>1. Len(updateChan) = 1
        <4>1. Len(updateChan) \in Nat \ {0}
          BY <2>1, <3>0, EmptySeq
        <4>2. \A n \in Nat \ {0} : n <= 1 => n = 1
          OBVIOUS
        <4>. QED
          BY <3>0, <4>1, <4>2, Zenon
      <3>2. DOMAIN updateChan = 1..1 /\ updateChan[1] = l
        BY <2>1, <3>1 DEF TypeOK
      <3>3. Buffered(l) = {1}
        BY <3>2 DEF Buffered
      <3>. QED
        BY <2>1, <3>3, FS_Singleton
    <2>2. CASE ~(updateChan # <<>> /\ Head(updateChan) = l)
      <3>1. Buffered(l) = {}
        BY <2>2 DEF Buffered, TypeOK, Cap
      <3>. QED
        BY <2>2, <3>1, FS_EmptySet
    <2>. QED
      BY <2>1, <2>2
  <1>4. \A l \in Lists : Cardinality(Buffered(l)) \in Nat
    BY <1>3
  <1>. QED
    BY <1>2, <1>3, <1>4 DEF Inflight, CountsOK

(* Nobody begins or ends to publish.                                       *)
LEMMA PublishingSame ==
  ASSUME \A q \in Senders : \/ pc[q] \notin Sending /\ pc'[q] \notin Sending
                            \/ /\ pc[q] \in Sending /\ pc'[q] \in Sending
                               /\ local'[q].addrs = local[q].addrs
  PROVE  \A l \in Lists : Publishing(l)' = Publishing(l)
  BY DEF Publishing, Sending

(* A sender begins to publish its list.                                    *)
LEMMA PublishingBegins ==
  ASSUME TypeOK, NEW p \in Senders, Moved(p),
         pc[p] \notin Sending, pc'[p] \in Sending
  PROVE  \A l \in Lists : Cardinality(Publishing(l)') =
                  Cardinality(Publishing(l)) + IF local'[p].addrs = l THEN 1 ELSE 0
  <1>. TAKE l \in Lists
  <1>1. IsFiniteSet(Publishing(l)) /\ Cardinality(Publishing(l)) \in Nat
    BY InflightTyped DEF CountsOK
  <1>2. p \notin Publishing(l)
    BY DEF Publishing, Sending
  <1>3. CASE local'[p].addrs = l
    <2>1. Publishing(l)' = Publishing(l) \cup {p}
      BY <1>3 DEF Publishing, Sending, Moved
    <2>. QED
      BY <1>1, <1>2, <1>3, <2>1, FS_AddElement
  <1>4. CASE local'[p].addrs # l
    <2>1. Publishing(l)' = Publishing(l)
      BY <1>4 DEF Publishing, Sending, Moved
    <2>. QED
      BY <1>1, <1>4, <2>1
  <1>. QED
    BY <1>3, <1>4

(* A sender ends to publish its list.                                      *)
LEMMA PublishingEnds ==
  ASSUME TypeOK, NEW p \in Senders, Moved(p),
         pc[p] \in Sending, pc'[p] \notin Sending
  PROVE  \A l \in Lists : Cardinality(Publishing(l)') =
                  Cardinality(Publishing(l)) - IF local[p].addrs = l THEN 1 ELSE 0
  <1>. TAKE l \in Lists
  <1>1. IsFiniteSet(Publishing(l)) /\ Cardinality(Publishing(l)) \in Nat
    BY InflightTyped DEF CountsOK
  <1>2. Publishing(l)' = Publishing(l) \ {p}
    BY DEF Publishing, Sending, Moved
  <1>3. p \in Publishing(l) <=> local[p].addrs = l
    BY DEF Publishing, Sending
  <1>4. Cardinality(Publishing(l)') =
          IF p \in Publishing(l) THEN Cardinality(Publishing(l)) - 1
                                 ELSE Cardinality(Publishing(l))
    BY <1>1, <1>2, FS_RemoveElement
  <1>. QED
    BY <1>1, <1>3, <1>4

(* A step that changes nothing the consumer could tell.                    *)
Hidden == UNCHANGED <<lastAddresses, Inflight, received, done, closed>>

(* Nobody begins or ends to publish and the buffer stays as it is.         *)
LEMMA InflightSame ==
  ASSUME UNCHANGED updateChan,
         \A q \in Senders : \/ pc[q] \notin Sending /\ pc'[q] \notin Sending
                            \/ /\ pc[q] \in Sending /\ pc'[q] \in Sending
                               /\ local'[q].addrs = local[q].addrs
  PROVE  Inflight' = Inflight
  <1>1. \A l \in Lists : Publishing(l)' = Publishing(l) /\ Buffered(l)' = Buffered(l)
    BY PublishingSame DEF Buffered
  <1>. QED
    BY <1>1 DEF Inflight

(* The same for a step of one goroutine that is not publishing.            *)
LEMMA InflightSameFor ==
  ASSUME UNCHANGED updateChan, NEW p \in Senders, Moved(p),
         pc[p] \notin Sending, pc'[p] \notin Sending
  PROVE  Inflight' = Inflight
  BY InflightSame DEF Moved

(* A goroutine begins to publish a list that is news.                      *)
LEMMA PublishImplements ==
  ASSUME TypeOK, NEW p \in Senders, Moved(p), pc[p] \notin Sending, pc'[p] \in Sending,
         NEW l \in Lists, local'[p].addrs = l, l # lastAddresses, lastAddresses' = l,
         UNCHANGED channel
  PROVE  Feed!Publish(l)
  <1>1. \A k \in Lists : Cardinality(Publishing(k)') =
                           Cardinality(Publishing(k)) + IF k = l THEN 1 ELSE 0
    BY PublishingBegins
  <1>2. \A k \in Lists : Buffered(k)' = Buffered(k)
    BY DEF Buffered
  <1>3. \A k \in Lists : Cardinality(Buffered(k)) \in Nat /\ Cardinality(Publishing(k)) \in Nat
    BY InflightTyped DEF CountsOK
  <1>4. \A k \in Lists : Inflight'[k] = IF k = l THEN Inflight[k] + 1 ELSE Inflight[k]
    BY <1>1, <1>2, <1>3 DEF Inflight
  <1>5. Inflight' = [Inflight EXCEPT ![l] = @ + 1]
    BY <1>4 DEF Inflight
  <1>. QED
    BY <1>5 DEF Feed!Publish

(* Lists under way are dropped because doneChan is closed.                 *)
LEMMA DropImplements ==
  ASSUME TypeOK, TypeOK', done' = TRUE, UNCHANGED <<lastAddresses, received, closed>>,
         \A l \in Lists : Inflight'[l] <= Inflight[l]
  PROVE  Feed!Stop
  <1>1. Inflight \in [Lists -> Nat] /\ Inflight' \in [Lists -> Nat]
    <2>1. CountsOK'
      BY InflightTyped, PTL
    <2>. QED
      BY <2>1, InflightTyped DEF CountsOK
  <1>2. Inflight' \in [Lists -> UNION {0..Inflight[l] : l \in Lists}]
    BY <1>1
  <1>. QED
    BY <1>2 DEF Feed!Stop

(* Resolver.Start: the channel is closed after doneChan.                   *)
LEMMA MainImplements ==
  ASSUME IInv, MainNext PROVE Feed!Close \/ Hidden
  <1>1. Inflight' = Inflight
    <2>1. UNCHANGED updateChan
      BY DEF MainNext, StartReadKV, StartSpawn, StartClose
    <2>2. \A q \in Senders : \/ pc[q] \notin Sending /\ pc'[q] \notin Sending
                             \/ pc'[q] = pc[q] /\ local'[q] = local[q]
      BY DEF MainNext, StartReadKV, StartSpawn, StartClose, IInv, TypeOK, EndOK, Sending
    <2>. QED
      BY <2>1, <2>2, InflightSame
  <1>2. CASE StartClose
    BY <1>1, <1>2 DEF StartClose, WatchersExited, IInv, EndOK, Feed!Close
  <1>. QED
    BY <1>1, <1>2 DEF MainNext, StartReadKV, SetServiceName, StartSpawn, Hidden

(* discover publishes a list at once or leaves it to a timer.              *)
LEMMA DiscoverImplements ==
  ASSUME IInv, NEW d \in Discoverers, DiscoverNext(d)
  PROVE  (\E l \in Lists : Feed!Publish(l)) \/ Hidden
  <1>0. TypeOK /\ d \in Senders /\ local[d].addrs \in Lists
    BY DEF IInv, Senders, TypeOK, Locals
  <1>1. CASE pc'[d] = "send"
    <2>1. /\ Schedule(d) /\ Moved(d) /\ UNCHANGED channel
          /\ pc[d] \notin Sending /\ pc'[d] \in Sending
      BY <1>0, <1>1, DiscoverMoves DEF Schedule, Sending
    <2>2. /\ UNCHANGED local /\ lastAddresses' = local[d].addrs
          /\ local[d].addrs # lastAddresses
      BY <1>0, <1>1, <2>1 DEF Schedule, AfterDiscover, areAddressesEqual, TypeOK
    <2>. QED
      BY <1>0, <2>1, <2>2, PublishImplements
  <1>2. CASE pc'[d] # "send"
    <2>1. Inflight' = Inflight
      BY <1>0, <1>2, DiscoverMoves, InflightSameFor DEF Sending
    <2>2. UNCHANGED lastAddresses
      BY <1>0, <1>2 DEF DiscoverNext, DiscoverRead, DiscoverAnswer, DiscoverError,
                        DiscoverApply, Schedule, TypeOK
    <2>. QED
      BY <1>0, <2>1, <2>2, DiscoverMoves DEF Hidden
  <1>. QED
    BY <1>1, <1>2

(* The loops publish nothing themselves.                                   *)
LEMMA LoopsImplement ==
  ASSUME IInv, KVNext \/ \E d \in {"svc", "kv"} : LoopNext(d) PROVE Hidden
  <1>0. TypeOK /\ {"svc", "kv"} \subseteq Senders
    BY DEF IInv, Senders, Discoverers
  <1>1. CASE KVNext
    <2>1. Inflight' = Inflight
      BY <1>0, <1>1, KVMoves, InflightSameFor DEF Sending
    <2>. QED
      BY <1>0, <1>1, <2>1, KVMoves DEF Hidden
  <1>2. ASSUME NEW d \in {"svc", "kv"}, LoopNext(d) PROVE Hidden
    <2>1. Inflight' = Inflight
      BY <1>0, <1>2, LoopMoves, InflightSameFor DEF Sending
    <2>. QED
      BY <1>0, <1>2, <2>1, LoopMoves DEF Hidden
  <1>. QED
    BY <1>1, <1>2

(* A timer callback publishes what is pending, which is news.              *)
LEMMA CallbackImplements ==
  ASSUME IInv, NEW c \in Callbacks, CallbackNext(c)
  PROVE  (\E l \in Lists : Feed!Publish(l)) \/ Hidden
  <1>0. TypeOK /\ c \in Senders
    BY DEF IInv, Senders
  <1>1. CASE pc'[c] = "send"
    <2>1. /\ CallbackTake(c) /\ Moved(c) /\ UNCHANGED channel
          /\ pc[c] \notin Sending /\ pc'[c] \in Sending
      BY <1>0, <1>1, CallbackMoves
         DEF CallbackNext, TimerFires, CallbackCheck, Sending, TypeOK
    <2>2. /\ pendingAddresses # Nil /\ lastAddresses' = pendingAddresses
          /\ local' = [local EXCEPT ![c].addrs = pendingAddresses]
      BY <1>0, <1>1, <2>1 DEF CallbackTake, TypeOK
    <2>3. pendingAddresses \in Lists /\ pendingAddresses # lastAddresses
      BY <2>2 DEF IInv, TypeOK, PendingOK
    <2>4. local'[c].addrs = pendingAddresses
      BY <1>0, <2>2 DEF TypeOK, Locals
    <2>. QED
      BY <1>0, <2>1, <2>2, <2>3, <2>4, PublishImplements
  <1>2. CASE pc'[c] # "send"
    <2>1. Inflight' = Inflight
      BY <1>0, <1>2, CallbackMoves, InflightSameFor DEF Sending
    <2>2. UNCHANGED lastAddresses
      BY <1>0, <1>2 DEF CallbackNext, TimerFires, CallbackCheck, CallbackTake, TypeOK
    <2>. QED
      BY <1>0, <2>1, <2>2, CallbackMoves DEF Hidden
  <1>. QED
    BY <1>1, <1>2

(* A send moves the list into the buffer; a closed doneChan drops it.      *)
LEMMA SendImplements ==
  ASSUME IInv, TypeOK', NEW p \in Senders, SendNext(p)
  PROVE  Feed!Stop \/ Hidden
  <1>0. TypeOK /\ Moved(p) /\ pc[p] \in Sending /\ UNCHANGED <<mine, closed, done>>
    BY SendMoves DEF IInv, Sending
  <1>1. AfterSend(p) \notin Sending /\ local[p].addrs \in Lists
    BY <1>0 DEF AfterSend, AfterDiscover, Sending, TypeOK, Locals
  <1>2. /\ \A l \in Lists : /\ Cardinality(Publishing(l)) \in Nat
                             /\ Cardinality(Buffered(l)) \in Nat
                             /\ Cardinality(Buffered(l)) =
                                  IF updateChan # <<>> /\ Head(updateChan) = l THEN 1 ELSE 0
        /\ \A l \in Lists : Cardinality(Buffered(l)') =
                IF updateChan' # <<>> /\ Head(updateChan') = l THEN 1 ELSE 0
    <2>1. CountsOK'
      BY InflightTyped, PTL
    <2>. QED
      BY <1>0, <2>1, InflightTyped DEF CountsOK
  <1>3. CASE Send(p)
    <2>1. pc'[p] = AfterSend(p)
      BY <1>0, <1>3 DEF Send, Published, TypeOK
    <2>2. \A l \in Lists : Cardinality(Publishing(l)') =
                  Cardinality(Publishing(l)) - IF local[p].addrs = l THEN 1 ELSE 0
      BY <1>0, <1>1, <2>1, PublishingEnds
    <2>3. updateChan = <<>> /\ updateChan' # <<>> /\ Head(updateChan') = local[p].addrs
      <3>1. updateChan = <<>>
        BY <1>0, <1>3 DEF Send, HasRoom, Cap, TypeOK
      <3>. QED
        BY <1>3, <3>1 DEF Send
    <2>4. \A l \in Lists : Inflight'[l] = Inflight[l]
      BY <1>2, <2>2, <2>3 DEF Inflight
    <2>5. Inflight' = Inflight
      BY <2>4 DEF Inflight
    <2>. QED
      BY <1>0, <1>3, <2>5 DEF Send, Hidden
  <1>4. CASE Park(p) \/ SendPanics(p)
    <2>1. /\ UNCHANGED <<updateChan, local, received>> /\ pc'[p] \in Sending
      BY <1>0, <1>4 DEF Park, SendPanics, Sending, TypeOK
    <2>2. Inflight' = Inflight
      BY <1>0, <2>1, InflightSame DEF Moved
    <2>. QED
      BY <1>0, <2>1, <2>2 DEF Hidden
  <1>5. CASE SendAborted(p)
    <2>1. pc'[p] = AfterSend(p) /\ UNCHANGED <<updateChan, received>> /\ done' = TRUE
      BY <1>0, <1>5 DEF SendAborted, MayAbort, Published, TypeOK, FlagsOK
    <2>2. \A l \in Lists : Cardinality(Publishing(l)') =
                  Cardinality(Publishing(l)) - IF local[p].addrs = l THEN 1 ELSE 0
      BY <1>0, <1>1, <2>1, PublishingEnds
    <2>3. \A l \in Lists : Inflight'[l] <= Inflight[l]
      <3>1. \A l \in Lists : Buffered(l)' = Buffered(l)
        BY <2>1 DEF Buffered
      <3>. QED
        BY <1>2, <2>2, <3>1 DEF Inflight
    <2>. QED
      BY <1>0, <2>1, <2>3, DropImplements
  <1>. QED
    BY <1>3, <1>4, <1>5 DEF SendNext

(* A receive delivers what the buffer holds, and lets the first parked     *)
(* sender's list into it.                                                  *)
LEMMA ReceiveImplements ==
  ASSUME IInv, TypeOK', Receive
  PROVE  \E l \in Lists : Feed!Deliver(l)
  <1>. DEFINE h == Head(updateChan)
  <1>0. /\ TypeOK /\ QueueOK /\ received' = h /\ updateChan # <<>>
        /\ UNCHANGED <<lastAddresses, done, closed>>
    BY DEF IInv, Receive
  <1>1. h \in Lists /\ Tail(updateChan) = <<>>
    BY <1>0 DEF TypeOK, Cap
  <1>2. CountsOK /\ CountsOK'
    BY <1>0, InflightTyped, PTL
  <1>3. \A l \in Lists : Inflight'[l] = IF l = h THEN Inflight[l] - 1 ELSE Inflight[l]
    <2>1. CASE sendq = <<>>
      <3>1. UNCHANGED <<pc, local>> /\ updateChan' = <<>>
        BY <1>1, <2>1 DEF Receive
      <3>2. \A l \in Lists : Publishing(l)' = Publishing(l)
        BY <3>1 DEF Publishing
      <3>. QED
        BY <1>0, <1>2, <3>1, <3>2 DEF Inflight, CountsOK
    <2>2. CASE sendq # <<>>
      <3>. DEFINE q == Head(sendq)
      <3>1. q \in Senders /\ Moved(q) /\ pc[q] = "parked" /\ pc'[q] = AfterSend(q)
        BY <1>0, <2>2, ReceiveMoves
      <3>2. pc[q] \in Sending /\ pc'[q] \notin Sending /\ local[q].addrs \in Lists
        BY <1>0, <3>1 DEF Sending, AfterSend, AfterDiscover, TypeOK, Locals
      <3>3. \A l \in Lists : Cardinality(Publishing(l)') =
                    Cardinality(Publishing(l)) - IF local[q].addrs = l THEN 1 ELSE 0
        BY <1>0, <3>1, <3>2, PublishingEnds
      <3>4. updateChan' # <<>> /\ Head(updateChan') = local[q].addrs
        <4>1. updateChan' = Append(<<>>, local[q].addrs)
          BY <1>1, <2>2 DEF Receive
        <4>. QED
          BY <4>1
      <3>5. ASSUME NEW l \in Lists
            PROVE  Inflight'[l] = IF l = h THEN Inflight[l] - 1 ELSE Inflight[l]
        <4>1. /\ Cardinality(Publishing(l)) \in Nat /\ Cardinality(Publishing(l)') \in Nat
              /\ Cardinality(Buffered(l)) = IF h = l THEN 1 ELSE 0
          BY <1>0, <1>2 DEF CountsOK
        <4>2. Cardinality(Buffered(l)') = IF local[q].addrs = l THEN 1 ELSE 0
          BY <1>2, <3>4 DEF CountsOK
        <4>3. /\ Inflight[l] = Cardinality(Publishing(l)) + Cardinality(Buffered(l))
              /\ Inflight'[l] = Cardinality(Publishing(l)') + Cardinality(Buffered(l)')
          BY DEF Inflight
        <4>4. Cardinality(Publishing(l)') =
                    Cardinality(Publishing(l)) - IF local[q].addrs = l THEN 1 ELSE 0
          BY <3>3
        <4>. HIDE DEF q, h
        <4>5. CASE local[q].addrs = l
          BY <4>1, <4>2, <4>3, <4>4, <4>5
        <4>6. CASE local[q].addrs # l
          BY <4>1, <4>2, <4>3, <4>4, <4>6
        <4>. QED
          BY <4>5, <4>6
      <3>. QED
        BY <3>5
    <2>. QED
      BY <2>1, <2>2
  <1>4. Inflight' = [Inflight EXCEPT ![h] = @ - 1]
    BY <1>3 DEF Inflight
  <1>5. Inflight[h] > 0
    BY <1>0, <1>1, <1>2 DEF Inflight, CountsOK
  <1>. QED
    BY <1>0, <1>1, <1>4, <1>5 DEF Feed!Deliver

(* Stop drops the lists of the parked senders.                             *)
LEMMA StopImplements ==
  ASSUME IInv, TypeOK', StopNext
  PROVE  Feed!Stop \/ Hidden
  <1>1. CASE StopClose
    <2>0. CountsOK /\ CountsOK'
      BY InflightTyped, PTL DEF IInv
    <2>1. \A l \in Lists : Publishing(l)' \subseteq Publishing(l) /\ Buffered(l)' = Buffered(l)
      BY <1>1 DEF StopClose, Parked, Publishing, Buffered, AfterSend, AfterDiscover,
                  IInv, TypeOK
    <2>2. \A l \in Lists : Cardinality(Publishing(l)') <= Cardinality(Publishing(l))
      BY <2>0, <2>1, FS_Subset DEF CountsOK
    <2>3. \A l \in Lists : Inflight'[l] <= Inflight[l]
      BY <2>0, <2>1, <2>2 DEF Inflight, CountsOK
    <2>. QED
      BY <1>1, <2>3, DropImplements DEF StopClose, IInv
  <1>2. CASE StopCall \/ StopTimer
    <2>1. Inflight' = Inflight
      BY <1>2, InflightSame DEF StopCall, StopTimer
    <2>. QED
      BY <1>2, <2>1 DEF StopCall, StopTimer, Hidden
  <1>. QED
    BY <1>1, <1>2 DEF StopNext

(* The resolver is an AddressFeed, stopped or not, with and without        *)
(* debouncing: it publishes only news, and only Stop loses a list.         *)
THEOREM ImplementsFeedAlways == Spec => ImplementsFeed
  <1>1. Init => Feed!Init
    <2>. SUFFICES ASSUME Init PROVE Feed!Init
      OBVIOUS
    <2>1. \A l \in Lists : Publishing(l) = {} /\ Buffered(l) = {}
      BY DEF Init, Publishing, Buffered
    <2>2. Inflight = [l \in Lists |-> 0]
      BY <2>1, FS_EmptySet DEF Inflight
    <2>. QED
      BY <2>2 DEF Init, Feed!Init
  <1>2. IInv /\ IInv' /\ [Next]_vars => [Feed!Next]_(Feed!vars)
    <2>. SUFFICES ASSUME IInv, TypeOK', [Next]_vars
                  PROVE  Feed!Next \/ UNCHANGED Feed!vars
      BY DEF IInv
    <2>1. Hidden => UNCHANGED Feed!vars
      BY DEF Hidden, Feed!vars
    <2>2. CASE ReceiveNil
      <3>1. Inflight' = Inflight
        BY <2>2, InflightSame DEF ReceiveNil
      <3>. QED
        BY <2>2, <3>1 DEF ReceiveNil, Feed!Next, Feed!DeliverNil
    <2>3. CASE KVChanges \/ (\E s \in Services : CatalogChanges(s)) \/ UNCHANGED vars
      <3>1. UNCHANGED <<pc, local, channel, lastAddresses>>
        BY <2>3 DEF KVChanges, CatalogChanges
      <3>2. Inflight' = Inflight
        BY <3>1, InflightSame
      <3>. QED
        BY <2>1, <3>1, <3>2 DEF Hidden
    <2>. QED
      BY <2>1, <2>2, <2>3, MainImplements, DiscoverImplements, LoopsImplement,
         CallbackImplements, SendImplements, ReceiveImplements, StopImplements
         DEF Next, Feed!Next
  <1>. QED
    BY <1>1, <1>2, Invariance, PTL DEF Spec, ImplementsFeed, Feed!Spec
==========================================================================
