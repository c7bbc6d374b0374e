---------------------- MODULE ResolverClientProofs -----------------------
(***************************************************************************)
(* Proofs about ResolverClient. Every step of it is one of ClientLifecycle *)
(* or leaves the client alone, so the inductive invariant of               *)
(* ClientLifecycleProofs holds here too; ServeOK and LeakOK add what the   *)
(* feed makes of the connections.                                          *)
(***************************************************************************)
EXTENDS ResolverClient, ClientLifecycleProofs

USE OptionsAssumption, BoundsAssumption, ProcsAssumption, ResolverAssumption
    DEF OptionsAssumption, BoundsAssumption, ProcsAssumption, ResolverAssumption, NewClientID,
        vars, clientVars, lockVars, connVars, flags, Goto, feedVars, dialVars, allVars

Running == \A s \in Stoppers : pc[s] # "done"

Addresses == UNION {Range(l) : l \in Lists}

(* Where the watcher has dealt with the list it received.                  *)
Settled == {"resume", "resuming", "watch"}

(* The attempt is for the list received last, and it is installed when the *)
(* list is dealt with; only Stop takes it away.                            *)
ServeOK ==
    /\ received \in Lists /\ tries \in Nat
    /\ address \in [Conns -> Addresses \cup {None}]
    /\ attempt # {} => attempt = {created} /\ pc[Watcher] \in {"dialing", "swap_lock", "swap"}
    /\ pc[Watcher] \in {"dial", "dialing"} => received # <<>>
    /\ pc[Watcher] = "dialing" => attempt # {}
    /\ pc[Watcher] \in {"swap_lock", "swap"} => (attempt = {} <=> received = <<>>)
    /\ \A c \in attempt : address[c] \in Range(received)
    /\ pc[Watcher] \in Settled /\ mqttClient # None => address[mqttClient] \in Range(received)
    /\ pc[Watcher] \in Settled /\ Running => (mqttClient = None <=> received = <<>>)
    /\ pc[Watcher] \in {"resume", "resuming"} => received # <<>>

(* A connection that does not exist yet is not up, one that exists is      *)
(* referred to or was given up by newClient.                               *)
LeakOK ==
    /\ \A c \in Conns : c > created => state[c] = "new"
    /\ Running => Orphans \subseteq abandoned

-----------------------------------------------------------------------------
(***************************************************************************)
(* What the client does here it does in ClientLifecycle.                   *)
(***************************************************************************)
LEMMA ClientSteps == [RCNext]_allVars => [Next]_vars
  <1> SUFFICES ASSUME [RCNext]_allVars PROVE [Next]_vars
    OBVIOUS
  <1>1. CASE RCReceive \/ RCWatchDone \/ RCDial \/ RCDialRetry
    BY <1>1 DEF RCReceive, RCWatchDone, RCDial, RCDialRetry, RCNext, Next, WatcherNext
  <1>2. CASE ClientAlone
    BY <1>2 DEF ClientAlone, RCNext, Next, WatcherNext
  <1>3. CASE FeedAlone \/ UNCHANGED allVars
    BY <1>3 DEF FeedAlone
  <1> QED BY <1>1, <1>2, <1>3 DEF RCNext

(* The client with its resolver is a client of ClientLifecycle.            *)
LEMMA ClientBehaves == RCSpec => Spec
  BY ClientSteps, PTL DEF RCSpec, Spec, RCInit

(* The goroutines other than the watcher, and the feed while the client    *)
(* does not read it, leave what ServeOK is about alone but for Stop.       *)
Aside ==
    /\ UNCHANGED <<received, tries, address, abandoned, attempt, created>>
    /\ pc'[Watcher] = pc[Watcher]
    /\ mqttClient' = mqttClient \/ (mqttClient' = None /\ ~Running')

(* Such steps keep ServeOK.                                                *)
LEMMA AsideKeeps ==
    ASSUME IInv, ServeOK, [Next]_vars, Aside
    PROVE  ServeOK'
  <1>1. Running' => Running
    BY DoneStays DEF Running
  <1>2. (received \in Lists /\ tries \in Nat)'
    BY DEF Aside, ServeOK
  <1>3. (address \in [Conns -> Addresses \cup {None}])'
    BY DEF Aside, ServeOK
  <1>4. \A c \in attempt' : address'[c] \in Range(received')
    BY DEF Aside, ServeOK
  <1>5. CASE mqttClient' = mqttClient
    BY <1>1, <1>2, <1>3, <1>4, <1>5 DEF Aside, ServeOK
  <1>6. CASE mqttClient' = None /\ ~Running'
    BY <1>1, <1>2, <1>3, <1>4, <1>6 DEF Aside, ServeOK
  <1> QED BY <1>5, <1>6 DEF Aside

(* Which steps are such.                                                   *)
LEMMA IsAside ==
    ASSUME IInv,
           \/ \E p \in Ops : OpNext(p)
           \/ \E p \in Infos : InfoNext(p)
           \/ \E s \in Stoppers : StopNext(s)
           \/ \E c \in Conns : Retire(c) \/ ConnStep(c)
           \/ UNCHANGED vars,
           UNCHANGED <<received, dialVars>>
    PROVE  Aside
  <1>0. /\ Watcher \in Procs /\ \A p \in Ops \cup Infos \cup Stoppers : p # Watcher /\ p \in Procs
        /\ pc \in [Procs -> Labels]
    BY DEF Procs, IInv, TypeOK
  <1>1. ASSUME NEW p \in Ops, OpNext(p) PROVE Aside
    BY <1>0, <1>1 DEF OpNext, OpBegin, OpEnd, OpUninitialized, Aside
  <1>2. ASSUME NEW p \in Infos, InfoNext(p) PROVE Aside
    BY <1>0, <1>2 DEF InfoNext, InfoOuter, InfoInner, InfoEnd, Aside
  <1>3. ASSUME NEW s \in Stoppers, StopNext(s) PROVE Aside
    <2>1. CASE StopClear(s)
      <3>1. pc'[s] = "done"
        BY <1>0, <2>1 DEF StopClear
      <3>2. ~Running'
        BY <3>1 DEF Running
      <3> QED BY <1>0, <2>1, <3>2 DEF StopClear, Aside
    <2> QED
      BY <1>0, <1>3, <2>1 DEF StopNext, StopCall, StopBegin, StopUninitialized, StopDisconnect,
           StopUnlock, StopCancel, StopAnnounce, Aside
  <1>4. ASSUME NEW c \in Conns, Retire(c) \/ ConnStep(c) PROVE Aside
    BY <1>4 DEF Retire, ConnStep, Aside
  <1>5. CASE UNCHANGED vars
    BY <1>5 DEF Aside
  <1> QED BY <1>1, <1>2, <1>3, <1>4, <1>5

-----------------------------------------------------------------------------
(***************************************************************************)
(* The connection is for the list received last.                           *)
(***************************************************************************)
LEMMA IsList ==
    ASSUME NEW l \in Lists, l # <<>>, NEW n \in Nat
    PROVE  l[(n % Len(l)) + 1] \in Range(l)
  <1>1. l \in Seq(Range(l))
    OBVIOUS
  <1>2. Len(l) \in Nat \ {0} /\ DOMAIN l = 1..Len(l)
    BY <1>1
  <1>3. (n % Len(l)) + 1 \in 1..Len(l)
    BY <1>2
  <1> QED BY <1>2, <1>3 DEF Range

(* Every step keeps ServeOK.                                               *)
LEMMA ServeStep ==
    ASSUME IInv, ServeOK, [RCNext]_allVars
    PROVE  ServeOK'
  <1>0. /\ [Next]_vars /\ Watcher \in Procs /\ pc \in [Procs -> Labels]
        /\ created \in 0..MaxConns /\ attempt \subseteq Conns /\ mqttClient \in Conns \cup {None}
    BY ClientSteps DEF IInv, TypeOK, Procs
  <1>r. Running' => Running
    BY <1>0, DoneStays DEF Running
  <1>1. CASE RCReceive
    <2>1. /\ pc[Watcher] \in {"first", "watch"} /\ received' \in Lists /\ tries' = 0
          /\ pc'[Watcher] = IF received' = <<>> THEN "swap_lock" ELSE "dial"
          /\ UNCHANGED <<address, attempt, created, mqttClient>>
      BY <1>0, <1>1 DEF RCReceive, ReceiveUpdate, Feed!DeliverNil, Feed!Deliver
    <2>2. attempt = {}
      BY <2>1 DEF ServeOK
    <2>3. (address \in [Conns -> Addresses \cup {None}])'
      BY <2>1 DEF ServeOK
    <2> QED BY <2>1, <2>2, <2>3 DEF ServeOK, Settled
  <1>2. CASE RCDial
    <2>1. /\ pc[Watcher] = "dial" /\ pc'[Watcher] = "dialing" /\ created < MaxConns
          /\ created' = created + 1 /\ attempt' = {created + 1}
          /\ address' = [address EXCEPT ![created + 1] = received[(tries % Len(received)) + 1]]
          /\ UNCHANGED <<received, tries, mqttClient>>
      BY <1>0, <1>2 DEF RCDial, Dial
    <2>2. received # <<>> /\ received \in Lists /\ tries \in Nat
      BY <2>1 DEF ServeOK
    <2>3. received[(tries % Len(received)) + 1] \in Range(received)
      BY <2>2, IsList
    <2>4. created + 1 \in Conns
      BY <1>0, <2>1 DEF Conns
    <2>5. (address \in [Conns -> Addresses \cup {None}])'
      BY <2>1, <2>2, <2>3, <2>4 DEF ServeOK, Addresses
    <2>6. \A c \in attempt' : address'[c] \in Range(received')
      BY <2>1, <2>3, <2>4 DEF ServeOK
    <2> QED BY <2>1, <2>2, <2>5, <2>6 DEF ServeOK, Settled
  <1>3. CASE RCDialRetry
    <2>1. /\ pc[Watcher] = "dialing" /\ pc'[Watcher] = "dial" /\ attempt' = {} /\ tries' = tries + 1
          /\ UNCHANGED <<received, address, created, mqttClient>>
      BY <1>0, <1>3 DEF RCDialRetry, DialRetry
    <2>2. (address \in [Conns -> Addresses \cup {None}])'
      BY <2>1 DEF ServeOK
    <2> QED BY <2>1, <2>2 DEF ServeOK, Settled
  <1>4. ASSUME ClientAlone \/ RCWatchDone, UNCHANGED <<attempt, created, mqttClient>>,
               \/ pc'[Watcher] \in {"idle", "first", "exited"} /\ pc[Watcher] \in {"idle", "first", "watch"}
               \/ pc'[Watcher] = "swap_lock" /\ pc[Watcher] = "dialing"
               \/ pc'[Watcher] = "swap" /\ pc[Watcher] = "swap_lock"
               \/ pc'[Watcher] \in {"resuming", "watch", "idle"} /\ pc[Watcher] \in {"resume", "resuming"}
        PROVE  ServeOK'
    <2>1. UNCHANGED <<received, tries, address>>
      BY <1>4 DEF ClientAlone, RCWatchDone
    <2>2. (address \in [Conns -> Addresses \cup {None}])'
      BY <2>1 DEF ServeOK
    <2>3. (received \in Lists /\ tries \in Nat /\ \A c \in attempt : address[c] \in Range(received))'
      BY <1>4, <2>1 DEF ServeOK
    <2> QED BY <1>4, <1>r, <2>1, <2>2, <2>3 DEF ServeOK, Settled
  <1>5. CASE RCWatchDone
    BY <1>0, <1>4, <1>5 DEF RCWatchDone, WatchDone
  <1>6. CASE ClientAlone
    <2>0. UNCHANGED <<feedVars, dialVars>>
      BY <1>6 DEF ClientAlone
    <2>1. CASE RunResolver \/ RunResolverTimeout \/ DialConnected \/ SwapAnnounce
      BY <1>0, <1>4, <1>6, <2>1 DEF RunResolver, RunResolverTimeout, DialConnected, SwapAnnounce
    <2>2. CASE ResumeNothing \/ ResumeUninitialized \/ ResumeBegin \/ ResumeEnd
      <3>1. UNCHANGED <<attempt, created, mqttClient>> /\ pc[Watcher] \in {"resume", "resuming"}
        BY <2>2 DEF ResumeNothing, ResumeUninitialized, ResumeBegin, ResumeEnd
      <3>2. pc'[Watcher] \in {"resuming", "watch", "idle"}
        BY <1>0, <2>2 DEF ResumeNothing, ResumeUninitialized, ResumeBegin, ResumeEnd, AttemptReturn
      <3> QED BY <1>4, <1>6, <3>1, <3>2
    <2>3. CASE Swap
      <3>1. /\ pc[Watcher] = "swap" /\ attempt' = {} /\ mqttClient' = NextClient
            /\ UNCHANGED <<created, received, tries, address>>
        BY <2>0, <2>3 DEF Swap
      <3>2. pc'[Watcher] = IF attempt = {} THEN "watch" ELSE "resume"
        BY <1>0, <2>3 DEF Swap, AttemptReturn
      <3>3. (address \in [Conns -> Addresses \cup {None}])'
        BY <3>1 DEF ServeOK
      <3>4. CASE attempt = {}
        <4>1. mqttClient' = None /\ received' = <<>>
          BY <3>1, <3>4 DEF NextClient, ServeOK
        <4> QED BY <3>1, <3>2, <3>3, <3>4, <4>1 DEF ServeOK, Settled
      <3>5. CASE attempt # {}
        <4>1. attempt = {created} /\ mqttClient' = created
          BY <3>1, <3>5 DEF NextClient, ServeOK
        <4>2. created \in Conns /\ received # <<>> /\ address[created] \in Range(received)
          BY <1>0, <3>1, <3>5, <4>1 DEF ServeOK
        <4>3. mqttClient' # None
          BY <4>1, <4>2
        <4> QED BY <3>1, <3>2, <3>3, <3>5, <4>1, <4>2, <4>3 DEF ServeOK, Settled
      <3> QED BY <3>4, <3>5
    <2>4. CASE \/ \E p \in Ops : OpNext(p)
               \/ \E p \in Infos : InfoNext(p)
               \/ \E s \in Stoppers : StopNext(s)
               \/ \E c \in Conns : Retire(c) \/ ConnStep(c)
      <3>1. Aside
        BY <2>0, <2>4, IsAside
      <3> QED BY <1>0, <3>1, AsideKeeps
    <2> QED BY <1>6, <2>1, <2>2, <2>3, <2>4 DEF ClientAlone
  <1>7. CASE FeedAlone \/ UNCHANGED allVars
    <2>1. UNCHANGED <<vars, received, dialVars>>
      BY <1>7 DEF FeedAlone, Feed!Publish, Feed!Stop, Feed!Close
    <2>2. Aside
      BY <2>1, IsAside
    <2> QED BY <1>0, <2>2, AsideKeeps
  <1> QED BY <1>1, <1>2, <1>3, <1>5, <1>6, <1>7 DEF RCNext

-----------------------------------------------------------------------------
(***************************************************************************)
(* What leaks.                                                             *)
(***************************************************************************)
Reached == Installed \cup attempt \cup retiring \cup givenUp
Kept == \A c \in Conns : Live(c) => c \in Reached \/ c \in abandoned

(* Every step keeps LeakOK.                                                *)
LEMMA LeakStep ==
    ASSUME IInv, ServeOK, LeakOK, [RCNext]_allVars
    PROVE  LeakOK'
  <1>0. /\ [Next]_vars /\ Watcher \in Procs /\ pc \in [Procs -> Labels]
        /\ created \in 0..MaxConns /\ attempt \subseteq Conns /\ state \in [Conns -> ConnStates]
        /\ mqttClients = {} /\ Reached \subseteq 1..created /\ 1..created \subseteq Conns
        /\ mqttClient \in Conns \cup {None}
    <2>1. /\ [Next]_vars /\ Watcher \in Procs /\ pc \in [Procs -> Labels]
          /\ created \in 0..MaxConns /\ attempt \subseteq Conns
          /\ state \in [Conns -> ConnStates] /\ mqttClient \in Conns \cup {None}
      BY ClientSteps DEF IInv, TypeOK, Procs
    <2>2. mqttClients = {}
      BY DEF IInv, PathOK, UsesMany
    <2>3. Reached \subseteq 1..created
      BY DEF IInv, PlaceOK, Reached
    <2>4. 1..created \subseteq Conns
      BY <2>1 DEF Conns
    <2> QED BY <2>1, <2>2, <2>3, <2>4
  <1>f. \A c \in Conns : c > created => state[c] = "new"
    BY DEF LeakOK
  <1>r. Running' => Running /\ Kept
    <2>1. Running' => Running
      BY <1>0, DoneStays DEF Running
    <2>2. Running => Kept
      BY DEF LeakOK, Kept, Reached, Orphans
    <2> QED BY <2>1, <2>2
  (* The connections that are up, those there are and what refers to them. *)
  <1>1. ASSUME \A c \in Conns : Live(c)' => Live(c), created' = created,
               \A c \in Conns : c > created => state'[c] = state[c],
               Running' => \A c \in Conns : Live(c)' /\ c \in Reached \cup abandoned =>
                               c \in Reached' \cup abandoned'
        PROVE  LeakOK'
    <2>1. \A c \in Conns : c > created' => state'[c] = "new"
      BY <1>1, <1>f
    <2>2. ASSUME Running', NEW c \in Conns, Live(c)' PROVE c \in Reached' \cup abandoned'
      BY <1>1, <1>r, <2>2 DEF Kept
    <2> QED BY <2>1, <2>2 DEF LeakOK, Orphans, Reached
  <1>2. ASSUME UNCHANGED <<created, state, attempt, retiring, givenUp, mqttClients>>,
               mqttClient' = mqttClient \/ ~Running', abandoned \subseteq abandoned'
        PROVE  LeakOK'
    <2>1. Running' => Reached' = Reached
      BY <1>2 DEF Reached, Installed
    <2> QED BY <1>1, <1>2, <2>1 DEF Live
  <1>3. CASE RCReceive \/ RCWatchDone \/ FeedAlone \/ UNCHANGED allVars
    BY <1>2, <1>3 DEF RCReceive, ReceiveUpdate, RCWatchDone, WatchDone, FeedAlone
  <1>4. CASE RCDial
    <2>1. /\ created < MaxConns /\ created' = created + 1 /\ attempt' = {created + 1}
          /\ state' = [state EXCEPT ![created + 1] = "connecting"]
          /\ UNCHANGED <<mqttClient, mqttClients, retiring, givenUp, abandoned>>
          /\ pc[Watcher] = "dial"
      BY <1>4 DEF RCDial, Dial
    <2>2. attempt = {}
      BY <2>1 DEF ServeOK
    <2>3. \A c \in Conns : c # created + 1 => state'[c] = state[c]
      BY <1>0, <2>1
    <2>4. \A c \in Conns : c > created' => state'[c] = "new"
      BY <1>0, <1>f, <2>1, <2>3 DEF Conns
    <2>5. ASSUME Running', NEW c \in Conns, Live(c)' PROVE c \in Reached' \cup abandoned'
      <3>1. CASE c = created + 1
        BY <2>1, <3>1 DEF Reached
      <3>2. CASE c # created + 1
        <4>1. c \in Reached \cup abandoned
          BY <1>r, <2>3, <2>5, <3>2 DEF Kept, Live
        <4> QED BY <2>1, <2>2, <4>1 DEF Reached, Installed
      <3> QED BY <3>1, <3>2
    <2> QED BY <2>4, <2>5 DEF LeakOK, Orphans, Reached
  <1>5. CASE RCDialRetry
    <2>1. /\ UNCHANGED <<created, state, mqttClient, mqttClients, retiring, givenUp>>
          /\ attempt' = {} /\ abandoned' = abandoned \cup attempt
      BY <1>5 DEF RCDialRetry, DialRetry
    <2>2. Reached \cup abandoned \subseteq Reached' \cup abandoned'
      BY <2>1 DEF Reached, Installed
    <2> QED BY <1>1, <2>1, <2>2 DEF Live
  <1>6. CASE ClientAlone
    <2>0. UNCHANGED abandoned
      BY <1>6 DEF ClientAlone
    <2>1. CASE RunResolver \/ RunResolverTimeout \/ DialConnected \/ SwapAnnounce
      BY <1>2, <2>0, <2>1 DEF RunResolver, RunResolverTimeout, DialConnected, SwapAnnounce
    <2>2. CASE ResumeNothing \/ ResumeUninitialized \/ ResumeBegin \/ ResumeEnd
      BY <1>2, <2>0, <2>2 DEF ResumeNothing, ResumeUninitialized, ResumeBegin, ResumeEnd
    <2>3. CASE Swap
      <3>1. /\ mqttClient' = NextClient /\ retiring' = retiring \cup ({mqttClient} \ {None})
            /\ attempt' = {} /\ UNCHANGED <<created, state, givenUp, mqttClients>>
        BY <2>3 DEF Swap, Replaced
      <3>2. attempt \subseteq {mqttClient'} \ {None}
        BY <1>0, <3>1 DEF NextClient, ServeOK
      <3>3. Reached \subseteq Reached'
        BY <1>0, <3>1, <3>2 DEF Reached, Installed
      <3> QED BY <1>1, <2>0, <3>1, <3>3 DEF Live
    <2>4. ASSUME NEW p \in Ops, OpNext(p) PROVE LeakOK'
      BY <1>2, <2>0, <2>4 DEF OpNext, OpBegin, OpEnd, OpUninitialized
    <2>5. ASSUME NEW p \in Infos, InfoNext(p) PROVE LeakOK'
      BY <1>2, <2>0, <2>5 DEF InfoNext, InfoOuter, InfoInner, InfoEnd
    <2>6. ASSUME NEW s \in Stoppers, StopNext(s) PROVE LeakOK'
      <3>0. s \in Procs
        BY DEF Procs
      <3>1. CASE StopDisconnect(s)
        <4>1. PICK c \in using[s] : state' = [state EXCEPT ![c] = "closed"]
          BY <3>1 DEF StopDisconnect
        <4>2. c \in 1..created /\ c \in Conns
          BY <1>0, <3>0, <4>1 DEF IInv, UseOK, PlaceOK
        <4>3. UNCHANGED <<created, attempt, retiring, givenUp, mqttClient, mqttClients>>
          BY <3>1 DEF StopDisconnect
        <4>4. \A d \in Conns : state'[d] = IF d = c THEN "closed" ELSE state[d]
          BY <1>0, <4>1, <4>2
        <4>5. /\ \A d \in Conns : Live(d)' => Live(d)
              /\ \A d \in Conns : d > created => state'[d] = state[d]
          BY <1>0, <4>2, <4>4 DEF Live, Conns
        <4>6. Reached' = Reached
          BY <4>3 DEF Reached, Installed
        <4> QED BY <1>1, <2>0, <4>3, <4>5, <4>6
      <3>2. CASE StopClear(s)
        <4>1. pc'[s] = "done"
          BY <1>0, <3>0, <3>2 DEF StopClear
        <4>2. ~Running'
          BY <4>1 DEF Running
        <4>3. UNCHANGED <<created, state, attempt, retiring, givenUp, mqttClients>>
          BY <1>0, <3>2 DEF StopClear
        <4> QED BY <1>2, <2>0, <4>2, <4>3
      <3> QED
        BY <1>2, <2>0, <2>6, <3>1, <3>2 DEF StopNext, StopCall, StopBegin, StopUninitialized,
             StopUnlock, StopCancel, StopAnnounce
    <2>7. ASSUME NEW c \in Conns, Retire(c) \/ ConnStep(c) PROVE LeakOK'
      <3>1. CASE Retire(c)
        <4>1. /\ c \in retiring /\ state' = [state EXCEPT ![c] = "closed"] /\ retiring' = retiring \ {c}
              /\ UNCHANGED <<created, attempt, givenUp, mqttClient, mqttClients>>
          BY <3>1 DEF Retire, Disconnect
        <4>2. \A d \in Conns : state'[d] = IF d = c THEN "closed" ELSE state[d]
          BY <1>0, <4>1
        <4>3. c \in 1..created
          BY <1>0, <4>1 DEF Reached
        <4>4. /\ \A d \in Conns : Live(d)' => Live(d) /\ d # c
              /\ \A d \in Conns : d > created => state'[d] = state[d]
          BY <1>0, <4>2, <4>3 DEF Live, Conns
        <4>5. Reached \ {c} \subseteq Reached'
          BY <4>1 DEF Reached, Installed
        <4> QED BY <1>1, <2>0, <4>1, <4>4, <4>5
      <3>2. CASE ConnStep(c)
        <4>1. PICK m \in ConnMoves : state[c] = m[1] /\ state' = [state EXCEPT ![c] = m[2]]
          BY <3>2 DEF ConnStep
        <4>2. UNCHANGED <<created, attempt, retiring, givenUp, mqttClient, mqttClients>>
          BY <3>2 DEF ConnStep
        <4>3. Live(c)
          BY <4>1 DEF ConnMoves, Live
        <4>4. \A d \in Conns : d # c => state'[d] = state[d]
          BY <1>0, <4>1
        <4>5. ~(c > created)
          BY <1>f, <4>3 DEF Live
        <4>6. /\ \A d \in Conns : Live(d)' => Live(d)
              /\ \A d \in Conns : d > created => state'[d] = state[d]
          BY <4>3, <4>4, <4>5 DEF Live
        <4>7. Reached' = Reached
          BY <4>2 DEF Reached, Installed
        <4> QED BY <1>1, <2>0, <4>2, <4>6, <4>7
      <3> QED BY <2>7, <3>1, <3>2
    <2> QED BY <1>6, <2>1, <2>2, <2>3, <2>4, <2>5, <2>6, <2>7 DEF ClientAlone
  <1> QED BY <1>3, <1>4, <1>5, <1>6 DEF RCNext

(* The inductive invariant of the client with its feed.                    *)
LEMMA RCInvariance == RCSpec => [](IInv /\ ServeOK /\ LeakOK)
  <1>1. RCInit => ServeOK /\ LeakOK
    <2> SUFFICES ASSUME RCInit PROVE ServeOK /\ LeakOK
      OBVIOUS
    <2>1. /\ attempt = {} /\ received = <<>> /\ tries = 0 /\ address = [c \in Conns |-> None]
          /\ pc[Watcher] = "idle" /\ \A c \in Conns : state[c] = "new"
      BY DEF RCInit, Init, Feed!Init, Procs
    <2>2. address \in [Conns -> Addresses \cup {None}]
      BY <2>1
    <2>3. ServeOK
      BY <2>1, <2>2 DEF ServeOK, Settled
    <2>4. LeakOK
      BY <2>1 DEF LeakOK, Orphans, Live
    <2> QED BY <2>3, <2>4
  <1>2. IInv /\ ServeOK /\ LeakOK /\ [RCNext]_allVars => ServeOK' /\ LeakOK'
    BY ServeStep, LeakStep
  <1> QED BY <1>1, <1>2, ClientBehaves, Invariance, PTL DEF RCSpec

(* Whenever the watch loop waits for the next list the client is with a    *)
(* broker of the last one, or without a connection because that list was   *)
(* empty or because of Stop, for any lists and any number of goroutines.   *)
THEOREM ServesReceivedAlways == RCSpec => []ServesReceived
  <1>1. ServeOK => ServesReceived
    BY DEF ServeOK, ServesReceived, Settled, Running
  <1> QED BY <1>1, RCInvariance, PTL

(* Before a Stop has returned, nothing leaks but connects that succeed     *)
(* after newClient gave them up.                                           *)
THEOREM OnlyLateConnectsLeakAlways == RCSpec => []OnlyLateConnectsLeak
  <1>1. LeakOK => OnlyLateConnectsLeak
    BY DEF LeakOK, OnlyLateConnectsLeak, Running
  <1> QED BY <1>1, RCInvariance, PTL

(* With a feed of addresses the client is still a ConnectionSet.           *)
THEOREM ResolvedImplementsConnectionSet == RCSpec => ImplementsConnectionSet
  BY ClientBehaves, ImplementsConnectionSetAlways, PTL
==========================================================================
