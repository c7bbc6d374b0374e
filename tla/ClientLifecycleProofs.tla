---------------------- MODULE ClientLifecycleProofs ----------------------
(***************************************************************************)
(* Proofs about ClientLifecycle, for every option combination NewClient    *)
(* accepts, any number of goroutines of each kind and any bounds.          *)
(*                                                                         *)
(* The inductive invariant IInv says, part by part, why replacing the      *)
(* connections is safe: how pc determines who holds clientMu (LockOK),     *)
(* which attempt functions a mode can reach (PathOK), that calls in flight *)
(* keep their targets installed (UseOK), that every connection is in at    *)
(* most one place (PlaceOK), and how client IDs relate to the revision     *)
(* counter (IDsOK).                                                        *)
(***************************************************************************)
EXTENDS ClientLifecycle, TLAPS

HoldsOne == {"in", "outer", "resuming", "connecting", "stopping"}
WantsWrite == {"multi_dial", "multi_wait", "swap", "clear"}

(* clientMu follows from where the goroutines are.                         *)
LockOK ==
    /\ \A p \in Procs :
        /\ readers[p] = IF pc[p] \in HoldsOne THEN 1
                        ELSE IF pc[p] = "inner" THEN 2 ELSE 0
        /\ pc[p] \in WantsWrite => wlock = p
    /\ wlock # None => pc[wlock] \in WantsWrite
    /\ pc[Watcher] = "multi_wait" => NoReaders

(* The mode of the client decides which attempt functions it runs, and a   *)
(* client that is neither pooled nor multi has no mqttClients.             *)
PathOK ==
    /\ multiConnectionMode =>
        pc[Watcher] \notin {"dial", "dialing", "swap_lock", "swap"}
    /\ ~multiConnectionMode =>
        pc[Watcher] \notin {"multi_lock", "multi_dial", "multi_wait"}
    /\ ~UsesMany => mqttClients = {}

(* A goroutine without a read lock calls nothing, one with a read lock     *)
(* calls installed connections, and clientInfo's inner call finds what the *)
(* outer one saw.                                                          *)
UseOK ==
    /\ \A p \in Procs :
        /\ using[p] \subseteq Installed
        /\ readers[p] = 0 => using[p] = {}
        /\ pc[p] = "outer" => ~NothingToReport

(* A connection is in at most one place.                                   *)
PlaceOK ==
    /\ Installed \cup attempt \cup retiring \cup givenUp \subseteq 1..created
    /\ Installed \cap (attempt \cup retiring \cup givenUp) = {}
    /\ attempt \cap (retiring \cup givenUp) = {}
    /\ retiring \cap givenUp = {}
    /\ mqttClient \notin mqttClients

(* In multi-connection mode the connections in service have revisions up   *)
(* to the current one, those of the attempt the next one.                  *)
IDsOK ==
    multiConnectionMode =>
        /\ \A c \in mqttClients \cup retiring : clientID[c][2] <= multiConnRevision
        /\ \A c \in attempt : clientID[c][2] = multiConnRevision + 1
        /\ \A c, d \in attempt : c # d => clientID[c] # clientID[d]
        /\ DistinctClientIDs

IInv == TypeOK /\ LockOK /\ PathOK /\ UseOK /\ PlaceOK /\ IDsOK

USE OptionsAssumption, BoundsAssumption, ProcsAssumption
    DEF OptionsAssumption, BoundsAssumption, ProcsAssumption, NewClientID

(* The initial state satisfies the inductive invariant.                   *)
LEMMA InitInvariant == Init => IInv
  <1>. SUFFICES ASSUME Init PROVE IInv
    OBVIOUS
  <1>1. TypeOK
    <2>1. /\ mqttClient \in Conns \cup {None}
          /\ mqttClients \subseteq Conns
          /\ created \in 0..MaxConns
      BY DEF Init, Conns, InitialConns
    <2>2. clientID \in [Conns -> Int \X Nat]
      BY DEF Init, Conns
    <2>3. /\ pc \in [Procs -> Labels]
          /\ state \in [Conns -> ConnStates]
      BY DEF Init, ConnStates, Labels, WatcherLabels
    <2>4. /\ readers \in [Procs -> 0..2]
          /\ using \in [Procs -> SUBSET Conns]
          /\ wlock \in Procs \cup {None}
          /\ multiConnRevision \in Nat
      BY DEF Init
    <2>5. /\ attempt \subseteq Conns /\ retiring \subseteq Conns
          /\ givenUp \subseteq Conns
      BY DEF Init
    <2>6. FlagsOK
      BY Zenon DEF Init, FlagsOK
    <2>. QED
      BY <2>1, <2>2, <2>3, <2>4, <2>5, <2>6, Zenon DEF TypeOK
  <1>2. LockOK
    BY DEF Init, LockOK, HoldsOne, WantsWrite, NoReaders, Procs
  <1>3. PathOK
    BY DEF Init, PathOK, UsesMany, Procs
  <1>4. UseOK
    BY DEF Init, UseOK, Installed
  <1>5. PlaceOK
    BY DEF Init, PlaceOK, Installed, Conns, InitialConns
  <1>6. IDsOK
    BY DEF Init, IDsOK, DistinctClientIDs, Conns
  <1>. QED
    BY <1>1, <1>2, <1>3, <1>4, <1>5, <1>6 DEF IInv


USE DEF vars, clientVars, lockVars, connVars, flags, Goto

-----------------------------------------------------------------------------
(* Facts used for several actions.                                         *)

(* The three flags are only ever assigned Booleans.                        *)
LEMMA FlagsPreserved == FlagsOK /\ [Next]_vars => FlagsOK'
  <1>. SUFFICES ASSUME FlagsOK, [Next]_vars PROVE FlagsOK'
    OBVIOUS
  <1>1. ASSUME NEW ok \in BOOLEAN, AttemptReturn(ok) PROVE FlagsOK'
    BY <1>1, Zenon DEF FlagsOK, AttemptReturn
  <1>2. CASE UNCHANGED flags
    BY <1>2, Zenon DEF FlagsOK
  <1>3. ASSUME NEW p \in Ops, OpNext(p) PROVE FlagsOK'
    BY <1>2, <1>3, Zenon DEF FlagsOK, OpNext, OpBegin, OpEnd, OpUninitialized
  <1>4. ASSUME NEW p \in Infos, InfoNext(p) PROVE FlagsOK'
    BY <1>2, <1>4, Zenon DEF InfoNext, InfoOuter, InfoInner, InfoEnd
  <1>5. ASSUME NEW s \in Stoppers, StopNext(s) PROVE FlagsOK'
    <2>1. CASE StopCancel(s)
      BY <2>1, Zenon DEF StopCancel, FlagsOK
    <2>. QED
      BY <1>2, <1>5, <2>1, Zenon
         DEF StopNext, StopCall, StopBegin, StopUninitialized, StopDisconnect,
             StopUnlock, StopAnnounce, StopClear
  <1>6. CASE WatcherNext
    <2>1. CASE Swap
      BY <1>1, <1>2, <2>1, Zenon DEF Swap, NextClient
    <2>2. CASE ResumeNothing \/ ResumeUninitialized \/ ResumeEnd
      BY <1>1, <2>2, Zenon DEF ResumeNothing, ResumeUninitialized, ResumeEnd
    <2>3. CASE ConnectOK
      BY <2>3, Zenon DEF ConnectOK, FlagsOK
    <2>. QED
      BY <1>2, <1>6, <2>1, <2>2, <2>3, Zenon
         DEF WatcherNext, RunResolver, RunResolverTimeout, ReceiveUpdate,
             WatchDone, MultiAnnounce, MultiDial, MultiInstall, MultiGiveUp,
             Dial, DialRetry, DialConnected, SwapAnnounce, ResumeBegin,
             ConnectBegin, ConnectFailed
  <1>7. ASSUME NEW c \in Conns, Retire(c) \/ GiveUp(c) \/ ConnStep(c)
        PROVE FlagsOK'
    BY <1>2, <1>7, Zenon DEF Retire, GiveUp, ConnStep
  <1>. QED
    BY <1>2, <1>3, <1>4, <1>5, <1>6, <1>7, Zenon DEF Next

(* execute hands out installed connections only.                           *)
LEMMA TargetsInstalled ==
  ASSUME PathOK, ~Uninitialized
  PROVE  /\ AllTargets \subseteq Installed
         /\ \A all \in BOOLEAN : \A T \in Targets(all) : T \subseteq Installed
  BY DEF PathOK, Uninitialized, AllTargets, OneTarget, Targets, IndexesEmpty, Installed

(* RLock by a goroutine that holds nothing: how OpBegin, InfoOuter,        *)
(* StopBegin, ResumeBegin and ConnectBegin move the lock.                  *)
LEMMA RLockKeeps ==
  ASSUME IInv, NEW p \in Procs, NEW T \in SUBSET Installed, RLock(p, T),
         NEW l \in HoldsOne, Goto(p, l),
         pc[p] \in {"idle", "called", "resume"},
         l = "outer" => ~NothingToReport,
         UNCHANGED <<clientVars, wlock>>
  PROVE  /\ readers' \in [Procs -> 0..2]
         /\ using' \in [Procs -> SUBSET Conns]
         /\ pc' \in [Procs -> Labels]
         /\ LockOK' /\ UseOK'
  <1>1. readers[p] = 0
    BY DEF IInv, LockOK, HoldsOne
  <1>2. /\ readers' \in [Procs -> 0..2]
        /\ readers' = [readers EXCEPT ![p] = 1]
    BY <1>1 DEF IInv, TypeOK, RLock
  <1>3. Installed \subseteq Conns
    BY DEF IInv, TypeOK, Installed
  <1>4. using' \in [Procs -> SUBSET Conns]
    BY <1>3 DEF IInv, TypeOK, RLock
  <1>5. pc' \in [Procs -> Labels]
    BY DEF IInv, TypeOK, HoldsOne, Labels, WatcherLabels
  <1>6. LockOK'
    <2>1. wlock' = None /\ \A q \in Procs : pc[q] \notin WantsWrite
      BY DEF IInv, LockOK, RLock, CanRLock
    <2>2. \A q \in Procs : pc'[q] \notin WantsWrite
      BY <2>1 DEF IInv, TypeOK, HoldsOne, WantsWrite
    <2>3. \A q \in Procs :
            readers'[q] = IF pc'[q] \in HoldsOne THEN 1
                          ELSE IF pc'[q] = "inner" THEN 2 ELSE 0
      BY <1>2 DEF IInv, TypeOK, LockOK
    <2>. QED
      BY <2>1, <2>2, <2>3 DEF LockOK, WantsWrite, Procs
  <1>7. UseOK'
    BY <1>2 DEF IInv, TypeOK, UseOK, RLock, Installed, NothingToReport
  <1>. QED
    BY <1>2, <1>4, <1>5, <1>6, <1>7

(* RUnlock by a goroutine that then holds nothing.                         *)
LEMMA RUnlockKeeps ==
  ASSUME IInv, NEW p \in Procs, RUnlock(p), NEW l \in Labels, Goto(p, l),
         l \notin HoldsOne \cup WantsWrite \cup {"inner"},
         pc[p] \in HoldsOne \cup {"inner"},
         UNCHANGED <<clientVars, wlock>>
  PROVE  /\ readers' \in [Procs -> 0..2]
         /\ using' \in [Procs -> SUBSET Conns]
         /\ pc' \in [Procs -> Labels]
         /\ LockOK' /\ UseOK'
  <1>1. /\ readers' \in [Procs -> 0..2]
        /\ using' \in [Procs -> SUBSET Conns]
        /\ pc' \in [Procs -> Labels]
    BY DEF IInv, TypeOK, RUnlock
  <1>2. LockOK'
    BY DEF IInv, TypeOK, LockOK, RUnlock, HoldsOne, WantsWrite, NoReaders
  <1>3. UseOK'
    BY DEF IInv, TypeOK, UseOK, RUnlock, Installed, NothingToReport, HoldsOne
  <1>. QED
    BY <1>1, <1>2, <1>3

(* A step of p between two places where it holds no part of clientMu.      *)
LEMMA MoveKeeps ==
  ASSUME IInv, NEW p \in Procs, NEW l \in Labels, Goto(p, l),
         l \notin HoldsOne \cup WantsWrite \cup {"inner"},
         pc[p] \notin HoldsOne \cup WantsWrite \cup {"inner"},
         UNCHANGED <<clientVars, lockVars, using>>
  PROVE  /\ pc' \in [Procs -> Labels]
         /\ LockOK' /\ UseOK'
  <1>1. LockOK'
    BY DEF IInv, TypeOK, LockOK, HoldsOne, WantsWrite, NoReaders
  <1>2. UseOK'
    BY DEF IInv, TypeOK, UseOK, Installed, NothingToReport, HoldsOne
  <1>. QED
    BY <1>1, <1>2 DEF IInv, TypeOK

(* Lock: p announces itself as the writer.                                 *)
LEMMA AnnounceKeeps ==
  ASSUME IInv, NEW p \in Procs, NEW l \in {"multi_dial", "swap", "clear"},
         Announce(p), Goto(p, l),
         pc[p] \in {"multi_lock", "swap_lock", "clear_lock"},
         UNCHANGED <<clientVars, readers, using>>
  PROVE  /\ pc' \in [Procs -> Labels]
         /\ wlock' \in Procs \cup {None}
         /\ LockOK' /\ UseOK'
  <1>1. LockOK'
    BY DEF IInv, TypeOK, LockOK, Announce, HoldsOne, WantsWrite, NoReaders
  <1>2. UseOK'
    BY DEF IInv, TypeOK, UseOK, Installed, NothingToReport
  <1>3. pc' \in [Procs -> Labels] /\ wlock' \in Procs \cup {None}
    BY DEF IInv, TypeOK, Announce, Labels, WatcherLabels
  <1>. QED
    BY <1>1, <1>2, <1>3

(* Unlock by the writer p. Nobody was reading, so nobody was calling a     *)
(* connection and the installed ones may have been replaced.               *)
LEMMA UnlockKeeps ==
  ASSUME IInv, NEW p \in Procs, NEW l \in Labels, Goto(p, l),
         pc[p] \in WantsWrite, wlock' = None, NoReaders,
         l \notin HoldsOne \cup WantsWrite \cup {"inner"},
         UNCHANGED <<readers, using>>
  PROVE  /\ pc' \in [Procs -> Labels]
         /\ wlock' \in Procs \cup {None}
         /\ LockOK' /\ UseOK'
  <1>1. \A q \in Procs : using[q] = {} /\ pc[q] \notin HoldsOne \cup {"inner"}
    BY DEF IInv, UseOK, LockOK, NoReaders
  <1>2. LockOK'
    BY DEF IInv, TypeOK, LockOK, HoldsOne, WantsWrite, NoReaders
  <1>3. UseOK'
    BY <1>1 DEF IInv, TypeOK, UseOK, HoldsOne
  <1>4. pc' \in [Procs -> Labels]
    BY DEF IInv, TypeOK
  <1>. QED
    BY <1>2, <1>3, <1>4

(* Connections only leave their places, and none of them changes its ID.   *)
LEMMA PlacesShrink ==
  ASSUME IInv, UNCHANGED <<multiConnRevision, clientID, created>>,
         mqttClients' \subseteq mqttClients, mqttClient' \in {mqttClient, None},
         attempt' \subseteq attempt, retiring' \subseteq retiring,
         givenUp' \subseteq givenUp
  PROVE  PlaceOK' /\ IDsOK'
  <1>1. PlaceOK'
    BY DEF IInv, TypeOK, PlaceOK, Installed
  <1>2. IDsOK'
    BY DEF IInv, IDsOK, DistinctClientIDs
  <1>. QED
    BY <1>1, <1>2

-----------------------------------------------------------------------------
(* The inductive step, one lemma per kind of goroutine.                    *)

(* Application calls: the lock moves, the connections do not.              *)
LEMMA OpPreserves ==
  ASSUME IInv, FlagsOK', NEW p \in Ops, OpNext(p) PROVE IInv'
  <1>1. p \in Procs /\ p # Watcher
    BY DEF Procs
  <1>2. UNCHANGED <<clientVars, wlock, connVars>>
    BY DEF OpNext, OpBegin, OpEnd, OpUninitialized
  <1>3. PlaceOK' /\ IDsOK'
    BY <1>2, PlacesShrink
  <1>4. /\ readers' \in [Procs -> 0..2] /\ using' \in [Procs -> SUBSET Conns]
        /\ pc' \in [Procs -> Labels] /\ LockOK' /\ UseOK'
        /\ pc'[Watcher] = pc[Watcher]
    <2>1. CASE OpBegin(p)
      <3>1. PICK T \in SUBSET Installed : RLock(p, T)
        BY <2>1, TargetsInstalled DEF OpBegin, IInv
      <3>2. pc[p] = "idle" /\ Goto(p, "in") /\ "in" \in HoldsOne
        BY <2>1 DEF OpBegin, HoldsOne
      <3>. QED
        BY <1>1, <1>2, <3>1, <3>2, RLockKeeps DEF IInv, TypeOK, Procs
    <2>2. CASE OpEnd(p)
      <3>1. /\ RUnlock(p) /\ Goto(p, "idle") /\ "idle" \in Labels
            /\ pc[p] \in HoldsOne
            /\ "idle" \notin HoldsOne \cup WantsWrite \cup {"inner"}
        BY <2>2 DEF OpEnd, HoldsOne, WantsWrite, Labels, WatcherLabels
      <3>. QED
        BY <1>1, <1>2, <3>1, RUnlockKeeps DEF IInv, TypeOK, Procs
    <2>3. CASE OpUninitialized(p)
      BY <2>3 DEF OpUninitialized, IInv, TypeOK, LockOK, UseOK,
                  Installed, NothingToReport, NoReaders
    <2>. QED
      BY <2>1, <2>2, <2>3 DEF OpNext
  <1>. QED
    BY <1>2, <1>3, <1>4 DEF IInv, TypeOK, PathOK

(* Telemetry calls, with their second read lock.                           *)
LEMMA InfoPreserves ==
  ASSUME IInv, FlagsOK', NEW p \in Infos, InfoNext(p) PROVE IInv'
  <1>1. p \in Procs /\ p # Watcher
    BY DEF Procs
  <1>2. UNCHANGED <<clientVars, wlock, connVars>>
    BY DEF InfoNext, InfoOuter, InfoInner, InfoEnd
  <1>3. PlaceOK' /\ IDsOK'
    BY <1>2, PlacesShrink
  <1>4. /\ readers' \in [Procs -> 0..2] /\ using' \in [Procs -> SUBSET Conns]
        /\ pc' \in [Procs -> Labels] /\ LockOK' /\ UseOK'
        /\ pc'[Watcher] = pc[Watcher]
    <2>1. CASE InfoOuter(p)
      <3>1. /\ RLock(p, {}) /\ {} \in SUBSET Installed /\ ~NothingToReport
            /\ pc[p] = "idle" /\ Goto(p, "outer") /\ "outer" \in HoldsOne
        BY <2>1 DEF InfoOuter, HoldsOne
      <3>. QED
        BY <1>1, <1>2, <3>1, RLockKeeps DEF IInv, TypeOK, Procs
    <2>2. CASE InfoInner(p)
      <3>1. ~Uninitialized /\ readers[p] = 1
        BY <1>1, <2>2 DEF InfoInner, IInv, UseOK, LockOK, HoldsOne,
                          NothingToReport, Uninitialized
      <3>2. AllTargets \subseteq Installed /\ Installed \subseteq Conns
        BY <3>1, TargetsInstalled DEF IInv, TypeOK, Installed
      <3>3. /\ readers' = [readers EXCEPT ![p] = 2]
            /\ using' = [using EXCEPT ![p] = AllTargets]
            /\ pc' = [pc EXCEPT ![p] = "inner"]
            /\ wlock = None
        BY <1>1, <2>2, <3>1 DEF InfoInner, RLock, CanRLock, IInv, TypeOK
      <3>4. LockOK'
        <4>1. \A q \in Procs : pc'[q] \notin WantsWrite
          BY <1>1, <3>3 DEF IInv, TypeOK, LockOK, WantsWrite
        <4>2. \A q \in Procs :
                readers'[q] = IF pc'[q] \in HoldsOne THEN 1
                              ELSE IF pc'[q] = "inner" THEN 2 ELSE 0
          BY <1>1, <3>3 DEF IInv, TypeOK, LockOK, HoldsOne
        <4>. QED
          BY <1>2, <3>3, <4>1, <4>2 DEF LockOK, WantsWrite, Procs
      <3>5. UseOK'
        BY <1>1, <1>2, <3>2, <3>3 DEF IInv, TypeOK, UseOK, Installed,
                                      NothingToReport
      <3>. QED
        BY <1>1, <3>2, <3>3, <3>4, <3>5 DEF IInv, TypeOK, Labels, Procs
    <2>3. CASE InfoEnd(p)
      <3>1. /\ RUnlock(p) /\ Goto(p, "idle") /\ "idle" \in Labels
            /\ pc[p] = "inner"
            /\ "idle" \notin HoldsOne \cup WantsWrite \cup {"inner"}
        BY <2>3 DEF InfoEnd, HoldsOne, WantsWrite, Labels, WatcherLabels
      <3>. QED
        BY <1>1, <1>2, <3>1, RUnlockKeeps DEF IInv, TypeOK, Procs
    <2>. QED
      BY <2>1, <2>2, <2>3 DEF InfoNext
  <1>. QED
    BY <1>2, <1>3, <1>4 DEF IInv, TypeOK, PathOK

(* Client.stop. The connections it calls Disconnect on stay installed      *)
(* until it holds the write lock, when nobody calls them any more.         *)
LEMMA StopPreserves ==
  ASSUME IInv, FlagsOK', NEW s \in Stoppers, StopNext(s) PROVE IInv'
  <1>1. s \in Procs /\ s # Watcher
    BY DEF Procs
  <1>2. CASE StopCall(s) \/ StopUninitialized(s) \/ StopCancel(s)
    <2>1. PICK l \in {"called", "cancel_failed", "clear_lock", "done"} :
            /\ Goto(s, l)
            /\ pc[s] \in {"idle", "called", "cancel", "cancel_failed"}
            /\ UNCHANGED <<clientVars, lockVars, using, connVars>>
      BY <1>2 DEF StopCall, StopUninitialized, StopCancel
    <2>2. /\ l \in Labels
          /\ l \notin HoldsOne \cup WantsWrite \cup {"inner"}
          /\ pc[s] \notin HoldsOne \cup WantsWrite \cup {"inner"}
      BY <2>1 DEF Labels, WatcherLabels, HoldsOne, WantsWrite
    <2>3. pc' \in [Procs -> Labels] /\ LockOK' /\ UseOK'
      BY <1>1, <2>1, <2>2, MoveKeeps
    <2>4. PlaceOK' /\ IDsOK'
      BY <2>1, PlacesShrink
    <2>. QED
      BY <1>1, <2>1, <2>3, <2>4 DEF IInv, TypeOK, PathOK, Procs
  <1>3. CASE StopBegin(s)
    <2>1. /\ AllTargets \in SUBSET Installed /\ RLock(s, AllTargets)
          /\ pc[s] = "called" /\ Goto(s, "stopping") /\ "stopping" \in HoldsOne
          /\ UNCHANGED <<clientVars, wlock, connVars>>
      BY <1>3, TargetsInstalled DEF StopBegin, IInv, HoldsOne
    <2>2. /\ readers' \in [Procs -> 0..2]
          /\ using' \in [Procs -> SUBSET Conns]
          /\ pc' \in [Procs -> Labels] /\ LockOK' /\ UseOK'
      BY <1>1, <2>1, RLockKeeps
    <2>3. PlaceOK' /\ IDsOK'
      BY <2>1, PlacesShrink
    <2>. QED
      BY <1>1, <2>1, <2>2, <2>3 DEF IInv, TypeOK, PathOK, Procs
  <1>4. CASE StopDisconnect(s)
    <2>1. PICK c \in using[s] :
            /\ state' = [state EXCEPT ![c] = "closed"]
            /\ using' = [using EXCEPT ![s] = @ \ {c}]
            /\ UNCHANGED <<clientVars, lockVars, pc, created, clientID,
                           attempt, retiring, givenUp>>
      BY <1>4 DEF StopDisconnect
    <2>2. c \in Conns
      BY <1>1 DEF IInv, TypeOK
    <2>3. TypeOK'
      <3>1. state' \in [Conns -> ConnStates]
        BY <2>1, <2>2 DEF IInv, TypeOK, ConnStates
      <3>2. using' \in [Procs -> SUBSET Conns]
        BY <1>1, <2>1 DEF IInv, TypeOK
      <3>. QED
        BY <2>1, <3>1, <3>2 DEF IInv, TypeOK
    <2>4. LockOK' /\ PathOK'
      BY <2>1 DEF IInv, LockOK, PathOK, NoReaders
    <2>5. UseOK'
      BY <1>1, <2>1 DEF IInv, TypeOK, UseOK, Installed, NothingToReport
    <2>6. PlaceOK' /\ IDsOK'
      BY <2>1, PlacesShrink
    <2>. QED
      BY <2>3, <2>4, <2>5, <2>6 DEF IInv
  <1>5. CASE StopUnlock(s)
    <2>1. /\ RUnlock(s) /\ Goto(s, "cancel") /\ "cancel" \in Labels
          /\ pc[s] \in HoldsOne
          /\ "cancel" \notin HoldsOne \cup WantsWrite \cup {"inner"}
          /\ UNCHANGED <<clientVars, wlock, connVars>>
      BY <1>5 DEF StopUnlock, HoldsOne, WantsWrite, Labels
    <2>2. /\ readers' \in [Procs -> 0..2]
          /\ using' \in [Procs -> SUBSET Conns]
          /\ pc' \in [Procs -> Labels] /\ LockOK' /\ UseOK'
      BY <1>1, <2>1, RUnlockKeeps
    <2>3. PlaceOK' /\ IDsOK'
      BY <2>1, PlacesShrink
    <2>. QED
      BY <1>1, <2>1, <2>2, <2>3 DEF IInv, TypeOK, PathOK, Procs
  <1>6. CASE StopAnnounce(s)
    <2>1. /\ pc[s] = "clear_lock" /\ Announce(s) /\ Goto(s, "clear")
          /\ UNCHANGED <<clientVars, readers, using, connVars>>
      BY <1>6 DEF StopAnnounce
    <2>2. /\ pc' \in [Procs -> Labels] /\ wlock' \in Procs \cup {None}
          /\ LockOK' /\ UseOK'
      BY <1>1, <2>1, AnnounceKeeps
    <2>3. PlaceOK' /\ IDsOK'
      BY <2>1, PlacesShrink
    <2>. QED
      BY <1>1, <2>1, <2>2, <2>3 DEF IInv, TypeOK, PathOK, Procs
  <1>7. CASE StopClear(s)
    <2>1. /\ pc[s] \in WantsWrite /\ NoReaders /\ wlock' = None
          /\ Goto(s, "done") /\ "done" \in Labels
          /\ "done" \notin HoldsOne \cup WantsWrite \cup {"inner"}
          /\ mqttClient' = None /\ mqttClients' = {}
          /\ UNCHANGED <<multiConnRevision, readers, using, connVars>>
      BY <1>7 DEF StopClear, CanLock, WantsWrite, HoldsOne, Labels
    <2>2. /\ pc' \in [Procs -> Labels] /\ wlock' \in Procs \cup {None}
          /\ LockOK' /\ UseOK'
      BY <1>1, <2>1, UnlockKeeps
    <2>3. PlaceOK' /\ IDsOK'
      BY <2>1, PlacesShrink
    <2>. QED
      BY <1>1, <2>1, <2>2, <2>3 DEF IInv, TypeOK, PathOK, Procs
  <1>. QED
    BY <1>2, <1>3, <1>4, <1>5, <1>6, <1>7 DEF StopNext

(* The background disconnects and the network touch connection states.     *)
LEMMA ConnPreserves ==
  ASSUME IInv, FlagsOK', NEW c \in Conns,
         Retire(c) \/ GiveUp(c) \/ ConnStep(c)
  PROVE  IInv'
  <1>1. /\ UNCHANGED <<clientVars, lockVars, pc, using, created, clientID, attempt>>
        /\ retiring' \subseteq retiring /\ givenUp' \subseteq givenUp
    BY DEF Retire, GiveUp, ConnStep
  <1>2. \E st \in ConnStates : state' = [state EXCEPT ![c] = st]
    BY DEF Retire, GiveUp, ConnStep, Disconnect, ConnMoves, ConnStates
  <1>3. state' \in [Conns -> ConnStates]
    BY <1>2 DEF IInv, TypeOK
  <1>4. TypeOK'
    BY <1>1, <1>3 DEF IInv, TypeOK
  <1>5. LockOK' /\ PathOK' /\ UseOK'
    BY <1>1 DEF IInv, LockOK, PathOK, UseOK, Installed, NoReaders, NothingToReport
  <1>6. PlaceOK' /\ IDsOK'
    BY <1>1, PlacesShrink
  <1>. QED
    BY <1>4, <1>5, <1>6 DEF IInv

(* Steps of Start and of the watch loop that only move its pc.             *)
LEMMA WatcherMovePreserves ==
  ASSUME IInv, FlagsOK',
         \/ RunResolver \/ RunResolverTimeout \/ ReceiveUpdate \/ WatchDone
         \/ DialRetry \/ DialConnected \/ ResumeNothing \/ ResumeUninitialized
  PROVE  IInv'
  <1>1. Watcher \in Procs
    BY DEF Procs
  <1>2. PICK l \in {"first", "idle", "multi_lock", "dial", "swap_lock", "exited", "watch"} :
          /\ Goto(Watcher, l)
          /\ pc[Watcher] \in {"idle", "first", "watch", "dialing", "resume"}
          /\ UNCHANGED <<clientVars, lockVars, using, created, state, clientID,
                         retiring, givenUp>>
          /\ attempt' \subseteq attempt
          /\ l = "multi_lock" => multiConnectionMode
          /\ l \in {"dial", "swap_lock"} =>
               ~multiConnectionMode \/ pc[Watcher] = "dialing"
    BY DEF RunResolver, RunResolverTimeout, ReceiveUpdate, WatchDone,
           DialRetry, DialConnected, ResumeNothing, ResumeUninitialized,
           AttemptReturn
  <1>3. /\ l \in Labels
        /\ l \notin HoldsOne \cup WantsWrite \cup {"inner"}
        /\ pc[Watcher] \notin HoldsOne \cup WantsWrite \cup {"inner"}
    BY <1>2 DEF Labels, WatcherLabels, HoldsOne, WantsWrite
  <1>4. pc' \in [Procs -> Labels] /\ LockOK' /\ UseOK'
    BY <1>1, <1>2, <1>3, MoveKeeps
  <1>5. PlaceOK' /\ IDsOK'
    BY <1>2, PlacesShrink
  <1>6. PathOK'
    BY <1>1, <1>2 DEF IInv, TypeOK, PathOK
  <1>7. TypeOK'
    BY <1>2, <1>4 DEF IInv, TypeOK
  <1>. QED
    BY <1>4, <1>5, <1>6, <1>7 DEF IInv

(* Start and resumeSubscriptions as users of execute.                      *)
LEMMA WatcherCallPreserves ==
  ASSUME IInv, FlagsOK',
         ResumeBegin \/ ResumeEnd \/ ConnectBegin \/ ConnectOK \/ ConnectFailed
  PROVE  IInv'
  <1>1. Watcher \in Procs
    BY DEF Procs
  <1>2. UNCHANGED <<clientVars, wlock, created, clientID, attempt, retiring, givenUp>>
    BY DEF ResumeBegin, ResumeEnd, ConnectBegin, ConnectOK, ConnectFailed
  <1>3. PlaceOK' /\ IDsOK'
    BY <1>2, PlacesShrink
  <1>4. state' \in [Conns -> ConnStates]
    <2>1. CASE ConnectBegin
      BY <2>1 DEF ConnectBegin, IInv, TypeOK, ConnStates
    <2>. QED
      BY <2>1 DEF ResumeBegin, ResumeEnd, ConnectOK, ConnectFailed, IInv, TypeOK
  <1>5. CASE ResumeBegin \/ ConnectBegin
    <2>1. PICK l \in {"resuming", "connecting"} :
            /\ AllTargets \in SUBSET Installed /\ RLock(Watcher, AllTargets)
            /\ Goto(Watcher, l) /\ pc[Watcher] \in {"idle", "resume"}
      BY <1>5, TargetsInstalled DEF ResumeBegin, ConnectBegin, IInv
    <2>2. l \in HoldsOne /\ l # "outer"
      BY <2>1 DEF HoldsOne
    <2>3. /\ readers' \in [Procs -> 0..2]
          /\ using' \in [Procs -> SUBSET Conns]
          /\ pc' \in [Procs -> Labels] /\ LockOK' /\ UseOK'
      BY <1>1, <1>2, <2>1, <2>2, RLockKeeps
    <2>4. PathOK'
      BY <1>1, <1>2, <2>1 DEF IInv, TypeOK, PathOK
    <2>. QED
      BY <1>2, <1>3, <1>4, <2>3, <2>4 DEF IInv, TypeOK
  <1>6. CASE ResumeEnd \/ ConnectOK \/ ConnectFailed
    <2>1. PICK l \in {"watch", "idle", "exited"} :
            /\ RUnlock(Watcher) /\ Goto(Watcher, l)
            /\ pc[Watcher] \in {"resuming", "connecting"}
      BY <1>6 DEF ResumeEnd, ConnectOK, ConnectFailed, AttemptReturn
    <2>2. /\ l \in Labels /\ pc[Watcher] \in HoldsOne
          /\ l \notin HoldsOne \cup WantsWrite \cup {"inner"}
      BY <2>1 DEF HoldsOne, WantsWrite, Labels, WatcherLabels
    <2>3. /\ readers' \in [Procs -> 0..2]
          /\ using' \in [Procs -> SUBSET Conns]
          /\ pc' \in [Procs -> Labels] /\ LockOK' /\ UseOK'
      BY <1>1, <1>2, <2>1, <2>2, RUnlockKeeps
    <2>4. PathOK'
      BY <1>1, <1>2, <2>1 DEF IInv, TypeOK, PathOK
    <2>. QED
      BY <1>2, <1>3, <1>4, <2>3, <2>4 DEF IInv, TypeOK
  <1>. QED
    BY <1>5, <1>6

(* attemptMultiConnections: dial with the lock held, then install or give  *)
(* up before unlocking.                                                    *)
LEMMA MultiPreserves ==
  ASSUME IInv, FlagsOK', MultiAnnounce \/ MultiDial \/ MultiInstall \/ MultiGiveUp
  PROVE  IInv'
  <1>1. Watcher \in Procs
    BY DEF Procs
  <1>2. multiConnectionMode
    BY DEF MultiAnnounce, MultiDial, MultiInstall, MultiGiveUp, IInv, PathOK
  <1>3. CASE MultiAnnounce
    <2>1. /\ pc[Watcher] = "multi_lock" /\ Announce(Watcher)
          /\ Goto(Watcher, "multi_dial")
          /\ UNCHANGED <<clientVars, readers, using, connVars>>
      BY <1>3 DEF MultiAnnounce
    <2>2. /\ pc' \in [Procs -> Labels] /\ wlock' \in Procs \cup {None}
          /\ LockOK' /\ UseOK'
      BY <1>1, <2>1, AnnounceKeeps
    <2>3. PlaceOK' /\ IDsOK'
      BY <2>1, PlacesShrink
    <2>. QED
      BY <1>1, <1>2, <2>1, <2>2, <2>3 DEF IInv, TypeOK, PathOK, UsesMany
  <1>4. CASE MultiDial
    <2>. DEFINE fresh(n) == (created + 1)..(created + n)
    <2>1. PICK n \in 0..MaxAddrs :
            /\ created + n <= MaxConns
            /\ created' = created + n
            /\ attempt' = fresh(n)
            /\ state' = [c \in Conns |-> IF c \in fresh(n) THEN "connecting"
                                                           ELSE state[c]]
            /\ clientID' = [c \in Conns |-> IF c \in fresh(n)
                              THEN <<c - created - 1, multiConnRevision + 1>>
                              ELSE clientID[c]]
      BY <1>4 DEF MultiDial
    <2>2. /\ pc[Watcher] = "multi_dial" /\ CanLock(Watcher)
          /\ pc' = [pc EXCEPT ![Watcher] = "multi_wait"]
          /\ UNCHANGED <<clientVars, lockVars, using, retiring, givenUp>>
      BY <1>4 DEF MultiDial
    <2>3. created \in Nat /\ n \in Nat /\ created + n \in 0..MaxConns
      BY <2>1 DEF IInv, TypeOK
    <2>4. fresh(n) \subseteq Conns /\ fresh(n) \cap 1..created = {}
      BY <2>1, <2>3 DEF Conns
    <2>5. TypeOK'
      <3>1. created' \in 0..MaxConns /\ attempt' \subseteq Conns
        BY <2>1, <2>3, <2>4
      <3>2. state' \in [Conns -> ConnStates]
        BY <2>1 DEF IInv, TypeOK, ConnStates
      <3>3. \A c \in Conns : <<c - created - 1, multiConnRevision + 1>> \in Int \X Nat
        BY <2>3 DEF IInv, TypeOK, Conns
      <3>4. clientID' \in [Conns -> Int \X Nat]
        BY <2>1, <3>3 DEF IInv, TypeOK
      <3>5. pc' \in [Procs -> Labels]
        BY <2>2 DEF IInv, TypeOK, Labels, WatcherLabels
      <3>. QED
        BY <2>2, <3>1, <3>2, <3>4, <3>5 DEF IInv, TypeOK
    <2>6. LockOK'
      BY <1>1, <2>2 DEF IInv, TypeOK, LockOK, CanLock, NoReaders, HoldsOne, WantsWrite
    <2>7. PathOK' /\ UseOK'
      BY <1>1, <1>2, <2>2 DEF IInv, TypeOK, PathOK, UseOK, UsesMany, Installed,
                              NothingToReport
    <2>8. PlaceOK'
      <3>1. Installed' = Installed /\ Installed \cup retiring \cup givenUp \subseteq 1..created
        BY <2>2 DEF IInv, PlaceOK, Installed
      <3>2. 1..created \subseteq 1..created' /\ fresh(n) \subseteq 1..created'
        BY <2>1, <2>3
      <3>. QED
        BY <2>1, <2>2, <2>4, <3>1, <3>2 DEF IInv, PlaceOK
    <2>9. IDsOK'
      <3>1. \A c \in mqttClients \cup retiring : clientID'[c] = clientID[c]
        BY <2>1, <2>2, <2>4 DEF IInv, PlaceOK, TypeOK, Installed
      <3>2. \A c \in attempt' : clientID'[c] = <<c - created - 1, multiConnRevision + 1>>
        BY <2>1, <2>4
      <3>3. \A c, d \in attempt' : c # d => c - created - 1 # d - created - 1
        BY <2>1, <2>3
      <3>4. \A c, d \in attempt' : c # d => clientID'[c] # clientID'[d]
        BY <3>2, <3>3
      <3>5. \A c \in attempt' : clientID'[c][2] = multiConnRevision + 1
        BY <3>2
      <3>. QED
        BY <2>2, <3>1, <3>4, <3>5 DEF IInv, IDsOK, DistinctClientIDs
    <2>. QED
      BY <2>5, <2>6, <2>7, <2>8, <2>9 DEF IInv
  <1>5. CASE MultiInstall \/ MultiGiveUp
    <2>1. /\ pc[Watcher] = "multi_wait" /\ Goto(Watcher, "resume") /\ wlock' = None
          /\ UNCHANGED <<mqttClient, readers, using, created, state, clientID>>
          /\ pc[Watcher] \in WantsWrite /\ "resume" \in Labels
          /\ "resume" \notin HoldsOne \cup WantsWrite \cup {"inner"}
      BY <1>5 DEF MultiInstall, MultiGiveUp, UnlockUnconnected, WantsWrite,
                  HoldsOne, Labels, WatcherLabels
    <2>2. NoReaders
      BY <2>1 DEF IInv, LockOK
    <2>3. /\ pc' \in [Procs -> Labels] /\ wlock' \in Procs \cup {None}
          /\ LockOK' /\ UseOK'
      BY <1>1, <2>1, <2>2, UnlockKeeps
    <2>4. PathOK'
      BY <1>1, <1>2, <2>1 DEF IInv, TypeOK, PathOK, UsesMany
    <2>5. CASE MultiInstall
      <3>1. /\ mqttClients' = attempt /\ multiConnRevision' = multiConnRevision + 1
            /\ retiring' = retiring \cup mqttClients /\ attempt' = {}
            /\ givenUp' = givenUp
        BY <2>5 DEF MultiInstall, NextRevision, Replaced, IInv, TypeOK
      <3>2. TypeOK'
        BY <2>1, <2>3, <3>1 DEF IInv, TypeOK
      <3>3. PlaceOK'
        <4>1. Installed' \subseteq Installed \cup attempt
          BY <2>1, <3>1 DEF Installed
        <4>2. mqttClients \subseteq Installed
          BY DEF Installed, IInv, TypeOK
        <4>3. Installed' \cap mqttClients = {}
          BY <2>1, <3>1, <4>2 DEF Installed, IInv, PlaceOK
        <4>4. mqttClient' \notin mqttClients'
          BY <2>1, <3>1 DEF Installed, IInv, PlaceOK, TypeOK
        <4>. QED
          BY <2>1, <3>1, <4>1, <4>2, <4>3, <4>4 DEF IInv, PlaceOK
      <3>4. IDsOK'
        BY <1>2, <2>1, <3>1 DEF IInv, IDsOK, DistinctClientIDs, TypeOK, Conns
      <3>. QED
        BY <2>3, <2>4, <3>2, <3>3, <3>4 DEF IInv
    <2>6. CASE MultiGiveUp
      <3>1. /\ givenUp' = givenUp \cup attempt /\ attempt' = {}
            /\ UNCHANGED <<clientVars, retiring>>
        BY <2>6 DEF MultiGiveUp
      <3>2. TypeOK'
        BY <2>1, <2>3, <3>1 DEF IInv, TypeOK
      <3>3. PlaceOK'
        BY <2>1, <3>1 DEF IInv, PlaceOK, Installed
      <3>4. IDsOK'
        BY <2>1, <3>1 DEF IInv, IDsOK, DistinctClientIDs
      <3>. QED
        BY <2>3, <2>4, <3>2, <3>3, <3>4 DEF IInv
    <2>. QED
      BY <1>5, <2>5, <2>6
  <1>. QED
    BY <1>3, <1>4, <1>5

(* attemptSingleConnection and reloadClient.                               *)
LEMMA SinglePreserves ==
  ASSUME IInv, FlagsOK', Dial \/ SwapAnnounce \/ Swap
  PROVE  IInv'
  <1>1. Watcher \in Procs
    BY DEF Procs
  <1>2. ~multiConnectionMode
    BY DEF Dial, SwapAnnounce, Swap, NextClient, IInv, PathOK
  <1>3. IDsOK'
    BY <1>2 DEF IDsOK
  <1>4. CASE Dial
    <2>1. /\ created < MaxConns /\ created' = created + 1
          /\ attempt' = {created + 1}
          /\ state' = [state EXCEPT ![created + 1] = "connecting"]
          /\ clientID' = [clientID EXCEPT ![created + 1] = <<0, 0>>]
          /\ Goto(Watcher, "dialing") /\ pc[Watcher] = "dial"
          /\ UNCHANGED <<clientVars, lockVars, using, retiring, givenUp>>
      BY <1>4 DEF Dial
    <2>2. created \in Nat /\ created + 1 \in Conns /\ created + 1 \in 0..MaxConns
      BY <2>1 DEF IInv, TypeOK, Conns
    <2>3. /\ "dialing" \in Labels
          /\ "dialing" \notin HoldsOne \cup WantsWrite \cup {"inner"}
          /\ "dial" \notin HoldsOne \cup WantsWrite \cup {"inner"}
      BY DEF Labels, WatcherLabels, HoldsOne, WantsWrite
    <2>4. pc' \in [Procs -> Labels] /\ LockOK' /\ UseOK'
      BY <1>1, <2>1, <2>3, MoveKeeps
    <2>5. TypeOK'
      <3>1. state' \in [Conns -> ConnStates]
        BY <2>1, <2>2 DEF IInv, TypeOK, ConnStates
      <3>2. clientID' \in [Conns -> Int \X Nat]
        BY <2>1, <2>2 DEF IInv, TypeOK
      <3>. QED
        BY <2>1, <2>2, <2>4, <3>1, <3>2 DEF IInv, TypeOK
    <2>6. PlaceOK'
      <3>1. created + 1 \notin 1..created /\ 1..(created + 1) = 1..created \cup {created + 1}
        BY <2>2
      <3>. QED
        BY <2>1, <3>1 DEF IInv, PlaceOK, Installed
    <2>7. PathOK'
      BY <1>1, <1>2, <2>1 DEF IInv, TypeOK, PathOK
    <2>. QED
      BY <1>3, <2>4, <2>5, <2>6, <2>7 DEF IInv
  <1>5. CASE SwapAnnounce
    <2>1. /\ pc[Watcher] = "swap_lock" /\ Announce(Watcher) /\ Goto(Watcher, "swap")
          /\ UNCHANGED <<clientVars, readers, using, connVars>>
      BY <1>5 DEF SwapAnnounce
    <2>2. /\ pc' \in [Procs -> Labels] /\ wlock' \in Procs \cup {None}
          /\ LockOK' /\ UseOK'
      BY <1>1, <2>1, AnnounceKeeps
    <2>3. PlaceOK'
      BY <2>1, PlacesShrink
    <2>. QED
      BY <1>1, <1>2, <1>3, <2>1, <2>2, <2>3 DEF IInv, TypeOK, PathOK
  <1>6. CASE Swap
    <2>1. /\ mqttClient' \in attempt \cup {None}
          /\ retiring' = retiring \cup ({mqttClient} \ {None})
          /\ attempt' = {} /\ wlock' = None /\ NoReaders
          /\ pc[Watcher] = "swap"
          /\ UNCHANGED <<mqttClients, multiConnRevision, readers, using, created,
                         state, clientID, givenUp>>
      BY <1>6 DEF Swap, NextClient, CanLock, Replaced
    <2>2. PICK l \in {"watch", "resume"} : Goto(Watcher, l)
      BY <1>6 DEF Swap, NextClient, AttemptReturn
    <2>3. /\ l \in Labels /\ pc[Watcher] \in WantsWrite
          /\ l \notin HoldsOne \cup WantsWrite \cup {"inner"}
      BY <2>1, <2>2 DEF Labels, WatcherLabels, HoldsOne, WantsWrite
    <2>4. /\ pc' \in [Procs -> Labels] /\ wlock' \in Procs \cup {None}
          /\ LockOK' /\ UseOK'
      BY <1>1, <2>1, <2>2, <2>3, UnlockKeeps
    <2>5. TypeOK'
      BY <2>1, <2>4 DEF IInv, TypeOK
    <2>6. PlaceOK'
      BY <2>1 DEF IInv, TypeOK, PlaceOK, Installed
    <2>7. PathOK'
      BY <1>1, <1>2, <2>1, <2>2 DEF IInv, TypeOK, PathOK
    <2>. QED
      BY <1>3, <2>4, <2>5, <2>6, <2>7 DEF IInv
  <1>. QED
    BY <1>4, <1>5, <1>6

(* IInv is an invariant.                                                   *)
THEOREM Invariance == Spec => []IInv
  <1>1. IInv /\ [Next]_vars => IInv'
    <2>. SUFFICES ASSUME IInv, [Next]_vars PROVE IInv'
      OBVIOUS
    <2>1. FlagsOK'
      BY FlagsPreserved DEF IInv, TypeOK
    <2>2. CASE UNCHANGED vars
      BY <2>2 DEF IInv, TypeOK, FlagsOK, LockOK, PathOK, UseOK, PlaceOK, IDsOK,
                  Installed, NoReaders, NothingToReport, DistinctClientIDs
    <2>3. CASE WatcherNext
      BY <2>1, <2>3, WatcherMovePreserves, WatcherCallPreserves,
         MultiPreserves, SinglePreserves DEF WatcherNext
    <2>. QED
      BY <2>1, <2>2, <2>3, OpPreserves, InfoPreserves, StopPreserves,
         ConnPreserves DEF Next
  <1>. QED
    BY <1>1, InitInvariant, PTL DEF Spec

-----------------------------------------------------------------------------
(* The variables keep their types; in particular no goroutine holds more   *)
(* than two read locks of clientMu.                                        *)
THEOREM TypeCorrect == Spec => []TypeOK
  <1>1. IInv => TypeOK
    BY DEF IInv
  <1>. QED
    BY <1>1, Invariance, PTL

(* Calls made through execute only ever reach installed connections.       *)
THEOREM CallsReachInstalledAlways == Spec => []CallsReachInstalled
  <1>1. IInv => CallsReachInstalled
    BY DEF IInv, UseOK, CallsReachInstalled
  <1>. QED
    BY <1>1, Invariance, PTL

(* No connection is disconnected in the background while a call uses it.   *)
THEOREM RetiredNotInUseAlways == Spec => []RetiredNotInUse
  <1>1. IInv => RetiredNotInUse
    BY DEF IInv, UseOK, PlaceOK, RetiredNotInUse
  <1>. QED
    BY <1>1, Invariance, PTL

(* Two generations of connections never share a client ID.                 *)
THEOREM DistinctClientIDsAlways == Spec => []DistinctClientIDs
  <1>1. IInv => DistinctClientIDs
    BY DEF IInv, IDsOK, DistinctClientIDs
  <1>. QED
    BY <1>1, Invariance, PTL

(* A multi-connection client never replaces its connections by none: only  *)
(* Stop empties mqttClients.                                               *)
THEOREM KeepsConnectionsAlways == Spec => KeepsConnections
  <1>. DEFINE Keeps == \/ mqttClients = {}
                       \/ mqttClients' # {}
                       \/ \E s \in Stoppers : pc[s] = "clear" /\ pc'[s] = "done"
  <1>1. TypeOK /\ [Next]_vars => [Keeps]_vars
    <2>. SUFFICES ASSUME TypeOK, Next PROVE Keeps
      OBVIOUS
    <2>1. ASSUME NEW s \in Stoppers, StopNext(s) PROVE Keeps
      <3>1. s \in Procs
        BY DEF Procs
      <3>2. CASE StopClear(s)
        BY <3>1, <3>2 DEF StopClear, TypeOK
      <3>. QED
        BY <2>1, <3>2 DEF StopNext, StopCall, StopBegin, StopUninitialized,
             StopDisconnect, StopUnlock, StopCancel, StopAnnounce
    <2>2. CASE WatcherNext
      <3>1. CASE MultiInstall
        BY <3>1 DEF MultiInstall, AnyConnected
      <3>. QED
        BY <2>2, <3>1 DEF WatcherNext, RunResolver, RunResolverTimeout,
             ReceiveUpdate, WatchDone, MultiAnnounce, MultiDial, MultiGiveUp,
             Dial, DialRetry, DialConnected, SwapAnnounce, Swap, NextClient, ResumeNothing,
             ResumeUninitialized, ResumeBegin, ResumeEnd, ConnectBegin,
             ConnectOK, ConnectFailed
    <2>3. ASSUME NEW p \in Ops, OpNext(p) PROVE Keeps
      BY <2>3 DEF OpNext, OpBegin, OpEnd, OpUninitialized
    <2>4. ASSUME NEW p \in Infos, InfoNext(p) PROVE Keeps
      BY <2>4 DEF InfoNext, InfoOuter, InfoInner, InfoEnd
    <2>5. ASSUME NEW c \in Conns, Retire(c) \/ GiveUp(c) \/ ConnStep(c) PROVE Keeps
      BY <2>5 DEF Retire, GiveUp, ConnStep
    <2>. QED
      BY <2>1, <2>2, <2>3, <2>4, <2>5 DEF Next
  <1>. QED
    BY <1>1, TypeCorrect, PTL DEF Spec, KeepsConnections

(* The option combinations for which execMultiConn never sees an empty     *)
(* slice: a pool is not given a Resolver, a multi-connection client is not *)
(* given an address. Then a client that uses many connections never has a  *)
(* mqttClient, so that execute returns ErrClientNotInitialized first.      *)
THEOREM ExecNeverIndexesEmptyAlways ==
  ASSUME poolEnabled => ~HasResolver, multiConnectionMode => ~HasAddress
  PROVE  Spec => []ExecNeverIndexesEmpty
  <1>. DEFINE Safe == /\ UsesMany => mqttClient = None
                      /\ ~HasResolver => pc[Watcher] \in {"idle", "connecting", "exited"}
                      /\ ~panicked
  <1>1. Init => Safe
    BY DEF Init, UsesMany, Procs
  <1>2. TypeOK /\ PathOK /\ Safe /\ [Next]_vars => Safe'
    <2>. SUFFICES ASSUME TypeOK, PathOK, Safe, Next PROVE Safe'
      OBVIOUS
    <2>. DEFINE Idle == /\ mqttClient' \in {mqttClient, None}
                        /\ pc'[Watcher] = pc[Watcher]
                        /\ UNCHANGED panicked
    <2>0. Idle => Safe'
      OBVIOUS
    <2>1. ASSUME NEW p \in Ops, OpNext(p) PROVE Safe'
      <3>1. OpBegin(p) => ~panicked'
        BY DEF OpBegin, IndexesEmpty, Uninitialized
      <3>2. p \in Procs /\ p # Watcher /\ Watcher \in Procs
        BY DEF Procs
      <3>. QED
        BY <2>0, <2>1, <3>1, <3>2
           DEF OpNext, OpBegin, OpEnd, OpUninitialized, TypeOK
    <2>2. ASSUME NEW p \in Infos, InfoNext(p) PROVE Safe'
      <3>1. p \in Procs /\ p # Watcher /\ Watcher \in Procs
        BY DEF Procs
      <3>. QED
        BY <2>0, <2>2, <3>1 DEF InfoNext, InfoOuter, InfoInner, InfoEnd, TypeOK
    <2>3. ASSUME NEW s \in Stoppers, StopNext(s) PROVE Safe'
      <3>1. s \in Procs /\ s # Watcher /\ Watcher \in Procs
        BY DEF Procs
      <3>. QED
        BY <2>0, <2>3, <3>1
           DEF StopNext, StopCall, StopBegin, StopUninitialized, StopDisconnect,
               StopUnlock, StopCancel, StopAnnounce, StopClear, TypeOK
    <2>4. CASE WatcherNext
      <3>1. Watcher \in Procs
        BY DEF Procs
      <3>2. CASE ConnectBegin \/ ConnectOK \/ ConnectFailed
        BY <3>1, <3>2 DEF ConnectBegin, ConnectOK, ConnectFailed, TypeOK
      <3>3. CASE Swap
        <4>1. ~UsesMany /\ HasResolver
          BY <3>3 DEF Swap, NextClient, PathOK, UsesMany
        <4>. QED
          BY <3>3, <4>1 DEF Swap, NextClient, AttemptReturn
      <3>. QED
        BY <2>4, <3>1, <3>2, <3>3 DEF WatcherNext, RunResolver,
             RunResolverTimeout, ReceiveUpdate, WatchDone, MultiAnnounce,
             MultiDial, MultiInstall, MultiGiveUp, Dial, DialRetry,
             DialConnected, SwapAnnounce, ResumeNothing, ResumeUninitialized,
             ResumeBegin, ResumeEnd, AttemptReturn, TypeOK
    <2>5. ASSUME NEW c \in Conns, Retire(c) \/ GiveUp(c) \/ ConnStep(c) PROVE Safe'
      BY <2>5 DEF Retire, GiveUp, ConnStep
    <2>. QED
      BY <2>1, <2>2, <2>3, <2>4, <2>5 DEF Next
  <1>3. IInv => TypeOK /\ PathOK
    BY DEF IInv
  <1>4. Safe => ExecNeverIndexesEmpty
    BY DEF ExecNeverIndexesEmpty
  <1>. QED
    BY <1>1, <1>2, <1>3, <1>4, Invariance, PTL DEF Spec

(* A Stop that has returned stays so.                                      *)
LEMMA DoneStays ==
    ASSUME IInv, [Next]_vars, NEW s \in Stoppers, pc[s] = "done"
    PROVE  pc'[s] = "done"
  <1>0. s \in Procs /\ s # Watcher /\ s \notin Ops /\ s \notin Infos /\ pc \in [Procs -> Labels]
    BY DEF Procs, IInv, TypeOK
  <1>1. ASSUME NEW p \in Ops, OpNext(p) PROVE pc'[s] = "done"
    BY <1>0, <1>1 DEF OpNext, OpBegin, OpEnd, OpUninitialized, Goto, vars
  <1>2. ASSUME NEW p \in Infos, InfoNext(p) PROVE pc'[s] = "done"
    BY <1>0, <1>2 DEF InfoNext, InfoOuter, InfoInner, InfoEnd, Goto
  <1>3. ASSUME NEW t \in Stoppers, StopNext(t) PROVE pc'[s] = "done"
    BY <1>0, <1>3 DEF StopNext, StopCall, StopBegin, StopUninitialized, StopDisconnect,
         StopUnlock, StopCancel, StopAnnounce, StopClear, Goto
  <1>4. CASE WatcherNext
    BY <1>0, <1>4 DEF WatcherNext, RunResolver,
         RunResolverTimeout, ReceiveUpdate, WatchDone, MultiAnnounce,
         MultiDial, MultiInstall, MultiGiveUp, Dial, DialRetry,
         DialConnected, SwapAnnounce, Swap, NextClient, ResumeNothing, ResumeUninitialized,
         ResumeBegin, ResumeEnd, AttemptReturn, ConnectBegin, ConnectOK,
         ConnectFailed, Goto
  <1>5. ASSUME NEW c \in Conns, Retire(c) \/ GiveUp(c) \/ ConnStep(c)
        PROVE  pc'[s] = "done"
    BY <1>5 DEF Retire, GiveUp, ConnStep
  <1>. QED
    BY <1>1, <1>2, <1>3, <1>4, <1>5 DEF Next, vars

(* Until a Stop has returned, a multi-connection client leaks no           *)
(* connection: each one that is live is installed, in the current attempt, *)
(* or in the hands of a goroutine that will disconnect it.                 *)
THEOREM NoOrphanWhileRunningAlways ==
  ASSUME multiConnectionMode
  PROVE  Spec => []NoOrphanWhileRunning
  <1>. DEFINE Reached == Installed \cup attempt \cup retiring \cup givenUp
              Fresh == \A c \in Conns : c > created => state[c] = "new"
              Pending == attempt # {} => pc[Watcher] = "multi_wait"
              Running == \A s \in Stoppers : pc[s] # "done"
              Kept == NoOrphan /\ Fresh
  <1>0. IInv /\ [Next]_vars /\ Running' => Running
    BY DoneStays
  <1>1. Init => Kept /\ Pending
    BY DEF Init, NoOrphan, Orphans, Live
  <1>2. IInv /\ Pending /\ (Running => Kept) /\ [Next]_vars => (Running' => Kept')
    <2>. SUFFICES ASSUME IInv, Pending, Kept, [Next]_vars, Running' PROVE Kept'
      BY <1>0
    <2>. USE DEF NoOrphan, Orphans, Live
    <2>1. CASE UNCHANGED <<Installed, created, state, attempt, retiring, givenUp>>
      BY <2>1
    <2>2. ASSUME NEW p \in Ops, OpNext(p) PROVE Kept'
      BY <2>1, <2>2 DEF OpNext, OpBegin, OpEnd, OpUninitialized, Installed
    <2>3. ASSUME NEW p \in Infos, InfoNext(p) PROVE Kept'
      BY <2>1, <2>3 DEF InfoNext, InfoOuter, InfoInner, InfoEnd, Installed
    <2>4. ASSUME NEW c \in Conns, Retire(c) \/ GiveUp(c) \/ ConnStep(c) PROVE Kept'
      <3>1. Installed' = Installed /\ UNCHANGED <<created, attempt>>
        BY <2>4 DEF Retire, GiveUp, ConnStep, Installed
      <3>2. \/ Live(c) /\ UNCHANGED <<retiring, givenUp>>
            \/ retiring \ {c} \subseteq retiring' /\ givenUp \ {c} \subseteq givenUp'
               /\ ~Live(c)' /\ c <= created
        BY <2>4 DEF Retire, GiveUp, ConnStep, ConnMoves, Disconnect, IInv, TypeOK,
                    PlaceOK
      <3>3. \E st \in ConnStates : state' = [state EXCEPT ![c] = st]
        BY <2>4 DEF Retire, GiveUp, ConnStep, Disconnect, ConnMoves, ConnStates
      <3>4. \A d \in Conns : d # c => state'[d] = state[d]
        BY <3>3 DEF IInv, TypeOK
      <3>5. CASE Live(c) /\ UNCHANGED <<retiring, givenUp>>
        <4>1. c <= created
          BY <3>5 DEF IInv, TypeOK, Conns
        <4>. QED
          BY <3>1, <3>4, <3>5, <4>1
      <3>6. CASE /\ retiring \ {c} \subseteq retiring' /\ givenUp \ {c} \subseteq givenUp'
                 /\ ~Live(c)' /\ c <= created
        <4>1. Fresh'
          BY <3>1, <3>4, <3>6 DEF IInv, TypeOK, Conns
        <4>2. ASSUME NEW d \in Conns, Live(d)' PROVE d \in Reached'
          <5>1. d # c /\ Live(d)
            BY <3>4, <3>6, <4>2
          <5>. QED
            BY <3>1, <3>6, <5>1
        <4>. QED
          BY <4>1, <4>2
      <3>. QED
        BY <3>2, <3>5, <3>6
    <2>5. CASE WatcherNext
      <3>1. CASE MultiDial
        <4>1. PICK n \in 0..MaxAddrs :
                /\ created' = created + n
                /\ attempt' = (created + 1)..(created + n)
                /\ state' = [c \in Conns |->
                     IF c \in (created + 1)..(created + n) THEN "connecting"
                                                           ELSE state[c]]
          BY <3>1 DEF MultiDial
        <4>2. Installed' = Installed /\ UNCHANGED <<retiring, givenUp>>
          BY <3>1 DEF MultiDial, Installed
        <4>3. attempt = {}
          BY <3>1 DEF MultiDial
        <4>4. created \in Nat /\ n \in Nat /\ Conns \subseteq Int
          BY DEF IInv, TypeOK, Conns
        <4>5. Fresh'
          BY <4>1, <4>4
        <4>6. ASSUME NEW c \in Conns, Live(c)' PROVE c \in Reached'
          <5>1. c \in attempt' \/ Live(c)
            BY <4>1, <4>6
          <5>. QED
            BY <4>2, <4>3, <5>1
        <4>. QED
          BY <4>5, <4>6
      <3>2. CASE MultiInstall
        <4>1. mqttClients \subseteq Conns /\ None \notin mqttClients
          BY DEF IInv, TypeOK
        <4>2. Installed \cup attempt \subseteq Installed' \cup retiring'
          BY <3>2, <4>1 DEF MultiInstall, Installed, Replaced
        <4>3. retiring \subseteq retiring' /\ UNCHANGED <<created, state, givenUp>>
          BY <3>2 DEF MultiInstall
        <4>. QED
          BY <4>2, <4>3
      <3>3. CASE MultiGiveUp
        BY <3>3 DEF MultiGiveUp, Installed
      <3>4. CASE Dial \/ DialRetry \/ DialConnected \/ SwapAnnounce \/ Swap
        BY <3>4 DEF Dial, DialRetry, DialConnected, SwapAnnounce, Swap, NextClient, IInv, PathOK
      <3>5. CASE ConnectBegin
        <4>1. AllTargets \subseteq Installed /\ Installed \subseteq 1..created
          BY <3>5, TargetsInstalled DEF ConnectBegin, IInv, PlaceOK
        <4>. QED
          BY <3>5, <4>1 DEF ConnectBegin, Installed, IInv, TypeOK
      <3>. QED
        BY <2>1, <2>5, <3>1, <3>2, <3>3, <3>4, <3>5 DEF WatcherNext, RunResolver,
             RunResolverTimeout, ReceiveUpdate, WatchDone, MultiAnnounce,
             ResumeNothing, ResumeUninitialized, ResumeBegin, ResumeEnd,
             ConnectOK, ConnectFailed, Installed
    <2>6. ASSUME NEW s \in Stoppers, StopNext(s) PROVE Kept'
      <3>0. s \in Procs
        BY DEF Procs
      <3>1. CASE StopDisconnect(s)
        <4>1. PICK c \in using[s] : state' = [state EXCEPT ![c] = "closed"]
          BY <3>1 DEF StopDisconnect
        <4>2. c \in Conns /\ c \in 1..created
          BY <3>0, <4>1 DEF IInv, TypeOK, UseOK, PlaceOK
        <4>3. \A d \in Conns : state'[d] = IF d = c THEN "closed" ELSE state[d]
          BY <4>1, <4>2 DEF IInv, TypeOK
        <4>4. Reached' = Reached /\ created' = created
          BY <3>1 DEF StopDisconnect, Installed
        <4>. QED
          BY <4>2, <4>3, <4>4 DEF IInv, TypeOK, Conns
      <3>2. ~StopClear(s)
        BY <3>0 DEF StopClear, Goto, IInv, TypeOK
      <3>. QED
        BY <2>1, <2>6, <3>1, <3>2 DEF StopNext, StopCall, StopBegin, StopUninitialized,
             StopUnlock, StopCancel, StopAnnounce, Installed
    <2>. QED
      BY <2>1, <2>2, <2>3, <2>4, <2>5, <2>6 DEF Next, Installed
  <1>3. IInv /\ Pending /\ [Next]_vars => Pending'
    <2>. SUFFICES ASSUME IInv, Pending, [Next]_vars PROVE Pending'
      OBVIOUS
    <2>0. Watcher \in Procs /\ \A p \in Ops \cup Infos \cup Stoppers : p # Watcher /\ p \in Procs
      BY DEF Procs
    <2>1. CASE attempt' = attempt /\ pc'[Watcher] = pc[Watcher]
      BY <2>1
    <2>2. ASSUME NEW p \in Ops, OpNext(p) PROVE Pending'
      BY <2>0, <2>1, <2>2 DEF OpNext, OpBegin, OpEnd, OpUninitialized,
                              IInv, TypeOK
    <2>3. ASSUME NEW p \in Infos, InfoNext(p) PROVE Pending'
      BY <2>0, <2>1, <2>3 DEF InfoNext, InfoOuter, InfoInner, InfoEnd, IInv, TypeOK
    <2>4. ASSUME NEW c \in Conns, Retire(c) \/ GiveUp(c) \/ ConnStep(c) PROVE Pending'
      BY <2>1, <2>4 DEF Retire, GiveUp, ConnStep
    <2>5. CASE WatcherNext
      <3>1. CASE MultiDial
        BY <2>0, <3>1 DEF MultiDial, IInv, TypeOK
      <3>2. CASE MultiInstall \/ MultiGiveUp
        BY <3>2 DEF MultiInstall, MultiGiveUp
      <3>. QED
        BY <2>5, <3>1, <3>2 DEF WatcherNext, RunResolver, RunResolverTimeout,
             ReceiveUpdate, WatchDone, MultiAnnounce, Dial, DialRetry,
             DialConnected, SwapAnnounce, Swap, NextClient, ResumeNothing,
             ResumeUninitialized, ResumeBegin, ResumeEnd, ConnectBegin,
             ConnectOK, ConnectFailed, IInv, PathOK
    <2>6. ASSUME NEW s \in Stoppers, StopNext(s) PROVE Pending'
      BY <2>0, <2>1, <2>6 DEF StopNext, StopCall, StopBegin, StopUninitialized,
           StopDisconnect, StopUnlock, StopCancel, StopAnnounce, StopClear, Goto,
           IInv, TypeOK
    <2>. QED
      BY <2>1, <2>2, <2>3, <2>4, <2>5, <2>6 DEF Next
  <1>4. (Running => Kept) => NoOrphanWhileRunning
    BY DEF NoOrphanWhileRunning, NoOrphan
  <1>. QED
    BY <1>1, <1>2, <1>3, <1>4, Invariance, PTL DEF Spec

(***************************************************************************)
(* ClientLifecycle implements ConnectionSet: the initial states map to     *)
(* initial states, and each step of a goroutine maps to one step of        *)
(* ConnectionSet or leaves its variables alone.                            *)
(***************************************************************************)

(* What the mapping needs beyond IInv: the outer read lock of clientInfo   *)
(* calls nothing, so that its inner one begins a call, and newClient holds *)
(* at most one connection, so that reloadClient installs all there is.     *)
MapOK ==
    /\ \A p \in Procs : pc[p] = "outer" => using[p] = {}
    /\ ~multiConnectionMode => \A c, d \in attempt : c = d

Gone == (1..created) \ (Installed \cup attempt)

(* A step that leaves the mapped variables alone.                          *)
Hidden == UNCHANGED <<Installed, Gone, using>>

(* MapOK holds initially and every step keeps it.                          *)
LEMMA MapInvariance == Spec => []MapOK
  <1>1. Init => MapOK
    BY DEF Init, MapOK, Procs
  <1>2. IInv /\ MapOK /\ [Next]_vars => MapOK'
    <2>. SUFFICES ASSUME IInv, MapOK, [Next]_vars PROVE MapOK'
      OBVIOUS
    <2>0. /\ Ops \cup Infos \cup Stoppers \cup {Watcher} \subseteq Procs
          /\ pc \in [Procs -> Labels] /\ using \in [Procs -> SUBSET Conns]
      BY DEF Procs, IInv, TypeOK
    <2>1. ASSUME NEW p \in Ops, OpNext(p) PROVE MapOK'
      BY <2>0, <2>1 DEF OpNext, OpBegin, OpEnd, OpUninitialized, MapOK, RLock, RUnlock
    <2>2. ASSUME NEW p \in Infos, InfoNext(p) PROVE MapOK'
      BY <2>0, <2>2 DEF InfoNext, InfoOuter, InfoInner, InfoEnd, MapOK, RLock, RUnlock
    <2>3. ASSUME NEW s \in Stoppers, StopNext(s) PROVE MapOK'
      BY <2>0, <2>3 DEF StopNext, StopCall, StopBegin, StopUninitialized,
           StopDisconnect, StopUnlock, StopCancel, StopAnnounce, StopClear,
           MapOK, RLock, RUnlock
    <2>4. CASE WatcherNext
      <3>1. CASE MultiDial
        BY <2>0, <3>1 DEF MultiDial, MapOK, IInv, PathOK
      <3>. QED
        BY <2>0, <2>4, <3>1 DEF WatcherNext, RunResolver, RunResolverTimeout,
             ReceiveUpdate, WatchDone, MultiAnnounce, MultiInstall, MultiGiveUp,
             Dial, DialRetry, DialConnected, SwapAnnounce, Swap, AttemptReturn,
             ResumeNothing, ResumeUninitialized, ResumeBegin, ResumeEnd,
             ConnectBegin, ConnectOK, ConnectFailed, MapOK, RLock, RUnlock
    <2>5. ASSUME NEW c \in Conns, Retire(c) \/ GiveUp(c) \/ ConnStep(c) PROVE MapOK'
      BY <2>5 DEF Retire, GiveUp, ConnStep, MapOK
    <2>. QED
      BY <2>1, <2>2, <2>3, <2>4, <2>5 DEF Next, MapOK
  <1>. QED
    BY <1>1, <1>2, Invariance, PTL DEF Spec

(* NewClient's connections are the installed ones: nothing is gone yet.    *)
LEMMA InitImplements == Init => ConnSet!Init
  <1>. SUFFICES ASSUME Init PROVE ConnSet!Init
    OBVIOUS
  <1>1. Installed = 1..InitialConns
    BY DEF Init, Installed, InitialConns, Conns
  <1>2. Installed \subseteq Conns
    BY <1>1 DEF InitialConns, Conns
  <1>. QED
    BY <1>1, <1>2 DEF Init, ConnSet!Init

(* RLock by a goroutine that calls nothing begins a call.                  *)
LEMMA RLockBegins ==
  ASSUME NEW p \in Procs, NEW T \in SUBSET Installed, RLock(p, T),
         using[p] = {}, UNCHANGED <<clientVars, created, attempt>>
  PROVE  ConnSet!Begin(p)
  BY DEF RLock, ConnSet!Begin, Installed

(* RUnlock ends the call.                                                  *)
LEMMA RUnlockLeaves ==
  ASSUME NEW p \in Procs, RUnlock(p), UNCHANGED <<clientVars, created, attempt>>
  PROVE  ConnSet!Leave(p)
  BY DEF RUnlock, ConnSet!Leave, Installed

(* A goroutine that holds no read lock calls nothing.                      *)
LEMMA IdleCallsNothing ==
  ASSUME IInv, NEW p \in Procs, pc[p] \notin HoldsOne \cup {"inner"}
  PROVE  using[p] = {}
  BY DEF IInv, LockOK, UseOK

(* With clientMu locked for writing, connections are exchanged between     *)
(* calls: the new ones come from the attempt, which is not gone yet.       *)
LEMMA WriterReplaces ==
  ASSUME IInv, NoReaders, UNCHANGED <<using, created>>,
         Installed' \subseteq Installed \cup attempt,
         attempt \ Installed' \subseteq attempt', attempt' \subseteq attempt \ Installed'
  PROVE  ConnSet!Replace
  <1>1. \A p \in Procs : using[p] = {}
    BY DEF IInv, UseOK, NoReaders
  <1>2. Installed \cup attempt \subseteq 1..created /\ Installed \cap attempt = {}
        /\ 1..created \subseteq Conns
    BY DEF IInv, TypeOK, PlaceOK, Conns
  <1>. QED
    BY <1>1, <1>2 DEF ConnSet!Replace, ConnSet!Fresh

(* Connections of the attempt are given up, or fresh ones dialled.         *)
LEMMA AttemptAbandons ==
  ASSUME IInv, UNCHANGED <<using, clientVars>>, created' \in 0..MaxConns,
         created <= created', attempt' \cap (1..created) \subseteq attempt
  PROVE  ConnSet!Abandon
  <1>1. Installed' = Installed
    BY DEF Installed
  <1>2. created \in Nat /\ created' \in Nat /\ MaxConns \in Nat
    BY DEF IInv, TypeOK
  <1>3. 1..created \subseteq 1..created' /\ 1..created' \subseteq Conns
    BY <1>2 DEF Conns
  <1>. QED
    BY <1>1, <1>3 DEF ConnSet!Abandon

-----------------------------------------------------------------------------
(* One lemma per kind of goroutine.                                        *)

(* Application calls begin and end.                                        *)
LEMMA OpImplements ==
  ASSUME IInv, NEW p \in Ops, OpNext(p)
  PROVE  ConnSet!Begin(p) \/ ConnSet!Leave(p) \/ Hidden
  <1>0. p \in Procs
    BY DEF Procs
  <1>1. CASE OpBegin(p)
    <2>1. PICK T \in SUBSET Installed : RLock(p, T)
      BY <1>1, TargetsInstalled DEF OpBegin, IInv
    <2>2. using[p] = {}
      BY <1>0, <1>1, IdleCallsNothing DEF OpBegin, HoldsOne
    <2>. QED
      BY <1>0, <1>1, <2>1, <2>2, RLockBegins DEF OpBegin
  <1>2. CASE OpEnd(p)
    BY <1>0, <1>2, RUnlockLeaves DEF OpEnd
  <1>3. CASE OpUninitialized(p)
    BY <1>3 DEF OpUninitialized, Hidden, Gone, Installed
  <1>. QED
    BY <1>1, <1>2, <1>3 DEF OpNext

(* Telemetry calls: the outer read lock begins a call of no connection.    *)
LEMMA InfoImplements ==
  ASSUME IInv, MapOK, NEW p \in Infos, InfoNext(p)
  PROVE  ConnSet!Begin(p) \/ ConnSet!Leave(p)
  <1>0. p \in Procs
    BY DEF Procs
  <1>1. CASE InfoOuter(p)
    <2>1. using[p] = {}
      BY <1>0, <1>1, IdleCallsNothing DEF InfoOuter, HoldsOne
    <2>. QED
      BY <1>0, <1>1, <2>1, RLockBegins DEF InfoOuter
  <1>2. CASE InfoInner(p)
    <2>1. using[p] = {} /\ ~NothingToReport
      BY <1>0, <1>2 DEF InfoInner, MapOK, IInv, UseOK
    <2>2. AllTargets \subseteq Installed
      BY <2>1 DEF AllTargets, NothingToReport, Installed
    <2>. QED
      BY <1>0, <1>2, <2>1, <2>2, RLockBegins DEF InfoInner
  <1>3. CASE InfoEnd(p)
    BY <1>0, <1>3, RUnlockLeaves DEF InfoEnd
  <1>. QED
    BY <1>1, <1>2, <1>3 DEF InfoNext

(* Stop calls every connection, leaves them one by one, and removes them.  *)
LEMMA StopImplements ==
  ASSUME IInv, NEW s \in Stoppers, StopNext(s)
  PROVE  ConnSet!Begin(s) \/ ConnSet!Leave(s) \/ ConnSet!Replace \/ Hidden
  <1>0. s \in Procs
    BY DEF Procs
  <1>1. CASE StopBegin(s)
    <2>1. using[s] = {}
      BY <1>0, <1>1, IdleCallsNothing DEF StopBegin, HoldsOne
    <2>2. AllTargets \in SUBSET Installed
      BY <1>1, TargetsInstalled DEF StopBegin, IInv
    <2>. QED
      BY <1>0, <1>1, <2>1, <2>2, RLockBegins DEF StopBegin
  <1>2. CASE StopDisconnect(s)
    BY <1>0, <1>2 DEF StopDisconnect, ConnSet!Leave, Installed, IInv, TypeOK
  <1>3. CASE StopUnlock(s)
    BY <1>0, <1>3, RUnlockLeaves DEF StopUnlock
  <1>4. CASE StopClear(s)
    <2>1. Installed' = {} /\ UNCHANGED <<using, created, attempt>> /\ NoReaders
      BY <1>4 DEF StopClear, Installed, CanLock
    <2>. QED
      BY <2>1, WriterReplaces
  <1>. QED
    BY <1>1, <1>2, <1>3, <1>4 DEF StopNext, StopCall, StopUninitialized,
       StopCancel, StopAnnounce, Hidden, Gone, Installed

(* The watcher dials, installs, resumes and connects.                      *)
LEMMA WatcherImplements ==
  ASSUME IInv, MapOK, WatcherNext
  PROVE  \/ ConnSet!Begin(Watcher) \/ ConnSet!Leave(Watcher)
         \/ ConnSet!Replace \/ ConnSet!Abandon \/ Hidden
  <1>0. Watcher \in Procs
    BY DEF Procs
  <1>1. CASE MultiDial
    <2>1. PICK n \in 0..MaxAddrs :
            /\ created + n <= MaxConns /\ created' = created + n
            /\ attempt' = (created + 1)..(created + n)
      BY <1>1 DEF MultiDial
    <2>2. created \in Nat /\ n \in Nat
      BY DEF IInv, TypeOK
    <2>3. /\ created' \in 0..MaxConns /\ created <= created'
          /\ attempt' \cap (1..created) = {}
      BY <2>1, <2>2
    <2>. QED
      BY <1>1, <2>3, AttemptAbandons DEF MultiDial
  <1>2. CASE MultiInstall
    <2>1. NoReaders
      BY <1>2 DEF MultiInstall, IInv, LockOK
    <2>2. Installed' \subseteq Installed \cup attempt /\ attempt \subseteq Installed'
      BY <1>2 DEF MultiInstall, Installed, IInv, TypeOK
    <2>. QED
      BY <1>2, <2>1, <2>2, WriterReplaces DEF MultiInstall
  <1>3. CASE MultiGiveUp
    BY <1>3, AttemptAbandons DEF MultiGiveUp, IInv, TypeOK
  <1>4. CASE Dial
    <2>1. created' \in 0..MaxConns /\ created <= created' /\ attempt' \cap (1..created) = {}
      BY <1>4 DEF Dial, IInv, TypeOK
    <2>. QED
      BY <1>4, <2>1, AttemptAbandons DEF Dial
  <1>5. CASE DialRetry
    BY <1>5, AttemptAbandons DEF DialRetry, IInv, TypeOK
  <1>6. CASE Swap
    <2>1. /\ NoReaders /\ UNCHANGED <<using, created>> /\ attempt' = {}
          /\ mqttClient' = NextClient /\ mqttClients' = mqttClients
      BY <1>6 DEF Swap, CanLock
    <2>2. ~multiConnectionMode
      BY <1>6 DEF Swap, IInv, PathOK
    <2>3. attempt = {NextClient} \ {None}
      <3>1. None \notin attempt
        BY DEF IInv, TypeOK
      <3>2. CASE attempt = {}
        BY <3>2 DEF NextClient
      <3>3. CASE attempt # {}
        <4>1. NextClient \in attempt
          BY <3>3 DEF NextClient
        <4>. QED
          BY <2>2, <3>1, <4>1 DEF MapOK
      <3>. QED
        BY <3>2, <3>3
    <2>4. Installed' = mqttClients \cup attempt
      BY <2>1, <2>3 DEF Installed
    <2>. QED
      BY <2>1, <2>4, WriterReplaces DEF Installed
  <1>7. CASE ResumeBegin \/ ConnectBegin
    <2>1. AllTargets \in SUBSET Installed
      BY <1>7, TargetsInstalled DEF ResumeBegin, ConnectBegin, IInv
    <2>2. using[Watcher] = {}
      BY <1>0, <1>7, IdleCallsNothing DEF ResumeBegin, ConnectBegin, HoldsOne
    <2>. QED
      BY <1>0, <1>7, <2>1, <2>2, RLockBegins DEF ResumeBegin, ConnectBegin
  <1>8. CASE ResumeEnd \/ ConnectOK \/ ConnectFailed
    BY <1>0, <1>8, RUnlockLeaves DEF ResumeEnd, ConnectOK, ConnectFailed
  <1>. QED
    BY <1>1, <1>2, <1>3, <1>4, <1>5, <1>6, <1>7, <1>8
       DEF WatcherNext, RunResolver, RunResolverTimeout, ReceiveUpdate, WatchDone,
           MultiAnnounce, DialConnected, SwapAnnounce, ResumeNothing,
           ResumeUninitialized, Hidden, Gone, Installed

(* Every behaviour of the client is one of ConnectionSet: calls and        *)
(* exchanges of connections never overlap, and a connection that was       *)
(* replaced, given up or dropped after a timeout never serves a call again.*)
THEOREM ImplementsConnectionSetAlways == Spec => ImplementsConnectionSet
  <1>1. IInv /\ MapOK /\ [Next]_vars => [ConnSet!Next]_(ConnSet!vars)
    <2>. SUFFICES ASSUME IInv, MapOK, [Next]_vars
                  PROVE  ConnSet!Next \/ UNCHANGED ConnSet!vars
      OBVIOUS
    <2>0. /\ Hidden => UNCHANGED ConnSet!vars
          /\ Ops \cup Infos \cup Stoppers \cup {Watcher} \subseteq Procs
      BY DEF Hidden, Gone, ConnSet!vars, Procs
    <2>1. ASSUME NEW c \in Conns, Retire(c) \/ GiveUp(c) \/ ConnStep(c) PROVE Hidden
      BY <2>1 DEF Retire, GiveUp, ConnStep, Hidden, Gone, Installed
    <2>2. UNCHANGED vars => Hidden
      BY DEF Hidden, Gone, Installed
    <2>. QED
      BY <2>0, <2>1, <2>2, OpImplements, InfoImplements, StopImplements,
         WatcherImplements DEF Next, ConnSet!Next
  <1>. QED
    BY <1>1, InitImplements, Invariance, MapInvariance, PTL
       DEF Spec, ImplementsConnectionSet, ConnSet!Spec
==========================================================================
