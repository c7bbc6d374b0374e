------------------------- MODULE ClientLifecycle -------------------------
(***************************************************************************)
(* The connections a courier Client owns, from NewClient to Stop.          *)
(*                                                                         *)
(* Client.mqttClient and Client.mqttClients are shared by four kinds of    *)
(* goroutine and guarded by clientMu, a sync.RWMutex:                      *)
(*   Ops       application calls that go through Client.execute (Publish,  *)
(*             Subscribe, Unsubscribe, IsConnected);                       *)
(*   Infos     Client.infoResponse, called by the telemetry HTTP handler   *)
(*             and by the ClientInfoEmitter ticker;                        *)
(*   Stoppers  Client.Stop (and the end of Client.Run);                    *)
(*   Watcher   Client.Start and then watchAddressUpdates, which replaces   *)
(*             the connections whenever the Resolver sends addresses.      *)
(* Connections that were replaced are disconnected by goroutines of their  *)
(* own (retiring, givenUp), which no lock orders with the rest.            *)
(***************************************************************************)
EXTENDS Integers, FiniteSets

CONSTANTS
    poolEnabled,          \* clientOptions.poolEnabled
    multiConnectionMode,  \* clientOptions.multiConnectionMode
    HasAddress,           \* WithAddress was given
    HasResolver,          \* WithResolver was given
    PoolSize,             \* clientOptions.poolSize
    Ops, Infos, Stoppers, \* goroutines that use the client
    Watcher,              \* the goroutine of Start, then of the watch loop
    None,                 \* Go's nil
    MaxConns,             \* bound: connections ever created
    MaxAddrs              \* bound: addresses in one update

Procs == Ops \cup Infos \cup Stoppers \cup {Watcher}
Conns == 1..MaxConns

(* execMultiConn, rather than the single mqttClient, serves the calls.     *)
UsesMany == poolEnabled \/ multiConnectionMode

(* How many mqtt clients NewClient creates before any connection attempt.  *)
InitialConns == IF ~HasAddress THEN 0 ELSE IF poolEnabled THEN PoolSize ELSE 1

(* NewClient returns an error for the other combinations, and WithPoolSize *)
(* enables the pool only for more than one connection.                     *)
ASSUME OptionsAssumption ==
    /\ {poolEnabled, multiConnectionMode, HasAddress, HasResolver} \subseteq BOOLEAN
    /\ HasAddress \/ HasResolver
    /\ ~(poolEnabled /\ multiConnectionMode)
    /\ PoolSize \in Nat \ {0}
    /\ poolEnabled => PoolSize > 1

ASSUME BoundsAssumption ==
    /\ MaxConns \in Nat
    /\ MaxAddrs \in Nat
    /\ InitialConns <= MaxConns
    /\ None \notin Conns

ASSUME ProcsAssumption ==
    /\ Watcher \notin Ops \cup Infos \cup Stoppers
    /\ Ops \cap Infos = {}
    /\ Ops \cap Stoppers = {}
    /\ Infos \cap Stoppers = {}
    /\ None \notin Procs

VARIABLES
    mqttClient,         \* Client.mqttClient: a connection or None
    mqttClients,        \* Client.mqttClients (and orderedClients): a set
    multiConnRevision,  \* Client.multiConnRevision
    readers,            \* clientMu: read locks held by each goroutine
    wlock,              \* clientMu: who called Lock and has not unlocked
    pc,                 \* where each goroutine is
    using,              \* the connections each goroutine is calling
    created,            \* connections 1..created exist
    state,              \* of each connection
    clientID,           \* of each connection: <<index, revision>>
    attempt,            \* what the current connection attempt created
    retiring,           \* replaced connections not yet disconnected
    givenUp,            \* those of a failed attempt, not yet disconnected
    watching,           \* Start succeeded: watchAddressUpdates runs
    emitting,           \* the info emitter goroutine is running
    panicked            \* a goroutine indexed an empty slice

lockVars == <<readers, wlock>>
clientVars == <<mqttClient, mqttClients, multiConnRevision>>
connVars == <<created, state, clientID, attempt, retiring, givenUp>>
flags == <<watching, emitting, panicked>>
vars == <<clientVars, lockVars, pc, using, connVars, flags>>

WatcherLabels == {"idle", "first", "watch", "multi_lock", "multi_dial",
    "multi_wait", "dial", "dialing", "swap_lock", "swap", "resume",
    "resuming", "connecting", "exited"}
Labels == WatcherLabels \cup {"in", "outer", "inner", "called", "stopping",
    "cancel", "cancel_failed", "clear_lock", "clear", "done"}

(* "new": never dialled; "connecting": dialling or reconnecting; "down":   *)
(* the dial failed or the connection was lost for good; "closed":          *)
(* Disconnect was called.                                                  *)
ConnStates == {"new", "connecting", "open", "down", "closed"}
Live(c) == state[c] \in {"connecting", "open"}

Installed == mqttClients \cup ({mqttClient} \ {None})

FlagsOK ==
    /\ watching \in BOOLEAN
    /\ emitting \in BOOLEAN
    /\ panicked \in BOOLEAN

(* The type invariant. clientMu is taken for reading at most twice by one  *)
(* goroutine (multiClientInfo), a missing RUnlock would exceed that.       *)
TypeOK ==
    /\ FlagsOK
    /\ mqttClient \in Conns \cup {None}
    /\ mqttClients \subseteq Conns
    /\ multiConnRevision \in Nat
    /\ readers \in [Procs -> 0..2]
    /\ wlock \in Procs \cup {None}
    /\ pc \in [Procs -> Labels]
    /\ using \in [Procs -> SUBSET Conns]
    /\ created \in 0..MaxConns
    /\ state \in [Conns -> ConnStates]
    /\ clientID \in [Conns -> Int \X Nat]
    /\ attempt \subseteq Conns
    /\ retiring \subseteq Conns
    /\ givenUp \subseteq Conns

(* toClientOptions: of the options given to the mqtt library only the      *)
(* suffix of the client ID is of interest. It is "-index-revision" for one *)
(* of several connections, "-index" in a pool, empty otherwise.            *)
NewClientID(index, revision) == <<index, revision>>

(* NewClient: with an address the pool or the single client is created,    *)
(* and none of them is dialled before Start.                               *)
Init ==
    /\ mqttClient = IF HasAddress /\ ~poolEnabled THEN 1 ELSE None
    /\ mqttClients = IF HasAddress /\ poolEnabled THEN 1..PoolSize ELSE {}
    /\ multiConnRevision = 0
    /\ readers = [p \in Procs |-> 0]
    /\ wlock = None
    /\ pc = [p \in Procs |-> "idle"]
    /\ using = [p \in Procs |-> {}]
    /\ created = InitialConns
    /\ state = [c \in Conns |-> "new"]
    /\ clientID = [c \in Conns |-> NewClientID(IF poolEnabled THEN c - 1 ELSE 0, 0)]
    /\ attempt = {} /\ retiring = {} /\ givenUp = {}
    /\ watching = FALSE /\ emitting = FALSE /\ panicked = FALSE

(***************************************************************************)
(* clientMu. Go's RWMutex admits no reader once a writer has called Lock,  *)
(* and the writer enters when the readers that were in have left.          *)
(***************************************************************************)
CanRLock == wlock = None

NoReaders == \A p \in Procs : readers[p] = 0

CanLock_IgnoresReaders(p) == wlock = p
CanLock(p) == wlock = p /\ NoReaders

Announce(p) == wlock = None /\ wlock' = p

(* RLock by p, which then calls the connections in T.                      *)
RLock(p, T) ==
    /\ CanRLock
    /\ readers' = [readers EXCEPT ![p] = @ + 1]
    /\ using' = [using EXCEPT ![p] = T]

RUnlock_Forgotten(p) ==
    /\ readers' = readers
    /\ using' = [using EXCEPT ![p] = {}]
RUnlock(p) ==
    /\ readers' = [readers EXCEPT ![p] = 0]
    /\ using' = [using EXCEPT ![p] = {}]

Goto(p, l) == pc' = [pc EXCEPT ![p] = l]

(***************************************************************************)
(* Client.execute.                                                         *)
(***************************************************************************)
Uninitialized_NotChecked == FALSE
Uninitialized == mqttClient = None /\ mqttClients = {}

AllTargets == IF UsesMany THEN mqttClients ELSE {mqttClient}
OneTarget == IF UsesMany THEN {{c} : c \in mqttClients} ELSE {{mqttClient}}

(* execOneRandom and execOneRoundRobin index a slice that may be empty.    *)
IndexesEmpty == UsesMany /\ mqttClients = {}

(* A call goes to all clients, which may be none, or to one of them.       *)
Targets(all) == IF all \/ IndexesEmpty THEN {AllTargets} ELSE OneTarget

OpBegin(p) ==
    /\ pc[p] = "idle"
    /\ ~Uninitialized
    /\ \E all \in BOOLEAN :
        /\ \E T \in Targets(all) : RLock(p, T)
        /\ panicked' = (~all /\ IndexesEmpty)
    /\ Goto(p, "in")
    /\ UNCHANGED <<clientVars, wlock, connVars, watching, emitting>>

(* The tokens of the call completed or timed out, as those of              *)
(* publishHandler: execute returns.                                        *)
OpEnd(p) ==
    /\ pc[p] = "in"
    /\ RUnlock(p)
    /\ Goto(p, "idle")
    /\ UNCHANGED <<clientVars, wlock, connVars, flags>>

(* ErrClientNotInitialized: the read lock is taken, checked and released.  *)
OpUninitialized(p) ==
    /\ pc[p] = "idle"
    /\ Uninitialized
    /\ CanRLock
    /\ UNCHANGED vars

(***************************************************************************)
(* clientInfo: a read lock, and a second one inside it through execute.    *)
(***************************************************************************)
NothingToReport == IF UsesMany THEN mqttClients = {} ELSE mqttClient = None

InfoOuter(p) ==
    /\ pc[p] = "idle"
    /\ ~NothingToReport
    /\ RLock(p, {})
    /\ Goto(p, "outer")
    /\ UNCHANGED <<clientVars, wlock, connVars, flags>>

InfoInner(p) ==
    /\ pc[p] = "outer"
    /\ RLock(p, AllTargets)
    /\ Goto(p, "inner")
    /\ UNCHANGED <<clientVars, wlock, connVars, flags>>

InfoEnd(p) ==
    /\ pc[p] = "inner"
    /\ RUnlock(p)
    /\ Goto(p, "idle")
    /\ UNCHANGED <<clientVars, wlock, connVars, flags>>

(***************************************************************************)
(* Start with a Resolver: runResolver, then watchAddressUpdates.           *)
(***************************************************************************)
RunResolver ==
    /\ pc[Watcher] = "idle"
    /\ HasResolver
    /\ Goto(Watcher, "first")
    /\ UNCHANGED <<clientVars, lockVars, using, connVars, flags>>

(* ErrConnectTimeout: no addresses came; Start may be called again.        *)
RunResolverTimeout ==
    /\ pc[Watcher] = "first"
    /\ Goto(Watcher, "idle")
    /\ UNCHANGED <<clientVars, lockVars, using, connVars, flags>>

(* attemptConnections. The addresses of the update are chosen where they   *)
(* are used: only their number matters, and for a single connection only   *)
(* whether there is one.                                                   *)
ReceiveUpdate ==
    /\ pc[Watcher] \in {"first", "watch"}
    /\ \/ multiConnectionMode /\ Goto(Watcher, "multi_lock")
       \/ ~multiConnectionMode /\ Goto(Watcher, "dial")
       \/ ~multiConnectionMode /\ Goto(Watcher, "swap_lock")
    /\ UNCHANGED <<clientVars, lockVars, using, connVars, flags>>

(* The Resolver's Done channel is closed.                                  *)
WatchDone ==
    /\ pc[Watcher] = "watch"
    /\ Goto(Watcher, "exited")
    /\ UNCHANGED <<clientVars, lockVars, using, connVars, flags>>

(* What attemptConnections returns to: the watch loop, which only logs an  *)
(* error, or runResolver, which starts the emitter and the loop if ok.     *)
AttemptReturn(ok) ==
    /\ Goto(Watcher, IF watching \/ ok THEN "watch" ELSE "idle")
    /\ watching' = (watching \/ ok)
    /\ emitting' = (emitting \/ (ok /\ ~watching))
    /\ panicked' = panicked

(***************************************************************************)
(* attemptMultiConnections: dials and installs with clientMu locked.       *)
(***************************************************************************)
MultiAnnounce ==
    /\ pc[Watcher] = "multi_lock"
    /\ Announce(Watcher)
    /\ Goto(Watcher, "multi_dial")
    /\ UNCHANGED <<clientVars, readers, using, connVars, flags>>

(* multipleClients, up to the Connect calls: one client per address, its   *)
(* ID made of the address's index and of the next revision.                *)
MultiDial ==
    /\ pc[Watcher] = "multi_dial"
    /\ CanLock(Watcher)
    /\ \E n \in 0..MaxAddrs :
        LET fresh == (created + 1)..(created + n) IN
        /\ created + n <= MaxConns
        /\ created' = created + n
        /\ attempt' = fresh
        /\ state' = [c \in Conns |-> IF c \in fresh THEN "connecting" ELSE state[c]]
        /\ clientID' = [c \in Conns |-> IF c \in fresh
                            THEN NewClientID(c - created - 1, multiConnRevision + 1)
                            ELSE clientID[c]]
    /\ Goto(Watcher, "multi_wait")
    /\ UNCHANGED <<clientVars, lockVars, using, retiring, givenUp, flags>>

NextRevision_Stuck == multiConnRevision
NextRevision == multiConnRevision + 1

(* What reloadClients and reloadClient disconnect in the background.       *)
Replaced_Leaked(old) == {}
Replaced(old) == old \ {None}

(* reloadClients installs only what multipleClients found to be connected. *)
AnyConnected_NotChecked == TRUE
AnyConnected == \E c \in attempt : state[c] = "open"

(* Some client is connected: all of them are installed, connected or not,  *)
(* and the old ones are disconnected in the background.                    *)
MultiInstall ==
    /\ pc[Watcher] = "multi_wait"
    /\ AnyConnected
    /\ mqttClients' = attempt
    /\ multiConnRevision' = NextRevision
    /\ retiring' = retiring \cup Replaced(mqttClients)
    /\ attempt' = {}
    /\ wlock' = None
    /\ Goto(Watcher, "resume")
    /\ UNCHANGED <<mqttClient, readers, using, created, state, clientID, givenUp, flags>>

Unlock_OnlyIfConnected == wlock
UnlockUnconnected == None

(* No client is connected (or there is no address): the new clients are    *)
(* disconnected in the background and the old ones stay.                   *)
MultiGiveUp ==
    /\ pc[Watcher] = "multi_wait"
    /\ ~AnyConnected
    /\ givenUp' = givenUp \cup attempt
    /\ attempt' = {}
    /\ wlock' = UnlockUnconnected
    /\ Goto(Watcher, "resume")
    /\ UNCHANGED <<clientVars, readers, using, created, state, clientID, retiring, flags>>

(***************************************************************************)
(* attemptSingleConnection: newClient until one connects, then swap.       *)
(***************************************************************************)
Dial ==
    /\ pc[Watcher] = "dial"
    /\ created < MaxConns
    /\ created' = created + 1
    /\ attempt' = {created + 1}
    /\ state' = [state EXCEPT ![created + 1] = "connecting"]
    /\ clientID' = [clientID EXCEPT ![created + 1] = NewClientID(0, 0)]
    /\ Goto(Watcher, "dialing")
    /\ UNCHANGED <<clientVars, lockVars, using, retiring, givenUp, flags>>

(* The token failed or WaitTimeout expired: the client is dropped as it    *)
(* is and the next address is dialled.                                     *)
DialRetry ==
    /\ pc[Watcher] = "dialing"
    /\ attempt' = {}
    /\ Goto(Watcher, "dial")
    /\ UNCHANGED <<clientVars, lockVars, using, created, state, clientID, retiring, givenUp, flags>>

DialConnected ==
    /\ pc[Watcher] = "dialing"
    /\ \A c \in attempt : state[c] = "open"
    /\ Goto(Watcher, "swap_lock")
    /\ UNCHANGED <<clientVars, lockVars, using, connVars, flags>>

SwapAnnounce ==
    /\ pc[Watcher] = "swap_lock"
    /\ Announce(Watcher)
    /\ Goto(Watcher, "swap")
    /\ UNCHANGED <<clientVars, readers, using, connVars, flags>>

(* Without addresses reloadClient installs nil.                            *)
NextClient_KeptIfEmpty == IF attempt = {} THEN mqttClient ELSE CHOOSE c \in attempt : TRUE
NextClient == IF attempt = {} THEN None ELSE CHOOSE c \in attempt : TRUE

(* reloadClient; if it installs nil nothing is resumed.                    *)
Swap ==
    /\ pc[Watcher] = "swap"
    /\ CanLock(Watcher)
    /\ mqttClient' = NextClient
    /\ retiring' = retiring \cup Replaced({mqttClient})
    /\ attempt' = {}
    /\ wlock' = None
    /\ IF attempt = {} THEN AttemptReturn(TRUE)
                       ELSE Goto(Watcher, "resume") /\ UNCHANGED flags
    /\ UNCHANGED <<mqttClients, multiConnRevision, readers, using, created,
                   state, clientID, givenUp>>

(***************************************************************************)
(* resumeSubscriptions: every remembered subscription goes through execute *)
(***************************************************************************)
ResumeNothing ==
    /\ pc[Watcher] = "resume"
    /\ AttemptReturn(TRUE)
    /\ UNCHANGED <<clientVars, lockVars, using, connVars>>

ResumeUninitialized ==
    /\ pc[Watcher] = "resume"
    /\ Uninitialized
    /\ CanRLock
    /\ AttemptReturn(FALSE)
    /\ UNCHANGED <<clientVars, lockVars, using, connVars>>

ResumeBegin ==
    /\ pc[Watcher] = "resume"
    /\ ~Uninitialized
    /\ RLock(Watcher, AllTargets)
    /\ Goto(Watcher, "resuming")
    /\ UNCHANGED <<clientVars, wlock, connVars, flags>>

ResumeEnd ==
    /\ pc[Watcher] = "resuming"
    /\ RUnlock(Watcher)
    /\ \E ok \in BOOLEAN : AttemptReturn(ok)
    /\ UNCHANGED <<clientVars, wlock, connVars>>

(***************************************************************************)
(* Start without a Resolver: runConnect.                                   *)
(***************************************************************************)
ConnectBegin ==
    /\ pc[Watcher] = "idle"
    /\ ~HasResolver
    /\ ~Uninitialized
    /\ RLock(Watcher, AllTargets)
    /\ state' = [c \in Conns |-> IF c \in AllTargets /\ ~Live(c)
                                    THEN "connecting" ELSE state[c]]
    /\ Goto(Watcher, "connecting")
    /\ UNCHANGED <<clientVars, wlock, created, clientID, attempt, retiring, givenUp, flags>>

ConnectOK ==
    /\ pc[Watcher] = "connecting"
    /\ \A c \in using[Watcher] : state[c] = "open"
    /\ RUnlock(Watcher)
    /\ Goto(Watcher, "exited")
    /\ emitting' = TRUE
    /\ UNCHANGED <<clientVars, wlock, connVars, watching, panicked>>

(* A token failed or connectTimeout passed; Start may be called again.     *)
ConnectFailed ==
    /\ pc[Watcher] = "connecting"
    /\ RUnlock(Watcher)
    /\ Goto(Watcher, "idle")
    /\ UNCHANGED <<clientVars, wlock, connVars, flags>>

(***************************************************************************)
(* Client.stop, reached by Stop through its handler and by Run directly.   *)
(***************************************************************************)
StopCall(s) ==
    /\ pc[s] = "idle"
    /\ Goto(s, "called")
    /\ UNCHANGED <<clientVars, lockVars, using, connVars, flags>>

StopBegin(s) ==
    /\ pc[s] = "called"
    /\ ~Uninitialized
    /\ RLock(s, AllTargets)
    /\ Goto(s, "stopping")
    /\ UNCHANGED <<clientVars, wlock, connVars, flags>>

StopUninitialized(s) ==
    /\ pc[s] = "called"
    /\ Uninitialized
    /\ CanRLock
    /\ Goto(s, "cancel_failed")
    /\ UNCHANGED <<clientVars, lockVars, using, connVars, flags>>

(* One of the concurrent Disconnect calls.                                 *)
StopDisconnect(s) ==
    /\ pc[s] = "stopping"
    /\ \E c \in using[s] :
        /\ state' = [state EXCEPT ![c] = "closed"]
        /\ using' = [using EXCEPT ![s] = @ \ {c}]
    /\ UNCHANGED <<clientVars, lockVars, pc, created, clientID, attempt,
                   retiring, givenUp, flags>>

StopUnlock(s) ==
    /\ pc[s] = "stopping"
    /\ using[s] = {}
    /\ RUnlock(s)
    /\ Goto(s, "cancel")
    /\ UNCHANGED <<clientVars, wlock, connVars, flags>>

(* stopInfoEmitter, also after ErrClientNotInitialized.                    *)
StopCancel(s) ==
    /\ pc[s] \in {"cancel", "cancel_failed"}
    /\ emitting' = FALSE
    /\ Goto(s, IF pc[s] = "cancel" THEN "clear_lock" ELSE "done")
    /\ UNCHANGED <<clientVars, lockVars, using, connVars, watching, panicked>>

StopAnnounce(s) ==
    /\ pc[s] = "clear_lock"
    /\ Announce(s)
    /\ Goto(s, "clear")
    /\ UNCHANGED <<clientVars, readers, using, connVars, flags>>

(* mqttClient, mqttClients and orderedClients become nil, whatever they    *)
(* have become since the read lock was released.                           *)
StopClear(s) ==
    /\ pc[s] = "clear"
    /\ CanLock(s)
    /\ mqttClient' = None
    /\ mqttClients' = {}
    /\ wlock' = None
    /\ Goto(s, "done")
    /\ UNCHANGED <<multiConnRevision, readers, using, connVars, flags>>

(***************************************************************************)
(* The background disconnects and the network.                             *)
(***************************************************************************)
Disconnect(c) == state' = [state EXCEPT ![c] = "closed"]

Retire(c) ==
    /\ c \in retiring
    /\ Disconnect(c)
    /\ retiring' = retiring \ {c}
    /\ UNCHANGED <<clientVars, lockVars, pc, using, created, clientID, attempt, givenUp, flags>>

GiveUp(c) ==
    /\ c \in givenUp
    /\ Disconnect(c)
    /\ givenUp' = givenUp \ {c}
    /\ UNCHANGED <<clientVars, lockVars, pc, using, created, clientID, attempt, retiring, flags>>

(* The mqtt library: a dial or reconnection succeeds or fails, an open     *)
(* connection is lost and, with autoReconnect, dialled again.              *)
ConnMoves == {<<"connecting", "open">>, <<"connecting", "down">>,
              <<"open", "connecting">>, <<"open", "down">>}

ConnStep(c) ==
    /\ \E m \in ConnMoves : state[c] = m[1] /\ state' = [state EXCEPT ![c] = m[2]]
    /\ UNCHANGED <<clientVars, lockVars, pc, using, created, clientID, attempt,
                   retiring, givenUp, flags>>

OpNext(p) == OpBegin(p) \/ OpEnd(p) \/ OpUninitialized(p)

InfoNext(p) == InfoOuter(p) \/ InfoInner(p) \/ InfoEnd(p)

StopNext(s) ==
    \/ StopCall(s) \/ StopBegin(s) \/ StopUninitialized(s) \/ StopDisconnect(s)
    \/ StopUnlock(s) \/ StopCancel(s) \/ StopAnnounce(s) \/ StopClear(s)

WatcherNext ==
    \/ RunResolver \/ RunResolverTimeout \/ ReceiveUpdate \/ WatchDone
    \/ MultiAnnounce \/ MultiDial \/ MultiInstall \/ MultiGiveUp
    \/ Dial \/ DialRetry \/ DialConnected \/ SwapAnnounce \/ Swap
    \/ ResumeNothing \/ ResumeUninitialized \/ ResumeBegin \/ ResumeEnd
    \/ ConnectBegin \/ ConnectOK \/ ConnectFailed

(* A panic in any goroutine ends the process.                              *)
Next ==
    /\ ~panicked
    /\ \/ \E p \in Ops : OpNext(p)
       \/ \E p \in Infos : InfoNext(p)
       \/ \E s \in Stoppers : StopNext(s)
       \/ WatcherNext
       \/ \E c \in Conns : Retire(c) \/ GiveUp(c) \/ ConnStep(c)

(* What the Go runtime and the timeouts of the code guarantee: a call that *)
(* holds a read lock returns (writeTimeout, ctx, connectTimeout,           *)
(* gracefulShutdownPeriod bound it), a step that waits for nothing is      *)
(* taken, and RWMutex starves neither a waiting reader nor a writer, so    *)
(* that the lock operations of Stop, of the watcher and of the telemetry   *)
(* call are strongly fair.                                                 *)
Fairness ==
    /\ \A p \in Ops : WF_vars(OpEnd(p))
    /\ \A p \in Infos : SF_vars(InfoInner(p)) /\ WF_vars(InfoEnd(p))
    /\ \A s \in Stoppers :
        /\ SF_vars(StopBegin(s)) /\ SF_vars(StopUninitialized(s))
        /\ WF_vars(StopDisconnect(s)) /\ WF_vars(StopUnlock(s))
        /\ WF_vars(StopCancel(s))
        /\ SF_vars(StopAnnounce(s)) /\ WF_vars(StopClear(s))
    /\ SF_vars(MultiAnnounce) /\ WF_vars(MultiDial)
    /\ WF_vars(MultiInstall \/ MultiGiveUp)
    /\ SF_vars(SwapAnnounce) /\ WF_vars(Swap)
    /\ SF_vars(ResumeNothing \/ ResumeUninitialized \/ ResumeBegin)
    /\ WF_vars(ResumeEnd) /\ WF_vars(ConnectOK \/ ConnectFailed)

Spec == Init /\ [][Next]_vars
FairSpec == Spec /\ Fairness

(***************************************************************************)
(* Properties.                                                             *)
(***************************************************************************)

(* A connection that a background goroutine of reloadClients, reloadClient *)
(* or multipleClients is about to Disconnect is not the target of any call *)
(* made through execute: the swap waits for the calls on the old           *)
(* connections and later calls only see the new ones.                      *)
RetiredNotInUse ==
    \A p \in Procs : using[p] \cap (retiring \cup givenUp) = {}

(* Calls only ever reach installed connections, never one that is still    *)
(* being dialled or that was replaced.                                     *)
CallsReachInstalled ==
    \A p \in Procs : using[p] \subseteq Installed

(* In multi-connection mode no two of the connections that are installed   *)
(* or being replaced share a client ID: the broker would close the one     *)
(* that connected first. The revision in the ID is what keeps a new        *)
(* generation apart from the one still being disconnected.                 *)
DistinctClientIDs ==
    multiConnectionMode =>
        \A c, d \in mqttClients \cup retiring :
            c # d => clientID[c] # clientID[d]

(* Connections that are up or dialling although nothing refers to them any *)
(* more: neither the client, nor the current attempt, nor a goroutine that *)
(* will disconnect them.                                                   *)
Orphans ==
    {c \in Conns : Live(c)} \ (Installed \cup attempt \cup retiring \cup givenUp)

(* No connection leaks as long as no Stop has returned, whichever of the   *)
(* connections of an update fail and however Stop and the updates overlap. *)
NoOrphanWhileRunning == (\A s \in Stoppers : pc[s] # "done") => Orphans = {}

(* execMultiConn never picks a client out of an empty slice.               *)
ExecNeverIndexesEmpty == ~panicked

(* A multi-connection client that has connections keeps having some until  *)
(* Stop clears them: a failed attempt or an empty update leaves the old    *)
(* ones installed.                                                         *)
KeepsConnections ==
    [][\/ mqttClients = {}
       \/ mqttClients' # {}
       \/ \E s \in Stoppers : pc[s] = "clear" /\ pc'[s] = "done"]_vars

(* The client is a ConnectionSet: calls and exchanges of connections never *)
(* overlap, and no connection that was replaced, given up after a failed   *)
(* update, or dropped by newClient after a timeout is ever installed.      *)
ConnSet == INSTANCE ConnectionSet WITH
    installed <- Installed,
    gone <- (1..created) \ (Installed \cup attempt),
    calls <- using
ImplementsConnectionSet == ConnSet!Spec

(* A call of Stop returns, whatever the watcher and the other calls do.    *)
StopReturns == \A s \in Stoppers : pc[s] = "called" ~> pc[s] = "done"

(* An address update that was received in multi-connection mode is dealt   *)
(* with: the watch loop comes back for the next one.                       *)
UpdatesAreHandled ==
    pc[Watcher] = "multi_lock" ~> pc[Watcher] \in {"watch", "idle"}

(***************************************************************************)
(* What the code does not guarantee: each of these has a counterexample    *)
(* (the README says which constants show it).                              *)
(***************************************************************************)

(* No connection leaks at all. This is not so: stop forgets what was       *)
(* installed after it released the read lock, and newClient what timed     *)
(* out.                                                                    *)
NoOrphan == Orphans = {}

(* Once Stop has disconnected a running client, the client stays without   *)
(* connections: Stop "will disconnect from the broker and finish up any    *)
(* pending work on internal communication workers".                        *)
StopIsFinal ==
    \A s \in Stoppers :
        [](watching /\ pc[s] = "clear" => [](pc[s] = "done" => Installed = {}))
==========================================================================
