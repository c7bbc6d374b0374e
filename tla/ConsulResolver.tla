------------------------- MODULE ConsulResolver --------------------------
(***************************************************************************)
(* consul.Resolver: which addresses it believes its service has, and how   *)
(* it publishes them on updateChan.                                        *)
(*                                                                         *)
(* Three goroutines call discover: Resolver.Start itself ("main"), once,   *)
(* the watchServices loop ("svc") and, after the service name in the KV    *)
(* store changed, the watchKV loop ("kv"). discover asks Consul without    *)
(* holding mu and locks it twice afterwards, once to apply the answer and  *)
(* once in scheduleAddressUpdate. Timer callbacks (Callbacks) publish what *)
(* is pending; a timer that was stopped too late leaves its callback       *)
(* running, so that several may be under way.                              *)
(*                                                                         *)
(* Time is abstract: an armed timer may fire and a blocking query may time *)
(* out at any moment, but if WaitTime exceeds DebounceDuration a timer     *)
(* armed by watchServices fires before the next query of that loop times   *)
(* out. An address list is a set of addresses.                             *)
(***************************************************************************)
EXTENDS Integers, Sequences, FiniteSets

CONSTANTS
    Services,             \* service names
    Addrs,                \* addresses of instances
    Nil,                  \* Go's nil, the empty service name, nobody
    Callbacks,            \* bound: timer callbacks under way at once
    Debounced,            \* DebounceDuration > 0
    WaitExceedsDebounce,  \* WaitTime > DebounceDuration
    MayStop,              \* Resolver.Stop may be called
    MaxLog,               \* bound: changes of the service catalog
    MaxKV                 \* bound: writes of the KV key

Lists == SUBSET Addrs
Discoverers == {"main", "svc", "kv"}
Senders == Discoverers \cup Callbacks
Cap == 1                  \* capacity of updateChan

ASSUME ConsulAssumption ==
    /\ Nil \notin Services \cup Senders
    /\ Discoverers \cap Callbacks = {}
    /\ {Debounced, WaitExceedsDebounce, MayStop} \subseteq BOOLEAN
    /\ IsFiniteSet(Services) /\ IsFiniteSet(Callbacks)
    /\ MaxLog \in Nat /\ Cardinality(Services) <= MaxLog
    /\ MaxKV \in Nat \ {0}

VARIABLES
    serviceName,       \* Resolver.serviceName, Nil when empty
    lastIndex,         \* Resolver.lastIndex
    lastAddresses,     \* Resolver.lastAddresses (nil and empty are equal)
    pendingAddresses,  \* Resolver.pendingAddresses
    timer,             \* who armed debounceTimer; Nil when stopped or fired
    timerEpoch,        \* tells a timer from the one armed in its place
    mu,                \* who keeps Resolver.mu locked across steps
    pc,                \* where each goroutine is
    local,             \* its local variables
    updateChan,        \* the buffer of updateChan
    sendq,             \* the senders parked on updateChan, in order
    closed,            \* updateChan is closed
    done,              \* doneChan is closed
    stop,              \* how far Stop got
    panicked,          \* a send met the closed channel
    received,          \* what the consumer received last
    catalog,           \* Consul: the healthy instances of each service
    log,               \* Consul: log[i] is the service changed at index i
    kv,                \* Consul: the service name under KVKey, or Nil
    kvIndex            \* Consul: the ModifyIndex of KVKey

mine == <<serviceName, lastIndex, lastAddresses, pendingAddresses, timer, timerEpoch>>
channel == <<updateChan, sendq, closed, done, panicked, received>>
consul == <<catalog, log, kv, kvIndex>>
vars == <<mine, mu, pc, local, channel, stop, consul>>

Labels == {"off", "kv_get", "read", "query", "apply", "schedule", "spawn", "wait",
           "loop", "backoff", "kv_query", "kv_apply", "check", "take",
           "send", "parked", "exited"}

(* The local variables of discover and of the callback, while in scope.    *)
Locals == [name : Services \cup {Nil}, index : 0..MaxLog, addrs : Lists]
NoLocals == [name |-> Nil, index |-> 0, addrs |-> {}]

FlagsOK == timerEpoch \in BOOLEAN /\ {closed, done, panicked} \subseteq BOOLEAN

(* The type invariant.                                                     *)
TypeOK ==
    /\ FlagsOK
    /\ serviceName \in Services \cup {Nil}
    /\ lastIndex \in 0..MaxLog
    /\ lastAddresses \in Lists
    /\ pendingAddresses = Nil \/ pendingAddresses \in Lists
    /\ timer \in Discoverers \cup {Nil}
    /\ mu \in Discoverers \cup {Nil}
    /\ pc \in [Senders -> Labels]
    /\ local \in [Senders -> Locals]
    /\ updateChan \in Seq(Lists) /\ Len(updateChan) <= Cap
    /\ sendq \in Seq(Senders)
    /\ stop \in {"no", "called", "closing", "returned"}
    /\ received \in Lists
    /\ catalog \in [Services -> Lists]
    /\ log \in Seq(Services)
    /\ kv \in Services \cup {Nil}
    /\ kvIndex \in 0..MaxKV

(* The index Consul reports for service s: its last change.                *)
IndexOf(s) == CHOOSE i \in 1..Len(log) :
                /\ log[i] = s
                /\ \A j \in (i + 1)..Len(log) : log[j] # s

(* Before Start; every service was registered once, in some order.         *)
Init ==
    /\ serviceName = Nil /\ lastIndex = 0
    /\ lastAddresses = {} /\ pendingAddresses = Nil
    /\ timer = Nil /\ timerEpoch = FALSE
    /\ mu = Nil
    /\ pc = [p \in Senders |-> IF p = "main" THEN "kv_get" ELSE "off"]
    /\ local = [p \in Senders |-> NoLocals]
    /\ updateChan = <<>> /\ sendq = <<>> /\ closed = FALSE /\ done = FALSE
    /\ stop = "no" /\ panicked = FALSE /\ received = {}
    /\ catalog \in [Services -> Lists]
    /\ log \in {l \in [1..Cardinality(Services) -> Services] :
                    \A s \in Services : \E i \in DOMAIN l : l[i] = s}
    /\ kv \in Services \cup {Nil}
    /\ kvIndex = 1

Goto(p, l) == pc' = [pc EXCEPT ![p] = l]

(* The function p is in returns to l.                                      *)
Return(p, l) == Goto(p, l) /\ local' = [local EXCEPT ![p] = NoLocals]

(* Where discover returns to, with and without an error.                   *)
AfterDiscover(d) == IF d = "main" THEN "spawn" ELSE "loop"
AfterFailure_Exits(d) == IF d = "svc" THEN "exited" ELSE AfterDiscover(d)
AfterFailure(d) == IF d = "svc" THEN "backoff" ELSE AfterDiscover(d)

(* A new service name invalidates the wait index.                          *)
IndexForNewName == 0

SetServiceName(s) ==
    /\ serviceName' = s
    /\ lastIndex' = IndexForNewName
    /\ UNCHANGED <<lastAddresses, pendingAddresses, timer, timerEpoch>>

(***************************************************************************)
(* Resolver.Start.                                                         *)
(***************************************************************************)

(* updateServiceNameFromKV; a read or parse error leaves the name empty.   *)
StartReadKV ==
    /\ pc["main"] = "kv_get"
    /\ \/ kv # Nil /\ SetServiceName(kv)
       \/ UNCHANGED mine
    /\ Goto("main", "read")
    /\ UNCHANGED <<mu, local, channel, stop, consul>>

StartSpawn ==
    /\ pc["main"] = "spawn"
    /\ pc' = [pc EXCEPT !["main"] = "wait", !["svc"] = "loop", !["kv"] = "loop"]
    /\ UNCHANGED <<mine, mu, local, channel, stop, consul>>

WatchersExited_ServicesOnly == pc["svc"] = "exited"
WatchersExited == pc["svc"] = "exited" /\ pc["kv"] = "exited"

(* wg.Wait returned: close(updateChan).                                    *)
StartClose ==
    /\ pc["main"] = "wait"
    /\ WatchersExited
    /\ closed' = TRUE
    /\ Goto("main", "exited")
    /\ UNCHANGED <<mine, mu, local, updateChan, sendq, done, panicked, received, stop, consul>>

(***************************************************************************)
(* discover.                                                               *)
(***************************************************************************)
DiscoverRead(d) ==
    /\ pc[d] = "read"
    /\ mu = Nil
    /\ local' = [local EXCEPT ![d].name = serviceName, ![d].index = lastIndex]
    /\ Goto(d, "query")
    /\ UNCHANGED <<mine, mu, channel, stop, consul>>

(* watchServices' query outlasts the timer that loop armed before it.      *)
MayTimeOut(d) == ~(WaitExceedsDebounce /\ d = "svc" /\ timer = "svc")

(* Consul answers a blocking query when the service has changed since the  *)
(* wait index, or when WaitTime is over.                                   *)
DiscoverAnswer(d) ==
    /\ pc[d] = "query"
    /\ local[d].name # Nil
    /\ IndexOf(local[d].name) > local[d].index \/ MayTimeOut(d)
    /\ local' = [local EXCEPT ![d].addrs = catalog[local[d].name],
                              ![d].index = IndexOf(local[d].name)]
    /\ Goto(d, "apply")
    /\ UNCHANGED <<mine, mu, channel, stop, consul>>

(* Consul cannot be reached, or the service name is empty.                 *)
DiscoverError(d) ==
    /\ pc[d] = "query"
    /\ Return(d, AfterFailure(d))
    /\ UNCHANGED <<mine, mu, channel, stop, consul>>

StillCurrent_NotChecked(d) == TRUE
StillCurrent(d) == local[d].name = serviceName

DiscoverApply(d) ==
    /\ pc[d] = "apply"
    /\ mu = Nil
    /\ IF StillCurrent(d)
       THEN /\ lastIndex' = local[d].index
            /\ local' = [local EXCEPT ![d] = [NoLocals EXCEPT !.addrs = local[d].addrs]]
            /\ Goto(d, "schedule")
       ELSE UNCHANGED lastIndex /\ Return(d, AfterDiscover(d))
    /\ UNCHANGED <<serviceName, lastAddresses, pendingAddresses, timer, timerEpoch, mu,
                   channel, stop, consul>>

NoTimer == timer' = Nil /\ timerEpoch' = FALSE

PendingAfterEqual_Kept == pendingAddresses
PendingAfterEqual == Nil

(* Lists with the same addresses are equal in whatever order Consul        *)
(* returned them.                                                          *)
areAddressesEqual(a, b) == a = b

(* Without debouncing publishAddressUpdate is called with mu locked, which *)
(* keeps the lists of different goroutines in order.                       *)
MuWhileSending_Released(d) == Nil
MuWhileSending(d) == d

(* scheduleAddressUpdate stops the timer; then there is nothing new, or a  *)
(* new timer is armed, or without debouncing the list is published at      *)
(* once, with mu locked until updateChan takes it.                         *)
Schedule(d) ==
    /\ pc[d] = "schedule"
    /\ mu = Nil
    /\ LET new == local[d].addrs IN
       \/ /\ areAddressesEqual(new, lastAddresses)
          /\ NoTimer
          /\ pendingAddresses' = PendingAfterEqual
          /\ Return(d, AfterDiscover(d))
          /\ UNCHANGED <<lastAddresses, mu>>
       \/ /\ ~areAddressesEqual(new, lastAddresses) /\ Debounced
          /\ timer' = d
          /\ timerEpoch' = (timer # Nil /\ ~timerEpoch)
          /\ pendingAddresses' = new
          /\ Return(d, AfterDiscover(d))
          /\ UNCHANGED <<lastAddresses, mu>>
       \/ /\ ~areAddressesEqual(new, lastAddresses) /\ ~Debounced
          /\ NoTimer
          /\ lastAddresses' = new
          /\ mu' = MuWhileSending(d)
          /\ Goto(d, "send")
          /\ UNCHANGED <<pendingAddresses, local>>
    /\ UNCHANGED <<serviceName, lastIndex, channel, stop, consul>>

(***************************************************************************)
(* The debounce timer's callback.                                          *)
(***************************************************************************)
TimerFires(c) ==
    /\ timer # Nil
    /\ pc[c] = "off"
    /\ NoTimer
    /\ Goto(c, "check")
    /\ UNCHANGED <<serviceName, lastIndex, lastAddresses, pendingAddresses, mu,
                   local, channel, stop, consul>>

CallbackCheck(c) ==
    /\ pc[c] = "check"
    /\ Goto(c, IF done THEN "off" ELSE "take")
    /\ UNCHANGED <<mine, mu, local, channel, stop, consul>>

PendingAfterTake_Kept == pendingAddresses
PendingAfterTake == Nil

CallbackTake(c) ==
    /\ pc[c] = "take"
    /\ mu = Nil
    /\ \/ pendingAddresses = Nil /\ Goto(c, "off") /\ UNCHANGED <<mine, local>>
       \/ /\ pendingAddresses # Nil
          /\ lastAddresses' = pendingAddresses
          /\ pendingAddresses' = PendingAfterTake
          /\ local' = [local EXCEPT ![c].addrs = pendingAddresses]
          /\ Goto(c, "send")
          /\ UNCHANGED <<serviceName, lastIndex, timer, timerEpoch>>
    /\ UNCHANGED <<mu, channel, stop, consul>>

(***************************************************************************)
(* publishAddressUpdate: send on updateChan, or doneChan is closed.        *)
(***************************************************************************)
AfterSend(p) == IF p \in Callbacks THEN "off" ELSE AfterDiscover(p)

(* publishAddressUpdate returns, and so does its caller, which unlocks mu  *)
(* if it was scheduleAddressUpdate.                                        *)
Published(p) ==
    /\ Return(p, AfterSend(p))
    /\ mu' = IF mu = p THEN Nil ELSE mu

HasRoom == Len(updateChan) < Cap

Send(p) ==
    /\ pc[p] = "send"
    /\ ~closed
    /\ HasRoom
    /\ updateChan' = Append(updateChan, local[p].addrs)
    /\ Published(p)
    /\ UNCHANGED <<mine, sendq, closed, done, panicked, received, stop, consul>>

Park(p) ==
    /\ pc[p] = "send"
    /\ ~done
    /\ ~HasRoom
    /\ sendq' = Append(sendq, p)
    /\ Goto(p, "parked")
    /\ UNCHANGED <<mine, mu, local, updateChan, closed, done, panicked, received, stop, consul>>

MayAbort == done

SendAborted(p) ==
    /\ pc[p] = "send"
    /\ MayAbort
    /\ Published(p)
    /\ UNCHANGED <<mine, channel, stop, consul>>

(* The select may choose the send although the channel is closed.          *)
SendPanics(p) ==
    /\ pc[p] = "send"
    /\ closed
    /\ panicked' = TRUE
    /\ UNCHANGED <<mine, mu, pc, local, updateChan, sendq, closed, done, received, stop, consul>>

(* The consumer receives; the first parked sender takes the free place.    *)
Receive ==
    /\ updateChan # <<>>
    /\ received' = Head(updateChan)
    /\ \/ /\ sendq = <<>>
          /\ updateChan' = Tail(updateChan)
          /\ UNCHANGED <<pc, local, mu, sendq>>
       \/ /\ sendq # <<>>
          /\ updateChan' = Append(Tail(updateChan), local[Head(sendq)].addrs)
          /\ sendq' = Tail(sendq)
          /\ Published(Head(sendq))
    /\ UNCHANGED <<mine, closed, done, panicked, stop, consul>>

(* Once the buffer of the closed channel is empty, a receive returns nil.  *)
ReceiveNil ==
    /\ closed /\ updateChan = <<>>
    /\ received' = {}
    /\ UNCHANGED <<mine, mu, pc, local, updateChan, sendq, closed, done, panicked, stop, consul>>

(***************************************************************************)
(* watchServices and watchKV.                                              *)
(***************************************************************************)
NextTurn(d) == IF done THEN "exited" ELSE IF d = "svc" THEN "read" ELSE "kv_query"

LoopCheck(d) ==
    /\ pc[d] = "loop"
    /\ Goto(d, NextTurn(d))
    /\ UNCHANGED <<mine, mu, local, channel, stop, consul>>

(* time.After, or doneChan.                                                *)
Backoff(d) ==
    /\ pc[d] = "backoff"
    /\ \/ Goto(d, "loop")
       \/ done /\ Goto(d, "exited")
    /\ UNCHANGED <<mine, mu, local, channel, stop, consul>>

(* Answered at once, on a change, or when WaitTime is over: whatever       *)
(* lastKVIndex is, the answer holds the current value.                     *)
KVAnswer ==
    /\ pc["kv"] = "kv_query"
    /\ local' = [local EXCEPT !["kv"].name = kv]
    /\ Goto("kv", "kv_apply")
    /\ UNCHANGED <<mine, mu, channel, stop, consul>>

KVError ==
    /\ pc["kv"] = "kv_query"
    /\ Goto("kv", "backoff")
    /\ UNCHANGED <<mine, mu, local, channel, stop, consul>>

(* A missing, empty or unparsable value is skipped.                        *)
KVApply ==
    /\ pc["kv"] = "kv_apply"
    /\ mu = Nil
    /\ IF local["kv"].name \notin {Nil, serviceName}
       THEN SetServiceName(local["kv"].name) /\ Return("kv", "read")
       ELSE UNCHANGED mine /\ Return("kv", "loop")
    /\ UNCHANGED <<mu, channel, stop, consul>>

(***************************************************************************)
(* Resolver.Stop.                                                          *)
(***************************************************************************)
Parked == {p \in Senders : pc[p] = "parked"}

StopCall ==
    /\ stop = "no" /\ MayStop
    /\ stop' = "called"
    /\ UNCHANGED <<mine, mu, pc, local, channel, consul>>

(* Stop closes doneChan before it waits for mu: the holder of mu may wait  *)
(* for doneChan.                                                           *)
StopMayClose_LocksFirst == mu = Nil
StopMayClose == TRUE

(* close(doneChan) wakes every parked sender through its done case.        *)
StopClose ==
    /\ stop = "called"
    /\ StopMayClose
    /\ stop' = "closing"
    /\ done' = TRUE
    /\ sendq' = <<>>
    /\ pc' = [p \in Senders |-> IF p \in Parked THEN AfterSend(p) ELSE pc[p]]
    /\ local' = [p \in Senders |-> IF p \in Parked THEN NoLocals ELSE local[p]]
    /\ mu' = IF mu \in Parked THEN Nil ELSE mu
    /\ UNCHANGED <<mine, updateChan, closed, panicked, received, consul>>

StopTimer ==
    /\ stop = "closing"
    /\ mu = Nil
    /\ stop' = "returned"
    /\ NoTimer
    /\ UNCHANGED <<serviceName, lastIndex, lastAddresses, pendingAddresses, mu, pc,
                   local, channel, consul>>

(***************************************************************************)
(* Consul (external): services and the KV key change.                      *)
(***************************************************************************)
CatalogChanges(s) ==
    /\ Len(log) < MaxLog
    /\ log' = Append(log, s)
    /\ \E l \in Lists : catalog' = [catalog EXCEPT ![s] = l]
    /\ UNCHANGED <<mine, mu, pc, local, channel, stop, kv, kvIndex>>

KVChanges ==
    /\ kvIndex < MaxKV
    /\ kvIndex' = kvIndex + 1
    /\ kv' \in Services \cup {Nil}
    /\ UNCHANGED <<mine, mu, pc, local, channel, stop, catalog, log>>

DiscoverNext(d) ==
    \/ DiscoverRead(d) \/ DiscoverAnswer(d) \/ DiscoverError(d)
    \/ DiscoverApply(d) \/ Schedule(d)

SendNext(p) == Send(p) \/ Park(p) \/ SendAborted(p) \/ SendPanics(p)

CallbackNext(c) == TimerFires(c) \/ CallbackCheck(c) \/ CallbackTake(c)

LoopNext(d) == LoopCheck(d) \/ Backoff(d)

MainNext == StartReadKV \/ StartSpawn \/ StartClose

KVNext == KVAnswer \/ KVError \/ KVApply

StopNext == StopCall \/ StopClose \/ StopTimer

Next ==
    /\ ~panicked
    /\ \/ MainNext
       \/ \E d \in Discoverers : DiscoverNext(d)
       \/ \E d \in {"svc", "kv"} : LoopNext(d)
       \/ KVNext
       \/ \E p \in Senders : SendNext(p)
       \/ \E c \in Callbacks : CallbackNext(c)
       \/ Receive \/ ReceiveNil
       \/ StopNext
       \/ \E s \in Services : CatalogChanges(s)
       \/ KVChanges

(* Every goroutine that can go on does (a query is bounded by WaitTime and *)
(* mu is only kept for a finite number of publications), an armed timer    *)
(* that nobody stops fires and a Stop that was called goes on. Consul does *)
(* not fail every query of a loop. Nothing forces Stop to be called, nor   *)
(* Consul to change or to fail.                                            *)
Fairness ==
    /\ WF_vars(MainNext \/ DiscoverNext("main"))
    /\ WF_vars(DiscoverNext("svc") \/ LoopNext("svc"))
    /\ WF_vars(DiscoverNext("kv") \/ LoopNext("kv") \/ KVNext)
    /\ SF_vars(DiscoverAnswer("svc"))
    /\ SF_vars(KVAnswer)
    /\ \A p \in Senders : WF_vars(Send(p) \/ Park(p) \/ SendAborted(p))
    /\ \A c \in Callbacks : WF_vars(CallbackCheck(c) \/ CallbackTake(c))
    /\ \A e \in BOOLEAN :
        WF_vars(timerEpoch = e /\ \E c \in Callbacks : TimerFires(c))
    /\ WF_vars(StopClose \/ StopTimer)

Spec == Init /\ [][Next]_vars
FairSpec == Spec /\ Fairness

(* With a consumer that keeps receiving, as watchAddressUpdates does.      *)
LiveSpec == FairSpec /\ WF_vars(Receive)

(***************************************************************************)
(* Properties.                                                             *)
(***************************************************************************)

(* The wait index of the next query is never that of another service: with *)
(* such an index Consul would not report the changes it had before.        *)
WaitIndexOfService ==
    lastIndex # 0 => lastIndex <= Len(log) /\ log[lastIndex] = serviceName

(* A pending list is never forgotten: a timer or a callback that has not   *)
(* yet looked will publish it, unless the resolver is stopped.             *)
PendingHasCarrier ==
    pendingAddresses # Nil =>
        timer # Nil \/ done \/ \E c \in Callbacks : pc[c] \in {"check", "take"}

(* Once Consul stops changing, the resolver watches the service that the   *)
(* KV key names and the last list it decided to publish is that of this    *)
(* service, unless the resolver is stopped: no renaming, failed query or   *)
(* re-armed timer makes it miss the last change. Whether the consumer ends *)
(* up with this list is another matter: see ConsumerConverges.             *)
Converges ==
    <>[](\/ stop # "no"
         \/ /\ kv # Nil => serviceName = kv
            /\ serviceName # Nil => lastAddresses = catalog[serviceName])

(* The consumer ends up with the list the resolver considers published,    *)
(* unless the resolver is stopped. A debouncing resolver does not          *)
(* guarantee this: callbacks send without holding mu, and if two of them   *)
(* overlap (Callbacks has two elements) the older list may come last.      *)
ConsumerConverges == <>[](stop # "no" \/ received = lastAddresses)

(* So does a consumer that keeps receiving from a resolver without         *)
(* debouncing, whichever goroutines publish: mu keeps them in order.       *)
ConsumerFollows == WF_vars(Receive) => ConsumerConverges

(* The lists under way to the consumer: with a sender, or in the buffer.   *)
Publishing(l) == {p \in Senders : pc[p] \in {"send", "parked"} /\ local[p].addrs = l}
Buffered(l) == {i \in DOMAIN updateChan : updateChan[i] = l}
Inflight == [l \in Lists |-> Cardinality(Publishing(l)) + Cardinality(Buffered(l))]

(* The resolver is an AddressFeed: what it publishes differs from what it  *)
(* published before, and each list it publishes, from whichever of its     *)
(* goroutines, is received once unless the resolver is stopped.            *)
Feed == INSTANCE AddressFeed WITH
    Empty <- {}, current <- lastAddresses, inflight <- Inflight,
    stopped <- done, ended <- closed
ImplementsFeed == Feed!Spec

(* Stop ends the resolver: the loops exit and updateChan is closed, also   *)
(* when nobody receives from updateChan any more.                          *)
StopTerminates == stop = "called" ~> closed \/ panicked

(* No goroutine sends on the closed updateChan.                            *)
NoSendOnClosed == ~panicked

(***************************************************************************)
(* What the code does not guarantee: each of these has a counterexample    *)
(* (the README says which constants show it).                              *)
(***************************************************************************)

(* Nothing is published after Stop has returned.                           *)
NoUpdateAfterStop == [][stop = "returned" => Len(updateChan') <= Len(updateChan)]_vars
==========================================================================
