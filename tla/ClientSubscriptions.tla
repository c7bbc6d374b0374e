----------------------- MODULE ClientSubscriptions -----------------------
(***************************************************************************)
(* The subscriptions of a Client with several connections: what the client *)
(* remembers (Client.subscriptions), which shared subscriptions it knows   *)
(* each connection to have (internalState.subsCalled), and what the broker *)
(* really holds for each connection.                                       *)
(*                                                                         *)
(* Application goroutines (Callers) subscribe and unsubscribe; a           *)
(* SubscribeMultiple of both kinds of topics executes its shared topics and*)
(* its normal ones side by side, the latter in the goroutine Half(p). The  *)
(* watcher replaces the connections after an address update and resumes the*)
(* remembered subscriptions in one goroutine per topic, which is named by  *)
(* the topic itself; paho calls connectionLostHandler in goroutines of its *)
(* own. Each execution is one goroutine per connection in MapConcurrent.   *)
(*                                                                         *)
(* Replaced connections are out of reach of all calls (ClientLifecycle), so*)
(* Conns are the installed ones, and replacing them forgets their state.   *)
(***************************************************************************)
EXTENDS Naturals

CONSTANTS
    Shared,        \* topics for which sharedSubscriptionPredicate holds
    Normal,        \* other topics
    Conns,         \* the installed connections
    Lossy,         \* bound: those that may be lost
    Callers,       \* application goroutines
    None,          \* nobody
    MaxCalls,      \* bound: calls by the application
    Failures       \* of a request: "none", "clean" (the broker did not get
                   \* it) or "lost" (it may have, the answer is lost)

Topics == Shared \cup Normal
Half(p) == <<p>>
Halves == {Half(p) : p \in Callers}
Calls == Callers \cup Halves \cup Topics

ASSUME SubscriptionsAssumption ==
    /\ Shared \cap Normal = {}
    /\ Callers \cap Topics = {} /\ Halves \cap (Callers \cup Topics) = {}
    /\ None \notin Calls
    /\ Conns # {} /\ Lossy \subseteq Conns
    /\ MaxCalls \in Nat
    /\ Failures \in {"none", "clean", "lost"}

VARIABLES
    subscriptions,  \* Client.subscriptions: the remembered topics
    subsCalled,     \* internalState.subsCalled of each connection
    held,           \* broker: the subscriptions of each connection
    smu,            \* internalState.mu of each connection
    handler,        \* connectionLostHandler of each connection
    pc,             \* where each call is
    call,           \* its operation and topics
    task,           \* its goroutine for each connection
    failed,         \* some task of it failed
    wpc,            \* where the watcher is
    calls,          \* how many calls the application has begun
    undisturbed,    \* history: calls that no call has worked against
                    \* since they began
    resumed,        \* history: topics the last update has resumed and that
                    \* nobody has unsubscribed since
    forgot,         \* history: connections whose session the broker dropped
    doubt           \* history: topics of each connection about which the last
                    \* answer was the failure of an Unsubscribe, which the
                    \* broker may nevertheless have carried out

callVars == <<pc, call, task, failed, calls>>
histVars == <<undisturbed, resumed, forgot, doubt>>
watchVars == <<wpc, histVars>>
stateVars == <<subsCalled, held, smu, handler>>
vars == <<subscriptions, stateVars, callVars, watchVars>>

NoCall == [op |-> "none", topics |-> {}]
NoTask == [c \in Conns |-> "none"]

(* The type invariant. subsCalled "currently holds only shared             *)
(* subscriptions info".                                                    *)
TypeOK ==
    /\ subscriptions \subseteq Topics
    /\ subsCalled \in [Conns -> SUBSET Shared]
    /\ held \in [Conns -> SUBSET Topics]
    /\ smu \in [Conns -> Calls \cup {None}]
    /\ handler \in [Conns -> {"none", "pending", "in"}]
    /\ pc \in [Calls -> {"idle", "rlock", "in", "done", "remember"}]
    /\ call \in [Calls -> [op : {"sub", "multi", "unsub"}, topics : SUBSET Topics]
                         \cup {NoCall}]
    /\ task \in [Calls -> [Conns -> {"none", "todo", "sent", "acked", "failed"}]]
    /\ failed \in [Calls -> BOOLEAN]
    /\ wpc \in {"watch", "locking", "resume", "resuming"}
    /\ calls \in 0..MaxCalls
    /\ undisturbed \subseteq Calls /\ resumed \subseteq Topics /\ forgot \subseteq Conns
    /\ doubt \in [Conns -> SUBSET Topics]

Init ==
    /\ subscriptions = {}
    /\ subsCalled = [c \in Conns |-> {}]
    /\ held = [c \in Conns |-> {}]
    /\ smu = [c \in Conns |-> None]
    /\ handler = [c \in Conns |-> "none"]
    /\ pc = [p \in Calls |-> "idle"]
    /\ call = [p \in Calls |-> NoCall]
    /\ task = [p \in Calls |-> NoTask]
    /\ failed = [p \in Calls |-> FALSE]
    /\ wpc = "watch" /\ calls = 0 /\ undisturbed = {} /\ resumed = {} /\ forgot = {}
    /\ doubt = [c \in Conns |-> {}]

Goto(p, l) == pc' = [pc EXCEPT ![p] = l]

(* clientMu, as in ClientLifecycle: a waiting writer admits no reader.     *)
Locked == wpc = "locking"
Readers == {p \in Calls : pc[p] = "in"} \cup {c \in Conns : handler[c] = "in"}

(***************************************************************************)
(* Subscribe, SubscribeMultiple and Unsubscribe.                           *)
(***************************************************************************)
WorksAgainst(q, op, T) == (call[q].op = "unsub") # (op = "unsub") /\ call[q].topics \cap T # {}

(* Subscribe takes one topic, the others any number. filterSubs splits the *)
(* topics of SubscribeMultiple.                                            *)
TopicSets(op) == IF op = "sub" THEN {{t} : t \in Topics} ELSE SUBSET Topics \ {{}}
Splits(op, T) == op = "multi" /\ T \cap Shared # {} /\ T \cap Normal # {}

Begin(p, op, T) ==
    /\ pc[p] = "idle"
    /\ calls < MaxCalls
    /\ calls' = calls + 1
    /\ \/ /\ Splits(op, T)
          /\ pc' = [pc EXCEPT ![p] = "rlock", ![Half(p)] = "rlock"]
          /\ call' = [call EXCEPT ![p] = [op |-> op, topics |-> T \cap Shared],
                                  ![Half(p)] = [op |-> op, topics |-> T \cap Normal]]
       \/ /\ ~Splits(op, T)
          /\ Goto(p, "rlock")
          /\ call' = [call EXCEPT ![p] = [op |-> op, topics |-> T]]
    /\ resumed' = IF op = "unsub" THEN resumed \ T ELSE resumed
    /\ undisturbed' = {q \in undisturbed : ~WorksAgainst(q, op, T)}
                      \cup IF \E q \in Calls : WorksAgainst(q, op, T) THEN {} ELSE {p}
    /\ UNCHANGED <<subscriptions, stateVars, task, failed, wpc, forgot, doubt>>

(* execOneRandom is for normal topics only; subscribeOnlyOnce, execAll and *)
(* removeSubsFromState go to every connection.                             *)
TargetSets_OneForAll(p) == {{c} : c \in Conns}
TargetSets(p) ==
    IF call[p].op # "unsub" /\ call[p].topics \subseteq Normal THEN {{c} : c \in Conns} ELSE {Conns}

(* subscribeOnlyOnce and removeSubsFromState use the internalState, with   *)
(* its mu locked; SubscribeMultiple does not.                              *)
UsesState(p) == call[p].op = "unsub" \/ (call[p].op = "sub" /\ call[p].topics \subseteq Shared)

ExecBegin(p) ==
    /\ pc[p] = "rlock"
    /\ ~Locked
    /\ \E T \in TargetSets(p) :
        task' = [task EXCEPT ![p] = [c \in Conns |-> IF c \in T THEN "todo" ELSE "none"]]
    /\ Goto(p, "in")
    /\ UNCHANGED <<subscriptions, stateVars, call, failed, calls, watchVars>>

KnownToHold_AlsoGone(p, c) ==
    (call[p].op = "unsub") # (call[p].topics \subseteq subsCalled[c])
KnownToHold(p, c) == call[p].op = "sub" /\ call[p].topics \subseteq subsCalled[c]

(* subsCalled.Has(topic): nothing is sent.                                 *)
TaskSkip(p, c) ==
    /\ task[p][c] = "todo"
    /\ UsesState(p) /\ smu[c] = None
    /\ KnownToHold(p, c)
    /\ task' = [task EXCEPT ![p][c] = "none"]
    /\ UNCHANGED <<subscriptions, stateVars, pc, call, failed, calls, watchVars>>

TaskSend(p, c) ==
    /\ task[p][c] = "todo"
    /\ UsesState(p) => smu[c] = None /\ ~KnownToHold(p, c)
    /\ smu' = IF UsesState(p) THEN [smu EXCEPT ![c] = p] ELSE smu
    /\ task' = [task EXCEPT ![p][c] = "sent"]
    /\ UNCHANGED <<subscriptions, subsCalled, held, handler, pc, call, failed, calls, watchVars>>

(* What becomes of a set of topics when an operation is applied to it.     *)
Changed(op, T, S) == IF op = "unsub" THEN S \ T ELSE S \cup T
Applied(p, S) == Changed(call[p].op, call[p].topics, S)

(* The broker does what it is asked and the token completes.               *)
TaskAck(p, c) ==
    /\ task[p][c] = "sent"
    /\ held' = [held EXCEPT ![c] = Applied(p, @)]
    /\ task' = [task EXCEPT ![p][c] = "acked"]
    /\ doubt' = [doubt EXCEPT ![c] = @ \ call[p].topics]
    /\ UNCHANGED <<subscriptions, subsCalled, smu, handler, pc, call, failed, calls, wpc,
                   undisturbed, resumed, forgot>>

(* The token fails or handleToken gives up waiting.                        *)
TaskFail(p, c) ==
    /\ task[p][c] = "sent"
    /\ \/ Failures # "none" /\ held' = held
       \/ Failures = "lost" /\ held' = [held EXCEPT ![c] = Applied(p, @)]
    /\ task' = [task EXCEPT ![p][c] = "failed"]
    /\ doubt' = IF call[p].op = "unsub"
                THEN [doubt EXCEPT ![c] = @ \cup call[p].topics] ELSE doubt
    /\ UNCHANGED <<subscriptions, subsCalled, smu, handler, pc, call, failed, calls, wpc,
                   undisturbed, resumed, forgot>>

Released_NotOnError(p, c) == IF smu[c] = p /\ task[p][c] = "acked" THEN None ELSE smu[c]
Released(p, c) == IF smu[c] = p THEN None ELSE smu[c]

TaskEnd(p, c) ==
    /\ task[p][c] \in {"acked", "failed"}
    /\ subsCalled' = IF UsesState(p) /\ task[p][c] = "acked"
                     THEN [subsCalled EXCEPT ![c] = Applied(p, @)] ELSE subsCalled
    /\ smu' = [smu EXCEPT ![c] = Released(p, c)]
    /\ failed' = [failed EXCEPT ![p] = @ \/ task[p][c] = "failed"]
    /\ task' = [task EXCEPT ![p][c] = "none"]
    /\ UNCHANGED <<subscriptions, held, handler, pc, call, calls, watchVars>>

(* execute returns.                                                        *)
ExecEnd(p) ==
    /\ pc[p] = "in"
    /\ task[p] = NoTask
    /\ Goto(p, IF p \in Topics THEN "idle" ELSE "done")
    /\ UNCHANGED <<subscriptions, stateVars, call, task, failed, calls, watchVars>>

(* A call of the application has done all it has to do at the broker. If   *)
(* it succeeded it goes on to update Client.subscriptions.                 *)
Succeeded(p) == ~failed[p] /\ ~failed[Half(p)]

Returned(p) ==
    /\ call' = [call EXCEPT ![p] = NoCall, ![Half(p)] = NoCall]
    /\ failed' = [failed EXCEPT ![p] = FALSE, ![Half(p)] = FALSE]
    /\ undisturbed' = undisturbed \ {p}

Join(p) ==
    /\ pc[p] = "done"
    /\ pc[Half(p)] \in {"idle", "done"}
    /\ \/ /\ Succeeded(p)
          /\ pc' = [pc EXCEPT ![p] = "remember", ![Half(p)] = "idle"]
          /\ UNCHANGED <<call, failed, undisturbed>>
       \/ /\ ~Succeeded(p)
          /\ pc' = [pc EXCEPT ![p] = "idle", ![Half(p)] = "idle"]
          /\ Returned(p)
    /\ UNCHANGED <<subscriptions, stateVars, task, calls, wpc, resumed, forgot, doubt>>

(* subMu is read-locked while the watcher resumes.                         *)
Remember(p) ==
    /\ pc[p] = "remember"
    /\ wpc # "resuming"
    /\ subscriptions' = Changed(call[p].op, call[p].topics \cup call[Half(p)].topics,
                                subscriptions)
    /\ Goto(p, "idle")
    /\ Returned(p)
    /\ UNCHANGED <<stateVars, task, calls, wpc, resumed, forgot, doubt>>

(***************************************************************************)
(* attemptMultiConnections.                                                *)
(***************************************************************************)
UpdateReceived ==
    /\ wpc = "watch"
    /\ wpc' = "locking"
    /\ resumed' = {}
    /\ UNCHANGED <<subscriptions, stateVars, callVars, undisturbed, forgot, doubt>>

(* The internalStates reloadClients makes for the new connections.         *)
NewSubsCalled_Copied == subsCalled
NewSubsCalled == [c \in Conns |-> {}]

(* New connections, with new client IDs, hence new sessions; the handlers  *)
(* of old connections no longer find theirs.                               *)
Reload ==
    /\ wpc = "locking"
    /\ Readers = {}
    /\ subsCalled' = NewSubsCalled
    /\ held' = [c \in Conns |-> {}]
    /\ handler' = [c \in Conns |-> "none"]
    /\ wpc' = "resume"
    /\ forgot' = {} /\ doubt' = [c \in Conns |-> {}]
    /\ UNCHANGED <<subscriptions, smu, callVars, undisturbed, resumed>>

(* No address, or no new connection came up: the old ones stay.            *)
ReloadNothing ==
    /\ wpc = "locking"
    /\ Readers = {}
    /\ wpc' = "resume"
    /\ UNCHANGED <<subscriptions, stateVars, callVars, histVars>>

ResumeNothing ==
    /\ wpc = "resume"
    /\ subscriptions = {}
    /\ wpc' = "watch"
    /\ UNCHANGED <<subscriptions, stateVars, callVars, histVars>>

ResumeBegin ==
    /\ wpc = "resume"
    /\ subscriptions # {}
    /\ pc' = [p \in Calls |-> IF p \in subscriptions THEN "rlock" ELSE pc[p]]
    /\ call' = [p \in Calls |-> IF p \in subscriptions
                    THEN [op |-> "sub", topics |-> {p}] ELSE call[p]]
    /\ wpc' = "resuming"
    /\ undisturbed' = {q \in undisturbed : ~WorksAgainst(q, "sub", subscriptions)}
          \cup {t \in subscriptions : \A q \in Callers : ~WorksAgainst(q, "sub", {t})}
    /\ UNCHANGED <<subscriptions, stateVars, task, failed, calls, resumed, forgot, doubt>>

ResumeEnd ==
    /\ wpc = "resuming"
    /\ \A t \in Topics : pc[t] = "idle"
    /\ wpc' = "watch"
    /\ resumed' = {t \in undisturbed \cap Topics : ~failed[t]}
    /\ undisturbed' = undisturbed \ Topics
    /\ failed' = [p \in Calls |-> p \notin Topics /\ failed[p]]
    /\ call' = [p \in Calls |-> IF p \in Topics THEN NoCall ELSE call[p]]
    /\ UNCHANGED <<subscriptions, stateVars, pc, task, calls, forgot, doubt>>

(***************************************************************************)
(* connectionLostHandler and removeStoredSubsCalled. Bound: one handler    *)
(* per connection at a time. The broker keeps the session, or drops it: it *)
(* always does after WithCleanSession(true).                               *)
(***************************************************************************)
ConnectionLost(c) ==
    /\ c \in Lossy
    /\ handler[c] = "none"
    /\ handler' = [handler EXCEPT ![c] = "pending"]
    /\ \/ held' = [held EXCEPT ![c] = {}] /\ forgot' = forgot \cup {c}
       \/ UNCHANGED <<held, forgot>>
    /\ UNCHANGED <<subscriptions, subsCalled, smu, callVars, wpc, undisturbed, resumed, doubt>>

HandlerBegin(c) ==
    /\ handler[c] = "pending"
    /\ ~Locked
    /\ handler' = [handler EXCEPT ![c] = "in"]
    /\ UNCHANGED <<subscriptions, subsCalled, held, smu, callVars, watchVars>>

SubsAfterLoss_Kept(c) == subsCalled[c]
SubsAfterLoss(c) == {}

HandlerEnd(c) ==
    /\ handler[c] = "in"
    /\ smu[c] = None
    /\ subsCalled' = [subsCalled EXCEPT ![c] = SubsAfterLoss(c)]
    /\ handler' = [handler EXCEPT ![c] = "none"]
    /\ UNCHANGED <<subscriptions, held, smu, callVars, watchVars>>

CallNext(p) ==
    \/ ExecBegin(p) \/ ExecEnd(p)
    \/ \E c \in Conns : TaskSkip(p, c) \/ TaskSend(p, c) \/ TaskAck(p, c)
                        \/ TaskFail(p, c) \/ TaskEnd(p, c)

WatcherNext == UpdateReceived \/ Reload \/ ReloadNothing \/ ResumeNothing
               \/ ResumeBegin \/ ResumeEnd

HandlerNext(c) == ConnectionLost(c) \/ HandlerBegin(c) \/ HandlerEnd(c)

Next ==
    \/ \E p \in Callers, op \in {"sub", "multi", "unsub"} : \E T \in TopicSets(op) : Begin(p, op, T)
    \/ \E p \in Callers : Join(p) \/ Remember(p)
    \/ \E p \in Calls : CallNext(p)
    \/ WatcherNext
    \/ \E c \in Conns : HandlerNext(c)

(* Tokens complete or time out, goroutines that can go on do, and neither  *)
(* lock starves a goroutine that waits for it.                             *)
Fairness ==
    /\ \A p \in Calls :
        /\ SF_vars(ExecBegin(p)) /\ WF_vars(ExecEnd(p))
        /\ \A c \in Conns :
            /\ SF_vars(TaskSkip(p, c) \/ TaskSend(p, c))
            /\ WF_vars(TaskAck(p, c) \/ TaskFail(p, c)) /\ WF_vars(TaskEnd(p, c))
    /\ \A p \in Callers : WF_vars(Join(p)) /\ SF_vars(Remember(p))
    /\ WF_vars(Reload \/ ReloadNothing \/ ResumeNothing \/ ResumeBegin \/ ResumeEnd)
    /\ \A c \in Conns : SF_vars(HandlerBegin(c)) /\ SF_vars(HandlerEnd(c))

Spec == Init /\ [][Next]_vars
FairSpec == Spec /\ Fairness

(***************************************************************************)
(* Properties.                                                             *)
(***************************************************************************)

(* What subscribeOnlyOnce would skip, the broker really holds, unless the  *)
(* handler of a lost connection has yet to clear subsCalled, or an         *)
(* Unsubscribe is about to, or the last answer about the topic was the     *)
(* failure of an Unsubscribe that the broker may have carried out.         *)
SkippedIsHeld ==
    \A c \in Conns : \A t \in subsCalled[c] \ doubt[c] :
        \/ t \in held[c]
        \/ handler[c] # "none"
        \/ \E p \in Callers : /\ call[p].op = "unsub" /\ t \in call[p].topics
                             /\ task[p][c] = "acked"

(* execute is about to return to p without an error.                       *)
AboutToSucceed(p) == pc[p] = "in" /\ task[p] = NoTask /\ ~failed[p]

(* A Subscribe to shared topics that is about to succeed has reached all   *)
(* connections, including those it skipped, if nobody unsubscribed a topic *)
(* at the same time; except those whose session the broker dropped, and    *)
(* those on which an earlier Unsubscribe of the topic failed, which leaves *)
(* the topic in subsCalled even if the broker carried it out.              *)
SubscribeReaches ==
    \A p \in undisturbed \cap Callers :
        (call[p].op # "unsub" /\ AboutToSucceed(p)) =>
            \A t \in call[p].topics \cap Shared, c \in Conns \ forgot :
                t \in held[c] \cup doubt[c]

(* An Unsubscribe that is about to succeed has removed its topics from all *)
(* connections, shared or normal and however they were subscribed, if      *)
(* nobody subscribed or resumed one of them at the same time.              *)
UnsubscribeReaches ==
    \A p \in undisturbed \cap Callers :
        (call[p].op = "unsub" /\ AboutToSucceed(p)) =>
            \A c \in Conns : call[p].topics \cap held[c] = {}

(* Every connection has the shared subscriptions that the last update      *)
(* resumed, and some connection the normal ones, unless the broker dropped *)
(* its session or an Unsubscribe failed on it.                             *)
ResumedIsHeld ==
    wpc = "watch" =>
        /\ \A t \in resumed \cap Shared, c \in Conns \ forgot : t \in held[c] \cup doubt[c]
        /\ \A t \in resumed \cap Normal : \E c \in Conns : c \in forgot \/ t \in held[c] \cup doubt[c]

(* A call of Subscribe or Unsubscribe returns, whatever the watcher and    *)
(* the handlers of lost connections do.                                    *)
CallsReturn == \A p \in Callers : pc[p] = "rlock" ~> pc[p] = "idle"

(***************************************************************************)
(* What the code does not guarantee: each of these has a counterexample    *)
(* (the README says which constants show it).                              *)
(***************************************************************************)

(* No call, update or handler is under way.                                *)
Quiet ==
    /\ \A p \in Calls : pc[p] = "idle"
    /\ wpc = "watch"
    /\ \A c \in Conns : handler[c] = "none"

(* "The client that has the address change should resubscribe to the       *)
(* shared subscriptions": whatever the client remembers, its connections   *)
(* have, if the broker kept their sessions.                                *)
RememberedIsHeld ==
    Quiet => \A t \in subscriptions \cap Shared, c \in Conns \ forgot : t \in held[c]

(* "Unsubscribe removes any subscription": no connection has a             *)
(* subscription that the client does not remember.                         *)
ForgottenIsGone == Quiet => \A c \in Conns : held[c] \subseteq subscriptions

(* "Normal subscription should use only one client": otherwise each        *)
(* message arrives twice.                                                  *)
NormalOnOneConn ==
    \A t \in Normal, c, d \in Conns : t \in held[c] \cap held[d] => c = d
==========================================================================
