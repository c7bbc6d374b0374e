--------------------------- MODULE ClientCalls ---------------------------
(***************************************************************************)
(* What happens to a call between the application and Client.execute: the  *)
(* chains of middlewares, and the OpenTelemetry instrumentation, which is  *)
(* one of them. A chain is built by Use...Middleware, in the setup of the  *)
(* application or, if UseWhileServing, at any time.                        *)
(*                                                                         *)
(* A composed handler is the sequence of its middlewares, outermost first; *)
(* a callback is the number of times it was instrumented. The broker, the  *)
(* connections and the locks are left to ClientSubscriptions and           *)
(* ClientLifecycle: here a base handler just succeeds or fails. Metrics    *)
(* are kept per topic, the attribute they always have.                     *)
(***************************************************************************)
EXTENDS Integers, SequencesExt

CONSTANTS
    MaxChain,         \* bound: encoders in a chain
    Callers,          \* goroutines that call the client
    Topics,           \* topics of messages and subscriptions
    Stoppers,         \* goroutines that call Stop
    MayRun,           \* the client may be stopped by the end of Run
    UseWhileServing,  \* middlewares may be added while calls are made
    AppKinds,         \* the kinds the application has a middleware of its own for
    DisabledSets,     \* the Disable...Tracing options: sets of trace paths
    None,             \* Go's nil
    MaxCalls          \* bound: calls and messages

Kinds == {"publish", "subscribe", "unsubscribe"}
Paths == Kinds \cup {"callback"}

ASSUME CallsAssumption ==
    /\ {MayRun, UseWhileServing} \subseteq BOOLEAN
    /\ AppKinds \subseteq Kinds
    /\ DisabledSets \subseteq SUBSET Paths
    /\ {MaxChain, MaxCalls} \subseteq Nat
    /\ IsFiniteSet(Callers)
    /\ None \notin [kind : Kinds, left : Nat] /\ None \notin [topic : Topics, depth : Nat]

(***************************************************************************)
(* composeOptions: QOSLevel and Retained options of one call.              *)
(***************************************************************************)
composeOptions(opts) ==
    FoldLeft(LAMBDA o, opt : [o EXCEPT ![opt[1]] = opt[2]],
             [qos |-> 0, retained |-> FALSE], opts)

(***************************************************************************)
(* chainEncoder.Encode. An encoder of the chain succeeds or fails, and may *)
(* have written something before it fails; all share one writer, which     *)
(* keeps what each of them wrote.                                          *)
(***************************************************************************)
Outcomes == {"ok", "clean", "dirty"}   \* "dirty": failed after some output

(* The encoders that were tried and left something; whether one was ok.    *)
TryEncoder_All(chain, r, i) ==
    [done |-> r.done \/ chain[i] = "ok",
     output |-> IF chain[i] = "clean" THEN r.output ELSE Append(r.output, i)]
TryEncoder(chain, r, i) ==
    IF r.done THEN r
    ELSE [done |-> chain[i] = "ok",
          output |-> IF chain[i] = "clean" THEN r.output ELSE Append(r.output, i)]

ChainResult(chain) ==
    LET tried[i \in 0..Len(chain)] ==
            IF i = 0 THEN [done |-> FALSE, output |-> <<>>]
            ELSE TryEncoder(chain, tried[i - 1], i)
    IN  tried[Len(chain)]

Chains == UNION {[1..n -> Outcomes] : n \in 1..MaxChain}

VARIABLES
    tracePaths,   \* OTel.tracePaths
    middlewares,  \* Client.pMiddlewares, sMiddlewares, uMiddlewares
    handler,      \* Client.publisher, subscriber, unsubscriber
    use,          \* the Use...Middleware under way: [kind, left], or None
    serving,      \* the setup is over
    call,         \* what each caller is doing
    count,        \* calls so far, up to MaxCalls
    attempts, failures, latencies,  \* the metrics of each path and topic
    spans,        \* spans started and not ended
    returned,     \* history: calls of each kind that named a topic and returned
    stored,       \* the entry of each topic in Client.subscriptions, or None
    broker,       \* the subscription to each topic at the broker, or None
    delivery,     \* the callback that handles a message, or None
    stopping,     \* where each stopper is
    registration  \* OTel.infoHandlerRegistration is set

setupVars == <<tracePaths, middlewares, handler, use, serving>>
metricVars == <<attempts, failures, latencies, spans>>
subVars == <<stored, broker>>
stopVars == <<stopping, registration>>
vars == <<setupVars, call, count, metricVars, returned, subVars, delivery, stopVars>>

(* No call. The fields of one: its kind; where it is (at); the middlewares *)
(* still to be entered (down) and those entered (up); its topics, and      *)
(* whether it is a SubscribeMultiple (multi); its opts and the depth of    *)
(* its callback, which middlewares change; whether it was ok; whether it   *)
(* is resumed; and, as history, the options the application gave (asked)   *)
(* and the middlewares it is to pass (due); and what publishHandler got    *)
(* from which chain of encoders.                                           *)
Idle == [kind |-> None, at |-> "idle"]
EmptyResult == [done |-> FALSE, output |-> <<>>]

(* New: every path is traced but for those that an option disables.        *)
Init ==
    /\ tracePaths \in {Paths \ d : d \in DisabledSets}
    /\ middlewares = [k \in Kinds |-> <<>>]
    /\ handler = [k \in Kinds |-> <<>>]
    /\ use = None /\ serving = FALSE
    /\ call = [p \in Callers |-> Idle] /\ count = 0
    /\ attempts = [k \in Paths |-> [t \in Topics |-> 0]]
    /\ failures = [k \in Paths |-> [t \in Topics |-> 0]]
    /\ latencies = [k \in Paths |-> [t \in Topics |-> 0]]
    /\ spans = 0
    /\ returned = [k \in Paths |-> [t \in Topics |-> 0]]
    /\ stored = [t \in Topics |-> None] /\ broker = [t \in Topics |-> None]
    /\ delivery = None
    /\ stopping = [s \in Stoppers |-> "idle"]
    /\ registration = TRUE

(***************************************************************************)
(* UsePublisherMiddleware and its likes: append, start from the base       *)
(* handler again, and wrap it from the last middleware to the first. The   *)
(* assignments are not guarded by any lock.                                *)
(***************************************************************************)
UseAppend(k, m) ==
    /\ use = None
    /\ ~serving \/ UseWhileServing
    /\ k \in IF m = "otel" THEN tracePaths ELSE AppKinds   \* ApplyMiddlewares
    /\ \A i \in DOMAIN middlewares[k] : middlewares[k][i] # m
    /\ middlewares' = [middlewares EXCEPT ![k] = Append(@, m)]
    /\ handler' = [handler EXCEPT ![k] = <<>>]
    /\ use' = [kind |-> k, left |-> Len(middlewares'[k])]
    /\ UNCHANGED <<tracePaths, serving, call, count, metricVars, returned,
                   subVars, delivery, stopVars>>

(* The index of the middleware to wrap next, when so many are left.        *)
NextToWrap_First(k, left) == Len(middlewares[k]) - left + 1
NextToWrap(k, left) == left

UseWrap ==
    /\ use # None
    /\ handler' = [handler EXCEPT ![use.kind] =
            <<middlewares[use.kind][NextToWrap(use.kind, use.left)]>> \o @]
    /\ use' = IF use.left = 1 THEN None ELSE [use EXCEPT !.left = @ - 1]
    /\ UNCHANGED <<tracePaths, middlewares, serving, call, count, metricVars,
                   returned, subVars, delivery, stopVars>>

(* The setup ends with everything instrumented that is to be.              *)
Instrumented(k) == \E i \in DOMAIN middlewares[k] : middlewares[k][i] = "otel"

Serve ==
    /\ ~serving /\ use = None
    /\ \A k \in Kinds : k \in tracePaths => Instrumented(k)
    /\ serving' = TRUE
    /\ UNCHANGED <<tracePaths, middlewares, handler, use, call, count,
                   metricVars, returned, subVars, delivery, stopVars>>

(***************************************************************************)
(* A call through its handler.                                             *)
(***************************************************************************)
QoS1 == <<<<"qos", 1>>>>

Began(p, k, T, multi, opts, asked, depth, resumes) ==
    /\ serving /\ count < MaxCalls
    /\ call[p] = Idle
    /\ count' = count + 1
    /\ call' = [call EXCEPT ![p] =
            [kind |-> k, at |-> "down", down |-> handler[k], up |-> <<>>, topics |-> T,
             multi |-> multi, opts |-> opts, depth |-> depth, ok |-> TRUE, asked |-> asked,
             resumed |-> resumes, due |-> middlewares[k], chain |-> <<>>,
             encoded |-> EmptyResult]]
    /\ UNCHANGED <<setupVars, metricVars, returned, subVars, delivery, stopVars>>

(* Client.Publish and Subscribe, SubscribeMultiple and Unsubscribe; of the *)
(* options only a QoS other than the default is of interest.               *)
Begin(p) ==
    \/ \E k \in {"publish", "subscribe"}, t \in Topics :
        Began(p, k, {t}, FALSE, QoS1, QoS1, 0, FALSE)
    \/ \E T \in SUBSET Topics \ {{}} :
        \/ Began(p, "subscribe", T, TRUE, QoS1, QoS1, 0, FALSE)
        \/ Began(p, "unsubscribe", T, FALSE, <<>>, <<>>, 0, FALSE)

(* resumeSubscriptions sends a stored callback through the subscriber.     *)
Resume(p) ==
    \E t \in Topics :
        /\ stored[t] # None
        /\ Began(p, "subscribe", {t}, FALSE, stored[t].opts, stored[t].asked, stored[t].depth,
                 TRUE)

(* instrumentCallback.                                                     *)
CallbackDepth(depth) == IF "callback" \in tracePaths THEN depth + 1 ELSE depth

(* A middleware calls the next one. That of OTel starts a span. Both its   *)
(* subscribeHandler and its subscribeMultipleHandler instrument the        *)
(* callback; the former passes no options on.                              *)
Enter(p) ==
    /\ call[p].at = "down"
    /\ call[p].down # <<>>
    /\ LET m == Head(call[p].down)
           instruments == m = "otel" /\ call[p].kind = "subscribe" IN
        /\ call' = [call EXCEPT
                ![p].down = Tail(@), ![p].up = Append(@, m),
                ![p].opts = IF instruments /\ ~call[p].multi THEN <<>> ELSE @,
                ![p].depth = IF instruments THEN CallbackDepth(@) ELSE @]
        /\ spans' = IF m = "otel" THEN spans + 1 ELSE spans
    /\ UNCHANGED <<setupVars, count, attempts, failures, latencies, returned, subVars,
                   delivery, stopVars>>

(* publishHandler encodes the message first.                               *)
Encode(p) ==
    /\ call[p].at = "down" /\ call[p].down = <<>>
    /\ call[p].kind = "publish"
    /\ \E chain \in Chains, sent \in BOOLEAN :
        LET r == ChainResult(chain) IN
        call' = [call EXCEPT ![p].at = "up", ![p].ok = r.done /\ sent,
                             ![p].chain = chain, ![p].encoded = r]
    /\ UNCHANGED <<setupVars, count, metricVars, returned, subVars, delivery, stopVars>>

(* The base handler: what it asks of the broker succeeds or fails. A       *)
(* SubscribeMultiple is two executions, for its shared and its normal      *)
(* topics, of which one may fail alone.                                    *)
Reaches(p) == IF call[p].multi THEN SUBSET call[p].topics ELSE {{}, call[p].topics}

Base(p) ==
    /\ call[p].at = "down" /\ call[p].down = <<>>
    /\ call[p].kind # "publish"
    /\ \E T \in Reaches(p) :
        /\ call' = [call EXCEPT ![p].at = "up", ![p].ok = (T = call[p].topics)]
        /\ broker' = [t \in Topics |->
            IF t \notin T THEN broker[t]
            ELSE IF call[p].kind = "unsubscribe" THEN None
            ELSE [qos |-> composeOptions(call[p].opts).qos,
                  asked |-> composeOptions(call[p].asked).qos,
                  multi |-> call[p].multi, depth |-> call[p].depth]]
    /\ UNCHANGED <<setupVars, count, metricVars, returned, stored, delivery, stopVars>>

(* A middleware of the application returns what it got.                    *)
Leave(p) ==
    /\ call[p].at = "up"
    /\ call[p].up # <<>> /\ Last(call[p].up) # "otel"
    /\ call' = [call EXCEPT ![p].up = Front(@)]
    /\ UNCHANGED <<setupVars, count, metricVars, returned, subVars, delivery, stopVars>>

Failed(p) == IF call[p].ok THEN 0 ELSE 1

(* metric m of path k goes up by n for each of the topics T.               *)
Recorded(m, k, T, n) ==
    [m EXCEPT ![k] = [t \in Topics |-> IF t \in T THEN m[k][t] + n ELSE m[k][t]]]

(* The topics a call is counted and timed for, each on its own: those of   *)
(* unnestMetricAttrs. Topics are independent of each other, so a loop over *)
(* them is one step.                                                       *)
MetricTopics_One(p) == {CHOOSE t \in call[p].topics : TRUE}
MetricTopics(p) == call[p].topics

(* The instrumentation counts the attempt before the failure; only that of *)
(* Publish does it the other way round.                                    *)
FailureFirst_Always(k) == TRUE
FailureFirst(k) == k = "publish"

CountFirst(p) ==
    /\ call[p].at = "up"
    /\ call[p].up # <<>> /\ Last(call[p].up) = "otel"
    /\ LET k == call[p].kind IN
       IF FailureFirst(k)
       THEN failures' = Recorded(failures, k, MetricTopics(p), Failed(p)) /\ UNCHANGED attempts
       ELSE attempts' = Recorded(attempts, k, MetricTopics(p), 1) /\ UNCHANGED failures
    /\ call' = [call EXCEPT ![p].at = "counted"]
    /\ UNCHANGED <<setupVars, count, latencies, spans, returned, subVars, delivery, stopVars>>

(* The deferred span.End and recordLatency run whatever the result was.    *)
CountSecond(p) ==
    /\ call[p].at = "counted"
    /\ LET k == call[p].kind IN
        /\ IF FailureFirst(k)
           THEN attempts' = Recorded(attempts, k, MetricTopics(p), 1) /\ UNCHANGED failures
           ELSE failures' = Recorded(failures, k, MetricTopics(p), Failed(p)) /\ UNCHANGED attempts
        /\ latencies' = Recorded(latencies, k, MetricTopics(p), 1)
    /\ spans' = spans - 1
    /\ call' = [call EXCEPT ![p].at = "up", ![p].up = Front(@)]
    /\ UNCHANGED <<setupVars, count, returned, subVars, delivery, stopVars>>

(* What Client.Subscribe remembers are the options and the callback of the *)
(* application, not what the middlewares made of them.                     *)
RememberedOpts_None(p) == <<>>
RememberedOpts(p) == call[p].asked
RememberedDepth_AsSent(p) == call[p].depth
RememberedDepth(p) == 0

Return(p) ==
    /\ call[p].at = "up"
    /\ call[p].up = <<>>
    /\ stored' = [t \in Topics |->
        IF ~call[p].ok \/ call[p].resumed \/ call[p].kind = "publish" \/ t \notin call[p].topics
        THEN stored[t]
        ELSE IF call[p].kind = "unsubscribe" THEN None
        ELSE [opts |-> RememberedOpts(p), asked |-> call[p].asked, depth |-> RememberedDepth(p)]]
    /\ returned' = Recorded(returned, call[p].kind, call[p].topics, 1)
    /\ call' = [call EXCEPT ![p] = Idle]
    /\ UNCHANGED <<setupVars, count, metricVars, broker, delivery, stopVars>>

(***************************************************************************)
(* A message: the instrumented callback counts the attempt, calls the      *)
(* application and counts a failure if the span was marked as failed.      *)
(***************************************************************************)
Message(t) ==
    /\ broker[t] # None /\ delivery = None /\ count < MaxCalls
    /\ count' = count + 1
    /\ delivery' = [topic |-> t, depth |-> broker[t].depth]
    /\ attempts' = Recorded(attempts, "callback", {t}, broker[t].depth)
    /\ spans' = spans + broker[t].depth
    /\ UNCHANGED <<setupVars, call, failures, latencies, returned, subVars, stopVars>>

MessageHandled ==
    /\ delivery # None
    /\ \E failed \in {0, delivery.depth} :
        failures' = Recorded(failures, "callback", {delivery.topic}, failed)
    /\ latencies' = Recorded(latencies, "callback", {delivery.topic}, delivery.depth)
    /\ spans' = spans - delivery.depth
    /\ returned' = Recorded(returned, "callback", {delivery.topic}, 1)
    /\ delivery' = None
    /\ UNCHANGED <<setupVars, call, count, attempts, subVars, stopVars>>

(***************************************************************************)
(* Stop, through the StopMiddleware that ApplyMiddlewares installed.       *)
(***************************************************************************)
Goto(s, l) == stopping' = [stopping EXCEPT ![s] = l]

(* OTel.Stop is called whether or not Client.stop had an error.            *)
StopCall(s) ==
    /\ stopping[s] = "idle" /\ serving
    /\ Goto(s, "check")
    /\ UNCHANGED <<setupVars, call, count, metricVars, returned, subVars, delivery, registration>>

OTelCheck(s) ==
    /\ stopping[s] = "check"
    /\ Goto(s, IF registration THEN "unregister" ELSE "done")
    /\ UNCHANGED <<setupVars, call, count, metricVars, returned, subVars, delivery, registration>>

(* The field is read again: it may have become nil meanwhile. An error of  *)
(* Unregister keeps the registration.                                      *)
OTelUnregister(s) ==
    /\ stopping[s] = "unregister"
    /\ \/ registration /\ Goto(s, "done") /\ registration' \in BOOLEAN
       \/ ~registration /\ Goto(s, "panicked") /\ UNCHANGED registration
    /\ UNCHANGED <<setupVars, call, count, metricVars, returned, subVars, delivery>>

(* The end of Run calls Client.stop and not the stop handler.              *)
RunEnds(s) ==
    /\ MayRun
    /\ stopping[s] = "idle" /\ serving
    /\ Goto(s, "ran")
    /\ UNCHANGED <<setupVars, call, count, metricVars, returned, subVars, delivery, registration>>

CallNext(p) ==
    \/ Begin(p) \/ Resume(p) \/ Enter(p) \/ Encode(p) \/ Base(p)
    \/ Leave(p) \/ CountFirst(p) \/ CountSecond(p) \/ Return(p)

StopNext(s) == StopCall(s) \/ OTelCheck(s) \/ OTelUnregister(s) \/ RunEnds(s)

Next ==
    \/ \E k \in Kinds, m \in {"otel", "app"} : UseAppend(k, m)
    \/ UseWrap \/ Serve
    \/ \E p \in Callers : CallNext(p)
    \/ (\E t \in Topics : Message(t)) \/ MessageHandled
    \/ \E s \in Stoppers : StopNext(s)

Spec == Init /\ [][Next]_vars

(***************************************************************************)
(* Properties.                                                             *)
(***************************************************************************)

(* What a chain is to do: it succeeds if one of its encoders does, with    *)
(* the output of the first that can, and only of that one, provided that   *)
(* no encoder before it failed after it had written something.             *)
FirstThatCan(chain, r) ==
    LET able == {i \in DOMAIN chain : chain[i] = "ok"} IN
    /\ r.done <=> able # {}
    /\ \A i \in able : (\A j \in 1..(i - 1) : chain[j] = "clean") => r.output = <<i>>

(* The message of a Publish is what the first encoder that can handle it   *)
(* makes of it, if the others fail without output; if none can, it fails.  *)
FirstEncoderDecides ==
    \A p \in Callers :
        call[p].at = "up" /\ call[p].kind = "publish" =>
            FirstThatCan(call[p].chain, call[p].encoded)

(* A call reaches the base handler through all middlewares that were       *)
(* registered for it when it began, in the order of their registration,    *)
(* whatever order the application and ApplyMiddlewares added them in.      *)
PassesAllMiddlewares ==
    \A p \in Callers :
        call[p].at = "down" /\ call[p].down = <<>> => call[p].up = call[p].due

(* Whenever metrics are read, also while calls are returning, no more      *)
(* failures than attempts are reported for any topic on the paths of       *)
(* subscribe, unsubscribe and the callback.                                *)
FailuresWithinAttempts ==
    \A k \in Paths \ {"publish"}, t \in Topics : failures[k][t] <= attempts[k][t]

(* When nothing is under way, every call that returned on a traced path    *)
(* has been counted once and timed once for each of its topics, and no     *)
(* span is left open: errors, calls with several topics, resumptions and   *)
(* overlapping calls are no exceptions.                                    *)
NothingUnderWay == delivery = None /\ \A p \in Callers : call[p] = Idle
MetricsBalance ==
    NothingUnderWay =>
        /\ \A k \in Kinds, t \in Topics :
            LET n == IF k \in tracePaths THEN returned[k][t] ELSE 0 IN
            attempts[k][t] = n /\ latencies[k][t] = n
        /\ spans = 0

(* The callback that the broker's messages reach is instrumented once,     *)
(* however often the subscription has been resumed through the middlewares.*)
InstrumentedOnce ==
    \A t \in Topics : broker[t] # None =>
        broker[t].depth = IF {"subscribe", "callback"} \subseteq tracePaths THEN 1 ELSE 0

(* A subscription has the QoS that the application asked for, also after   *)
(* it was remembered and resumed, unless it passed the subscribeHandler of *)
(* OTel: one made by SubscribeMultiple has it in any case.                 *)
KeepsQoS ==
    \A t \in Topics :
        broker[t] # None /\ (broker[t].multi \/ "subscribe" \notin tracePaths) =>
            broker[t].qos = broker[t].asked

(***************************************************************************)
(* What the code does not guarantee: each of these has a counterexample    *)
(* (the README says which constants show it).                              *)
(***************************************************************************)

(* What is published has been written by one encoder: what an encoder      *)
(* wrote before it failed stays in front.                                  *)
OutputOfOneEncoder ==
    \A p \in Callers :
        call[p].at = "up" /\ call[p].kind = "publish" /\ call[p].ok =>
            Len(call[p].encoded.output) = 1

(* A subscription has the QoS that the application asked for.              *)
SubscribedAsAsked == \A t \in Topics : broker[t] # None => broker[t].qos = broker[t].asked

(* No more failures than attempts of Publish are reported.                 *)
PublishFailuresWithinAttempts ==
    \A t \in Topics : failures["publish"][t] <= attempts["publish"][t]

(* The OTel metric "is unregistered when the client stops", by Run too.    *)
RunUnregisters == \A s \in Stoppers : stopping[s] = "ran" => ~registration

(* Two calls of Stop at the same time do no harm.                          *)
StopTwice == \A s \in Stoppers : stopping[s] # "panicked"
==========================================================================
