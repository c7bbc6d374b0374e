----------------------- MODULE ClientCallsProofs -------------------------
(***************************************************************************)
(* Proofs about ClientCalls. The counting invariants relate the metrics to *)
(* the calls that are under way; what a call passes on its way follows     *)
(* from how the chains are composed while nothing is served.               *)
(***************************************************************************)
EXTENDS ClientCalls, PrimitiveRecursion, FiniteSetTheorems, SequenceTheorems, TLAPS

Mws == {"otel", "app"}
OptionLists == {<<>>, QoS1}
Traced(s) == \E i \in 1..Len(s) : s[i] = "otel"

(* A call under way.                                                       *)
CallRecord ==
    [kind : Kinds, at : {"down", "up", "counted"}, down : Seq(Mws), up : Seq(Mws),
     topics : SUBSET Topics, multi : BOOLEAN, opts : OptionLists, depth : Nat, ok : BOOLEAN,
     asked : OptionLists, resumed : BOOLEAN, due : Seq(Mws), chain : {<<>>} \cup Chains,
     encoded : {EmptyResult} \cup {ChainResult(chain) : chain \in Chains}]
Metric == [Paths -> [Topics -> Nat]]

TypeOK ==
    /\ tracePaths \subseteq Paths
    /\ middlewares \in [Kinds -> Seq(Mws)] /\ handler \in [Kinds -> Seq(Mws)]
    /\ use # None =>
        use \in [kind : Kinds, left : Nat] /\ use.left \in 1..Len(middlewares[use.kind])
    /\ serving \in BOOLEAN
    /\ call \in [Callers -> {Idle} \cup CallRecord]
    /\ \A p \in Callers : call[p].at = "counted" => call[p].up # <<>>
    /\ attempts \in Metric /\ failures \in Metric /\ latencies \in Metric /\ returned \in Metric
    /\ spans \in Int
    /\ \A t \in Topics : stored[t] # None =>
        stored[t].opts \in OptionLists /\ stored[t].asked \in OptionLists /\ stored[t].depth \in Nat
    /\ \A t \in Topics : broker[t] # None => broker[t].depth \in Nat
    /\ delivery = None \/ delivery \in [topic : Topics, depth : Nat]

(* The failures of calls that have counted their attempt for a topic and   *)
(* not yet their failure are allowed for.                                  *)
Counted(k, t) ==
    {p \in Callers : call[p].at = "counted" /\ call[p].kind = k /\ t \in call[p].topics}
DeliveryAt(t) == IF delivery # None /\ delivery.topic = t THEN delivery.depth ELSE 0
FailOK ==
    /\ \A k \in Kinds \ {"publish"}, t \in Topics :
        failures[k][t] + Cardinality(Counted(k, t)) <= attempts[k][t]
    /\ \A t \in Topics : failures["callback"][t] + DeliveryAt(t) <= attempts["callback"][t]

(* A chain is composed of the middlewares from the last to the first, OTel *)
(* is in it at most once and only if it is to trace the path. Nothing is   *)
(* served while a chain is being composed.                                 *)
Once(s) == \A i, j \in 1..Len(s) : s[i] = "otel" /\ s[j] = "otel" => i = j
ComposedOf(h, s, n) == Len(h) = Len(s) - n /\ \A i \in 1..(Len(s) - n) : h[i] = s[n + i]
Composed(k, n) == ComposedOf(handler[k], middlewares[k], n)
SetupOK ==
    /\ \A k \in Kinds : Once(middlewares[k])
    /\ \A k \in Kinds : Traced(middlewares[k]) => k \in tracePaths
    /\ \A k \in Kinds : (use = None \/ use.kind # k) => Composed(k, 0)
    /\ use # None => Composed(use.kind, use.left)
    /\ serving => use = None /\ \A k \in Kinds : k \in tracePaths => Traced(middlewares[k])

(* The middlewares that a call has entered and not left are the first of   *)
(* those that were registered for it; those still to be entered, the rest. *)
Begins(u, d) == Len(u) <= Len(d) /\ \A i \in 1..Len(u) : u[i] = d[i]
Completes(s, u, d) ==
    Len(u) + Len(s) = Len(d) /\ \A i \in 1..Len(s) : s[i] = d[Len(u) + i]
OnPath(p) ==
    /\ serving /\ call[p].due = middlewares[call[p].kind]
    /\ Begins(call[p].up, call[p].due)
    /\ call[p].at = "down" => Completes(call[p].down, call[p].up, call[p].due)
    /\ call[p].at = "counted" => Last(call[p].up) = "otel"
PathOK == \A p \in Callers : call[p] # Idle => OnPath(p)

(* What is remembered is not instrumented, what goes down is instrumented  *)
(* once it has passed OTel.                                                *)
DepthAt(p) ==
    call[p].at = "down" /\ call[p].kind = "subscribe" =>
        call[p].depth = IF Traced(call[p].up) /\ "callback" \in tracePaths THEN 1 ELSE 0
DepthOK ==
    /\ \A t \in Topics : stored[t] # None => stored[t].depth = 0
    /\ \A p \in Callers : DepthAt(p)
    /\ InstrumentedOnce

(* What is remembered are the options that were asked for, and no options  *)
(* are lost on the way down but to the subscribeHandler of OTel.           *)
QoSAt(p) ==
    call[p].at = "down" /\ call[p].kind = "subscribe" /\ (call[p].multi \/ ~Traced(call[p].up))
        => call[p].opts = call[p].asked
QoSOK ==
    /\ \A t \in Topics : stored[t] # None => stored[t].opts = stored[t].asked
    /\ \A p \in Callers : QoSAt(p)
    /\ KeepsQoS

(* Calls that have counted their attempt for a topic, and timed it; open   *)
(* spans.                                                                  *)
Timed(k, t) ==
    {p \in Callers : call[p].at = "up" /\ call[p].kind = k /\ t \in call[p].topics
                        /\ ~Traced(call[p].up)}
Attempted(k, t) == Timed(k, t) \cup {p \in Counted(k, t) : ~FailureFirst(k)}
Spanned == {p \in Callers : call[p] # Idle /\ Traced(call[p].up)}
DeliveryDepth == IF delivery = None THEN 0 ELSE delivery.depth
BalanceOK ==
    /\ \A k \in Kinds, t \in Topics :
        /\ attempts[k][t] =
             IF k \in tracePaths THEN returned[k][t] + Cardinality(Attempted(k, t)) ELSE 0
        /\ latencies[k][t] =
             IF k \in tracePaths THEN returned[k][t] + Cardinality(Timed(k, t)) ELSE 0
    /\ spans = Cardinality(Spanned) + DeliveryDepth

-----------------------------------------------------------------------------
(***************************************************************************)
(* Sequences and metrics.                                                  *)
(***************************************************************************)
LEMMA FrontSeq ==
    ASSUME NEW S, NEW s \in Seq(S), s # <<>>
    PROVE  /\ Front(s) \in Seq(S) /\ Len(Front(s)) = Len(s) - 1
           /\ \A i \in 1..(Len(s) - 1) : Front(s)[i] = s[i]
           /\ Last(s) \in S /\ Last(s) = s[Len(s)] /\ Len(s) \in Nat \ {0}
  <1>1. Len(s) \in Nat \ {0} /\ s[Len(s)] \in S
    OBVIOUS
  <1>2. SubSeq(s, 1, Len(s) - 1) \in Seq(S)
    BY <1>1
  <1>3. /\ Len(SubSeq(s, 1, Len(s) - 1)) = Len(s) - 1
        /\ \A i \in 1..(Len(s) - 1) : SubSeq(s, 1, Len(s) - 1)[i] = s[i]
    <2> DEFINE n == Len(s) - 1
    <2>1. /\ n \in Nat /\ 1 \in Int /\ n \in Int /\ \A i \in 1..n : s[i] \in S
      BY <1>1
    <2> HIDE DEF n
    <2>2. /\ Len(SubSeq(s, 1, n)) = IF 1 <= n THEN n - 1 + 1 ELSE 0
          /\ \A i \in 1..(n - 1 + 1) : SubSeq(s, 1, n)[i] = s[1 + i - 1]
      BY <2>1, SubSeqProperties
    <2>3. Len(SubSeq(s, 1, n)) = n /\ \A i \in 1..n : SubSeq(s, 1, n)[i] = s[i]
      BY <2>1, <2>2
    <2> QED BY <2>3 DEF n
  <1> QED BY <1>1, <1>2, <1>3 DEF Front, Last

(* Passing one more middleware of those that were due.                     *)
LEMMA EnterSeq ==
    ASSUME NEW d \in Seq(Mws), NEW u \in Seq(Mws), NEW s \in Seq(Mws), s # <<>>,
           Begins(u, d), Completes(s, u, d)
    PROVE  /\ Begins(Append(u, Head(s)), d) /\ Completes(Tail(s), Append(u, Head(s)), d)
           /\ Traced(Append(u, Head(s))) <=> Traced(u) \/ Head(s) = "otel"
           /\ Once(d) /\ Head(s) = "otel" => ~Traced(u)
  <1> DEFINE m == Head(s)
             v == Append(u, m)
             t == Tail(s)
  <1>1. /\ Len(v) = Len(u) + 1 /\ v[Len(u) + 1] = m /\ \A i \in 1..Len(u) : v[i] = u[i]
        /\ Len(u) \in Nat /\ Len(d) \in Nat /\ Len(s) \in Nat \ {0}
    OBVIOUS
  <1>2. Len(t) = Len(s) - 1 /\ m = s[1] /\ \A i \in 1..(Len(s) - 1) : t[i] = s[i + 1]
    OBVIOUS
  <1> HIDE DEF m, v, t
  <1>3. s[1] = d[Len(u) + 1] /\ Len(u) + 1 <= Len(d)
    BY <1>1 DEF Completes
  <1>4. Begins(v, d)
    <2>1. \A i \in 1..Len(u) : v[i] = d[i]
      BY <1>1 DEF Begins
    <2>2. v[Len(u) + 1] = d[Len(u) + 1] /\ Len(v) <= Len(d)
      BY <1>1, <1>2, <1>3
    <2>3. \A i \in 1..Len(v) : i \in 1..Len(u) \/ i = Len(u) + 1
      BY <1>1
    <2> QED BY <2>1, <2>2, <2>3 DEF Begins
  <1>5. Completes(t, v, d)
    <2>1. Len(v) + Len(t) = Len(d)
      <3>1. Len(u) + Len(s) = Len(d)
        BY DEF Completes
      <3>2. Len(v) = Len(u) + 1 /\ Len(t) = Len(s) - 1
        BY <1>1, <1>2
      <3> QED BY <1>1, <3>1, <3>2
    <2>2. ASSUME NEW i \in 1..Len(t) PROVE t[i] = d[Len(v) + i]
      <3>1. i + 1 \in 1..Len(s) /\ i \in 1..(Len(s) - 1) /\ Len(v) + i = Len(u) + (i + 1)
        BY <1>1, <1>2
      <3>2. s[i + 1] = d[Len(u) + (i + 1)]
        BY <3>1 DEF Completes
      <3> QED BY <1>2, <3>1, <3>2
    <2> QED BY <2>1, <2>2 DEF Completes
  <1>6. Traced(v) <=> Traced(u) \/ m = "otel"
    BY <1>1 DEF Traced
  <1>7. ASSUME Once(d), m = "otel", Traced(u) PROVE FALSE
    <2>1. PICK i \in 1..Len(u) : u[i] = "otel"
      BY <1>7 DEF Traced
    <2>2. d[i] = "otel" /\ d[Len(u) + 1] = "otel" /\ i \in 1..Len(d) /\ Len(u) + 1 \in 1..Len(d)
      BY <1>1, <1>2, <1>3, <1>7, <2>1 DEF Begins
    <2>3. i = Len(u) + 1
      BY <1>7, <2>2 DEF Once
    <2> QED BY <1>1, <2>1, <2>3
  <1> QED BY <1>4, <1>5, <1>6, <1>7 DEF m, v, t

(* Returning from the last middleware that was passed.                     *)
LEMMA LeaveSeq ==
    ASSUME NEW d \in Seq(Mws), NEW u \in Seq(Mws), u # <<>>, Begins(u, d)
    PROVE  /\ Begins(Front(u), d)
           /\ Last(u) # "otel" => (Traced(Front(u)) <=> Traced(u))
           /\ Last(u) = "otel" => Traced(u)
           /\ Last(u) = "otel" /\ Once(d) => ~Traced(Front(u))
  <1> DEFINE v == Front(u)
             m == Last(u)
  <1>1. /\ Len(v) = Len(u) - 1 /\ m = u[Len(u)] /\ \A i \in 1..(Len(u) - 1) : v[i] = u[i]
        /\ Len(u) \in Nat \ {0} /\ Len(d) \in Nat
    BY FrontSeq
  <1> HIDE DEF v, m
  <1>2. Begins(v, d)
    BY <1>1 DEF Begins
  <1>3. m # "otel" => (Traced(v) <=> Traced(u))
    BY <1>1 DEF Traced
  <1>4. ASSUME m = "otel" PROVE Traced(u)
    <2>1. Len(u) \in 1..Len(u) /\ u[Len(u)] = "otel"
      BY <1>1, <1>4
    <2> QED BY <2>1 DEF Traced
  <1>5. ASSUME m = "otel", Once(d), Traced(v) PROVE FALSE
    <2>1. PICK i \in 1..(Len(u) - 1) : v[i] = "otel"
      BY <1>1, <1>5 DEF Traced
    <2>2. Len(u) \in 1..Len(u) /\ i \in 1..Len(u)
      BY <1>1
    <2>3. d[i] = u[i] /\ d[Len(u)] = u[Len(u)] /\ i \in 1..Len(d) /\ Len(u) \in 1..Len(d)
      BY <1>1, <2>2 DEF Begins
    <2>4. d[i] = "otel" /\ d[Len(u)] = "otel"
      BY <1>1, <1>5, <2>1, <2>3
    <2>5. i = Len(u)
      BY <1>5, <2>3, <2>4 DEF Once
    <2> QED BY <1>1, <2>1, <2>5
  <1> QED BY <1>2, <1>3, <1>4, <1>5 DEF v, m

(* A call with no middleware ahead has passed all that were due.           *)
LEMMA PathSeq ==
    ASSUME NEW d \in Seq(Mws), NEW u \in Seq(Mws), Begins(u, d)
    PROVE  /\ Traced(u) => Traced(d)
           /\ Completes(<<>>, u, d) => u = d
           /\ Begins(<<>>, d) /\ ~Traced(<<>>)
  <1>0. Len(u) \in Nat /\ Len(d) \in Nat
    OBVIOUS
  <1>1. Traced(u) => Traced(d)
    BY <1>0 DEF Traced, Begins
  <1>2. ASSUME Completes(<<>>, u, d) PROVE u = d
    <2>1. Len(u) + Len(<<>>) = Len(d) /\ Len(<<>>) = 0
      BY <1>2 DEF Completes
    <2>2. Len(u) = Len(d) /\ \A i \in 1..Len(u) : u[i] = d[i]
      BY <1>0, <2>1 DEF Begins
    <2> QED BY <2>2, SeqEqual
  <1>3. Begins(<<>>, d) /\ ~Traced(<<>>)
    BY DEF Begins, Traced
  <1> QED BY <1>1, <1>2, <1>3

(* A metric goes up for some topics of one path.                           *)
LEMMA RecordedUp ==
    ASSUME NEW m \in Metric, NEW k \in Paths, NEW T, NEW n \in Nat
    PROVE  /\ Recorded(m, k, T, n) \in Metric
           /\ \A j \in Paths, t \in Topics :
                Recorded(m, k, T, n)[j][t] = m[j][t] + IF j = k /\ t \in T THEN n ELSE 0
  <1> DEFINE up == [t \in Topics |-> IF t \in T THEN m[k][t] + n ELSE m[k][t]]
  <1>1. Recorded(m, k, T, n) = [m EXCEPT ![k] = up]
    BY DEF Recorded
  <1>2. \A j \in Paths, t \in Topics : m[j][t] \in Nat
    BY DEF Metric
  <1>3. up \in [Topics -> Nat] /\ \A t \in Topics : up[t] = m[k][t] + IF t \in T THEN n ELSE 0
    BY <1>2
  <1> HIDE DEF up
  <1>4. Recorded(m, k, T, n) \in Metric
    BY <1>1, <1>3 DEF Metric
  <1>5. Recorded(m, k, T, n)[k] = up /\ \A j \in Paths : j # k => Recorded(m, k, T, n)[j] = m[j]
    BY <1>1 DEF Metric
  <1> QED BY <1>2, <1>3, <1>4, <1>5

(* A caller without a call is told apart from one with a call.             *)
LEMMA IdleFields == Idle.kind = None /\ Idle.at = "idle" /\ Idle \notin CallRecord
  BY DEF Idle, CallRecord

-----------------------------------------------------------------------------
(***************************************************************************)
(* What each step of a caller does to its call.                            *)
(***************************************************************************)
Others(p) == \A q \in Callers : q # p => call'[q] = call[q]
Same(p) ==
    /\ call'[p].kind = call[p].kind /\ call'[p].due = call[p].due
    /\ call'[p].topics = call[p].topics /\ call'[p].multi = call[p].multi
    /\ call'[p].asked = call[p].asked

(* A caller that is not idle has a call.                                   *)
LEMMA UnderWay ==
    ASSUME TypeOK, NEW p \in Callers
    PROVE  /\ call[p] # Idle => call[p] \in CallRecord
           /\ call[p].at # "idle" => call[p] \in CallRecord
           /\ call[p] \in CallRecord => call[p] # Idle /\ call[p].at # "idle"
  <1>1. \A r \in CallRecord : r.at # "idle"
    BY DEF CallRecord
  <1> QED BY <1>1, IdleFields DEF TypeOK

(* What Publish, Subscribe or Unsubscribe begin with.                      *)
LEMMA BeganCall ==
    ASSUME TypeOK, NEW p \in Callers, NEW k \in Kinds, NEW T \in SUBSET Topics,
           NEW multi \in BOOLEAN, NEW opts \in OptionLists, NEW asked \in OptionLists,
           NEW depth \in Nat, NEW resumes \in BOOLEAN,
           Began(p, k, T, multi, opts, asked, depth, resumes)
    PROVE  /\ call[p] = Idle /\ call'[p] \in CallRecord /\ Others(p) /\ serving
           /\ call'[p].kind = k /\ call'[p].at = "down" /\ call'[p].down = handler[k]
           /\ call'[p].up = <<>> /\ call'[p].depth = depth /\ call'[p].due = middlewares[k]
           /\ call'[p].opts = opts /\ call'[p].asked = asked
  <1> DEFINE r ==
            [kind |-> k, at |-> "down", down |-> handler[k], up |-> <<>>, topics |-> T,
             multi |-> multi, opts |-> opts, depth |-> depth, ok |-> TRUE, asked |-> asked,
             resumed |-> resumes, due |-> middlewares[k], chain |-> <<>>,
             encoded |-> EmptyResult]
  <1>1. call' = [call EXCEPT ![p] = r] /\ call[p] = Idle /\ serving
    BY DEF Began
  <1>2. call'[p] = r /\ Others(p)
    BY <1>1 DEF TypeOK, Others
  <1>3. handler[k] \in Seq(Mws) /\ middlewares[k] \in Seq(Mws) /\ <<>> \in Seq(Mws)
    BY DEF TypeOK
  <1>4. r \in CallRecord
    BY <1>3 DEF CallRecord
  <1> QED BY <1>1, <1>2, <1>4

(* What a middleware makes of the call on the way down.                    *)
LEMMA EnterCall ==
    ASSUME TypeOK, NEW p \in Callers, Enter(p)
    PROVE  /\ call[p] \in CallRecord /\ call'[p] \in CallRecord /\ Others(p) /\ Same(p)
           /\ call[p].at = "down" /\ call'[p].at = "down" /\ call[p].down # <<>>
           /\ call'[p].down = Tail(call[p].down)
           /\ call'[p].up = Append(call[p].up, Head(call[p].down))
           /\ call'[p].depth = IF Head(call[p].down) = "otel" /\ call[p].kind = "subscribe"
                               THEN CallbackDepth(call[p].depth) ELSE call[p].depth
           /\ call'[p].opts = IF Head(call[p].down) = "otel" /\ call[p].kind = "subscribe"
                                   /\ ~call[p].multi
                              THEN <<>> ELSE call[p].opts
  <1> DEFINE m == Head(call[p].down)
             instruments == m = "otel" /\ call[p].kind = "subscribe"
             drops == instruments /\ ~call[p].multi
  <1>1. call[p].at = "down" /\ call[p].down # <<>> /\ call[p] \in CallRecord
    BY UnderWay DEF Enter
  <1> DEFINE entered == [call[p] EXCEPT
                !.down = Tail(@), !.up = Append(@, m),
                !.opts = IF drops THEN <<>> ELSE @,
                !.depth = IF instruments THEN CallbackDepth(@) ELSE @]
  <1>2. call'[p] = entered /\ Others(p)
    BY <1>1 DEF Enter, TypeOK, Others
  <1>3. call[p].down \in Seq(Mws) /\ call[p].up \in Seq(Mws) /\ call[p].depth \in Nat
        /\ call[p].opts \in OptionLists
    BY <1>1 DEF CallRecord
  <1>4. Tail(call[p].down) \in Seq(Mws) /\ m \in Mws
    BY <1>1, <1>3
  <1>5. Append(call[p].up, m) \in Seq(Mws)
    BY <1>3, <1>4
  <1>6. (IF instruments THEN CallbackDepth(call[p].depth) ELSE call[p].depth) \in Nat
    BY <1>3 DEF CallbackDepth
  <1>7. (IF drops THEN <<>> ELSE call[p].opts) \in OptionLists
    BY <1>3 DEF OptionLists
  <1> HIDE DEF m, instruments, drops
  <1> DEFINE down == Tail(call[p].down)
             up == Append(call[p].up, m)
             opts == IF drops THEN <<>> ELSE call[p].opts
             depth == IF instruments THEN CallbackDepth(call[p].depth) ELSE call[p].depth
  <1>8. call'[p] = [call[p] EXCEPT !.down = down, !.up = up, !.opts = opts, !.depth = depth]
    BY <1>2
  <1>9. down \in Seq(Mws) /\ up \in Seq(Mws) /\ opts \in OptionLists /\ depth \in Nat
    BY <1>4, <1>5, <1>6, <1>7
  <1> HIDE DEF down, up, opts, depth
  <1>10. call'[p] \in CallRecord
    BY <1>1, <1>8, <1>9 DEF CallRecord
  <1>11. /\ Same(p) /\ call'[p].at = call[p].at
         /\ call'[p].down = down /\ call'[p].up = up /\ call'[p].depth = depth
         /\ call'[p].opts = opts
    BY <1>1, <1>8 DEF CallRecord, Same
  <1> QED BY <1>1, <1>2, <1>10, <1>11 DEF m, instruments, drops, down, up, depth, opts

(* The base handlers turn round.                                           *)
LEMMA TurnCall ==
    ASSUME TypeOK, NEW p \in Callers, Encode(p) \/ Base(p)
    PROVE  /\ call[p] \in CallRecord /\ call'[p] \in CallRecord /\ Others(p) /\ Same(p)
           /\ call[p].at = "down" /\ call[p].down = <<>>
           /\ call'[p].at = "up" /\ call'[p].up = call[p].up
  <1>1. call[p].at = "down" /\ call[p].down = <<>> /\ call[p] \in CallRecord
    BY UnderWay DEF Encode, Base
  <1>2. CASE Encode(p)
    <2>1. PICK chain \in Chains, sent \in BOOLEAN :
            call' = [call EXCEPT ![p].at = "up", ![p].ok = ChainResult(chain).done /\ sent,
                                 ![p].chain = chain, ![p].encoded = ChainResult(chain)]
      BY <1>2 DEF Encode
    <2> DEFINE ok == ChainResult(chain).done /\ sent
               result == ChainResult(chain)
    <2>2. call'[p] = [call[p] EXCEPT !.at = "up", !.ok = ok, !.chain = chain, !.encoded = result]
          /\ Others(p)
      BY <2>1 DEF TypeOK, Others
    <2>3. ok \in BOOLEAN /\ result \in {ChainResult(c) : c \in Chains}
      OBVIOUS
    <2> HIDE DEF ok, result
    <2>4. call'[p] \in CallRecord
      BY <1>1, <2>2, <2>3 DEF CallRecord
    <2>5. Same(p) /\ call'[p].at = "up" /\ call'[p].up = call[p].up
      BY <1>1, <2>2 DEF CallRecord, Same
    <2> QED BY <1>1, <2>2, <2>4, <2>5
  <1>3. CASE Base(p)
    <2>0. PICK T \in Reaches(p) :
              call' = [call EXCEPT ![p].at = "up", ![p].ok = (T = call[p].topics)]
      BY <1>3 DEF Base
    <2> DEFINE ok == T = call[p].topics
    <2>1. call' = [call EXCEPT ![p].at = "up", ![p].ok = ok]
      BY <2>0
    <2>b. ok \in BOOLEAN
      OBVIOUS
    <2> HIDE DEF ok
    <2>2. call'[p] = [call[p] EXCEPT !.at = "up", !.ok = ok] /\ Others(p)
      BY <2>1 DEF TypeOK, Others
    <2>3. call'[p] \in CallRecord
      BY <1>1, <2>2, <2>b DEF CallRecord
    <2>4. Same(p) /\ call'[p].at = "up" /\ call'[p].up = call[p].up
      BY <1>1, <2>2 DEF CallRecord, Same
    <2> QED BY <1>1, <2>2, <2>3, <2>4
  <1> QED BY <1>2, <1>3

(* A middleware of the application on the way up.                          *)
LEMMA LeaveCall ==
    ASSUME TypeOK, NEW p \in Callers, Leave(p)
    PROVE  /\ call[p] \in CallRecord /\ call'[p] \in CallRecord /\ Others(p) /\ Same(p)
           /\ call[p].at = "up" /\ call'[p].at = "up" /\ call[p].up # <<>>
           /\ Last(call[p].up) # "otel" /\ call'[p].up = Front(call[p].up)
  <1>1. call[p].at = "up" /\ call[p].up # <<>> /\ Last(call[p].up) # "otel" /\ call[p] \in CallRecord
    BY UnderWay DEF Leave
  <1>2. call'[p] = [call[p] EXCEPT !.up = Front(@)] /\ Others(p)
    BY DEF Leave, TypeOK, Others
  <1>3. call[p].up \in Seq(Mws)
    BY <1>1 DEF CallRecord
  <1>4. Front(call[p].up) \in Seq(Mws)
    BY <1>1, <1>3, FrontSeq
  <1> QED BY <1>1, <1>2, <1>4 DEF CallRecord, Same

(* The first counter of the instrumentation on the way up.                 *)
LEMMA CountFirstCall ==
    ASSUME TypeOK, NEW p \in Callers, CountFirst(p)
    PROVE  /\ call[p] \in CallRecord /\ call'[p] \in CallRecord /\ Others(p) /\ Same(p)
           /\ call[p].at = "up" /\ call'[p].at = "counted" /\ call[p].up # <<>>
           /\ Last(call[p].up) = "otel" /\ call'[p].up = call[p].up
  <1>1. call[p].at = "up" /\ call[p].up # <<>> /\ Last(call[p].up) = "otel" /\ call[p] \in CallRecord
    BY UnderWay DEF CountFirst
  <1>2. call'[p] = [call[p] EXCEPT !.at = "counted"] /\ Others(p)
    BY DEF CountFirst, TypeOK, Others
  <1> QED BY <1>1, <1>2 DEF CallRecord, Same

(* The second counter, and the end of the span.                            *)
LEMMA CountSecondCall ==
    ASSUME TypeOK, NEW p \in Callers, CountSecond(p)
    PROVE  /\ call[p] \in CallRecord /\ call'[p] \in CallRecord /\ Others(p) /\ Same(p)
           /\ call[p].at = "counted" /\ call'[p].at = "up"
           /\ call'[p].up = Front(call[p].up)
  <1>1. call[p].at = "counted" /\ call[p] \in CallRecord /\ call[p].up # <<>>
    BY UnderWay DEF CountSecond, TypeOK
  <1>2. call'[p] = [call[p] EXCEPT !.at = "up", !.up = Front(@)] /\ Others(p)
    BY DEF CountSecond, TypeOK, Others
  <1>3. call[p].up \in Seq(Mws)
    BY <1>1 DEF CallRecord
  <1>4. Front(call[p].up) \in Seq(Mws)
    BY <1>1, <1>3, FrontSeq
  <1> QED BY <1>1, <1>2, <1>4 DEF CallRecord, Same

(* The call returns to its caller.                                         *)
LEMMA ReturnCall ==
    ASSUME TypeOK, NEW p \in Callers, Return(p)
    PROVE  /\ call[p] \in CallRecord /\ call'[p] = Idle /\ Others(p)
           /\ call[p].at = "up" /\ call[p].up = <<>>
  <1>1. call[p].at = "up" /\ call[p].up = <<>> /\ call[p] \in CallRecord
    BY UnderWay DEF Return
  <1>2. call'[p] = Idle /\ Others(p)
    BY DEF Return, TypeOK, Others
  <1> QED BY <1>1, <1>2

(* A call begins with what the application gave, or with what was stored.  *)
AsGiven(opts, asked, depth) ==
    \/ depth = 0 /\ opts = asked
    \/ \E t \in Topics : /\ stored[t] # None /\ depth = stored[t].depth
                         /\ opts = stored[t].opts /\ asked = stored[t].asked
LEMMA BeginCases ==
    ASSUME TypeOK, NEW p \in Callers, Begin(p) \/ Resume(p)
    PROVE  \E k \in Kinds, T \in SUBSET Topics, multi \in BOOLEAN, opts \in OptionLists,
              asked \in OptionLists, depth \in Nat, resumes \in BOOLEAN :
              Began(p, k, T, multi, opts, asked, depth, resumes) /\ AsGiven(opts, asked, depth)
  <1>0. /\ \A k \in {"publish", "subscribe", "unsubscribe"} : k \in Kinds
        /\ QoS1 \in OptionLists /\ <<>> \in OptionLists /\ 0 \in Nat
        /\ AsGiven(QoS1, QoS1, 0) /\ AsGiven(<<>>, <<>>, 0)
    BY DEF Kinds, OptionLists, AsGiven
  <1>1. CASE Begin(p)
    <2>1. CASE \E k \in {"publish", "subscribe"}, t \in Topics :
                  Began(p, k, {t}, FALSE, QoS1, QoS1, 0, FALSE)
      <3>1. PICK k \in {"publish", "subscribe"}, t \in Topics :
                Began(p, k, {t}, FALSE, QoS1, QoS1, 0, FALSE)
        BY <2>1
      <3>2. k \in Kinds /\ {t} \in SUBSET Topics /\ FALSE \in BOOLEAN
        BY <1>0
      <3> QED BY Zenon, <1>0, <3>1, <3>2
    <2>2. CASE \E T \in SUBSET Topics \ {{}} : Began(p, "subscribe", T, TRUE, QoS1, QoS1, 0, FALSE)
      <3>1. PICK T \in SUBSET Topics : Began(p, "subscribe", T, TRUE, QoS1, QoS1, 0, FALSE)
        BY <2>2
      <3>2. "subscribe" \in Kinds /\ TRUE \in BOOLEAN /\ FALSE \in BOOLEAN
        BY <1>0
      <3> QED BY Zenon, <1>0, <3>1, <3>2
    <2>3. CASE \E T \in SUBSET Topics \ {{}} : Began(p, "unsubscribe", T, FALSE, <<>>, <<>>, 0, FALSE)
      <3>1. PICK T \in SUBSET Topics : Began(p, "unsubscribe", T, FALSE, <<>>, <<>>, 0, FALSE)
        BY <2>3
      <3>2. "unsubscribe" \in Kinds /\ FALSE \in BOOLEAN
        BY <1>0
      <3> QED BY Zenon, <1>0, <3>1, <3>2
    <2> QED BY <1>1, <2>1, <2>2, <2>3 DEF Begin
  <1>2. CASE Resume(p)
    <2>1. PICK t \in Topics :
            /\ stored[t] # None
            /\ Began(p, "subscribe", {t}, FALSE, stored[t].opts, stored[t].asked,
                     stored[t].depth, TRUE)
      BY <1>2 DEF Resume
    <2>2. /\ stored[t].opts \in OptionLists /\ stored[t].asked \in OptionLists
          /\ stored[t].depth \in Nat
      BY <2>1 DEF TypeOK
    <2>3. /\ AsGiven(stored[t].opts, stored[t].asked, stored[t].depth)
          /\ {t} \in SUBSET Topics /\ "subscribe" \in Kinds /\ TRUE \in BOOLEAN /\ FALSE \in BOOLEAN
      BY <1>0, <2>1 DEF AsGiven
    <2> QED BY Zenon, <2>1, <2>2, <2>3
  <1> QED BY <1>1, <1>2

(* A step of a call keeps the callers.                                     *)
LEMMA CallDomain ==
    ASSUME TypeOK, NEW p \in Callers, CallNext(p)
    PROVE  call' = [q \in Callers |-> call'[q]]
  BY DEF CallNext, Begin, Resume, Began, Enter, Encode, Base, Leave, CountFirst, CountSecond,
         Return, TypeOK

(* A caller's step changes its own call only, and to what a call may be.   *)
LEMMA CallTyped ==
    ASSUME TypeOK, NEW p \in Callers, CallNext(p)
    PROVE  /\ call' \in [Callers -> {Idle} \cup CallRecord]
           /\ \A q \in Callers : call'[q].at = "counted" => call'[q].up # <<>>
           /\ UNCHANGED setupVars
  <1>0. /\ \A q \in Callers : call[q] \in {Idle} \cup CallRecord
        /\ \A q \in Callers : call[q].at = "counted" => call[q].up # <<>>
    BY DEF TypeOK
  <1>1. ASSUME Others(p), call'[p] \in {Idle} \cup CallRecord,
               call'[p].at = "counted" => call'[p].up # <<>>
        PROVE  /\ call' \in [Callers -> {Idle} \cup CallRecord]
               /\ \A q \in Callers : call'[q].at = "counted" => call'[q].up # <<>>
    <2>1. \A q \in Callers : call'[q] \in {Idle} \cup CallRecord
      BY <1>0, <1>1 DEF Others
    <2>2. \A q \in Callers : call'[q].at = "counted" => call'[q].up # <<>>
      BY <1>0, <1>1 DEF Others
    <2> QED BY <2>1, <2>2, CallDomain
  <1>2. UNCHANGED setupVars
    BY DEF CallNext, Begin, Resume, Began, Enter, Encode, Base, Leave, CountFirst, CountSecond,
           Return
  <1>3. CASE Begin(p) \/ Resume(p)
    <2>1. Others(p) /\ call'[p] \in CallRecord /\ call'[p].at = "down"
      BY <1>3, BeginCases, BeganCall
    <2> QED BY <1>1, <1>2, <2>1
  <1>4. CASE Enter(p)
    BY <1>1, <1>2, <1>4, EnterCall
  <1>5. CASE Encode(p) \/ Base(p)
    BY <1>1, <1>2, <1>5, TurnCall
  <1>6. CASE Leave(p)
    BY <1>1, <1>2, <1>6, LeaveCall
  <1>7. CASE CountFirst(p)
    BY <1>1, <1>2, <1>7, CountFirstCall
  <1>8. CASE CountSecond(p)
    BY <1>1, <1>2, <1>8, CountSecondCall
  <1>9. CASE Return(p)
    BY <1>1, <1>2, <1>9, ReturnCall, IdleFields
  <1> QED BY <1>3, <1>4, <1>5, <1>6, <1>7, <1>8, <1>9 DEF CallNext

(* Types, initially.                                                       *)
LEMMA TypeInit == Init => TypeOK
  <1> SUFFICES ASSUME Init PROVE TypeOK
    OBVIOUS
  <1>1. tracePaths \subseteq Paths
    BY DEF Init
  <1>2. <<>> \in Seq(Mws)
    OBVIOUS
  <1>3. call \in [Callers -> {Idle} \cup CallRecord]
        /\ \A p \in Callers : call[p].at = "counted" => call[p].up # <<>>
    BY IdleFields DEF Init
  <1>4. attempts \in Metric /\ failures \in Metric /\ latencies \in Metric /\ returned \in Metric
    BY DEF Init, Metric
  <1>5. middlewares \in [Kinds -> Seq(Mws)] /\ handler \in [Kinds -> Seq(Mws)]
    BY <1>2 DEF Init
  <1>6. \A t \in Topics : stored[t] = None /\ broker[t] = None
    BY DEF Init
  <1>7. use = None /\ spans \in Int /\ delivery = None
    BY DEF Init
  <1>8. serving \in BOOLEAN
    BY DEF Init
  <1> QED BY <1>1, <1>3, <1>4, <1>5, <1>6, <1>7, <1>8 DEF TypeOK

(* Every step keeps the types.                                             *)
LEMMA TypeStep == TypeOK /\ [Next]_vars => TypeOK'
  <1> SUFFICES ASSUME TypeOK, [Next]_vars PROVE TypeOK'
    OBVIOUS
  <1>k. Kinds \subseteq Paths /\ "callback" \in Paths
    BY DEF Paths
  <1>1. ASSUME NEW p \in Callers, CallNext(p) PROVE TypeOK'
    <2>1. /\ call' \in [Callers -> {Idle} \cup CallRecord]
          /\ \A q \in Callers : call'[q].at = "counted" => call'[q].up # <<>>
          /\ UNCHANGED <<tracePaths, middlewares, handler, use, serving>>
      BY <1>1, CallTyped DEF setupVars
    <2>2. UNCHANGED delivery
      BY <1>1 DEF CallNext, Begin, Resume, Began, Enter, Encode, Base, Leave, CountFirst,
                  CountSecond, Return
    <2>3. ASSUME call[p] \in CallRecord
          PROVE  /\ call[p].kind \in Kinds /\ call[p].kind \in Paths
                 /\ call[p].asked \in OptionLists /\ call[p].depth \in Nat
                 /\ Failed(p) \in Nat
      BY <1>k, <2>3 DEF CallRecord, Failed
    <2>4. CASE Begin(p) \/ Resume(p) \/ Encode(p) \/ Leave(p)
      <3>1. UNCHANGED <<attempts, failures, latencies, spans, returned, stored, broker>>
        BY <2>4 DEF Begin, Resume, Began, Encode, Leave, metricVars, subVars
      <3> QED BY <2>1, <2>2, <3>1 DEF TypeOK
    <2>5. CASE Enter(p)
      <3>1. UNCHANGED <<attempts, failures, latencies, returned, stored, broker>> /\ spans' \in Int
        BY <2>5 DEF Enter, subVars, TypeOK
      <3> QED BY <2>1, <2>2, <3>1 DEF TypeOK
    <2>6. CASE Base(p)
      <3>1. UNCHANGED <<attempts, failures, latencies, spans, returned, stored>>
        BY <2>6 DEF Base, metricVars
      <3>2. call[p] \in CallRecord
        BY <2>6, TurnCall
      <3>3. \A t \in Topics : broker'[t] # None => broker'[t].depth \in Nat
        BY <2>3, <2>6, <3>2 DEF Base, TypeOK
      <3> QED BY <2>1, <2>2, <3>1, <3>3 DEF TypeOK
    <2>7. CASE CountFirst(p)
      <3>1. UNCHANGED <<latencies, spans, returned, stored, broker>>
        BY <2>7 DEF CountFirst, subVars
      <3>2. call[p] \in CallRecord
        BY <2>7, CountFirstCall
      <3>3. attempts' \in Metric /\ failures' \in Metric
        <4>0. call[p].kind \in Paths /\ Failed(p) \in Nat
          BY <2>3, <3>2
        <4>1. /\ attempts' \in {attempts, Recorded(attempts, call[p].kind, MetricTopics(p), 1)}
              /\ failures' \in {failures, Recorded(failures, call[p].kind, MetricTopics(p), Failed(p))}
          BY <2>7 DEF CountFirst
        <4>2. attempts \in Metric /\ failures \in Metric /\ 1 \in Nat
          BY DEF TypeOK
        <4>3. Recorded(attempts, call[p].kind, MetricTopics(p), 1) \in Metric
          BY <4>0, <4>2, RecordedUp
        <4>4. Recorded(failures, call[p].kind, MetricTopics(p), Failed(p)) \in Metric
          BY <4>0, <4>2, RecordedUp
        <4> QED BY <4>1, <4>2, <4>3, <4>4
      <3> QED BY <2>1, <2>2, <3>1, <3>3 DEF TypeOK
    <2>8. CASE CountSecond(p)
      <3>1. UNCHANGED <<returned, stored, broker>>
        BY <2>8 DEF CountSecond, subVars
      <3>2. call[p] \in CallRecord
        BY <2>8, CountSecondCall
      <3>3. attempts' \in Metric /\ failures' \in Metric
        <4>0. call[p].kind \in Paths /\ Failed(p) \in Nat
          BY <2>3, <3>2
        <4>1. /\ attempts' \in {attempts, Recorded(attempts, call[p].kind, MetricTopics(p), 1)}
              /\ failures' \in {failures, Recorded(failures, call[p].kind, MetricTopics(p), Failed(p))}
          BY <2>8 DEF CountSecond
        <4>2. attempts \in Metric /\ failures \in Metric /\ 1 \in Nat
          BY DEF TypeOK
        <4>3. Recorded(attempts, call[p].kind, MetricTopics(p), 1) \in Metric
          BY <4>0, <4>2, RecordedUp
        <4>4. Recorded(failures, call[p].kind, MetricTopics(p), Failed(p)) \in Metric
          BY <4>0, <4>2, RecordedUp
        <4> QED BY <4>1, <4>2, <4>3, <4>4
      <3>4. latencies' \in Metric /\ spans' \in Int
        <4>1. latencies' = Recorded(latencies, call[p].kind, MetricTopics(p), 1) /\ spans' = spans - 1
          BY <2>8 DEF CountSecond
        <4>2. latencies \in Metric /\ spans \in Int /\ call[p].kind \in Paths /\ 1 \in Nat
          BY <2>3, <3>2 DEF TypeOK
        <4> QED BY <4>1, <4>2, RecordedUp
      <3> QED BY <2>1, <2>2, <3>1, <3>3, <3>4 DEF TypeOK
    <2>9. CASE Return(p)
      <3>1. UNCHANGED <<attempts, failures, latencies, spans, broker>>
        BY <2>9 DEF Return, metricVars
      <3>2. call[p] \in CallRecord
        BY <2>9, ReturnCall
      <3>3. returned' \in Metric
        <4>1. returned' = Recorded(returned, call[p].kind, call[p].topics, 1)
          BY <2>9 DEF Return
        <4>2. returned \in Metric /\ call[p].kind \in Paths /\ 1 \in Nat
          BY <2>3, <3>2 DEF TypeOK
        <4> QED BY <4>1, <4>2, RecordedUp
      <3>4. \A t \in Topics : stored'[t] # None =>
              /\ stored'[t].opts \in OptionLists /\ stored'[t].asked \in OptionLists
              /\ stored'[t].depth \in Nat
        BY <2>3, <2>9, <3>2 DEF Return, RememberedDepth, RememberedOpts, TypeOK
      <3> QED BY <2>1, <2>2, <3>1, <3>3, <3>4 DEF TypeOK
    <2> QED BY <1>1, <2>4, <2>5, <2>6, <2>7, <2>8, <2>9 DEF CallNext
  <1>2. ASSUME NEW k \in Kinds, NEW m \in {"otel", "app"}, UseAppend(k, m) PROVE TypeOK'
    <2>1. m \in Mws /\ middlewares[k] \in Seq(Mws)
      BY DEF Mws, TypeOK
    <2>2. Append(middlewares[k], m) \in Seq(Mws) /\ <<>> \in Seq(Mws)
      BY <2>1
    <2>3. middlewares' \in [Kinds -> Seq(Mws)] /\ handler' \in [Kinds -> Seq(Mws)]
      BY <1>2, <2>2 DEF UseAppend, TypeOK
    <2>4. middlewares'[k] \in Seq(Mws) /\ Len(middlewares'[k]) = Len(middlewares[k]) + 1
      BY <1>2, <2>1 DEF UseAppend, TypeOK
    <2>5. /\ use' = [kind |-> k, left |-> Len(middlewares'[k])]
          /\ use' \in [kind : Kinds, left : Nat] /\ use'.left \in 1..Len(middlewares'[use'.kind])
      BY <1>2, <2>1, <2>4 DEF UseAppend
    <2> QED BY <1>2, <2>3, <2>5 DEF UseAppend, TypeOK, metricVars, subVars
  <1>3. CASE UseWrap
    <2> DEFINE k == use.kind
               m == middlewares[k][use.left]
    <2>1. use \in [kind : Kinds, left : Nat] /\ use # None /\ use.left \in 1..Len(middlewares[k])
      BY <1>3 DEF UseWrap, TypeOK
    <2>2. k \in Kinds /\ middlewares[k] \in Seq(Mws) /\ handler[k] \in Seq(Mws)
      BY <2>1 DEF TypeOK
    <2>3. m \in Mws
      BY <2>1, <2>2
    <2>4. <<m>> \o handler[k] \in Seq(Mws)
      BY <2>2, <2>3
    <2>5. handler' = [handler EXCEPT ![k] = <<m>> \o @]
      BY <1>3 DEF UseWrap, NextToWrap
    <2>6. handler' \in [Kinds -> Seq(Mws)]
      BY <2>2, <2>4, <2>5 DEF TypeOK
    <2>7. use' # None =>
            use' \in [kind : Kinds, left : Nat] /\ use'.left \in 1..Len(middlewares[use'.kind])
      <3>1. CASE use.left = 1
        BY <1>3, <3>1 DEF UseWrap
      <3>2. CASE use.left # 1
        <4>1. use' = [use EXCEPT !.left = use.left - 1]
          BY <1>3, <3>2 DEF UseWrap
        <4>2. use'.kind = k /\ use'.left = use.left - 1 /\ use' = [kind |-> k, left |-> use.left - 1]
          BY <2>1, <4>1
        <4>3. use.left - 1 \in Nat /\ use.left - 1 \in 1..Len(middlewares[k])
          BY <2>1, <2>2, <3>2
        <4> QED BY <2>2, <4>2, <4>3
      <3> QED BY <3>1, <3>2
    <2> QED BY <1>3, <2>6, <2>7 DEF UseWrap, TypeOK, metricVars, subVars
  <1>5. CASE Serve
    BY <1>5 DEF Serve, TypeOK, metricVars, subVars
  <1>6. ASSUME NEW t \in Topics, Message(t) PROVE TypeOK'
    <2>1. /\ broker[t].depth \in Nat /\ delivery' = [topic |-> t, depth |-> broker[t].depth]
          /\ attempts' = Recorded(attempts, "callback", {t}, broker[t].depth)
          /\ spans' = spans + broker[t].depth
          /\ UNCHANGED <<tracePaths, middlewares, handler, use, serving, call, failures,
                         latencies, returned, stored, broker>>
      BY <1>6 DEF Message, TypeOK, setupVars, subVars
    <2>2. attempts \in Metric /\ spans \in Int
      BY DEF TypeOK
    <2>3. attempts' \in Metric
      BY <1>k, <2>1, <2>2, RecordedUp
    <2>4. delivery' \in [topic : Topics, depth : Nat] /\ spans' \in Int
      BY <2>1, <2>2
    <2> QED BY <2>1, <2>3, <2>4 DEF TypeOK
  <1>7. CASE MessageHandled
    <2>1. /\ delivery' = None /\ delivery.depth \in Nat /\ spans' = spans - delivery.depth
          /\ latencies' = Recorded(latencies, "callback", {delivery.topic}, delivery.depth)
          /\ returned' = Recorded(returned, "callback", {delivery.topic}, 1)
          /\ UNCHANGED <<tracePaths, middlewares, handler, use, serving, call, attempts,
                         stored, broker>>
      BY <1>7 DEF MessageHandled, TypeOK, setupVars, subVars
    <2>2. failures \in Metric /\ latencies \in Metric /\ returned \in Metric /\ spans \in Int
          /\ 1 \in Nat
      BY DEF TypeOK
    <2>3. failures' \in Metric
      <3>1. PICK f \in {0, delivery.depth} :
                failures' = Recorded(failures, "callback", {delivery.topic}, f)
        BY <1>7 DEF MessageHandled
      <3>2. f \in Nat
        BY <2>1
      <3> QED BY <1>k, <2>2, <3>1, <3>2, RecordedUp
    <2>4. latencies' \in Metric
      BY <1>k, <2>1, <2>2, RecordedUp
    <2>5. returned' \in Metric
      BY <1>k, <2>1, <2>2, RecordedUp
    <2>6. spans' \in Int
      BY <2>1, <2>2
    <2> QED BY <2>1, <2>3, <2>4, <2>5, <2>6 DEF TypeOK
  <1>8. ASSUME NEW s \in Stoppers, StopNext(s) PROVE TypeOK'
    BY <1>8 DEF StopNext, StopCall, OTelCheck, OTelUnregister, RunEnds, TypeOK, setupVars,
                metricVars, subVars
  <1>9. CASE UNCHANGED vars
    BY <1>9 DEF vars, TypeOK, setupVars, metricVars, subVars
  <1> QED BY <1>1, <1>2, <1>3, <1>5, <1>6, <1>7, <1>8, <1>9 DEF Next

-----------------------------------------------------------------------------
(***************************************************************************)
(* Counting the callers in some state: a step moves one of them.           *)
(***************************************************************************)
LEMMA OneMoves ==
    ASSUME NEW S, NEW T, S \subseteq Callers, T \subseteq Callers, NEW p \in Callers,
           S \ {p} = T \ {p}
    PROVE  /\ Cardinality(S) \in Nat /\ Cardinality(T) \in Nat
           /\ Cardinality(T) = Cardinality(S) + (IF p \in T THEN 1 ELSE 0) - (IF p \in S THEN 1 ELSE 0)
  <1>1. IsFiniteSet(S) /\ IsFiniteSet(T)
    BY CallsAssumption, FS_Subset
  <1>2. Cardinality(S) \in Nat /\ Cardinality(T) \in Nat
    BY <1>1, FS_CardinalityType
  <1>3. CASE p \in S /\ p \in T
    <2>1. S = T
      BY <1>3
    <2> QED BY <1>2, <1>3, <2>1
  <1>4. CASE p \in S /\ p \notin T
    <2>1. T = S \ {p}
      BY <1>4
    <2>2. Cardinality(T) = Cardinality(S) - 1
      BY <1>1, <1>4, <2>1, FS_RemoveElement
    <2> QED BY <1>2, <1>4, <2>2
  <1>5. CASE p \notin S /\ p \in T
    <2>1. S = T \ {p}
      BY <1>5
    <2>2. Cardinality(S) = Cardinality(T) - 1
      BY <1>1, <1>5, <2>1, FS_RemoveElement
    <2> QED BY <1>2, <1>5, <2>2
  <1>6. CASE p \notin S /\ p \notin T
    <2>1. S = T
      BY <1>6
    <2> QED BY <1>2, <1>6, <2>1
  <1> QED BY <1>3, <1>4, <1>5, <1>6

(* A step of one caller changes who is between the two counters.           *)
IsCounted(c, k, t) == c.at = "counted" /\ c.kind = k /\ t \in c.topics
LEMMA CountedMoves ==
    ASSUME NEW p \in Callers, Others(p), NEW k \in Kinds, NEW t \in Topics
    PROVE  /\ Cardinality(Counted(k, t)) \in Nat /\ Cardinality(Counted(k, t)') \in Nat
           /\ Cardinality(Counted(k, t)') = Cardinality(Counted(k, t))
                + (IF IsCounted(call'[p], k, t) THEN 1 ELSE 0)
                - (IF IsCounted(call[p], k, t) THEN 1 ELSE 0)
  <1>1. Counted(k, t) \subseteq Callers /\ Counted(k, t)' \subseteq Callers
    BY DEF Counted
  <1>2. Counted(k, t) \ {p} = Counted(k, t)' \ {p}
    BY DEF Counted, Others
  <1>3. /\ p \in Counted(k, t) <=> IsCounted(call[p], k, t)
        /\ p \in Counted(k, t)' <=> IsCounted(call'[p], k, t)
    BY DEF Counted, IsCounted
  <1> DEFINE S == Counted(k, t)
             T == Counted(k, t)'
  <1> HIDE DEF S, T
  <1>4. /\ Cardinality(S) \in Nat /\ Cardinality(T) \in Nat
        /\ Cardinality(T) = Cardinality(S) + (IF p \in T THEN 1 ELSE 0) - (IF p \in S THEN 1 ELSE 0)
    BY <1>1, <1>2, OneMoves DEF S, T
  <1> QED BY <1>3, <1>4 DEF S, T

(* The steps that are not a caller's.                                      *)
LEMMA NotACaller ==
    ASSUME [Next]_vars, ~\E p \in Callers : CallNext(p), ~\E t \in Topics : Message(t),
           ~MessageHandled
    PROVE  UNCHANGED <<call, metricVars, returned, subVars, delivery>>
  <1>1. CASE \E k \in Kinds, m \in {"otel", "app"} : UseAppend(k, m)
    BY <1>1 DEF UseAppend
  <1>2. CASE UseWrap \/ Serve
    BY <1>2 DEF UseWrap, Serve
  <1>3. CASE \E s \in Stoppers : StopNext(s)
    BY <1>3 DEF StopNext, StopCall, OTelCheck, OTelUnregister, RunEnds
  <1>4. CASE UNCHANGED vars
    BY <1>4 DEF vars
  <1> QED BY <1>1, <1>2, <1>3, <1>4 DEF Next

(* What a caller's step may add to attempts and failures.                  *)
LEMMA FailMoves ==
    ASSUME TypeOK, TypeOK', FailOK, NEW p \in Callers, Others(p), UNCHANGED delivery,
           \A k \in Kinds \ {"publish"}, t \in Topics :
               failures'[k][t] + attempts[k][t] + (IF IsCounted(call'[p], k, t) THEN 1 ELSE 0)
                 <= failures[k][t] + attempts'[k][t] + (IF IsCounted(call[p], k, t) THEN 1 ELSE 0),
           \A t \in Topics : /\ failures'["callback"][t] = failures["callback"][t]
                             /\ attempts'["callback"][t] = attempts["callback"][t]
    PROVE  FailOK'
  <1>1. ASSUME NEW k \in Kinds \ {"publish"}, NEW t \in Topics
        PROVE  failures'[k][t] + Cardinality(Counted(k, t))' <= attempts'[k][t]
    <2> DEFINE new == IF IsCounted(call'[p], k, t) THEN 1 ELSE 0
               old == IF IsCounted(call[p], k, t) THEN 1 ELSE 0
    <2>1. k \in Paths
      BY DEF Paths
    <2>2. /\ failures[k][t] \in Nat /\ attempts[k][t] \in Nat
          /\ failures'[k][t] \in Nat /\ attempts'[k][t] \in Nat
      BY <2>1 DEF TypeOK, Metric
    <2>3. failures[k][t] + Cardinality(Counted(k, t)) <= attempts[k][t]
      BY DEF FailOK
    <2>4. failures'[k][t] + attempts[k][t] + new <= failures[k][t] + attempts'[k][t] + old
      OBVIOUS
    <2>5. /\ Cardinality(Counted(k, t)) \in Nat /\ Cardinality(Counted(k, t)') \in Nat
          /\ Cardinality(Counted(k, t)') = Cardinality(Counted(k, t)) + new - old
      BY CountedMoves
    <2>6. new \in Nat /\ old \in Nat
      OBVIOUS
    <2> HIDE DEF new, old
    <2> QED BY <2>2, <2>3, <2>4, <2>5, <2>6
  <1>2. \A t \in Topics : failures'["callback"][t] + DeliveryAt(t)' <= attempts'["callback"][t]
    BY DEF FailOK, DeliveryAt
  <1> QED BY <1>1, <1>2 DEF FailOK

(* Every step keeps failures and attempts in order.                        *)
LEMMA FailStep == TypeOK /\ TypeOK' /\ FailOK /\ [Next]_vars => FailOK'
  <1> SUFFICES ASSUME TypeOK, TypeOK', FailOK, [Next]_vars PROVE FailOK'
    OBVIOUS
  <1>k. Kinds \subseteq Paths /\ "callback" \in Paths /\ "callback" \notin Kinds
    BY DEF Paths, Kinds
  <1>m. /\ attempts \in Metric /\ failures \in Metric
        /\ \A k \in Paths, t \in Topics : attempts[k][t] \in Nat /\ failures[k][t] \in Nat
    BY DEF TypeOK, Metric
  <1>1. ASSUME NEW p \in Callers, CallNext(p) PROVE FailOK'
    <2>0. UNCHANGED delivery
      BY <1>1 DEF CallNext, Begin, Resume, Began, Enter, Encode, Base, Leave, CountFirst,
                  CountSecond, Return
    <2>1. ASSUME Others(p), call[p].at # "counted", call'[p].at # "counted",
                 UNCHANGED <<attempts, failures>>
          PROVE  FailOK'
      <3>1. \A k \in Kinds, t \in Topics : ~IsCounted(call[p], k, t) /\ ~IsCounted(call'[p], k, t)
        BY <2>1 DEF IsCounted
      <3>2. \A k \in Kinds, t \in Topics :
               failures'[k][t] + attempts[k][t] + (IF IsCounted(call'[p], k, t) THEN 1 ELSE 0)
                 <= failures[k][t] + attempts'[k][t] + (IF IsCounted(call[p], k, t) THEN 1 ELSE 0)
        BY <1>k, <1>m, <2>1, <3>1
      <3> QED BY <2>0, <2>1, <3>2, FailMoves
    <2>2. CASE Begin(p) \/ Resume(p)
      <3>1. Others(p) /\ call[p].at # "counted" /\ call'[p].at # "counted"
        BY <2>2, BeginCases, BeganCall, IdleFields
      <3>2. UNCHANGED <<attempts, failures>>
        BY <2>2 DEF Begin, Resume, Began, metricVars
      <3> QED BY <2>1, <3>1, <3>2
    <2>3. CASE Enter(p)
      BY <2>1, <2>3, EnterCall DEF Enter
    <2>4. CASE Encode(p) \/ Base(p)
      <3>1. UNCHANGED <<attempts, failures>>
        BY <2>4 DEF Encode, Base, metricVars
      <3> QED BY <2>1, <2>4, <3>1, TurnCall
    <2>5. CASE Leave(p)
      BY <2>1, <2>5, LeaveCall DEF Leave, metricVars
    <2>6. CASE Return(p)
      BY <2>1, <2>6, ReturnCall, IdleFields DEF Return, metricVars
    <2>7. CASE CountFirst(p)
      <3> DEFINE j == call[p].kind
                 T == call[p].topics
      <3>1. /\ Others(p) /\ call[p].at = "up" /\ call'[p].at = "counted" /\ call'[p].kind = j
            /\ call'[p].topics = T /\ call[p] \in CallRecord
        BY <2>7, CountFirstCall DEF Same
      <3>2. j \in Kinds /\ j \in Paths
        BY <1>k, <3>1 DEF CallRecord
      <3>3. Failed(p) \in Nat /\ 1 \in Nat
        BY DEF Failed
      <3>4. \/ j = "publish" /\ failures' = Recorded(failures, j, T, Failed(p)) /\ attempts' = attempts
            \/ j # "publish" /\ attempts' = Recorded(attempts, j, T, 1) /\ failures' = failures
        BY <2>7 DEF CountFirst, FailureFirst, MetricTopics
      <3>5. \A k \in Paths \ {"publish"}, t \in Topics :
                /\ failures'[k][t] = failures[k][t]
                /\ attempts'[k][t] = attempts[k][t] + IF k = j /\ t \in T THEN 1 ELSE 0
        <4>1. CASE j = "publish"
          <5>1. \A k \in Paths, t \in Topics : failures'[k][t]
                    = failures[k][t] + IF k = j /\ t \in T THEN Failed(p) ELSE 0
            BY <1>m, <3>2, <3>3, <3>4, <4>1, RecordedUp
          <5> QED BY <1>m, <3>4, <4>1, <5>1
        <4>2. CASE j # "publish"
          <5>1. \A k \in Paths, t \in Topics : attempts'[k][t]
                    = attempts[k][t] + IF k = j /\ t \in T THEN 1 ELSE 0
            BY <1>m, <3>2, <3>3, <3>4, <4>2, RecordedUp
          <5> QED BY <3>4, <4>2, <5>1
        <4> QED BY <4>1, <4>2
      <3>6. \A k \in Kinds, t \in Topics :
                ~IsCounted(call[p], k, t) /\ (IsCounted(call'[p], k, t) <=> k = j /\ t \in T)
        BY <3>1 DEF IsCounted
      <3> HIDE DEF j, T
      <3>7. \A k \in Kinds \ {"publish"}, t \in Topics :
               failures'[k][t] + attempts[k][t] + (IF IsCounted(call'[p], k, t) THEN 1 ELSE 0)
                 <= failures[k][t] + attempts'[k][t] + (IF IsCounted(call[p], k, t) THEN 1 ELSE 0)
        BY <1>k, <1>m, <3>5, <3>6
      <3>8. \A t \in Topics : /\ failures'["callback"][t] = failures["callback"][t]
                              /\ attempts'["callback"][t] = attempts["callback"][t]
        BY <1>k, <1>m, <3>2, <3>5
      <3> QED BY <2>0, <3>1, <3>7, <3>8, FailMoves
    <2>8. CASE CountSecond(p)
      <3> DEFINE j == call[p].kind
                 T == call[p].topics
      <3>1. /\ Others(p) /\ call[p].at = "counted" /\ call'[p].at = "up" /\ call'[p].kind = j
            /\ call'[p].topics = T /\ call[p] \in CallRecord
        BY <2>8, CountSecondCall DEF Same
      <3>2. j \in Kinds /\ j \in Paths
        BY <1>k, <3>1 DEF CallRecord
      <3>3. Failed(p) \in {0, 1} /\ Failed(p) \in Nat /\ 1 \in Nat
        BY DEF Failed
      <3>4. \/ j = "publish" /\ attempts' = Recorded(attempts, j, T, 1) /\ failures' = failures
            \/ j # "publish" /\ failures' = Recorded(failures, j, T, Failed(p)) /\ attempts' = attempts
        BY <2>8 DEF CountSecond, FailureFirst, MetricTopics
      <3>5. \A k \in Paths \ {"publish"}, t \in Topics :
                /\ attempts'[k][t] = attempts[k][t]
                /\ failures'[k][t] = failures[k][t] + IF k = j /\ t \in T THEN Failed(p) ELSE 0
        <4>1. CASE j = "publish"
          <5>1. \A k \in Paths, t \in Topics : attempts'[k][t]
                    = attempts[k][t] + IF k = j /\ t \in T THEN 1 ELSE 0
            BY <1>m, <3>2, <3>3, <3>4, <4>1, RecordedUp
          <5> QED BY <1>m, <3>4, <4>1, <5>1
        <4>2. CASE j # "publish"
          <5>1. \A k \in Paths, t \in Topics : failures'[k][t]
                    = failures[k][t] + IF k = j /\ t \in T THEN Failed(p) ELSE 0
            BY <1>m, <3>2, <3>3, <3>4, <4>2, RecordedUp
          <5> QED BY <3>4, <4>2, <5>1
        <4> QED BY <4>1, <4>2
      <3>6. \A k \in Kinds, t \in Topics :
                ~IsCounted(call'[p], k, t) /\ (IsCounted(call[p], k, t) <=> k = j /\ t \in T)
        BY <3>1 DEF IsCounted
      <3> HIDE DEF j, T
      <3>7. \A k \in Kinds \ {"publish"}, t \in Topics :
               failures'[k][t] + attempts[k][t] + (IF IsCounted(call'[p], k, t) THEN 1 ELSE 0)
                 <= failures[k][t] + attempts'[k][t] + (IF IsCounted(call[p], k, t) THEN 1 ELSE 0)
        BY <1>k, <1>m, <3>3, <3>5, <3>6
      <3>8. \A t \in Topics : /\ failures'["callback"][t] = failures["callback"][t]
                              /\ attempts'["callback"][t] = attempts["callback"][t]
        BY <1>k, <1>m, <3>2, <3>5
      <3> QED BY <2>0, <3>1, <3>7, <3>8, FailMoves
    <2> QED BY <1>1, <2>2, <2>3, <2>4, <2>5, <2>6, <2>7, <2>8 DEF CallNext
  <1>u. ASSUME UNCHANGED call PROVE \A k \in Kinds, t \in Topics : Counted(k, t)' = Counted(k, t)
    BY <1>u DEF Counted
  <1>2. ASSUME NEW u \in Topics, Message(u) PROVE FailOK'
    <2> DEFINE d == broker[u].depth
    <2>1. /\ delivery = None /\ delivery' = [topic |-> u, depth |-> d] /\ d \in Nat
          /\ attempts' = Recorded(attempts, "callback", {u}, d) /\ UNCHANGED <<call, failures>>
      BY <1>2 DEF Message, TypeOK
    <2> HIDE DEF d
    <2>2. delivery' \in [topic : Topics, depth : Nat]
      BY <2>1
    <2>3. \A t \in Topics : DeliveryAt(t) = 0 /\ DeliveryAt(t)' = IF t = u THEN d ELSE 0
      BY <2>1, <2>2, CallsAssumption DEF DeliveryAt
    <2>4. \A k \in Paths, t \in Topics : attempts'[k][t]
              = attempts[k][t] + IF k = "callback" /\ t \in {u} THEN d ELSE 0
      BY <1>k, <1>m, <2>1, RecordedUp
    <2>5. ASSUME NEW t \in Topics
          PROVE  failures'["callback"][t] + DeliveryAt(t)' <= attempts'["callback"][t]
      <3>1. failures["callback"][t] + 0 <= attempts["callback"][t]
        BY <2>3 DEF FailOK
      <3>2. attempts'["callback"][t] = attempts["callback"][t] + IF t = u THEN d ELSE 0
        BY <1>k, <2>4
      <3>3. failures["callback"][t] \in Nat /\ attempts["callback"][t] \in Nat
        BY <1>k, <1>m
      <3>4. /\ DeliveryAt(t)' = IF t = u THEN d ELSE 0
            /\ failures'["callback"][t] = failures["callback"][t]
        BY <2>1, <2>3
      <3> QED BY <2>1, <3>1, <3>2, <3>3, <3>4
    <2>6. \A k \in Kinds, t \in Topics : attempts'[k][t] = attempts[k][t]
      BY <1>k, <1>m, <2>4
    <2> QED BY <1>u, <2>1, <2>5, <2>6 DEF FailOK
  <1>3. CASE MessageHandled
    <2> DEFINE d == delivery.depth
               u == delivery.topic
    <2>1. /\ delivery # None /\ delivery' = None /\ d \in Nat /\ UNCHANGED <<call, attempts>>
      BY <1>3 DEF MessageHandled, TypeOK
    <2>2. \A t \in Topics : DeliveryAt(t) = (IF t = u THEN d ELSE 0) /\ DeliveryAt(t)' = 0
      BY <2>1 DEF DeliveryAt
    <2>3. PICK f \in {0, d} : failures' = Recorded(failures, "callback", {u}, f)
      BY <1>3 DEF MessageHandled
    <2> HIDE DEF d, u
    <2>4. f \in Nat /\ f <= d
      BY <2>1
    <2>5. \A k \in Paths, t \in Topics : failures'[k][t]
              = failures[k][t] + IF k = "callback" /\ t \in {u} THEN f ELSE 0
      BY <1>k, <1>m, <2>3, <2>4, RecordedUp
    <2>6. ASSUME NEW t \in Topics
          PROVE  failures'["callback"][t] + DeliveryAt(t)' <= attempts'["callback"][t]
      <3>1. failures["callback"][t] + (IF t = u THEN d ELSE 0) <= attempts["callback"][t]
        BY <2>2 DEF FailOK
      <3> QED BY <1>k, <1>m, <2>1, <2>2, <2>4, <2>5, <3>1
    <2>7. \A k \in Kinds, t \in Topics : failures'[k][t] = failures[k][t]
      BY <1>k, <1>m, <2>5
    <2> QED BY <1>u, <2>1, <2>6, <2>7 DEF FailOK
  <1>4. CASE ~(\E p \in Callers : CallNext(p)) /\ ~(\E t \in Topics : Message(t)) /\ ~MessageHandled
    BY <1>4, NotACaller DEF FailOK, Counted, DeliveryAt, metricVars
  <1> QED BY <1>1, <1>2, <1>3, <1>4

(* Failures do not get ahead of attempts, calls under way included.        *)
LEMMA FailInvariance == Spec => [](TypeOK /\ FailOK)
  <1>1. Init => FailOK
    <2> SUFFICES ASSUME Init PROVE FailOK
      OBVIOUS
    <2>1. \A k \in Kinds, t \in Topics : Counted(k, t) = {}
      BY IdleFields DEF Init, Counted
    <2>2. Cardinality({}) = 0
      BY FS_EmptySet
    <2>3. \A k \in Paths, t \in Topics : failures[k][t] = 0 /\ attempts[k][t] = 0
      BY DEF Init
    <2>4. (\A t \in Topics : DeliveryAt(t) = 0) /\ Kinds \subseteq Paths /\ "callback" \in Paths
      BY DEF Init, DeliveryAt, Paths
    <2>5. \A k \in Kinds \ {"publish"}, t \in Topics :
              failures[k][t] + Cardinality(Counted(k, t)) <= attempts[k][t]
      <3> TAKE k \in Kinds \ {"publish"}, t \in Topics
      <3>1. Cardinality(Counted(k, t)) = 0
        BY <2>1, <2>2
      <3>2. failures[k][t] = 0 /\ attempts[k][t] = 0
        BY <2>3, <2>4
      <3> QED BY <3>1, <3>2
    <2> QED BY <2>3, <2>4, <2>5 DEF FailOK
  <1>2. TypeOK /\ FailOK /\ [Next]_vars => (TypeOK /\ FailOK)'
    BY TypeStep, FailStep
  <1> QED BY <1>1, <1>2, TypeInit, PTL DEF Spec

(* Whenever the metrics are read, no more failures than attempts are       *)
(* reported for any topic of subscribe, unsubscribe and the callback, for  *)
(* any number of callers, topics and messages and also while middlewares   *)
(* are being added.                                                        *)
THEOREM FailuresWithinAttemptsAlways == Spec => []FailuresWithinAttempts
  <1>1. TypeOK /\ FailOK => FailuresWithinAttempts
    <2> SUFFICES ASSUME TypeOK, FailOK, NEW k \in Paths, k # "publish", NEW t \in Topics
                 PROVE  failures[k][t] <= attempts[k][t]
      BY DEF FailuresWithinAttempts
    <2>1. failures[k][t] \in Nat /\ attempts[k][t] \in Nat
      BY DEF TypeOK, Metric
    <2>2. CASE k \in Kinds
      <3>1. Counted(k, t) \subseteq Callers
        BY DEF Counted
      <3>2. Cardinality(Counted(k, t)) \in Nat
        BY <3>1, CallsAssumption, FS_Subset, FS_CardinalityType
      <3> QED BY <2>1, <2>2, <3>2 DEF FailOK
    <2>3. CASE k = "callback"
      <3>1. DeliveryAt(t) \in Nat
        BY DEF DeliveryAt, TypeOK
      <3> QED BY <2>1, <2>3, <3>1 DEF FailOK
    <2> QED BY <2>2, <2>3 DEF Paths
  <1> QED BY <1>1, FailInvariance, PTL

-----------------------------------------------------------------------------
(***************************************************************************)
(* The chains, when they are composed in the setup.                        *)
(***************************************************************************)
LEMMA AppendSeq ==
    ASSUME NEW s \in Seq(Mws), NEW m \in Mws, \A i \in DOMAIN s : s[i] # m, Once(s)
    PROVE  /\ Once(Append(s, m)) /\ Len(Append(s, m)) = Len(s) + 1
           /\ Traced(Append(s, m)) => Traced(s) \/ m = "otel"
  <1> DEFINE t == Append(s, m)
  <1>1. /\ Len(t) = Len(s) + 1 /\ t[Len(s) + 1] = m /\ \A i \in 1..Len(s) : t[i] = s[i]
        /\ Len(s) \in Nat /\ DOMAIN s = 1..Len(s)
    OBVIOUS
  <1> HIDE DEF t
  <1>2. Traced(t) => Traced(s) \/ m = "otel"
    BY <1>1 DEF Traced
  <1>3. ASSUME NEW i \in 1..Len(t), NEW j \in 1..Len(t), t[i] = "otel", t[j] = "otel"
        PROVE  i = j
    <2>1. CASE m = "otel"
      BY <1>1, <1>3, <2>1
    <2>2. CASE m # "otel"
      <3>1. i \in 1..Len(s) /\ j \in 1..Len(s)
        BY <1>1, <1>3, <2>2
      <3>2. s[i] = "otel" /\ s[j] = "otel"
        BY <1>1, <1>3, <3>1
      <3> QED BY <3>1, <3>2 DEF Once
    <2> QED BY <2>1, <2>2
  <1> QED BY <1>1, <1>2, <1>3 DEF t, Once

(* UseWrap puts one more middleware in front of the handler.               *)
LEMMA WrapSeq ==
    ASSUME NEW s \in Seq(Mws), NEW h \in Seq(Mws), NEW n \in 1..Len(s), ComposedOf(h, s, n)
    PROVE  ComposedOf(<<s[n]>> \o h, s, n - 1)
  <1> DEFINE g == <<s[n]>> \o h
             L == Len(s)
             c == n - 1
  <1>1. s[n] \in Mws /\ L \in Nat /\ Len(h) \in Nat /\ n \in 1..L /\ c \in Nat /\ n = c + 1
    OBVIOUS
  <1>2. /\ Len(g) = 1 + Len(h) /\ g[1] = s[n]
        /\ \A i \in 2..(1 + Len(h)) : g[i] = h[i - 1]
    BY <1>1
  <1>3. Len(h) = L - n /\ \A i \in 1..(L - n) : h[i] = s[n + i]
    BY DEF ComposedOf
  <1> HIDE DEF g, L, c
  <1>4. Len(g) = L - c
    BY <1>1, <1>2, <1>3
  <1>5. ASSUME NEW i \in 1..(L - c) PROVE g[i] = s[c + i]
    <2>1. CASE i = 1
      BY <1>1, <1>2, <2>1
    <2>2. CASE i # 1
      <3>1. i \in 2..(1 + Len(h)) /\ i - 1 \in 1..(L - n) /\ n + (i - 1) = c + i
        BY <1>1, <1>3, <2>2
      <3> QED BY <1>2, <1>3, <3>1
    <2> QED BY <2>1, <2>2
  <1> QED BY <1>4, <1>5 DEF ComposedOf, g, L, c

(* Every step keeps the chains composed, if they are set up first.         *)
LEMMA SetupStep ==
    ASSUME ~UseWhileServing, TypeOK, SetupOK, [Next]_vars
    PROVE  SetupOK'
  <1>1. ASSUME UNCHANGED <<tracePaths, middlewares, handler, use, serving>> PROVE SetupOK'
    BY <1>1 DEF SetupOK, Composed
  <1>2. ASSUME NEW k \in Kinds, NEW m \in Mws, UseAppend(k, m) PROVE SetupOK'
    <2>1. /\ use = None /\ ~serving /\ UNCHANGED <<tracePaths, serving>>
          /\ m = "otel" => k \in tracePaths
          /\ \A i \in DOMAIN middlewares[k] : middlewares[k][i] # m
      BY <1>2 DEF UseAppend
    <2>2. middlewares[k] \in Seq(Mws) /\ Once(middlewares[k])
      BY DEF TypeOK, SetupOK
    <2> DEFINE s == Append(middlewares[k], m)
    <2>3. /\ Once(s) /\ (Traced(s) => Traced(middlewares[k]) \/ m = "otel")
          /\ Len(s) = Len(middlewares[k]) + 1
      BY <2>1, <2>2, AppendSeq
    <2>4. /\ middlewares'[k] = s /\ handler'[k] = <<>>
          /\ \A j \in Kinds : j # k => middlewares'[j] = middlewares[j] /\ handler'[j] = handler[j]
      BY <1>2 DEF UseAppend, TypeOK
    <2>5. use' = [kind |-> k, left |-> Len(s)] /\ Len(s) \in Nat
      BY <1>2, <2>2, <2>3, <2>4 DEF UseAppend
    <2> HIDE DEF s
    <2>6. use'.kind = k /\ use'.left = Len(s)
      BY <2>5
    <2>7. Composed(use.kind, use.left)'
      <3>1. Len(<<>>) = 0 /\ Len(s) - Len(s) = 0 /\ 1..0 = {}
        BY <2>5
      <3>2. ComposedOf(<<>>, s, Len(s))
        BY <3>1 DEF ComposedOf
      <3> QED BY <2>4, <2>6, <3>2 DEF Composed
    <2>8. use' # None
      <3>1. use' \in [kind : Kinds, left : Nat]
        BY <2>5
      <3> QED BY <3>1, CallsAssumption
    <2>9. \A j \in Kinds : (use = None \/ use.kind # j)' => Composed(j, 0)'
      BY <2>1, <2>4, <2>6, <2>8 DEF SetupOK, Composed
    <2>10. \A j \in Kinds : Once(middlewares[j])'
      BY <2>3, <2>4 DEF SetupOK
    <2>11. \A j \in Kinds : Traced(middlewares[j])' => j \in tracePaths'
      BY <2>1, <2>3, <2>4 DEF SetupOK
    <2> QED BY <2>1, <2>7, <2>9, <2>10, <2>11 DEF SetupOK
  <1>3. CASE UseWrap
    <2>0. PICK k \in Kinds, n \in Nat : use = [kind |-> k, left |-> n]
      BY <1>3 DEF UseWrap, TypeOK
    <2> DEFINE m == middlewares[k][n]
    <2>1. /\ use # None /\ use.kind = k /\ use.left = n /\ n \in 1..Len(middlewares[k])
          /\ UNCHANGED <<tracePaths, middlewares, serving>>
      BY <1>3, <2>0 DEF UseWrap, TypeOK
    <2>2. middlewares[k] \in Seq(Mws) /\ handler[k] \in Seq(Mws)
      BY DEF TypeOK
    <2>3. handler' = [handler EXCEPT ![k] = <<m>> \o @]
      BY <1>3, <2>1 DEF UseWrap, NextToWrap
    <2>4. /\ handler'[k] = <<m>> \o handler[k]
          /\ \A j \in Kinds : j # k => handler'[j] = handler[j]
      BY <2>3 DEF TypeOK
    <2>6. use' = IF n = 1 THEN None ELSE [kind |-> k, left |-> n - 1]
      BY <1>3, <2>0, <2>1 DEF UseWrap
    <2>7. ComposedOf(handler[k], middlewares[k], n)
      BY <2>1 DEF SetupOK, Composed
    <2>8. Composed(k, n - 1)'
      <3>1. handler'[k] = <<m>> \o handler[k] /\ middlewares'[k] = middlewares[k]
        BY <2>1, <2>4
      <3>2. ComposedOf(<<m>> \o handler[k], middlewares[k], n - 1)
        BY <2>1, <2>2, <2>7, WrapSeq
      <3> QED BY <3>1, <3>2 DEF Composed
    <2>9. ~serving'
      BY <2>1 DEF SetupOK
    <2>10. \A j \in Kinds : Once(middlewares[j])' /\ (Traced(middlewares[j])' => j \in tracePaths')
      BY <2>1 DEF SetupOK
    <2>11. \A j \in Kinds : j # k => Composed(j, 0)'
      BY <2>1, <2>4 DEF SetupOK, Composed
    <2>12. CASE n = 1
      <3>1. use' = None /\ n - 1 = 0
        BY <2>6, <2>12
      <3>2. Composed(k, 0)'
        BY <2>8, <3>1
      <3> QED BY <2>9, <2>10, <2>11, <3>1, <3>2 DEF SetupOK
    <2>13. CASE n # 1
      <3>1. use'.kind = k /\ use'.left = n - 1
        BY <2>6, <2>13
      <3>2. n - 1 \in Nat /\ use' \in [kind : Kinds, left : Nat]
        BY <2>1, <2>2, <2>6, <2>13
      <3>3. use' # None
        BY <3>2, CallsAssumption
      <3>4. Composed(use.kind, use.left)'
        BY <2>8, <3>1 DEF Composed
      <3> QED BY <2>9, <2>10, <2>11, <3>1, <3>3, <3>4 DEF SetupOK
    <2> QED BY <2>12, <2>13
  <1>4. CASE Serve
    <2>1. /\ use = None /\ UNCHANGED <<tracePaths, middlewares, handler, use>>
          /\ \A k \in Kinds : k \in tracePaths => Instrumented(k)
      BY <1>4 DEF Serve
    <2>2. \A k \in Kinds : DOMAIN middlewares[k] = 1..Len(middlewares[k])
      BY DEF TypeOK
    <2>3. \A k \in Kinds : k \in tracePaths => Traced(middlewares[k])
      BY <2>1, <2>2 DEF Instrumented, Traced
    <2> QED BY <2>1, <2>3 DEF SetupOK, Composed
  <1>5. ASSUME NEW p \in Callers, CallNext(p) PROVE SetupOK'
    BY <1>1, <1>5, CallTyped DEF setupVars
  <1>6. CASE (\E t \in Topics : Message(t)) \/ MessageHandled \/ UNCHANGED vars
    BY <1>1, <1>6 DEF Message, MessageHandled, vars, setupVars
  <1>7. ASSUME NEW s \in Stoppers, StopNext(s) PROVE SetupOK'
    BY <1>1, <1>7 DEF StopNext, StopCall, OTelCheck, OTelUnregister, RunEnds, setupVars
  <1> QED BY <1>2, <1>3, <1>4, <1>5, <1>6, <1>7 DEF Next, Mws

-----------------------------------------------------------------------------
(***************************************************************************)
(* The way of a call through its chain.                                    *)
(***************************************************************************)
LEMMA PathTyped ==
    ASSUME TypeOK, SetupOK, PathOK, NEW p \in Callers, call[p] \in CallRecord
    PROVE  /\ OnPath(p) /\ serving /\ call[p].kind \in Kinds
           /\ call[p].due = middlewares[call[p].kind]
           /\ call[p].due \in Seq(Mws) /\ call[p].up \in Seq(Mws) /\ call[p].down \in Seq(Mws)
           /\ Begins(call[p].up, call[p].due) /\ Once(call[p].due)
           /\ Traced(call[p].due) <=> call[p].kind \in tracePaths
  <1>1. OnPath(p)
    BY UnderWay DEF PathOK
  <1>2. /\ call[p].kind \in Kinds /\ call[p].due \in Seq(Mws) /\ call[p].up \in Seq(Mws)
        /\ call[p].down \in Seq(Mws)
    BY DEF CallRecord
  <1>3. serving /\ call[p].due = middlewares[call[p].kind] /\ Begins(call[p].up, call[p].due)
    BY <1>1 DEF OnPath
  <1>4. Once(middlewares[call[p].kind])
        /\ (Traced(middlewares[call[p].kind]) <=> call[p].kind \in tracePaths)
    BY <1>2, <1>3 DEF SetupOK
  <1> QED BY <1>1, <1>2, <1>3, <1>4

(* Every step keeps calls on the path of the middlewares due.              *)
LEMMA PathStep ==
    ASSUME ~UseWhileServing, TypeOK, SetupOK, PathOK, [Next]_vars
    PROVE  PathOK'
  <1>1. ASSUME NEW p \in Callers, CallNext(p) PROVE PathOK'
    <2>1. UNCHANGED <<middlewares, serving>>
      BY <1>1, CallTyped DEF setupVars
    <2>2. ASSUME Others(p), call'[p] = Idle \/ OnPath(p)' PROVE PathOK'
      BY <2>1, <2>2 DEF PathOK, OnPath, Others
    <2>3. CASE Begin(p) \/ Resume(p)
      <3>1. PICK k \in Kinds, T \in SUBSET Topics, multi \in BOOLEAN, opts \in OptionLists,
                 asked \in OptionLists, depth \in Nat, resumes \in BOOLEAN :
                Began(p, k, T, multi, opts, asked, depth, resumes)
        BY <2>3, BeginCases
      <3>2. /\ Others(p) /\ serving
            /\ call'[p].kind = k /\ call'[p].at = "down" /\ call'[p].down = handler[k]
            /\ call'[p].up = <<>> /\ call'[p].due = middlewares[k]
        BY <3>1, BeganCall
      <3>3. Composed(k, 0) /\ handler[k] \in Seq(Mws) /\ middlewares[k] \in Seq(Mws)
        BY <3>2 DEF SetupOK, TypeOK
      <3>4. Begins(<<>>, middlewares[k]) /\ Completes(handler[k], <<>>, middlewares[k])
        <4> DEFINE h == handler[k]
                   s == middlewares[k]
        <4>1. h \in Seq(Mws) /\ s \in Seq(Mws) /\ ComposedOf(h, s, 0)
          BY <3>3 DEF Composed
        <4> HIDE DEF h, s
        <4>2. Len(<<>>) = 0 /\ Len(s) \in Nat /\ Len(h) \in Nat
          BY <4>1
        <4>3. Len(h) = Len(s) /\ \A i \in 1..Len(s) : h[i] = s[0 + i]
          BY <4>1, <4>2 DEF ComposedOf
        <4>4. Completes(h, <<>>, s)
          BY <4>2, <4>3 DEF Completes
        <4>5. Begins(<<>>, s)
          BY <4>2 DEF Begins
        <4> QED BY <4>4, <4>5 DEF h, s
      <3>5. OnPath(p)'
        BY <2>1, <3>2, <3>4 DEF OnPath
      <3> QED BY <2>2, <3>2, <3>5
    <2>4. CASE Enter(p)
      <3>1. /\ Others(p) /\ Same(p) /\ call[p] \in CallRecord
            /\ call[p].at = "down" /\ call'[p].at = "down" /\ call[p].down # <<>>
            /\ call'[p].down = Tail(call[p].down)
            /\ call'[p].up = Append(call[p].up, Head(call[p].down))
        BY <2>4, EnterCall
      <3>2. Completes(call[p].down, call[p].up, call[p].due)
        BY <3>1, PathTyped DEF OnPath
      <3>3. Begins(call'[p].up, call[p].due) /\ Completes(call'[p].down, call'[p].up, call[p].due)
        BY <3>1, <3>2, PathTyped, EnterSeq
      <3>4. OnPath(p)'
        BY <2>1, <3>1, <3>3, PathTyped DEF OnPath, Same
      <3> QED BY <2>2, <3>1, <3>4
    <2>5. CASE Encode(p) \/ Base(p)
      <3>1. /\ Others(p) /\ Same(p) /\ call[p] \in CallRecord
            /\ call'[p].at = "up" /\ call'[p].up = call[p].up
        BY <2>5, TurnCall
      <3>2. OnPath(p)'
        BY <2>1, <3>1, PathTyped DEF OnPath, Same
      <3> QED BY <2>2, <3>1, <3>2
    <2>6. CASE Leave(p) \/ CountSecond(p)
      <3>1. /\ Others(p) /\ Same(p) /\ call[p] \in CallRecord
            /\ call'[p].at = "up" /\ call'[p].up = Front(call[p].up) /\ call[p].up # <<>>
        BY <2>6, LeaveCall, CountSecondCall DEF TypeOK
      <3>2. Begins(call'[p].up, call[p].due)
        BY <3>1, PathTyped, LeaveSeq
      <3>3. OnPath(p)'
        BY <2>1, <3>1, <3>2, PathTyped DEF OnPath, Same
      <3> QED BY <2>2, <3>1, <3>3
    <2>7. CASE CountFirst(p)
      <3>1. /\ Others(p) /\ Same(p) /\ call[p] \in CallRecord
            /\ call'[p].at = "counted" /\ call'[p].up = call[p].up /\ Last(call[p].up) = "otel"
        BY <2>7, CountFirstCall
      <3>2. OnPath(p)'
        BY <2>1, <3>1, PathTyped DEF OnPath, Same
      <3> QED BY <2>2, <3>1, <3>2
    <2>8. CASE Return(p)
      BY <2>2, <2>8, ReturnCall
    <2> QED BY <1>1, <2>3, <2>4, <2>5, <2>6, <2>7, <2>8 DEF CallNext
  <1>2. ASSUME UNCHANGED <<call, middlewares, serving>> PROVE PathOK'
    BY <1>2 DEF PathOK, OnPath
  <1>3. ASSUME UNCHANGED call, ~serving PROVE PathOK'
    BY <1>3 DEF PathOK, OnPath
  <1>4. ASSUME NEW k \in Kinds, NEW m \in {"otel", "app"}, UseAppend(k, m) PROVE PathOK'
    BY <1>3, <1>4 DEF UseAppend
  <1>5. CASE UseWrap \/ (\E t \in Topics : Message(t)) \/ MessageHandled \/ UNCHANGED vars
    BY <1>2, <1>5 DEF UseWrap, Message, MessageHandled, vars, setupVars
  <1>6. CASE Serve
    BY <1>3, <1>6 DEF Serve
  <1>7. ASSUME NEW s \in Stoppers, StopNext(s) PROVE PathOK'
    BY <1>2, <1>7 DEF StopNext, StopCall, OTelCheck, OTelUnregister, RunEnds, setupVars
  <1> QED BY <1>1, <1>4, <1>5, <1>6, <1>7 DEF Next

-----------------------------------------------------------------------------
(***************************************************************************)
(* The instrumentation of callbacks.                                       *)
(***************************************************************************)
(* What is to be traced is fixed by New.                                   *)
LEMMA TraceStep == ASSUME TypeOK, [Next]_vars PROVE UNCHANGED tracePaths
  <1>1. ASSUME NEW p \in Callers, CallNext(p) PROVE UNCHANGED tracePaths
    BY <1>1, CallTyped DEF setupVars
  <1>2. ASSUME NEW s \in Stoppers, StopNext(s) PROVE UNCHANGED tracePaths
    BY <1>2 DEF StopNext, StopCall, OTelCheck, OTelUnregister, RunEnds, setupVars
  <1>3. CASE (\E k \in Kinds, m \in {"otel", "app"} : UseAppend(k, m)) \/ UseWrap \/ Serve
             \/ (\E t \in Topics : Message(t)) \/ MessageHandled \/ UNCHANGED vars
    BY <1>3 DEF UseAppend, UseWrap, Serve, Message, MessageHandled,
                vars, setupVars
  <1> QED BY <1>1, <1>2, <1>3 DEF Next

(* Every step keeps the callbacks instrumented at most once.               *)
LEMMA DepthStep ==
    ASSUME ~UseWhileServing, TypeOK, SetupOK, PathOK, DepthOK, [Next]_vars
    PROVE  DepthOK'
  <1>0. UNCHANGED tracePaths
    BY TraceStep
  <1>1. ASSUME NEW p \in Callers, CallNext(p) PROVE DepthOK'
    <2>1. ASSUME Others(p), DepthAt(p)' PROVE \A q \in Callers : DepthAt(q)'
      BY <1>0, <2>1 DEF DepthOK, DepthAt, Others
    <2>2. ASSUME Others(p), DepthAt(p)', UNCHANGED <<stored, broker>> PROVE DepthOK'
      BY <1>0, <2>1, <2>2 DEF DepthOK, InstrumentedOnce
    <2>3. CASE Begin(p) \/ Resume(p)
      <3>1. PICK k \in Kinds, T \in SUBSET Topics, multi \in BOOLEAN, opts \in OptionLists,
                 asked \in OptionLists, depth \in Nat, resumes \in BOOLEAN :
                /\ Began(p, k, T, multi, opts, asked, depth, resumes)
                /\ AsGiven(opts, asked, depth)
        BY <2>3, BeginCases
      <3>2. Others(p) /\ call'[p].up = <<>> /\ call'[p].depth = depth
        BY <3>1, BeganCall
      <3>3. depth = 0
        BY <3>1 DEF DepthOK, AsGiven
      <3>4. ~Traced(<<>>)
        BY DEF Traced
      <3>5. DepthAt(p)'
        BY <3>2, <3>3, <3>4 DEF DepthAt
      <3>6. UNCHANGED <<stored, broker>>
        BY <3>1 DEF Began, subVars
      <3> QED BY <2>2, <3>2, <3>5, <3>6
    <2>4. CASE Enter(p)
      <3> DEFINE m == Head(call[p].down)
      <3>1. /\ Others(p) /\ Same(p) /\ call[p] \in CallRecord /\ call[p].at = "down"
            /\ call[p].down # <<>> /\ call'[p].up = Append(call[p].up, m)
            /\ call'[p].depth = IF m = "otel" /\ call[p].kind = "subscribe"
                                THEN CallbackDepth(call[p].depth) ELSE call[p].depth
        BY <2>4, EnterCall
      <3>2. Completes(call[p].down, call[p].up, call[p].due)
        BY <3>1, PathTyped DEF OnPath
      <3>3. /\ Traced(call'[p].up) <=> Traced(call[p].up) \/ m = "otel"
            /\ m = "otel" => ~Traced(call[p].up)
        BY <3>1, <3>2, PathTyped, EnterSeq
      <3> HIDE DEF m
      <3>4. DepthAt(p)'
        <4> SUFFICES ASSUME call[p].kind = "subscribe"
                     PROVE  call'[p].depth =
                                IF Traced(call'[p].up) /\ "callback" \in tracePaths THEN 1 ELSE 0
          BY <1>0, <3>1 DEF DepthAt, Same
        <4>1. call[p].depth = IF Traced(call[p].up) /\ "callback" \in tracePaths THEN 1 ELSE 0
          BY <3>1 DEF DepthOK, DepthAt
        <4>2. CASE m = "otel"
          BY <3>1, <3>3, <4>1, <4>2 DEF CallbackDepth
        <4>3. CASE m # "otel"
          BY <3>1, <3>3, <4>1, <4>3
        <4> QED BY <4>2, <4>3
      <3>5. UNCHANGED <<stored, broker>>
        BY <2>4 DEF Enter, subVars
      <3> QED BY <2>2, <3>1, <3>4, <3>5
    <2>5. CASE Base(p)
      <3>1. /\ Others(p) /\ call[p] \in CallRecord /\ call[p].at = "down" /\ call[p].down = <<>>
            /\ call'[p].at = "up"
        BY <2>5, TurnCall
      <3>2. call[p].up = call[p].due
        <4>1. Completes(<<>>, call[p].up, call[p].due)
          BY <3>1, PathTyped DEF OnPath
        <4> QED BY <3>1, <4>1, PathTyped, PathSeq
      <3>3. /\ UNCHANGED stored
            /\ \A t \in Topics : broker'[t] # None =>
                \/ broker'[t] = broker[t]
                \/ call[p].kind = "subscribe" /\ broker'[t].depth = call[p].depth
        BY <2>5, <3>1 DEF Base, CallRecord, Kinds
      <3>4. ASSUME call[p].kind = "subscribe"
            PROVE  call[p].depth = IF {"subscribe", "callback"} \subseteq tracePaths THEN 1 ELSE 0
        <4>1. Traced(call[p].up) <=> "subscribe" \in tracePaths
          BY <3>1, <3>2, <3>4, PathTyped
        <4>2. call[p].depth = IF Traced(call[p].up) /\ "callback" \in tracePaths THEN 1 ELSE 0
          BY <3>1, <3>4 DEF DepthOK, DepthAt
        <4> QED BY <4>1, <4>2
      <3>5. InstrumentedOnce'
        <4> SUFFICES ASSUME NEW t \in Topics, broker'[t] # None
                     PROVE  broker'[t].depth =
                                IF {"subscribe", "callback"} \subseteq tracePaths THEN 1 ELSE 0
          BY <1>0 DEF InstrumentedOnce
        <4>1. CASE broker'[t] = broker[t]
          BY <4>1 DEF DepthOK, InstrumentedOnce
        <4>2. CASE broker'[t] # broker[t]
          BY <3>3, <3>4, <4>2
        <4> QED BY <4>1, <4>2
      <3>6. DepthAt(p)'
        BY <3>1 DEF DepthAt
      <3> QED BY <2>1, <3>1, <3>3, <3>5, <3>6 DEF DepthOK
    <2>6. CASE Return(p)
      <3>1. Others(p) /\ call'[p] = Idle
        BY <2>6, ReturnCall
      <3>2. DepthAt(p)'
        BY <3>1, IdleFields DEF DepthAt
      <3>3. UNCHANGED broker /\ \A t \in Topics : stored'[t] # None => stored'[t].depth = 0
        BY <2>6 DEF Return, RememberedDepth, DepthOK
      <3>4. InstrumentedOnce'
        BY <1>0, <3>3 DEF DepthOK, InstrumentedOnce
      <3> QED BY <2>1, <3>1, <3>2, <3>3, <3>4 DEF DepthOK
    <2>7. CASE Encode(p) \/ Leave(p) \/ CountFirst(p) \/ CountSecond(p)
      <3>1. Others(p) /\ call'[p].at # "down"
        BY <2>7, TurnCall, LeaveCall, CountFirstCall, CountSecondCall
      <3>2. UNCHANGED <<stored, broker>>
        BY <2>7 DEF Encode, Leave, CountFirst, CountSecond, subVars
      <3>3. DepthAt(p)'
        BY <3>1 DEF DepthAt
      <3> QED BY <2>2, <3>1, <3>2, <3>3
    <2> QED BY <1>1, <2>3, <2>4, <2>5, <2>6, <2>7 DEF CallNext
  <1>2. ASSUME UNCHANGED <<call, stored, broker>> PROVE DepthOK'
    BY <1>0, <1>2 DEF DepthOK, DepthAt, InstrumentedOnce
  <1>3. CASE (\E t \in Topics : Message(t)) \/ MessageHandled
    BY <1>2, <1>3 DEF Message, MessageHandled, subVars
  <1>4. CASE ~(\E p \in Callers : CallNext(p)) /\ ~(\E t \in Topics : Message(t)) /\ ~MessageHandled
    BY <1>2, <1>4, NotACaller DEF subVars
  <1> QED BY <1>1, <1>3, <1>4

(* Every step keeps the options of the subscriptions.                      *)
LEMMA QoSStep ==
    ASSUME ~UseWhileServing, TypeOK, SetupOK, PathOK, QoSOK, [Next]_vars
    PROVE  QoSOK'
  <1>0. UNCHANGED tracePaths
    BY TraceStep
  <1>1. ASSUME NEW p \in Callers, CallNext(p) PROVE QoSOK'
    <2>1. ASSUME Others(p), QoSAt(p)' PROVE \A q \in Callers : QoSAt(q)'
      BY <2>1 DEF QoSOK, QoSAt, Others
    <2>2. ASSUME Others(p), QoSAt(p)', UNCHANGED <<stored, broker>> PROVE QoSOK'
      BY <1>0, <2>1, <2>2 DEF QoSOK, KeepsQoS
    <2>3. CASE Begin(p) \/ Resume(p)
      <3>1. PICK k \in Kinds, T \in SUBSET Topics, multi \in BOOLEAN, opts \in OptionLists,
                 asked \in OptionLists, depth \in Nat, resumes \in BOOLEAN :
                /\ Began(p, k, T, multi, opts, asked, depth, resumes)
                /\ AsGiven(opts, asked, depth)
        BY <2>3, BeginCases
      <3>2. Others(p) /\ call'[p].opts = opts /\ call'[p].asked = asked
        BY <3>1, BeganCall
      <3>3. opts = asked
        BY <3>1 DEF QoSOK, AsGiven
      <3>4. QoSAt(p)'
        BY <3>2, <3>3 DEF QoSAt
      <3>5. UNCHANGED <<stored, broker>>
        BY <3>1 DEF Began, subVars
      <3> QED BY <2>2, <3>2, <3>4, <3>5
    <2>4. CASE Enter(p)
      <3> DEFINE m == Head(call[p].down)
      <3>1. /\ Others(p) /\ Same(p) /\ call[p] \in CallRecord /\ call[p].at = "down"
            /\ call[p].down # <<>> /\ call'[p].up = Append(call[p].up, m)
            /\ call'[p].opts = IF m = "otel" /\ call[p].kind = "subscribe" /\ ~call[p].multi
                               THEN <<>> ELSE call[p].opts
        BY <2>4, EnterCall
      <3>2. Completes(call[p].down, call[p].up, call[p].due)
        BY <3>1, PathTyped DEF OnPath
      <3>3. Traced(call'[p].up) <=> Traced(call[p].up) \/ m = "otel"
        BY <3>1, <3>2, PathTyped, EnterSeq
      <3> HIDE DEF m
      <3>4. QoSAt(p)'
        <4> SUFFICES ASSUME call[p].kind = "subscribe", call[p].multi \/ ~Traced(call'[p].up)
                     PROVE  call'[p].opts = call[p].asked
          BY <3>1 DEF QoSAt, Same
        <4>1. call[p].multi \/ (~Traced(call[p].up) /\ m # "otel")
          BY <3>3
        <4>2. call[p].opts = call[p].asked
          BY <3>1, <4>1 DEF QoSOK, QoSAt
        <4> QED BY <3>1, <4>1, <4>2
      <3>5. UNCHANGED <<stored, broker>>
        BY <2>4 DEF Enter, subVars
      <3> QED BY <2>2, <3>1, <3>4, <3>5
    <2>5. CASE Base(p)
      <3>1. /\ Others(p) /\ call[p] \in CallRecord /\ call[p].at = "down" /\ call[p].down = <<>>
            /\ call'[p].at = "up"
        BY <2>5, TurnCall
      <3>2. call[p].up = call[p].due
        <4>1. Completes(<<>>, call[p].up, call[p].due)
          BY <3>1, PathTyped DEF OnPath
        <4> QED BY <3>1, <4>1, PathTyped, PathSeq
      <3>3. /\ UNCHANGED stored
            /\ \A t \in Topics : broker'[t] # None =>
                \/ broker'[t] = broker[t]
                \/ /\ call[p].kind = "subscribe" /\ broker'[t].multi = call[p].multi
                   /\ broker'[t].qos = composeOptions(call[p].opts).qos
                   /\ broker'[t].asked = composeOptions(call[p].asked).qos
        BY <2>5, <3>1 DEF Base, CallRecord, Kinds
      <3>4. ASSUME call[p].kind = "subscribe", call[p].multi \/ "subscribe" \notin tracePaths
            PROVE  call[p].opts = call[p].asked
        <4>1. Traced(call[p].up) <=> "subscribe" \in tracePaths
          BY <3>1, <3>2, <3>4, PathTyped
        <4> QED BY <3>1, <3>4, <4>1 DEF QoSOK, QoSAt
      <3>5. KeepsQoS'
        <4> SUFFICES ASSUME NEW t \in Topics, broker'[t] # None,
                            broker'[t].multi \/ "subscribe" \notin tracePaths
                     PROVE  broker'[t].qos = broker'[t].asked
          BY <1>0 DEF KeepsQoS
        <4>1. CASE broker'[t] = broker[t]
          BY <4>1 DEF QoSOK, KeepsQoS
        <4>2. CASE broker'[t] # broker[t]
          <5>1. /\ call[p].kind = "subscribe" /\ broker'[t].multi = call[p].multi
                /\ broker'[t].qos = composeOptions(call[p].opts).qos
                /\ broker'[t].asked = composeOptions(call[p].asked).qos
            BY <3>3, <4>2
          <5>2. call[p].opts = call[p].asked
            BY <3>4, <5>1
          <5> QED BY <5>1, <5>2
        <4> QED BY <4>1, <4>2
      <3>6. QoSAt(p)'
        BY <3>1 DEF QoSAt
      <3> QED BY <2>1, <3>1, <3>3, <3>5, <3>6 DEF QoSOK
    <2>6. CASE Return(p)
      <3>1. Others(p) /\ call'[p] = Idle
        BY <2>6, ReturnCall
      <3>2. QoSAt(p)'
        BY <3>1, IdleFields DEF QoSAt
      <3>3. /\ UNCHANGED broker
            /\ \A t \in Topics : stored'[t] # None => stored'[t].opts = stored'[t].asked
        BY <2>6 DEF Return, RememberedOpts, QoSOK
      <3>4. KeepsQoS'
        BY <1>0, <3>3 DEF QoSOK, KeepsQoS
      <3> QED BY <2>1, <3>1, <3>2, <3>3, <3>4 DEF QoSOK
    <2>7. CASE Encode(p) \/ Leave(p) \/ CountFirst(p) \/ CountSecond(p)
      <3>1. Others(p) /\ call'[p].at # "down"
        BY <2>7, TurnCall, LeaveCall, CountFirstCall, CountSecondCall
      <3>2. UNCHANGED <<stored, broker>>
        BY <2>7 DEF Encode, Leave, CountFirst, CountSecond, subVars
      <3>3. QoSAt(p)'
        BY <3>1 DEF QoSAt
      <3> QED BY <2>2, <3>1, <3>2, <3>3
    <2> QED BY <1>1, <2>3, <2>4, <2>5, <2>6, <2>7 DEF CallNext
  <1>2. ASSUME UNCHANGED <<call, stored, broker>> PROVE QoSOK'
    BY <1>0, <1>2 DEF QoSOK, QoSAt, KeepsQoS
  <1>3. CASE (\E t \in Topics : Message(t)) \/ MessageHandled
    BY <1>2, <1>3 DEF Message, MessageHandled, subVars
  <1>4. CASE ~(\E p \in Callers : CallNext(p)) /\ ~(\E t \in Topics : Message(t)) /\ ~MessageHandled
    BY <1>2, <1>4, NotACaller DEF subVars
  <1> QED BY <1>1, <1>3, <1>4

-----------------------------------------------------------------------------
(***************************************************************************)
(* The balance of the metrics.                                             *)
(***************************************************************************)
One(b) == IF b THEN 1 ELSE 0

(* What p has to add to the metrics if it moves.                           *)
LEMMA BalanceMoves ==
    ASSUME TypeOK, TypeOK', BalanceOK, NEW p \in Callers, Others(p),
           UNCHANGED <<tracePaths, delivery>>,
           \A k \in Kinds, t \in Topics : k \in tracePaths =>
               /\ attempts'[k][t] + One(p \in Attempted(k, t)) + returned[k][t]
                    = attempts[k][t] + One(p \in Attempted(k, t)') + returned'[k][t]
               /\ latencies'[k][t] + One(p \in Timed(k, t)) + returned[k][t]
                    = latencies[k][t] + One(p \in Timed(k, t)') + returned'[k][t],
           \A k \in Kinds, t \in Topics : k \notin tracePaths =>
               attempts'[k][t] = attempts[k][t] /\ latencies'[k][t] = latencies[k][t],
           spans' + One(p \in Spanned) = spans + One(p \in Spanned')
    PROVE  BalanceOK'
  <1>0. DeliveryDepth' = DeliveryDepth /\ DeliveryDepth \in Nat
    BY DEF DeliveryDepth, TypeOK
  <1>1. ASSUME NEW S, NEW T, S \subseteq Callers, T \subseteq Callers, S \ {p} = T \ {p}
        PROVE  /\ Cardinality(S) \in Nat /\ Cardinality(T) \in Nat
               /\ Cardinality(T) + One(p \in S) = Cardinality(S) + One(p \in T)
    BY <1>1, OneMoves DEF One
  <1>2. spans' = Cardinality(Spanned)' + DeliveryDepth'
    <2> DEFINE S == Spanned
               T == Spanned'
    <2>1. S \subseteq Callers /\ T \subseteq Callers /\ S \ {p} = T \ {p}
      BY DEF Spanned, Others
    <2>2. spans = Cardinality(S) + DeliveryDepth /\ spans \in Int /\ spans' \in Int
      BY DEF BalanceOK, TypeOK
    <2>3. spans' + One(p \in S) = spans + One(p \in T)
      OBVIOUS
    <2> HIDE DEF S, T
    <2>4. /\ Cardinality(S) \in Nat /\ Cardinality(T) \in Nat
          /\ Cardinality(T) + One(p \in S) = Cardinality(S) + One(p \in T)
      BY <1>1, <2>1
    <2>5. One(p \in S) \in Nat /\ One(p \in T) \in Nat
      BY DEF One
    <2>6. spans' = Cardinality(T) + DeliveryDepth
      BY <1>0, <2>2, <2>3, <2>4, <2>5
    <2> QED BY <1>0, <2>6 DEF T
  <1>3. ASSUME NEW k \in Kinds, NEW t \in Topics
        PROVE  /\ attempts'[k][t] = IF k \in tracePaths
                                    THEN returned'[k][t] + Cardinality(Attempted(k, t))' ELSE 0
               /\ latencies'[k][t] = IF k \in tracePaths
                                     THEN returned'[k][t] + Cardinality(Timed(k, t))' ELSE 0
    <2>0. k \in Paths
      BY DEF Paths
    <2>1. CASE k \notin tracePaths
      BY <2>1 DEF BalanceOK
    <2>2. CASE k \in tracePaths
      <3>1. /\ attempts[k][t] \in Nat /\ latencies[k][t] \in Nat /\ returned[k][t] \in Nat
            /\ attempts'[k][t] \in Nat /\ latencies'[k][t] \in Nat /\ returned'[k][t] \in Nat
        BY <2>0 DEF TypeOK, Metric
      <3>2. attempts'[k][t] = returned'[k][t] + Cardinality(Attempted(k, t))'
        <4> DEFINE S == Attempted(k, t)
                   T == Attempted(k, t)'
        <4>1. S \subseteq Callers /\ T \subseteq Callers /\ S \ {p} = T \ {p}
          BY DEF Attempted, Timed, Counted, Others
        <4>2. attempts[k][t] = returned[k][t] + Cardinality(S)
          BY <2>2 DEF BalanceOK
        <4>3. attempts'[k][t] + One(p \in S) + returned[k][t]
                = attempts[k][t] + One(p \in T) + returned'[k][t]
          BY <2>2
        <4> HIDE DEF S, T
        <4>4. /\ Cardinality(S) \in Nat /\ Cardinality(T) \in Nat
              /\ Cardinality(T) + One(p \in S) = Cardinality(S) + One(p \in T)
          BY <1>1, <4>1
        <4>5. One(p \in S) \in Nat /\ One(p \in T) \in Nat
          BY DEF One
        <4>6. attempts'[k][t] = returned'[k][t] + Cardinality(T)
          BY <3>1, <4>2, <4>3, <4>4, <4>5
        <4> QED BY <4>6 DEF T
      <3>3. latencies'[k][t] = returned'[k][t] + Cardinality(Timed(k, t))'
        <4> DEFINE S == Timed(k, t)
                   T == Timed(k, t)'
        <4>1. S \subseteq Callers /\ T \subseteq Callers /\ S \ {p} = T \ {p}
          BY DEF Timed, Others
        <4>2. latencies[k][t] = returned[k][t] + Cardinality(S)
          BY <2>2 DEF BalanceOK
        <4>3. latencies'[k][t] + One(p \in S) + returned[k][t]
                = latencies[k][t] + One(p \in T) + returned'[k][t]
          BY <2>2
        <4> HIDE DEF S, T
        <4>4. /\ Cardinality(S) \in Nat /\ Cardinality(T) \in Nat
              /\ Cardinality(T) + One(p \in S) = Cardinality(S) + One(p \in T)
          BY <1>1, <4>1
        <4>5. One(p \in S) \in Nat /\ One(p \in T) \in Nat
          BY DEF One
        <4>6. latencies'[k][t] = returned'[k][t] + Cardinality(T)
          BY <3>1, <4>2, <4>3, <4>4, <4>5
        <4> QED BY <4>6 DEF T
      <3> QED BY <2>2, <3>2, <3>3
    <2> QED BY <2>1, <2>2
  <1> QED BY <1>2, <1>3 DEF BalanceOK

(* Which sets the state of a caller puts it in.                            *)
LEMMA Members ==
    ASSUME NEW p \in Callers, NEW k, NEW t
    PROVE  /\ p \in Timed(k, t) <=> call[p].at = "up" /\ call[p].kind = k
                                        /\ t \in call[p].topics /\ ~Traced(call[p].up)
           /\ p \in Timed(k, t)' <=> call'[p].at = "up" /\ call'[p].kind = k
                                        /\ t \in call'[p].topics /\ ~Traced(call'[p].up)
           /\ p \in Attempted(k, t) <=>
                \/ p \in Timed(k, t)
                \/ IsCounted(call[p], k, t) /\ ~FailureFirst(k)
           /\ p \in Attempted(k, t)' <=>
                \/ p \in Timed(k, t)'
                \/ IsCounted(call'[p], k, t) /\ ~FailureFirst(k)
           /\ p \in Spanned <=> call[p] # Idle /\ Traced(call[p].up)
           /\ p \in Spanned' <=> call'[p] # Idle /\ Traced(call'[p].up)
  <1>1. FailureFirst(k)' = FailureFirst(k)
    BY DEF FailureFirst
  <1> QED BY <1>1 DEF Timed, Attempted, Counted, IsCounted, Spanned

(* Every step keeps the metrics in balance with the calls.                 *)
LEMMA BalanceStep ==
    ASSUME TypeOK, TypeOK', SetupOK, PathOK, BalanceOK, [Next]_vars
    PROVE  BalanceOK'
  <1>k. Kinds \subseteq Paths /\ "callback" \in Paths /\ "callback" \notin Kinds
    BY DEF Paths, Kinds
  <1>n. \A k \in Kinds, t \in Topics :
            attempts[k][t] \in Nat /\ latencies[k][t] \in Nat /\ returned[k][t] \in Nat
    BY <1>k DEF TypeOK, Metric
  <1>1. ASSUME NEW p \in Callers, CallNext(p) PROVE BalanceOK'
    <2>0. UNCHANGED <<tracePaths, delivery>>
      <3>1. UNCHANGED delivery
        BY <1>1 DEF CallNext, Begin, Resume, Began, Enter, Encode, Base, Leave, CountFirst,
                    CountSecond, Return
      <3> QED BY <1>1, <3>1, CallTyped DEF setupVars
    <2>1. ASSUME Others(p), UNCHANGED <<attempts, latencies, returned>>,
                 \A k \in Kinds, t \in Topics : k \in tracePaths =>
                     /\ p \in Attempted(k, t) <=> p \in Attempted(k, t)'
                     /\ p \in Timed(k, t) <=> p \in Timed(k, t)',
                 spans' + One(p \in Spanned) = spans + One(p \in Spanned')
          PROVE  BalanceOK'
      <3>1. \A k \in Kinds, t \in Topics : k \in tracePaths =>
               /\ attempts'[k][t] + One(p \in Attempted(k, t)) + returned[k][t]
                    = attempts[k][t] + One(p \in Attempted(k, t)') + returned'[k][t]
               /\ latencies'[k][t] + One(p \in Timed(k, t)) + returned[k][t]
                    = latencies[k][t] + One(p \in Timed(k, t)') + returned'[k][t]
        BY <2>1 DEF One
      <3> QED BY <2>0, <2>1, <3>1, BalanceMoves
    <2>2. CASE Begin(p) \/ Resume(p)
      <3>1. /\ Others(p) /\ call[p] = Idle /\ call'[p].at = "down" /\ call'[p].up = <<>>
        BY <2>2, BeginCases, BeganCall
      <3>2. ~Traced(<<>>) /\ Idle.at = "idle"
        BY IdleFields DEF Traced
      <3>3. \A k \in Kinds, t \in Topics :
                /\ p \notin Attempted(k, t) /\ p \notin Attempted(k, t)'
                /\ p \notin Timed(k, t) /\ p \notin Timed(k, t)'
        BY <3>1, <3>2, Members DEF IsCounted
      <3>4. p \notin Spanned /\ p \notin Spanned'
        BY <3>1, <3>2, Members DEF IsCounted
      <3>5. UNCHANGED <<attempts, latencies, spans, returned>>
        BY <2>2 DEF Begin, Resume, Began, metricVars
      <3> QED BY <2>1, <3>1, <3>3, <3>4, <3>5 DEF One
    <2>3. CASE Enter(p)
      <3> DEFINE m == Head(call[p].down)
      <3>1. /\ Others(p) /\ call[p] \in CallRecord /\ call'[p] \in CallRecord
            /\ call[p].at = "down" /\ call'[p].at = "down"
            /\ call[p].down # <<>> /\ call'[p].up = Append(call[p].up, m)
        BY <2>3, EnterCall
      <3>2. Completes(call[p].down, call[p].up, call[p].due)
        BY <3>1, PathTyped DEF OnPath
      <3>3. /\ Traced(call'[p].up) <=> Traced(call[p].up) \/ m = "otel"
            /\ m = "otel" => ~Traced(call[p].up)
        BY <3>1, <3>2, PathTyped, EnterSeq
      <3>4. /\ spans' = IF m = "otel" THEN spans + 1 ELSE spans
            /\ UNCHANGED <<attempts, latencies, returned>>
        BY <2>3 DEF Enter
      <3>5. call[p] # Idle /\ call'[p] # Idle /\ spans \in Int
        BY <3>1, IdleFields DEF TypeOK
      <3> HIDE DEF m
      <3>6. spans' + One(p \in Spanned) = spans + One(p \in Spanned')
        <4>1. (p \in Spanned <=> Traced(call[p].up)) /\ (p \in Spanned' <=> Traced(call'[p].up))
          BY <3>5, Members DEF IsCounted
        <4>2. CASE m = "otel"
          <5>1. p \notin Spanned /\ p \in Spanned'
            BY <3>3, <4>1, <4>2
          <5> QED BY <3>4, <3>5, <4>2, <5>1 DEF One
        <4>3. CASE m # "otel"
          <5>1. p \in Spanned <=> p \in Spanned'
            BY <3>3, <4>1, <4>3
          <5> QED BY <3>4, <3>5, <4>3, <5>1 DEF One
        <4> QED BY <4>2, <4>3
      <3>7. \A k \in Kinds, t \in Topics :
                /\ p \notin Attempted(k, t) /\ p \notin Attempted(k, t)'
                /\ p \notin Timed(k, t) /\ p \notin Timed(k, t)'
        BY <3>1, Members DEF IsCounted
      <3> QED BY <2>1, <3>1, <3>4, <3>6, <3>7
    <2>4. CASE Encode(p) \/ Base(p)
      <3>1. /\ Others(p) /\ Same(p) /\ call[p] \in CallRecord /\ call'[p] \in CallRecord
            /\ call[p].at = "down" /\ call[p].down = <<>>
            /\ call'[p].at = "up" /\ call'[p].up = call[p].up
        BY <2>4, TurnCall
      <3>2. call[p].up = call[p].due
        <4>1. Completes(<<>>, call[p].up, call[p].due)
          BY <3>1, PathTyped DEF OnPath
        <4> QED BY <3>1, <4>1, PathTyped, PathSeq
      <3>3. Traced(call[p].up) <=> call[p].kind \in tracePaths
        BY <3>1, <3>2, PathTyped
      <3>4. \A k \in Kinds, t \in Topics : k \in tracePaths =>
                /\ p \notin Attempted(k, t) /\ p \notin Attempted(k, t)'
                /\ p \notin Timed(k, t) /\ p \notin Timed(k, t)'
        BY <3>1, <3>3, Members DEF Same, IsCounted
      <3>5. p \in Spanned <=> p \in Spanned'
        BY <3>1, Members, IdleFields
      <3>6. UNCHANGED <<attempts, latencies, spans, returned>>
        BY <2>4 DEF Encode, Base, metricVars
      <3> QED BY <2>1, <3>1, <3>4, <3>5, <3>6 DEF One
    <2>5. CASE Leave(p)
      <3>1. /\ Others(p) /\ Same(p) /\ call[p] \in CallRecord /\ call'[p] \in CallRecord
            /\ call[p].at = "up" /\ call'[p].at = "up" /\ call[p].up # <<>>
            /\ Last(call[p].up) # "otel" /\ call'[p].up = Front(call[p].up)
        BY <2>5, LeaveCall
      <3>2. Traced(call'[p].up) <=> Traced(call[p].up)
        BY <3>1, PathTyped, LeaveSeq
      <3>3. \A k \in Kinds, t \in Topics :
                /\ p \in Timed(k, t) <=> p \in Timed(k, t)'
                /\ p \in Attempted(k, t) <=> p \in Attempted(k, t)'
        BY <3>1, <3>2, Members DEF Same, IsCounted
      <3>4. p \in Spanned <=> p \in Spanned'
        BY <3>1, <3>2, Members, IdleFields
      <3>5. UNCHANGED <<attempts, latencies, spans, returned>>
        BY <2>5 DEF Leave, metricVars
      <3>6. spans' + One(p \in Spanned) = spans + One(p \in Spanned')
        BY <3>4, <3>5 DEF One
      <3>7. \A k \in Kinds, t \in Topics : k \in tracePaths =>
                /\ p \in Attempted(k, t) <=> p \in Attempted(k, t)'
                /\ p \in Timed(k, t) <=> p \in Timed(k, t)'
        BY Zenon, <3>3
      <3>8. UNCHANGED <<attempts, latencies, returned>>
        BY <3>5
      <3> QED BY <2>1, <3>1, <3>6, <3>7, <3>8
    <2>6. CASE CountFirst(p)
      <3>1. /\ Others(p) /\ Same(p) /\ call[p] \in CallRecord /\ call'[p] \in CallRecord
            /\ call[p].at = "up" /\ call'[p].at = "counted" /\ call[p].up # <<>>
            /\ Last(call[p].up) = "otel" /\ call'[p].up = call[p].up
        BY <2>6, CountFirstCall
      <3>2. PICK j \in Kinds, T \in SUBSET Topics :
                /\ call[p].kind = j /\ call'[p].kind = j
                /\ call[p].topics = T /\ call'[p].topics = T
        BY <3>1, PathTyped DEF Same, CallRecord
      <3>3. Traced(call[p].up)
        BY <3>1, PathTyped, LeaveSeq
      <3>4. j \in tracePaths
        BY <3>1, <3>2, <3>3, PathTyped, PathSeq
      <3>5. \A k \in Kinds, t \in Topics :
                p \notin Timed(k, t) /\ p \notin Timed(k, t)' /\ p \notin Attempted(k, t)
        BY <3>1, <3>3, Members DEF IsCounted
      <3>6. \A k \in Kinds, t \in Topics :
                p \in Attempted(k, t)' <=> k = j /\ t \in T /\ ~FailureFirst(j)
        BY <3>1, <3>2, <3>5, Members DEF IsCounted
      <3>7. p \in Spanned <=> p \in Spanned'
        BY <3>1, Members, IdleFields
      <3>8. UNCHANGED <<latencies, spans, returned>>
        BY <2>6 DEF CountFirst
      <3>9. \A k \in Kinds, t \in Topics :
                attempts'[k][t] = attempts[k][t] + One(k = j /\ t \in T /\ ~FailureFirst(j))
        <4>1. CASE FailureFirst(j)
          BY <1>n, <2>6, <3>2, <4>1 DEF CountFirst, One
        <4>2. CASE ~FailureFirst(j)
          <5>1. attempts' = Recorded(attempts, j, T, 1) /\ attempts \in Metric /\ 1 \in Nat
            BY <2>6, <3>2, <4>2 DEF CountFirst, MetricTopics, TypeOK
          <5>2. \A k \in Paths, t \in Topics :
                    attempts'[k][t] = attempts[k][t] + IF k = j /\ t \in T THEN 1 ELSE 0
            BY <1>k, <5>1, RecordedUp
          <5> QED BY <1>k, <1>n, <4>2, <5>2 DEF One
        <4> QED BY <4>1, <4>2
      <3>10. \A k \in Kinds, t \in Topics :
               /\ attempts'[k][t] + One(p \in Attempted(k, t)) + returned[k][t]
                    = attempts[k][t] + One(p \in Attempted(k, t)') + returned'[k][t]
               /\ latencies'[k][t] + One(p \in Timed(k, t)) + returned[k][t]
                    = latencies[k][t] + One(p \in Timed(k, t)') + returned'[k][t]
        BY <1>n, <3>5, <3>6, <3>8, <3>9 DEF One
      <3>11. \A k \in Kinds, t \in Topics : k \notin tracePaths =>
                attempts'[k][t] = attempts[k][t] /\ latencies'[k][t] = latencies[k][t]
        BY <1>n, <3>4, <3>8, <3>9 DEF One
      <3> QED BY <2>0, <3>1, <3>7, <3>8, <3>10, <3>11, BalanceMoves DEF One
    <2>7. CASE CountSecond(p)
      <3>1. /\ Others(p) /\ Same(p) /\ call[p] \in CallRecord /\ call'[p] \in CallRecord
            /\ call[p].at = "counted" /\ call'[p].at = "up" /\ call[p].up # <<>>
            /\ call'[p].up = Front(call[p].up)
        BY <2>7, CountSecondCall DEF TypeOK
      <3>2. PICK j \in Kinds, T \in SUBSET Topics :
                /\ call[p].kind = j /\ call'[p].kind = j
                /\ call[p].topics = T /\ call'[p].topics = T
        BY <3>1, PathTyped DEF Same, CallRecord
      <3>3. Last(call[p].up) = "otel"
        BY <3>1, PathTyped DEF OnPath
      <3>4. Traced(call[p].up) /\ ~Traced(call'[p].up)
        BY <3>1, <3>3, PathTyped, LeaveSeq
      <3>5. j \in tracePaths
        BY <3>1, <3>2, <3>4, PathTyped, PathSeq
      <3>6. \A k \in Kinds, t \in Topics :
                p \notin Timed(k, t) /\ (p \in Timed(k, t)' <=> k = j /\ t \in T)
        BY <3>1, <3>2, <3>4, Members DEF IsCounted
      <3>7. \A k \in Kinds, t \in Topics :
                /\ p \in Attempted(k, t) <=> k = j /\ t \in T /\ ~FailureFirst(j)
                /\ p \in Attempted(k, t)' <=> k = j /\ t \in T
        BY <3>1, <3>2, <3>6, Members DEF IsCounted
      <3>8. p \in Spanned /\ p \notin Spanned'
        BY <3>1, <3>4, Members, IdleFields
      <3>9. /\ spans' = spans - 1 /\ UNCHANGED returned
            /\ latencies' = Recorded(latencies, j, T, 1)
        BY <2>7, <3>2 DEF CountSecond, MetricTopics
      <3>10. \A k \in Kinds, t \in Topics :
                latencies'[k][t] = latencies[k][t] + One(k = j /\ t \in T)
        <4>1. latencies \in Metric /\ 1 \in Nat
          BY DEF TypeOK
        <4>2. \A k \in Paths, t \in Topics :
                  latencies'[k][t] = latencies[k][t] + IF k = j /\ t \in T THEN 1 ELSE 0
          BY <1>k, <3>9, <4>1, RecordedUp
        <4> QED BY <1>k, <1>n, <4>2 DEF One
      <3>11. \A k \in Kinds, t \in Topics :
                attempts'[k][t] = attempts[k][t] + One(k = j /\ t \in T /\ FailureFirst(j))
        <4>1. CASE ~FailureFirst(j)
          BY <1>n, <2>7, <3>2, <4>1 DEF CountSecond, One
        <4>2. CASE FailureFirst(j)
          <5>1. attempts' = Recorded(attempts, j, T, 1) /\ attempts \in Metric /\ 1 \in Nat
            BY <2>7, <3>2, <4>2 DEF CountSecond, MetricTopics, TypeOK
          <5>2. \A k \in Paths, t \in Topics :
                    attempts'[k][t] = attempts[k][t] + IF k = j /\ t \in T THEN 1 ELSE 0
            BY <1>k, <5>1, RecordedUp
          <5> QED BY <1>k, <1>n, <4>2, <5>2 DEF One
        <4> QED BY <4>1, <4>2
      <3>12. \A k \in Kinds, t \in Topics :
               /\ attempts'[k][t] + One(p \in Attempted(k, t)) + returned[k][t]
                    = attempts[k][t] + One(p \in Attempted(k, t)') + returned'[k][t]
               /\ latencies'[k][t] + One(p \in Timed(k, t)) + returned[k][t]
                    = latencies[k][t] + One(p \in Timed(k, t)') + returned'[k][t]
        <4> TAKE k \in Kinds, t \in Topics
        <4>1. attempts[k][t] \in Nat /\ latencies[k][t] \in Nat /\ returned[k][t] \in Nat
          BY <1>n
        <4>2. /\ attempts'[k][t] = attempts[k][t] + One(k = j /\ t \in T /\ FailureFirst(j))
              /\ latencies'[k][t] = latencies[k][t] + One(k = j /\ t \in T)
              /\ returned'[k][t] = returned[k][t]
          BY <3>9, <3>10, <3>11
        <4>3. /\ p \notin Timed(k, t) /\ (p \in Timed(k, t)' <=> k = j /\ t \in T)
              /\ p \in Attempted(k, t)' <=> k = j /\ t \in T
              /\ p \in Attempted(k, t) <=> k = j /\ t \in T /\ ~FailureFirst(j)
          BY <3>6, <3>7
        <4>4. CASE ~(k = j /\ t \in T)
          BY <4>1, <4>2, <4>3, <4>4 DEF One
        <4>5. CASE k = j /\ t \in T /\ FailureFirst(j)
          BY <4>1, <4>2, <4>3, <4>5 DEF One
        <4>6. CASE k = j /\ t \in T /\ ~FailureFirst(j)
          BY <4>1, <4>2, <4>3, <4>6 DEF One
        <4> QED BY <4>4, <4>5, <4>6
      <3>13. \A k \in Kinds, t \in Topics : k \notin tracePaths =>
                attempts'[k][t] = attempts[k][t] /\ latencies'[k][t] = latencies[k][t]
        BY <1>n, <3>5, <3>10, <3>11 DEF One
      <3>14. spans' + One(p \in Spanned) = spans + One(p \in Spanned')
        BY <3>8, <3>9 DEF One, TypeOK
      <3> QED BY <2>0, <3>1, <3>12, <3>13, <3>14, BalanceMoves
    <2>8. CASE Return(p)
      <3>1. Others(p) /\ call[p] \in CallRecord /\ call'[p] = Idle /\ call[p].at = "up" /\ call[p].up = <<>>
        BY <2>8, ReturnCall
      <3>2. PICK j \in Kinds, T \in SUBSET Topics : call[p].kind = j /\ call[p].topics = T
        BY <3>1, PathTyped DEF CallRecord
      <3>3. ~Traced(<<>>) /\ Idle.at = "idle"
        BY IdleFields DEF Traced
      <3>4. \A k \in Kinds, t \in Topics :
                /\ p \in Timed(k, t) <=> k = j /\ t \in T
                /\ p \in Attempted(k, t) <=> k = j /\ t \in T
                /\ p \notin Timed(k, t)' /\ p \notin Attempted(k, t)'
        BY <3>1, <3>2, <3>3, Members DEF IsCounted
      <3>5. p \notin Spanned /\ p \notin Spanned'
        BY <3>1, <3>3, Members DEF IsCounted
      <3>6. /\ UNCHANGED <<attempts, latencies, spans>>
            /\ returned' = Recorded(returned, j, T, 1)
        BY <2>8, <3>2 DEF Return, metricVars
      <3>7. \A k \in Kinds, t \in Topics :
                returned'[k][t] = returned[k][t] + One(k = j /\ t \in T)
        <4>1. returned \in Metric /\ 1 \in Nat
          BY DEF TypeOK
        <4>2. \A k \in Paths, t \in Topics :
                  returned'[k][t] = returned[k][t] + IF k = j /\ t \in T THEN 1 ELSE 0
          BY <1>k, <3>6, <4>1, RecordedUp
        <4> QED BY <1>k, <1>n, <4>2 DEF One
      <3>8. \A k \in Kinds, t \in Topics :
               /\ attempts'[k][t] + One(p \in Attempted(k, t)) + returned[k][t]
                    = attempts[k][t] + One(p \in Attempted(k, t)') + returned'[k][t]
               /\ latencies'[k][t] + One(p \in Timed(k, t)) + returned[k][t]
                    = latencies[k][t] + One(p \in Timed(k, t)') + returned'[k][t]
        <4> TAKE k \in Kinds, t \in Topics
        <4>1. attempts[k][t] \in Nat /\ latencies[k][t] \in Nat /\ returned[k][t] \in Nat
          BY <1>n
        <4>2. attempts'[k][t] = attempts[k][t] /\ latencies'[k][t] = latencies[k][t]
              /\ returned'[k][t] = returned[k][t] + One(k = j /\ t \in T)
          BY <3>6, <3>7
        <4>3. /\ p \notin Timed(k, t)' /\ p \notin Attempted(k, t)'
              /\ p \in Timed(k, t) <=> k = j /\ t \in T
              /\ p \in Attempted(k, t) <=> k = j /\ t \in T
          BY <3>4
        <4>4. CASE ~(k = j /\ t \in T)
          BY <4>1, <4>2, <4>3, <4>4 DEF One
        <4>5. CASE k = j /\ t \in T
          BY <4>1, <4>2, <4>3, <4>5 DEF One
        <4> QED BY <4>4, <4>5
      <3> QED BY <2>0, <3>1, <3>5, <3>6, <3>8, BalanceMoves DEF One
    <2> QED BY <1>1, <2>2, <2>3, <2>4, <2>5, <2>6, <2>7, <2>8 DEF CallNext
  <1>2. ASSUME UNCHANGED <<call, tracePaths>>
        PROVE  /\ \A k \in Kinds, t \in Topics :
                    Attempted(k, t)' = Attempted(k, t) /\ Timed(k, t)' = Timed(k, t)
               /\ Spanned' = Spanned
    BY <1>2 DEF Attempted, Timed, Counted, Spanned, FailureFirst
  <1>3. Cardinality(Spanned) \in Nat
    <2>1. Spanned \subseteq Callers
      BY DEF Spanned
    <2> QED BY <2>1, CallsAssumption, FS_Subset, FS_CardinalityType
  <1>4. ASSUME NEW u \in Topics, Message(u) PROVE BalanceOK'
    <2> DEFINE d == broker[u].depth
    <2>1. /\ UNCHANGED <<call, tracePaths, latencies, returned>> /\ spans' = spans + d
          /\ delivery = None /\ delivery' = [topic |-> u, depth |-> d] /\ d \in Nat
          /\ attempts' = Recorded(attempts, "callback", {u}, d) /\ attempts \in Metric
      BY <1>4 DEF Message, setupVars, TypeOK
    <2> HIDE DEF d
    <2>2. delivery' \in [topic : Topics, depth : Nat]
      BY <2>1
    <2>3. DeliveryDepth = 0 /\ DeliveryDepth' = d
      BY <2>1, <2>2, CallsAssumption DEF DeliveryDepth
    <2>4. \A k \in Paths, t \in Topics : attempts'[k][t]
              = attempts[k][t] + IF k = "callback" /\ t \in {u} THEN d ELSE 0
      BY <1>k, <2>1, RecordedUp
    <2>5. \A k \in Kinds, t \in Topics : attempts'[k][t] = attempts[k][t]
      BY <1>k, <1>n, <2>4
    <2>6. spans' = Cardinality(Spanned)' + DeliveryDepth'
      BY <1>2, <1>3, <2>1, <2>3 DEF BalanceOK
    <2> QED BY <1>2, <2>1, <2>5, <2>6 DEF BalanceOK
  <1>5. CASE MessageHandled
    <2> DEFINE d == delivery.depth
               u == delivery.topic
    <2>1. /\ UNCHANGED <<call, tracePaths, attempts>> /\ spans' = spans - d
          /\ delivery # None /\ delivery' = None /\ d \in Nat
          /\ latencies' = Recorded(latencies, "callback", {u}, d) /\ latencies \in Metric
          /\ returned' = Recorded(returned, "callback", {u}, 1) /\ returned \in Metric /\ 1 \in Nat
      BY <1>5 DEF MessageHandled, setupVars, TypeOK
    <2>2. DeliveryDepth = d /\ DeliveryDepth' = 0
      BY <2>1 DEF DeliveryDepth
    <2> HIDE DEF d, u
    <2>3. \A k \in Paths, t \in Topics : latencies'[k][t]
              = latencies[k][t] + IF k = "callback" /\ t \in {u} THEN d ELSE 0
      BY <1>k, <2>1, RecordedUp
    <2>4. \A k \in Paths, t \in Topics : returned'[k][t]
              = returned[k][t] + IF k = "callback" /\ t \in {u} THEN 1 ELSE 0
      BY <1>k, <2>1, RecordedUp
    <2>5. \A k \in Kinds, t \in Topics :
              latencies'[k][t] = latencies[k][t] /\ returned'[k][t] = returned[k][t]
      BY <1>k, <1>n, <2>3, <2>4
    <2>6. spans' = Cardinality(Spanned)' + DeliveryDepth'
      BY <1>2, <1>3, <2>1, <2>2 DEF BalanceOK
    <2> QED BY <1>2, <2>1, <2>5, <2>6 DEF BalanceOK
  <1>6. CASE ~(\E p \in Callers : CallNext(p)) /\ ~(\E t \in Topics : Message(t)) /\ ~MessageHandled
    <2>1. UNCHANGED <<call, attempts, latencies, spans, returned, delivery>>
      BY <1>6, NotACaller DEF metricVars
    <2>2. UNCHANGED tracePaths
      BY TraceStep
    <2>3. DeliveryDepth' = DeliveryDepth
      BY <2>1 DEF DeliveryDepth
    <2> QED BY <1>2, <2>1, <2>2, <2>3 DEF BalanceOK
  <1> QED BY <1>1, <1>4, <1>5, <1>6

-----------------------------------------------------------------------------
(***************************************************************************)
(* The theorems about a client whose middlewares are added in its setup.   *)
(***************************************************************************)
IInv == TypeOK /\ SetupOK /\ PathOK /\ DepthOK /\ QoSOK /\ BalanceOK

(* The inductive invariant, if the middlewares are set up first.           *)
LEMMA Invariance == ASSUME ~UseWhileServing PROVE Spec => []IInv
  <1>1. Init => IInv
    <2> SUFFICES ASSUME Init PROVE IInv
      OBVIOUS
    <2>1. TypeOK
      BY TypeInit
    <2>2. SetupOK
      <3>1. /\ \A k \in Kinds : middlewares[k] = <<>> /\ handler[k] = <<>>
            /\ use = None /\ ~serving
        BY DEF Init
      <3>2. Once(<<>>) /\ ~Traced(<<>>) /\ ComposedOf(<<>>, <<>>, 0)
        BY DEF Once, Traced, ComposedOf
      <3> QED BY <3>1, <3>2 DEF SetupOK, Composed
    <2>3. \A p \in Callers : call[p] = Idle
      BY DEF Init
    <2>4. PathOK
      BY <2>3 DEF PathOK
    <2>5. DepthOK
      BY <2>3, IdleFields DEF Init, DepthOK, DepthAt, InstrumentedOnce
    <2>7. QoSOK
      BY <2>3, IdleFields DEF Init, QoSOK, QoSAt, KeepsQoS
    <2>6. BalanceOK
      <3>1. \A k \in Kinds, t \in Topics : Attempted(k, t) = {} /\ Timed(k, t) = {}
        BY <2>3, IdleFields DEF Attempted, Timed, Counted
      <3>2. Spanned = {} /\ Cardinality({}) = 0 /\ DeliveryDepth = 0 /\ spans = 0
        BY <2>3, FS_EmptySet DEF Spanned, Init, DeliveryDepth
      <3>3. \A k \in Kinds, t \in Topics :
                attempts[k][t] = 0 /\ latencies[k][t] = 0 /\ returned[k][t] = 0
        BY DEF Init, Paths
      <3>4. \A k \in Kinds, t \in Topics :
                Cardinality(Attempted(k, t)) = 0 /\ Cardinality(Timed(k, t)) = 0
        <4> TAKE k \in Kinds, t \in Topics
        <4>1. Attempted(k, t) = {} /\ Timed(k, t) = {}
          BY <3>1
        <4> QED BY <3>2, <4>1
      <3>5. spans = Cardinality(Spanned) + DeliveryDepth
        BY <3>2
      <3> QED BY <3>3, <3>4, <3>5 DEF BalanceOK
    <2> QED BY <2>1, <2>2, <2>4, <2>5, <2>6, <2>7 DEF IInv
  <1>2. IInv /\ [Next]_vars => IInv'
    <2> SUFFICES ASSUME IInv, [Next]_vars PROVE IInv'
      OBVIOUS
    <2>1. TypeOK /\ SetupOK /\ PathOK /\ DepthOK /\ QoSOK /\ BalanceOK
      BY DEF IInv
    <2>2. TypeOK'
      BY <2>1, TypeStep
    <2>3. SetupOK' /\ PathOK' /\ DepthOK' /\ QoSOK'
      BY <2>1, SetupStep, PathStep, DepthStep, QoSStep
    <2>4. BalanceOK'
      BY <2>1, <2>2, BalanceStep
    <2> QED BY <2>2, <2>3, <2>4 DEF IInv
  <1> QED BY <1>1, <1>2, PTL DEF Spec

(* A call reaches the base handler through every middleware registered for *)
(* it when it began, in the order of registration, for any number of       *)
(* callers and any order of the Use...Middleware calls of the setup.       *)
THEOREM PassesAllMiddlewaresAlways ==
    ASSUME ~UseWhileServing PROVE Spec => []PassesAllMiddlewares
  <1>1. IInv => PassesAllMiddlewares
    <2> SUFFICES ASSUME IInv, NEW p \in Callers, call[p].at = "down", call[p].down = <<>>
                 PROVE  call[p].up = call[p].due
      BY DEF PassesAllMiddlewares
    <2>1. TypeOK /\ SetupOK /\ PathOK
      BY DEF IInv
    <2>2. call[p] \in CallRecord
      BY <2>1, UnderWay
    <2>3. Completes(<<>>, call[p].up, call[p].due)
      BY <2>1, <2>2, PathTyped DEF OnPath
    <2> QED BY <2>1, <2>2, <2>3, PathTyped, PathSeq
  <1> QED BY <1>1, Invariance, PTL

(* The callback at the broker is instrumented once, however often its      *)
(* subscription was resumed: Subscribe remembers the application's, not    *)
(* what the middlewares made of it.                                        *)
THEOREM InstrumentedOnceAlways ==
    ASSUME ~UseWhileServing PROVE Spec => []InstrumentedOnce
  <1>1. IInv => InstrumentedOnce
    BY DEF IInv, DepthOK
  <1> QED BY <1>1, Invariance, PTL

(* A subscription has the QoS that was asked for, however often it was     *)
(* resumed, if it was made by SubscribeMultiple or subscribing is not      *)
(* traced: what Subscribe remembers are the options of the application.    *)
THEOREM KeepsQoSAlways ==
    ASSUME ~UseWhileServing PROVE Spec => []KeepsQoS
  <1>1. IInv => KeepsQoS
    BY DEF IInv, QoSOK
  <1> QED BY <1>1, Invariance, PTL

(* When nothing is under way every call that returned on a traced path has *)
(* been counted once and timed once for each of its topics and no span is  *)
(* open, for any number of callers and topics, whatever failed and however *)
(* their returns interleaved.                                              *)
THEOREM MetricsBalanceAlways ==
    ASSUME ~UseWhileServing PROVE Spec => []MetricsBalance
  <1>1. IInv => MetricsBalance
    <2> SUFFICES ASSUME IInv, NothingUnderWay
                 PROVE  /\ \A k \in Kinds, t \in Topics :
                            /\ attempts[k][t] = IF k \in tracePaths THEN returned[k][t] ELSE 0
                            /\ latencies[k][t] = IF k \in tracePaths THEN returned[k][t] ELSE 0
                        /\ spans = 0
      BY DEF MetricsBalance
    <2>0. TypeOK /\ BalanceOK /\ delivery = None /\ \A p \in Callers : call[p] = Idle
      BY DEF IInv, NothingUnderWay
    <2>1. \A k \in Kinds, t \in Topics : Attempted(k, t) = {} /\ Timed(k, t) = {}
      BY <2>0, IdleFields DEF Attempted, Timed, Counted
    <2>2. Spanned = {} /\ Cardinality({}) = 0 /\ DeliveryDepth = 0
      BY <2>0, FS_EmptySet DEF Spanned, DeliveryDepth
    <2>3. \A k \in Kinds, t \in Topics : returned[k][t] \in Nat
      BY <2>0 DEF TypeOK, Metric, Paths
    <2>4. \A k \in Kinds, t \in Topics :
              Cardinality(Attempted(k, t)) = 0 /\ Cardinality(Timed(k, t)) = 0
      <3> TAKE k \in Kinds, t \in Topics
      <3>1. Attempted(k, t) = {} /\ Timed(k, t) = {}
        BY <2>1
      <3> QED BY <2>2, <3>1
    <2>5. spans = 0
      BY <2>0, <2>2 DEF BalanceOK
    <2> QED BY <2>0, <2>3, <2>4, <2>5 DEF BalanceOK
  <1> QED BY <1>1, Invariance, PTL

-----------------------------------------------------------------------------
(***************************************************************************)
(* The chain of encoders.                                                  *)
(***************************************************************************)
(* What a chain has come to after encoder i.                               *)
DecidedBy(chain, r, i) ==
    /\ r \in [done : BOOLEAN, output : Seq(Nat)]
    /\ r.done <=> \E j \in 1..i : chain[j] = "ok"
    /\ (\A j \in 1..i : chain[j] = "clean") => r.output = <<>>
    /\ \A a \in 1..i : chain[a] = "ok" /\ (\A j \in 1..(a - 1) : chain[j] = "clean")
                         => r.output = <<a>>

(* One more encoder.                                                       *)
LEMMA EncoderDecides ==
  ASSUME NEW chain \in Seq(Outcomes), NEW i \in 1..Len(chain), NEW r,
         DecidedBy(chain, r, i - 1)
  PROVE  DecidedBy(chain, TryEncoder(chain, r, i), i)
  <1>. DEFINE t == TryEncoder(chain, r, i)
  <1>0. /\ r \in [done : BOOLEAN, output : Seq(Nat)] /\ i \in Nat /\ i - 1 \in Nat
        /\ 1..i = 1..(i - 1) \cup {i}
    BY DEF DecidedBy
  <1>1. t \in [done : BOOLEAN, output : Seq(Nat)]
    BY <1>0 DEF TryEncoder
  <1>2. t.done <=> \E j \in 1..i : chain[j] = "ok"
    BY <1>0 DEF TryEncoder, DecidedBy
  <1>3. ASSUME \A j \in 1..i : chain[j] = "clean" PROVE t.output = <<>>
    BY <1>0, <1>3 DEF TryEncoder, DecidedBy
  <1>4. ASSUME NEW a \in 1..i, chain[a] = "ok", \A j \in 1..(a - 1) : chain[j] = "clean"
        PROVE  t.output = <<a>>
    <2>1. CASE a = i
      <3>1. r.output = <<>> /\ ~r.done
        <4>1. \A j \in 1..(i - 1) : chain[j] = "clean" /\ chain[j] # "ok"
          BY <1>4, <2>1
        <4>. QED
          BY <4>1 DEF DecidedBy
      <3>2. t.output = Append(<<>>, i)
        BY <1>4, <2>1, <3>1 DEF TryEncoder
      <3>. QED
        BY <1>0, <2>1, <3>2
    <2>2. CASE a # i
      <3>1. a \in 1..(i - 1)
        BY <1>0, <2>2
      <3>2. r.done /\ r.output = <<a>>
        BY <1>4, <3>1 DEF DecidedBy
      <3>. QED
        BY <3>2 DEF TryEncoder
    <2>. QED
      BY <2>1, <2>2
  <1>. QED
    BY <1>1, <1>2, <1>3, <1>4 DEF DecidedBy

(* The result of a chain is what trying its encoders one by one leads to.  *)
LEMMA ChainUnfolds ==
  ASSUME NEW chain \in Seq(Outcomes)
  PROVE  \E t : /\ t[0] = [done |-> FALSE, output |-> <<>>]
                /\ \A i \in 1..Len(chain) : t[i] = TryEncoder(chain, t[i - 1], i)
                /\ ChainResult(chain) = t[Len(chain)]
  <1>. DEFINE n == Len(chain)
              none == [done |-> FALSE, output |-> <<>>]
              R == [done : BOOLEAN, output : Seq(Nat)]
              D(g) == [i \in 0..n |-> IF i = 0 THEN none ELSE TryEncoder(chain, g[i - 1], i)]
              step == [a \in Nat \X R |-> IF a[1] \in 1..n THEN TryEncoder(chain, a[2], a[1]) ELSE a[2]]
              tried == CHOOSE g : g = D(g)
  <1>0. n \in Nat
    OBVIOUS
  <1>1. PICK f \in [Nat -> R] : Unfolding(f, Nat, none, step)
    <2>1. none \in R
      OBVIOUS
    <2>2. step \in [Nat \X R -> R]
      <3>1. ASSUME NEW i \in Nat, NEW r \in R PROVE TryEncoder(chain, r, i) \in R
        BY DEF TryEncoder
      <3>. QED
        BY <3>1
    <2>. HIDE DEF step, R, none
    <2>. QED
      BY <2>1, <2>2, FunctionExists
  <1>. DEFINE g0 == [i \in 0..n |-> f[i]]
  <1>2. ASSUME NEW i \in 1..n PROVE f[i] = TryEncoder(chain, f[i - 1], i)
    <2>1. i \in Nat \ {0} /\ i - 1 \in Nat
      BY <1>0
    <2>2. <<i, f[i - 1]>> \in Nat \X R
      BY <1>1, <2>1
    <2>3. f[i] = step[<<i, f[i - 1]>>]
      BY <1>1, <2>1 DEF Unfolding
    <2>. HIDE DEF R
    <2>. QED
      BY <2>2, <2>3
  <1>3. g0 = D(g0)
    <2>1. ASSUME NEW i \in 0..n PROVE f[i] = IF i = 0 THEN none ELSE TryEncoder(chain, g0[i - 1], i)
      <3>1. CASE i = 0
        BY <1>1, <3>1 DEF Unfolding
      <3>2. CASE i # 0
        <4>1. i \in 1..n /\ i - 1 \in 0..n
          BY <1>0, <3>2
        <4>2. g0[i - 1] = f[i - 1]
          BY <4>1
        <4>. QED
          BY <1>2, <3>2, <4>1, <4>2
      <3>. QED
        BY <3>1, <3>2
    <2>. QED
      BY <2>1
  <1>4. tried = D(tried)
    <2>. HIDE DEF D, g0
    <2>. QED
      BY <1>3
  <1>5. ChainResult(chain) = tried[n]
    BY DEF ChainResult
  <1>6. PICK t : t = D(t) /\ ChainResult(chain) = t[n]
    BY <1>4, <1>5
  <1>. HIDE DEF tried, step, none
  <1>7. t[0] = none
    <2>1. 0 \in 0..n
      BY <1>0
    <2>. QED
      BY <1>6, <2>1
  <1>8. ASSUME NEW i \in 1..n PROVE t[i] = TryEncoder(chain, t[i - 1], i)
    <2>1. i \in 0..n /\ i # 0
      BY <1>0
    <2>. QED
      BY <1>6, <2>1
  <1>. QED
    BY <1>6, <1>7, <1>8 DEF none

(* The result of a chain of any length, by induction on those tried.       *)
LEMMA ChainDecides ==
  ASSUME NEW chain \in Seq(Outcomes)
  PROVE  FirstThatCan(chain, ChainResult(chain))
  <1>1. PICK t : /\ t[0] = [done |-> FALSE, output |-> <<>>]
                 /\ \A i \in 1..Len(chain) : t[i] = TryEncoder(chain, t[i - 1], i)
                 /\ ChainResult(chain) = t[Len(chain)]
    BY ChainUnfolds
  <1>2. PICK n \in Nat : n = Len(chain) /\ 1..n = DOMAIN chain
    OBVIOUS
  <1>. DEFINE T == {i \in 0..n : ~DecidedBy(chain, t[i], i)}
  <1>3. ASSUME T # {} PROVE FALSE
    <2>1. PICK m \in T : \A k \in T : m <= k
      <3>1. T \in SUBSET Nat
        BY <1>2
      <3>. HIDE DEF T
      <3>. QED
        BY <1>3, <3>1, LeastNumber
    <2>2. m \in 0..n /\ ~DecidedBy(chain, t[m], m)
      BY <2>1
    <2>3. CASE m = 0
      <3>1. DecidedBy(chain, t[0], 0)
        BY <1>1 DEF DecidedBy
      <3>. QED
        BY <2>2, <2>3, <3>1
    <2>4. CASE m # 0
      <3>1. m \in 1..n /\ m - 1 \in 0..n /\ m - 1 < m
        BY <1>2, <2>2, <2>4
      <3>2. m - 1 \notin T
        BY <1>2, <2>1, <3>1
      <3>3. DecidedBy(chain, t[m - 1], m - 1)
        BY <3>1, <3>2
      <3>4. DecidedBy(chain, TryEncoder(chain, t[m - 1], m), m)
        BY <1>2, <3>1, <3>3, EncoderDecides
      <3>. QED
        BY <1>1, <1>2, <2>2, <3>1, <3>4
    <2>. QED
      BY <2>3, <2>4
  <1>4. DecidedBy(chain, t[n], n)
    BY <1>2, <1>3, n \in 0..n
  <1>. QED
    BY <1>1, <1>2, <1>4 DEF DecidedBy, FirstThatCan

(* A Publish keeps what the encoders made of its message until it returns. *)
EncodedOK ==
    \A p \in Callers :
        call[p].at \in {"up", "counted"} /\ call[p].kind = "publish" =>
            FirstThatCan(call[p].chain, call[p].encoded)

(* Every step keeps what the encoders decided.                             *)
LEMMA EncodedStep == ASSUME TypeOK, EncodedOK, [Next]_vars PROVE EncodedOK'
  <1>1. ASSUME NEW p \in Callers, CallNext(p) PROVE EncodedOK'
    <2>1. ASSUME Others(p),
                 call'[p].at \in {"up", "counted"} /\ call'[p].kind = "publish" =>
                     FirstThatCan(call'[p].chain, call'[p].encoded)
          PROVE  EncodedOK'
      BY <2>1 DEF EncodedOK, Others
    <2>2. CASE Begin(p) \/ Resume(p)
      <3>1. Others(p) /\ call'[p].at = "down"
        BY <2>2, BeginCases, BeganCall
      <3> QED BY <2>1, <3>1
    <2>3. CASE Enter(p)
      <3>1. Others(p) /\ call'[p].at = "down"
        BY <2>3, EnterCall
      <3> QED BY <2>1, <3>1
    <2>4. CASE Encode(p)
      <3>1. PICK chain \in Chains, sent \in BOOLEAN :
              call' = [call EXCEPT ![p].at = "up", ![p].ok = ChainResult(chain).done /\ sent,
                                   ![p].chain = chain, ![p].encoded = ChainResult(chain)]
        BY <2>4 DEF Encode
      <3> DEFINE ok == ChainResult(chain).done /\ sent
                 result == ChainResult(chain)
      <3>2. /\ call'[p] = [call[p] EXCEPT !.at = "up", !.ok = ok, !.chain = chain,
                                          !.encoded = result]
            /\ call[p] \in CallRecord /\ Others(p)
        BY <2>4, <3>1, TurnCall DEF TypeOK
      <3>3. chain \in Seq(Outcomes)
        BY CallsAssumption DEF Chains, CallsAssumption
      <3>4. FirstThatCan(chain, result)
        BY <3>3, ChainDecides
      <3> HIDE DEF ok, result
      <3>5. call'[p].chain = chain /\ call'[p].encoded = result
        BY <3>2 DEF CallRecord
      <3> QED BY <2>1, <3>2, <3>4, <3>5
    <2>5. CASE Base(p)
      <3>1. Others(p) /\ Same(p) /\ call[p].kind # "publish"
        BY <2>5, TurnCall DEF Base
      <3> QED BY <2>1, <3>1 DEF Same
    <2>6. CASE Leave(p) \/ CountFirst(p) \/ CountSecond(p)
      <3>1. /\ call[p] \in CallRecord /\ Others(p) /\ Same(p)
            /\ call[p].at \in {"up", "counted"}
        BY <2>6, LeaveCall, CountFirstCall, CountSecondCall
      <3>2. call'[p].chain = call[p].chain /\ call'[p].encoded = call[p].encoded
        <4>1. \/ call'[p] = [call[p] EXCEPT !.up = Front(@)]
              \/ call'[p] = [call[p] EXCEPT !.at = "counted"]
              \/ call'[p] = [call[p] EXCEPT !.at = "up", !.up = Front(@)]
          BY <2>6 DEF Leave, CountFirst, CountSecond, TypeOK
        <4> DEFINE front == Front(call[p].up)
        <4>2. \/ call'[p] = [call[p] EXCEPT !.up = front]
              \/ call'[p] = [call[p] EXCEPT !.at = "counted"]
              \/ call'[p] = [call[p] EXCEPT !.at = "up", !.up = front]
          BY <4>1
        <4> HIDE DEF front
        <4>3. /\ call[p] = [f \in DOMAIN call[p] |-> call[p][f]]
              /\ {"chain", "encoded"} \subseteq DOMAIN call[p]
          BY <3>1 DEF CallRecord
        <4>4. CASE call'[p] = [call[p] EXCEPT !.up = front]
          BY <4>3, <4>4
        <4>5. CASE call'[p] = [call[p] EXCEPT !.at = "counted"]
          BY <4>3, <4>5
        <4>6. CASE call'[p] = [call[p] EXCEPT !.at = "up", !.up = front]
          BY <4>3, <4>6
        <4> QED BY <4>2, <4>4, <4>5, <4>6
      <3> QED BY <2>1, <3>1, <3>2 DEF Same, EncodedOK
    <2>7. CASE Return(p)
      BY <2>1, <2>7, ReturnCall, IdleFields
    <2> QED BY <1>1, <2>2, <2>3, <2>4, <2>5, <2>6, <2>7 DEF CallNext
  <1>2. CASE UNCHANGED call
    BY <1>2 DEF EncodedOK
  <1>3. CASE (\E t \in Topics : Message(t)) \/ MessageHandled
    BY <1>2, <1>3 DEF Message, MessageHandled
  <1> QED BY <1>1, <1>2, <1>3, NotACaller

(* A Publish sends what the first encoder that can handle the message made *)
(* of it, unless one before that failed after some output, for chains of   *)
(* any length.                                                             *)
THEOREM FirstEncoderDecidesAlways == Spec => []FirstEncoderDecides
  <1>1. Init => TypeOK /\ EncodedOK
    <2> SUFFICES ASSUME Init PROVE TypeOK /\ EncodedOK
      OBVIOUS
    <2>1. \A p \in Callers : call[p] = Idle
      BY DEF Init
    <2> QED BY <2>1, TypeInit, IdleFields DEF EncodedOK
  <1>2. TypeOK /\ EncodedOK /\ [Next]_vars => (TypeOK /\ EncodedOK)'
    BY TypeStep, EncodedStep
  <1>3. EncodedOK => FirstEncoderDecides
    BY DEF EncodedOK, FirstEncoderDecides
  <1> QED BY <1>1, <1>2, <1>3, PTL DEF Spec
==========================================================================
