-------------------- MODULE ClientSubscriptionsProofs --------------------
(***************************************************************************)
(* Proofs about ClientSubscriptions. The inductive invariant says where    *)
(* the goroutines of a call may be, whose call a topic can be in the way   *)
(* of, who holds the mu of an internalState, and what a connection has got *)
(* from the goroutines that are done with it.                              *)
(***************************************************************************)
EXTENDS ClientSubscriptions, TLAPS

(* Goroutines exist only inside execute, with clientMu read-locked.        *)
TaskOK == \A p \in Calls, c \in Conns : task[p][c] # "none" => pc[p] = "in"

(* The second half of a SubscribeMultiple is there only with the first.    *)
HalfOK ==
    \A p \in Callers :
        /\ pc[p] \in {"idle", "remember"} => pc[Half(p)] = "idle"
        /\ pc[p] = "idle" => call[p] = NoCall /\ call[Half(p)] = NoCall /\ p \notin undisturbed
        /\ Half(p) \notin undisturbed

(* Goroutines resume topics only while the watcher waits for them.         *)
TopicOK ==
    \A t \in Topics :
        /\ wpc # "resuming" => pc[t] = "idle" /\ call[t] = NoCall /\ t \notin undisturbed
        /\ pc[t] \in {"idle", "rlock", "in"}
        /\ t \in undisturbed => call[t] = [op |-> "sub", topics |-> {t}]

(* Only the application unsubscribes; what is subscribed in one execution  *)
(* is all shared or all normal.                                            *)
CallOK ==
    \A p \in Calls :
        /\ call[p].op = "unsub" => p \in Callers
        /\ call[p].op # "unsub" => call[p].topics \subseteq Shared \/ call[p].topics \subseteq Normal

(* mu of an internalState is held by the one call that has a request under *)
(* way on the connection and goes through the internalState.               *)
LockOK ==
    \A c \in Conns, p \in Calls :
        smu[c] = p <=> UsesState(p) /\ task[p][c] \in {"sent", "acked", "failed"}

(* Nothing under way works against an undisturbed call, or against what    *)
(* the last update resumed, which is known only until the next one.        *)
AgainstOK ==
    /\ \A p \in undisturbed, q \in Calls : ~WorksAgainst(q, call[p].op, call[p].topics)
    /\ \A t \in resumed, q \in Calls : ~WorksAgainst(q, "sub", {t})
    /\ wpc # "watch" => resumed = {}

(* The connection has t, or an Unsubscribe of it was the last to fail; or  *)
(* it had t until the broker dropped the session.                          *)
Has(t, c) == t \in held[c] \/ t \in doubt[c]
Reached(t, c) == c \in forgot \/ Has(t, c)

(* The handler of a lost connection has yet to clear subsCalled.           *)
Loss(c) == handler[c] # "none" /\ c \in forgot

(* An Unsubscribe of t has been carried out and is about to say so.        *)
Leaving(t, c) ==
    \E p \in Callers : call[p].op = "unsub" /\ t \in call[p].topics /\ task[p][c] = "acked"

(* What is in subsCalled, or about to be, the connection has, but for a    *)
(* reason that is about to be dealt with.                                  *)
StateOK ==
    \A c \in Conns :
        /\ \A t \in subsCalled[c] : Has(t, c) \/ Loss(c) \/ Leaving(t, c)
        /\ \A p \in Calls :
            (call[p].op = "sub" /\ UsesState(p) /\ task[p][c] = "acked") =>
                \A t \in call[p].topics : Has(t, c) \/ Loss(c)

(* A goroutine of p for c is at its end, or there never was one.           *)
Over(p, c) == pc[p] = "in" /\ ~failed[p] /\ task[p][c] \in {"none", "acked"}

(* p has done on c what it was called for.                                 *)
Achieved(p, c) ==
    IF call[p].op = "unsub" THEN \A t \in call[p].topics : t \notin held[c]
    ELSE \A t \in call[p].topics \cap Shared : Reached(t, c)

(* What undisturbed calls have achieved on the connections they are done   *)
(* with; for a normal topic that is resumed there is one such connection,  *)
(* once its goroutine is at its end.                                       *)
OverOK == \A p \in undisturbed, c \in Conns : Over(p, c) => Achieved(p, c)
SharedOK ==
    \A t \in undisturbed \cap Shared :
        pc[t] = "idle" /\ ~failed[t] => \A c \in Conns : Reached(t, c)
NormalOK ==
    \A t \in undisturbed \cap Normal :
        \/ pc[t] = "rlock" \/ failed[t]
        \/ \E c \in Conns : Reached(t, c) \/ task[t][c] \in {"todo", "sent", "failed"}
ResumedOK ==
    /\ \A t \in resumed \cap Shared, c \in Conns : Reached(t, c)
    /\ \A t \in resumed \cap Normal : \E c \in Conns : Reached(t, c)
ReachOK == OverOK /\ SharedOK /\ NormalOK /\ ResumedOK

ControlOK == TaskOK /\ HalfOK /\ TopicOK
IInv == TypeOK /\ ControlOK /\ CallOK /\ LockOK /\ AgainstOK /\ StateOK /\ ReachOK

-----------------------------------------------------------------------------
(***************************************************************************)
(* The names of the calls, and what a call is.                             *)
(***************************************************************************)
LEMMA Names ==
    /\ Callers \subseteq Calls /\ Topics \subseteq Calls
    /\ \A p \in Callers :
        /\ Half(p) \in Calls /\ Half(p) \notin Callers /\ Half(p) \notin Topics
        /\ p \notin Topics /\ p # Half(p)
        /\ \A q \in Callers : Half(p) = Half(q) => p = q
    /\ \A p \in Calls : p \notin Callers /\ p \notin Topics => \E q \in Callers : p = Half(q)
    /\ None \notin Calls
    /\ Shared \subseteq Topics /\ Normal \subseteq Topics /\ Shared \cap Normal = {}
    /\ \A t \in Topics : t \in Shared \/ t \in Normal
  BY SubscriptionsAssumption DEF Calls, Halves, Half, Topics

(* The records that call may hold.                                         *)
CallType == [op : {"sub", "multi", "unsub"}, topics : SUBSET Topics] \cup {NoCall}

(* The fields of a call, and of none.                                      *)
LEMMA CallFields ==
    ASSUME NEW r \in CallType
    PROVE  /\ r.op \in {"sub", "multi", "unsub", "none"}
           /\ r.topics \subseteq Topics
           /\ r.op = "none" => r.topics = {}
           /\ r.op = "none" <=> r = NoCall
  BY DEF CallType, NoCall

(* Types, initially.                                                       *)
LEMMA TypeInit == Init => TypeOK
  BY SubscriptionsAssumption DEF Init, TypeOK, NoTask, NoCall

(* Every step keeps the types.                                             *)
LEMMA TypeStep == TypeOK /\ [Next]_vars => TypeOK'
  <1> SUFFICES ASSUME TypeOK, [Next]_vars PROVE TypeOK'
    OBVIOUS
  <1> USE Names
  <1>c. call \in [Calls -> CallType] /\ NoCall \in CallType
    BY DEF TypeOK, CallType
  <1>1. ASSUME NEW p \in Callers, NEW op \in {"sub", "multi", "unsub"}, NEW T \in TopicSets(op),
               Begin(p, op, T)
        PROVE  TypeOK'
    <2>1. T \subseteq Topics
      BY DEF TopicSets
    <2>2. pc' \in [Calls -> {"idle", "rlock", "in", "done", "remember"}]
      BY <1>1 DEF Begin, TypeOK, Goto
    <2>3. call' \in [Calls -> CallType]
      <3>1. \A S \in SUBSET Topics : [op |-> op, topics |-> S] \in CallType
        BY DEF CallType
      <3>2. T \cap Shared \in SUBSET Topics /\ T \cap Normal \in SUBSET Topics
        BY <2>1
      <3> QED BY <1>1, <1>c, <2>1, <3>1, <3>2 DEF Begin
    <2>4. calls' \in 0..MaxCalls
      BY <1>1, SubscriptionsAssumption DEF Begin, TypeOK
    <2>5. undisturbed' \subseteq Calls /\ resumed' \subseteq Topics
      BY <1>1 DEF Begin, TypeOK
    <2> QED BY <1>1, <2>2, <2>3, <2>4, <2>5 DEF Begin, TypeOK, stateVars, CallType
  <1>2. ASSUME NEW p \in Callers, Join(p) PROVE TypeOK'
    <2>1. pc' \in [Calls -> {"idle", "rlock", "in", "done", "remember"}]
      <3>1. CASE Succeeded(p)
        BY <1>2, <3>1 DEF Join, TypeOK
      <3>2. CASE ~Succeeded(p)
        BY <1>2, <3>2 DEF Join, TypeOK
      <3> QED BY <3>1, <3>2
    <2>2. call' \in [Calls -> CallType] /\ failed' \in [Calls -> BOOLEAN]
          /\ undisturbed' \subseteq Calls
      <3>1. CASE Succeeded(p)
        BY <1>2, <1>c, <3>1 DEF Join, TypeOK
      <3>2. CASE ~Succeeded(p)
        <4>1. Returned(p)
          BY <1>2, <3>2 DEF Join
        <4> QED BY <4>1, <1>c DEF Returned, TypeOK
      <3> QED BY <3>1, <3>2
    <2> QED BY <1>2, <2>1, <2>2 DEF Join, TypeOK, stateVars, CallType
  <1>3. ASSUME NEW p \in Callers, Remember(p) PROVE TypeOK'
    <2>1. call[p].topics \subseteq Topics /\ call[Half(p)].topics \subseteq Topics
      BY <1>c, CallFields
    <2>2. subscriptions' \subseteq Topics
      BY <1>3, <2>1 DEF Remember, Changed, TypeOK
    <2>3. call' \in [Calls -> CallType] /\ failed' \in [Calls -> BOOLEAN]
          /\ undisturbed' \subseteq Calls
      BY <1>3, <1>c DEF Remember, Returned, TypeOK
    <2> QED BY <1>3, <2>2, <2>3 DEF Remember, Goto, TypeOK, stateVars, CallType
  <1>4. ASSUME NEW p \in Calls, CallNext(p) PROVE TypeOK'
    <2>0. call[p].topics \subseteq Topics
      BY <1>c, CallFields
    <2>1. CASE ExecBegin(p)
      BY <2>1 DEF ExecBegin, Goto, TypeOK, stateVars, watchVars, histVars
    <2>2. CASE ExecEnd(p)
      BY <2>2 DEF ExecEnd, Goto, TypeOK, stateVars, watchVars, histVars
    <2>3. ASSUME NEW c \in Conns, TaskSkip(p, c) PROVE TypeOK'
      BY <2>3 DEF TaskSkip, TypeOK, stateVars, watchVars, histVars
    <2>4. ASSUME NEW c \in Conns, TaskSend(p, c) PROVE TypeOK'
      BY <2>4 DEF TaskSend, TypeOK, watchVars, histVars
    <2>a. \A c \in Conns : Applied(p, held[c]) \subseteq Topics
      BY <2>0 DEF Applied, Changed, TypeOK
    <2>5. ASSUME NEW c \in Conns, TaskAck(p, c) PROVE TypeOK'
      BY <2>5, <2>a DEF TaskAck, TypeOK
    <2>6. ASSUME NEW c \in Conns, TaskFail(p, c) PROVE TypeOK'
      <3>1. held' \in [Conns -> SUBSET Topics]
        BY <2>6, <2>a DEF TaskFail, TypeOK
      <3>2. doubt' \in [Conns -> SUBSET Topics]
        BY <2>6, <2>0 DEF TaskFail, TypeOK
      <3> QED BY <2>6, <3>1, <3>2 DEF TaskFail, TypeOK
    <2>7. ASSUME NEW c \in Conns, TaskEnd(p, c) PROVE TypeOK'
      <3>1. subsCalled' \in [Conns -> SUBSET Shared]
        BY <2>7, <2>0 DEF TaskEnd, Applied, Changed, UsesState, TypeOK
      <3>2. smu' \in [Conns -> Calls \cup {None}]
        BY <2>7 DEF TaskEnd, Released, TypeOK
      <3>3. failed' \in [Calls -> BOOLEAN]
        BY <2>7 DEF TaskEnd, TypeOK
      <3> QED BY <2>7, <3>1, <3>2, <3>3 DEF TaskEnd, TypeOK, watchVars, histVars
    <2> QED BY <1>4, <2>1, <2>2, <2>3, <2>4, <2>5, <2>6, <2>7 DEF CallNext
  <1>5. ASSUME WatcherNext PROVE TypeOK'
    <2>1. CASE UpdateReceived
      BY <2>1 DEF UpdateReceived, TypeOK, stateVars, callVars
    <2>2. CASE Reload
      BY <2>2 DEF Reload, NewSubsCalled, TypeOK, callVars
    <2>3. CASE ReloadNothing
      BY <2>3 DEF ReloadNothing, TypeOK, stateVars, callVars, histVars
    <2>4. CASE ResumeNothing
      BY <2>4 DEF ResumeNothing, TypeOK, stateVars, callVars, histVars
    <2>5. CASE ResumeBegin
      <3>1. pc' \in [Calls -> {"idle", "rlock", "in", "done", "remember"}]
        BY <2>5 DEF ResumeBegin, TypeOK
      <3>2. call' \in [Calls -> CallType]
        <4>1. \A p \in subscriptions : [op |-> "sub", topics |-> {p}] \in CallType
          BY DEF CallType, TypeOK
        <4> QED BY <2>5, <1>c, <4>1 DEF ResumeBegin
      <3>3. undisturbed' \subseteq Calls
        BY <2>5 DEF ResumeBegin, TypeOK
      <3> QED BY <2>5, <3>1, <3>2, <3>3 DEF ResumeBegin, TypeOK, stateVars, CallType
    <2>6. CASE ResumeEnd
      <3>1. call' \in [Calls -> CallType]
        BY <2>6, <1>c DEF ResumeEnd
      <3>2. failed' \in [Calls -> BOOLEAN]
        BY <2>6 DEF ResumeEnd, TypeOK
      <3> QED BY <2>6, <3>1, <3>2 DEF ResumeEnd, TypeOK, stateVars, CallType
    <2> QED BY <1>5, <2>1, <2>2, <2>3, <2>4, <2>5, <2>6 DEF WatcherNext
  <1>6. ASSUME NEW c \in Conns, HandlerNext(c) PROVE TypeOK'
    BY <1>6 DEF HandlerNext, ConnectionLost, HandlerBegin, HandlerEnd, SubsAfterLoss, TypeOK,
                callVars, watchVars, histVars
  <1>7. CASE UNCHANGED vars
    BY <1>7 DEF vars, stateVars, callVars, watchVars, histVars, TypeOK
  <1> QED BY <1>1, <1>2, <1>3, <1>4, <1>5, <1>6, <1>7 DEF Next

-----------------------------------------------------------------------------
(***************************************************************************)
(* Where the goroutines may be.                                            *)
(***************************************************************************)
LEMMA ControlStep == TypeOK /\ ControlOK /\ [Next]_vars => ControlOK'
  <1> SUFFICES ASSUME TypeOK, ControlOK, [Next]_vars PROVE ControlOK'
    OBVIOUS
  <1> USE Names DEF ControlOK
  <1>1. ASSUME NEW p \in Callers, NEW op \in {"sub", "multi", "unsub"}, NEW T \in TopicSets(op),
               Begin(p, op, T)
        PROVE  ControlOK'
    <2>1. pc[p] = "idle" /\ pc[Half(p)] = "idle"
      BY <1>1 DEF Begin, HalfOK
    <2>2. TaskOK'
      BY <1>1, <2>1 DEF Begin, Goto, TaskOK, TypeOK
    <2>3. HalfOK'
      <3>0. undisturbed' \subseteq undisturbed \cup {p}
        BY <1>1 DEF Begin
      <3>1. CASE Splits(op, T)
        BY <1>1, <3>0, <3>1 DEF Begin, HalfOK, TypeOK
      <3>2. CASE ~Splits(op, T)
        BY <1>1, <3>0, <3>2 DEF Begin, Goto, HalfOK, TypeOK
      <3> QED BY <3>1, <3>2
    <2>4. TopicOK'
      <3>1. \A t \in Topics : pc'[t] = pc[t] /\ call'[t] = call[t]
        BY <1>1 DEF Begin, Goto, TypeOK
      <3>2. \A t \in Topics : t \in undisturbed' => t \in undisturbed
        BY <1>1 DEF Begin
      <3> QED BY <1>1, <3>1, <3>2 DEF Begin, TopicOK
    <2> QED BY <2>2, <2>3, <2>4
  <1>2. ASSUME NEW p \in Callers, Join(p) PROVE ControlOK'
    <2>1. \A q \in Calls : q # p /\ q # Half(p) => pc'[q] = pc[q] /\ call'[q] = call[q]
      BY <1>2 DEF Join, Returned, TypeOK
    <2>2. /\ pc'[Half(p)] = "idle" /\ pc[p] = "done"
          /\ \/ pc'[p] = "remember"
             \/ /\ pc'[p] = "idle" /\ call'[p] = NoCall /\ call'[Half(p)] = NoCall
                /\ p \notin undisturbed'
      <3>1. CASE Succeeded(p)
        BY <1>2, <3>1 DEF Join, TypeOK
      <3>2. CASE ~Succeeded(p)
        BY <1>2, <3>2 DEF Join, Returned, TypeOK
      <3> QED BY <3>1, <3>2
    <2>3. undisturbed' \subseteq undisturbed
      BY <1>2 DEF Join, Returned
    <2>4. TaskOK'
      BY <1>2, <2>1, <2>2 DEF Join, TaskOK
    <2>5. HalfOK'
      BY <2>1, <2>2, <2>3 DEF HalfOK
    <2>6. TopicOK'
      BY <1>2, <2>1, <2>3 DEF Join, TopicOK
    <2> QED BY <2>4, <2>5, <2>6
  <1>3. ASSUME NEW p \in Callers, Remember(p) PROVE ControlOK'
    <2>1. \A q \in Calls : q # p /\ q # Half(p) => pc'[q] = pc[q] /\ call'[q] = call[q]
      BY <1>3 DEF Remember, Goto, Returned, TypeOK
    <2>2. /\ pc[p] = "remember" /\ pc'[p] = "idle" /\ pc'[Half(p)] = pc[Half(p)]
          /\ call'[p] = NoCall /\ call'[Half(p)] = NoCall /\ p \notin undisturbed'
      BY <1>3 DEF Remember, Goto, Returned, TypeOK
    <2>3. undisturbed' \subseteq undisturbed
      BY <1>3 DEF Remember, Returned
    <2>4. TaskOK'
      BY <1>3, <2>1, <2>2 DEF Remember, TaskOK
    <2>5. HalfOK'
      BY <2>1, <2>2, <2>3 DEF HalfOK
    <2>6. TopicOK'
      BY <1>3, <2>1, <2>3 DEF Remember, TopicOK
    <2> QED BY <2>4, <2>5, <2>6
  <1>4. ASSUME NEW p \in Calls, CallNext(p) PROVE ControlOK'
    <2>1. CASE ExecBegin(p)
      <3>1. pc[p] = "rlock" /\ pc' = [pc EXCEPT ![p] = "in"] /\ call' = call
            /\ \A q \in Calls : q # p => task'[q] = task[q]
        BY <2>1 DEF ExecBegin, Goto, TypeOK
      <3>2. wpc' = wpc /\ undisturbed' = undisturbed
        BY <2>1 DEF ExecBegin, watchVars, histVars
      <3>3. TaskOK'
        BY <3>1 DEF TaskOK, TypeOK
      <3>4. HalfOK'
        BY <3>1, <3>2 DEF HalfOK, TypeOK
      <3>5. TopicOK'
        BY <3>1, <3>2 DEF TopicOK, TypeOK
      <3> QED BY <3>3, <3>4, <3>5
    <2>2. CASE ExecEnd(p)
      <3>1. pc[p] = "in" /\ pc' = [pc EXCEPT ![p] = IF p \in Topics THEN "idle" ELSE "done"]
            /\ call' = call /\ task' = task /\ task[p] = NoTask
        BY <2>2 DEF ExecEnd, Goto
      <3>2. wpc' = wpc /\ undisturbed' = undisturbed
        BY <2>2 DEF ExecEnd, watchVars, histVars
      <3>3. TaskOK'
        BY <3>1 DEF TaskOK, TypeOK, NoTask
      <3>4. HalfOK'
        BY <3>1, <3>2 DEF HalfOK, TypeOK
      <3>5. TopicOK'
        BY <3>1, <3>2 DEF TopicOK, TypeOK
      <3> QED BY <3>3, <3>4, <3>5
    <2>3. ASSUME NEW c \in Conns,
                 TaskSkip(p, c) \/ TaskSend(p, c) \/ TaskAck(p, c) \/ TaskFail(p, c) \/ TaskEnd(p, c)
          PROVE  ControlOK'
      <3>1. /\ pc' = pc /\ call' = call /\ wpc' = wpc /\ undisturbed' = undisturbed
            /\ task[p][c] # "none"
            /\ \A q \in Calls, d \in Conns : q # p \/ d # c => task'[q][d] = task[q][d]
        BY <2>3 DEF TaskSkip, TaskSend, TaskAck, TaskFail, TaskEnd, TypeOK, watchVars, histVars
      <3> QED BY <3>1 DEF TaskOK, HalfOK, TopicOK
    <2> QED BY <1>4, <2>1, <2>2, <2>3 DEF CallNext
  <1>5. ASSUME WatcherNext PROVE ControlOK'
    <2>1. CASE UpdateReceived \/ Reload \/ ReloadNothing \/ ResumeNothing
      <3>1. pc' = pc /\ call' = call /\ task' = task /\ undisturbed' = undisturbed
            /\ wpc # "resuming"
        BY <2>1 DEF UpdateReceived, Reload, ReloadNothing, ResumeNothing, callVars, histVars
      <3> QED BY <3>1 DEF TaskOK, HalfOK, TopicOK
    <2>2. CASE ResumeBegin
      <3>0. subscriptions \subseteq Topics
        BY DEF TypeOK
      <3>1. \A q \in Calls : q \notin subscriptions => pc'[q] = pc[q] /\ call'[q] = call[q]
        BY <2>2 DEF ResumeBegin
      <3>2. \A q \in subscriptions : pc[q] = "idle" /\ pc'[q] = "rlock"
                                    /\ call'[q] = [op |-> "sub", topics |-> {q}]
        BY <2>2, <3>0 DEF ResumeBegin, TopicOK
      <3>3. TaskOK'
        BY <2>2, <3>0, <3>1, <3>2 DEF TaskOK, ResumeBegin
      <3>4. HalfOK'
        <4>1. \A q \in Calls : q \in undisturbed' => q \in undisturbed \/ q \in Topics
          BY <2>2, <3>0 DEF ResumeBegin
        <4> QED BY <3>0, <3>1, <4>1 DEF HalfOK
      <3>5. TopicOK'
        BY <2>2, <3>0, <3>1, <3>2 DEF TopicOK, ResumeBegin
      <3> QED BY <3>3, <3>4, <3>5
    <2>3. CASE ResumeEnd
      <3>1. \A q \in Calls : q \notin Topics => call'[q] = call[q]
        BY <2>3 DEF ResumeEnd
      <3>2. \A q \in Topics : pc[q] = "idle" /\ call'[q] = NoCall /\ q \notin undisturbed'
        BY <2>3 DEF ResumeEnd
      <3>3. pc' = pc /\ task' = task /\ undisturbed' \subseteq undisturbed
        BY <2>3 DEF ResumeEnd
      <3> QED BY <3>1, <3>2, <3>3 DEF TaskOK, HalfOK, TopicOK
    <2> QED BY <1>5, <2>1, <2>2, <2>3 DEF WatcherNext
  <1>6. ASSUME NEW c \in Conns, HandlerNext(c) PROVE ControlOK'
    <2>1. pc' = pc /\ call' = call /\ task' = task /\ undisturbed' = undisturbed /\ wpc' = wpc
      BY <1>6 DEF HandlerNext, ConnectionLost, HandlerBegin, HandlerEnd, callVars, watchVars,
                  histVars
    <2> QED BY <2>1 DEF TaskOK, HalfOK, TopicOK
  <1>7. CASE UNCHANGED vars
    BY <1>7 DEF vars, callVars, watchVars, histVars, TaskOK, HalfOK, TopicOK
  <1> QED BY <1>1, <1>2, <1>3, <1>4, <1>5, <1>6, <1>7 DEF Next

-----------------------------------------------------------------------------
(***************************************************************************)
(* The steps that begin and end calls touch neither the connections nor    *)
(* the goroutines, and the calls they change have none.                    *)
(***************************************************************************)
CallsMove ==
    \/ \E p \in Callers, op \in {"sub", "multi", "unsub"} : \E T \in TopicSets(op) : Begin(p, op, T)
    \/ \E p \in Callers : Join(p) \/ Remember(p)
    \/ ResumeBegin \/ ResumeEnd

(* Beginning and ending calls leaves connections and tasks alone.          *)
LEMMA CallsMoveFrame ==
    ASSUME TypeOK, ControlOK, CallsMove
    PROVE  /\ UNCHANGED <<subsCalled, held, smu, handler, task, forgot, doubt>>
           /\ \A q \in Calls :
                /\ pc'[q] = "in" <=> pc[q] = "in"
                /\ pc[q] = "in" => call'[q] = call[q]
  <1> USE Names DEF ControlOK
  <1>1. ASSUME NEW p \in Callers, NEW op \in {"sub", "multi", "unsub"}, NEW T \in TopicSets(op),
               Begin(p, op, T)
        PROVE  \A q \in Calls : /\ pc'[q] = "in" <=> pc[q] = "in"
                                /\ pc[q] = "in" => call'[q] = call[q]
    <2>1. pc[p] = "idle" /\ pc[Half(p)] = "idle"
      BY <1>1 DEF Begin, HalfOK
    <2> QED BY <1>1, <2>1 DEF Begin, Goto, TypeOK
  <1>2. ASSUME NEW p \in Callers, Join(p)
        PROVE  \A q \in Calls : /\ pc'[q] = "in" <=> pc[q] = "in"
                                /\ pc[q] = "in" => call'[q] = call[q]
    <2>1. CASE Succeeded(p)
      BY <1>2, <2>1 DEF Join, TypeOK
    <2>2. CASE ~Succeeded(p)
      BY <1>2, <2>2 DEF Join, Returned, TypeOK
    <2> QED BY <2>1, <2>2
  <1>3. ASSUME NEW p \in Callers, Remember(p)
        PROVE  \A q \in Calls : /\ pc'[q] = "in" <=> pc[q] = "in"
                                /\ pc[q] = "in" => call'[q] = call[q]
    <2>1. pc[p] = "remember" /\ pc[Half(p)] = "idle"
      BY <1>3 DEF Remember, HalfOK
    <2> QED BY <1>3, <2>1 DEF Remember, Goto, Returned, TypeOK
  <1>4. CASE ResumeBegin
    BY <1>4 DEF ResumeBegin, TypeOK, TopicOK, stateVars
  <1>5. CASE ResumeEnd
    BY <1>5 DEF ResumeEnd, TypeOK, stateVars
  <1>6. UNCHANGED <<subsCalled, held, smu, handler, task, forgot, doubt>>
    <2>1. ASSUME NEW p \in Callers, NEW op \in {"sub", "multi", "unsub"}, NEW T \in TopicSets(op),
                 Begin(p, op, T)
          PROVE  UNCHANGED <<subsCalled, held, smu, handler, task, forgot, doubt>>
      BY ONLY <2>1 DEF Begin, stateVars
    <2>2. ASSUME NEW p \in Callers, Join(p)
          PROVE  UNCHANGED <<subsCalled, held, smu, handler, task, forgot, doubt>>
      BY ONLY <2>2 DEF Join, stateVars
    <2>3. ASSUME NEW p \in Callers, Remember(p)
          PROVE  UNCHANGED <<subsCalled, held, smu, handler, task, forgot, doubt>>
      BY ONLY <2>3 DEF Remember, stateVars
    <2>4. CASE ResumeBegin
      BY ONLY <2>4 DEF ResumeBegin, stateVars
    <2>5. CASE ResumeEnd
      BY ONLY <2>5 DEF ResumeEnd, stateVars
    <2> QED BY ONLY <2>1, <2>2, <2>3, <2>4, <2>5, CallsMove DEF CallsMove
  <1> QED BY <1>1, <1>2, <1>3, <1>4, <1>5, <1>6 DEF CallsMove

(* The other steps change no call.                                         *)
LEMMA OthersMoveFrame ==
    ASSUME [Next]_vars, ~CallsMove
    PROVE  /\ UNCHANGED call
           /\ \/ \E p \in Calls : CallNext(p)
              \/ UpdateReceived \/ Reload \/ ReloadNothing \/ ResumeNothing
              \/ \E c \in Conns : HandlerNext(c)
              \/ UNCHANGED vars
  <1>1. \A p \in Calls : CallNext(p) => UNCHANGED call
    BY DEF CallNext, ExecBegin, ExecEnd, TaskSkip, TaskSend, TaskAck, TaskFail, TaskEnd
  <1>2. UpdateReceived \/ Reload \/ ReloadNothing \/ ResumeNothing => UNCHANGED call
    BY DEF UpdateReceived, Reload, ReloadNothing, ResumeNothing, callVars
  <1>3. \A c \in Conns : HandlerNext(c) => UNCHANGED call
    BY DEF HandlerNext, ConnectionLost, HandlerBegin, HandlerEnd, callVars
  <1>4. UNCHANGED vars => UNCHANGED call
    BY DEF vars, callVars
  <1> QED BY <1>1, <1>2, <1>3, <1>4 DEF Next, CallsMove, WatcherNext

(* Every step keeps the tasks of calls to what they were called for.       *)
LEMMA CallStep == TypeOK /\ ControlOK /\ CallOK /\ [Next]_vars => CallOK'
  <1> SUFFICES ASSUME TypeOK, ControlOK, CallOK, [Next]_vars PROVE CallOK'
    OBVIOUS
  <1> USE Names
  <1>n. NoCall.op = "none" /\ NoCall.topics = {}
    BY DEF NoCall
  <1>1. ASSUME NEW p \in Callers, NEW op \in {"sub", "multi", "unsub"}, NEW T \in TopicSets(op),
               Begin(p, op, T)
        PROVE  CallOK'
    <2>1. T \subseteq Topics /\ (op = "sub" => \E t \in Topics : T = {t})
      BY DEF TopicSets
    <2>2. CASE Splits(op, T)
      <3>1. op = "multi"
        BY <2>2 DEF Splits
      <3>2. call' = [call EXCEPT ![p] = [op |-> op, topics |-> T \cap Shared],
                                 ![Half(p)] = [op |-> op, topics |-> T \cap Normal]]
        BY <1>1, <2>2 DEF Begin
      <3>3. /\ call'[p].op = "multi" /\ call'[p].topics \subseteq Shared
            /\ call'[Half(p)].op = "multi" /\ call'[Half(p)].topics \subseteq Normal
            /\ \A q \in Calls : q # p /\ q # Half(p) => call'[q] = call[q]
        BY <3>1, <3>2 DEF TypeOK
      <3> QED BY <3>3 DEF CallOK
    <2>3. CASE ~Splits(op, T)
      <3>1. op # "unsub" => T \subseteq Shared \/ T \subseteq Normal
        BY <2>1, <2>3 DEF Splits
      <3> QED BY <1>1, <2>3, <3>1 DEF Begin, CallOK, TypeOK
    <2> QED BY <2>2, <2>3
  <1>2. ASSUME NEW p \in Callers, Join(p) PROVE CallOK'
    <2>1. \A q \in Calls : call'[q] = call[q] \/ call'[q] = NoCall
      BY <1>2 DEF Join, Returned, TypeOK
    <2> QED BY <2>1, <1>n DEF CallOK
  <1>3. ASSUME NEW p \in Callers, Remember(p) PROVE CallOK'
    <2>1. \A q \in Calls : call'[q] = call[q] \/ call'[q] = NoCall
      BY <1>3 DEF Remember, Returned, TypeOK
    <2> QED BY <2>1, <1>n DEF CallOK
  <1>4. CASE ResumeBegin
    BY <1>4 DEF ResumeBegin, CallOK, TypeOK
  <1>5. CASE ResumeEnd
    <2>1. \A q \in Calls : call'[q] = call[q] \/ call'[q] = NoCall
      BY <1>5 DEF ResumeEnd
    <2> QED BY <2>1, <1>n DEF CallOK
  <1>6. CASE ~CallsMove
    BY <1>6, OthersMoveFrame DEF CallOK
  <1> QED BY <1>1, <1>2, <1>3, <1>4, <1>5, <1>6 DEF CallsMove

-----------------------------------------------------------------------------
(***************************************************************************)
(* internalState.mu.                                                       *)
(***************************************************************************)
LEMMA LockStep == TypeOK /\ ControlOK /\ LockOK /\ [Next]_vars => LockOK'
  <1> SUFFICES ASSUME TypeOK, ControlOK, LockOK, [Next]_vars PROVE LockOK'
    OBVIOUS
  <1> USE Names DEF ControlOK
  <1>1. CASE CallsMove
    <2>1. smu' = smu /\ task' = task
      BY <1>1, CallsMoveFrame
    <2>2. \A q \in Calls : pc[q] = "in" => call'[q] = call[q]
      BY <1>1, CallsMoveFrame
    <2> QED BY <2>1, <2>2 DEF LockOK, TaskOK, UsesState
  <1>2. ASSUME ~CallsMove PROVE LockOK'
    <2> USE DEF LockOK
    <2>0. call' = call
      BY <1>2, OthersMoveFrame
    <2>1. \A q \in Calls : UsesState(q)' <=> UsesState(q)
      BY <2>0 DEF UsesState
    <2>2. ASSUME smu' = smu, task' = task PROVE LockOK'
      BY <2>1, <2>2
    <2>3. ASSUME NEW p \in Calls, CallNext(p) PROVE LockOK'
      <3>1. CASE ExecBegin(p)
        <4>1. smu' = smu /\ \A c \in Conns : task[p][c] = "none" /\ task'[p][c] \in {"none", "todo"}
          BY <3>1 DEF ExecBegin, stateVars, TaskOK, TypeOK
        <4>2. \A q \in Calls : q # p => task'[q] = task[q]
          BY <3>1 DEF ExecBegin, TypeOK
        <4> QED BY <4>1, <4>2, <2>1
      <3>2. CASE ExecEnd(p)
        BY <3>2, <2>2 DEF ExecEnd, stateVars
      <3>3. ASSUME NEW c \in Conns,
                   TaskSkip(p, c) \/ TaskSend(p, c) \/ TaskAck(p, c) \/ TaskFail(p, c) \/ TaskEnd(p, c)
            PROVE  LockOK'
        <4>1. \A q \in Calls, d \in Conns : q # p \/ d # c => task'[q][d] = task[q][d]
          BY <3>3 DEF TaskSkip, TaskSend, TaskAck, TaskFail, TaskEnd, TypeOK
        <4>2. \A d \in Conns : d # c => smu'[d] = smu[d]
          BY <3>3 DEF TaskSkip, TaskSend, TaskAck, TaskFail, TaskEnd, TypeOK, stateVars
        <4>3. CASE TaskSkip(p, c)
          <5>1. smu' = smu /\ task[p][c] = "todo" /\ task'[p][c] = "none"
            BY <4>3 DEF TaskSkip, TypeOK, stateVars
          <5> QED BY <5>1, <4>1, <2>1
        <4>4. CASE TaskSend(p, c)
          <5>1. task[p][c] = "todo" /\ task'[p][c] = "sent"
            BY <4>4 DEF TaskSend, TypeOK
          <5>2. CASE UsesState(p)
            <6>1. smu[c] = None /\ smu'[c] = p
              BY <4>4, <5>2 DEF TaskSend, TypeOK
            <6> QED BY <5>1, <5>2, <6>1, <4>1, <4>2, <2>1
          <5>3. CASE ~UsesState(p)
            <6>1. smu' = smu
              BY <4>4, <5>3 DEF TaskSend
            <6> QED BY <5>1, <5>3, <6>1, <4>1, <2>1
          <5> QED BY <5>2, <5>3
        <4>5. CASE TaskAck(p, c) \/ TaskFail(p, c)
          <5>1. smu' = smu /\ task[p][c] = "sent" /\ task'[p][c] \in {"acked", "failed"}
            BY <4>5 DEF TaskAck, TaskFail, TypeOK
          <5> QED BY <5>1, <4>1, <2>1
        <4>6. CASE TaskEnd(p, c)
          <5>1. /\ task[p][c] \in {"acked", "failed"} /\ task'[p][c] = "none"
                /\ smu'[c] = IF smu[c] = p THEN None ELSE smu[c]
            BY <4>6 DEF TaskEnd, Released, TypeOK
          <5> QED BY <5>1, <4>1, <4>2, <2>1
        <4> QED BY <3>3, <4>3, <4>4, <4>5, <4>6
      <3> QED BY <2>3, <3>1, <3>2, <3>3 DEF CallNext
    <2>4. CASE UpdateReceived \/ Reload \/ ReloadNothing \/ ResumeNothing
      BY <2>4, <2>2 DEF UpdateReceived, Reload, ReloadNothing, ResumeNothing, stateVars, callVars
    <2>5. ASSUME NEW c \in Conns, HandlerNext(c) PROVE LockOK'
      BY <2>5, <2>2 DEF HandlerNext, ConnectionLost, HandlerBegin, HandlerEnd, callVars
    <2>6. CASE UNCHANGED vars
      BY <2>6, <2>2 DEF vars, stateVars, callVars
    <2> QED BY <1>2, OthersMoveFrame, <2>3, <2>4, <2>5, <2>6
  <1> QED BY <1>1, <1>2

-----------------------------------------------------------------------------
(***************************************************************************)
(* Who is in whose way.                                                    *)
(***************************************************************************)
LEMMA AgainstStep == TypeOK /\ ControlOK /\ CallOK /\ AgainstOK /\ [Next]_vars => AgainstOK'
  <1> SUFFICES ASSUME TypeOK, ControlOK, CallOK, AgainstOK, [Next]_vars PROVE AgainstOK'
    OBVIOUS
  <1> USE Names
  <1>n. NoCall.op = "none" /\ NoCall.topics = {}
    BY DEF NoCall
  <1>a. ASSUME \A q \in Calls : call'[q] = call[q] \/ call'[q] = NoCall,
               \A p \in undisturbed' : p \in undisturbed,
               resumed' = resumed, wpc' = wpc
        PROVE  AgainstOK'
    <2>1. \A r \in undisturbed', q \in Calls : ~WorksAgainst(q, call[r].op, call[r].topics)'
      <3> SUFFICES ASSUME NEW r \in undisturbed', NEW q \in Calls
                   PROVE  ~WorksAgainst(q, call[r].op, call[r].topics)'
        OBVIOUS
      <3>1. r \in undisturbed /\ r \in Calls
        BY <1>a DEF TypeOK
      <3>2. ~WorksAgainst(q, call[r].op, call[r].topics)
        BY <3>1 DEF AgainstOK
      <3> QED BY <1>a, <1>n, <3>1, <3>2 DEF WorksAgainst
    <2>2. \A t \in resumed', q \in Calls : ~WorksAgainst(q, "sub", {t})'
      BY <1>a, <1>n DEF AgainstOK, WorksAgainst
    <2> QED BY <1>a, <2>1, <2>2 DEF AgainstOK
  <1>1. ASSUME NEW p \in Callers, NEW op \in {"sub", "multi", "unsub"}, NEW T \in TopicSets(op),
               Begin(p, op, T)
        PROVE  AgainstOK'
    <2>1. /\ call[p] = NoCall /\ call[Half(p)] = NoCall
          /\ call'[p].op = op /\ call'[p].topics \subseteq T
          /\ \/ call'[Half(p)] = NoCall
             \/ call'[Half(p)].op = op /\ call'[Half(p)].topics \subseteq T
      <3>1. call[p] = NoCall /\ call[Half(p)] = NoCall
        BY <1>1 DEF Begin, ControlOK, HalfOK
      <3>2. CASE Splits(op, T)
        <4>1. call' = [call EXCEPT ![p] = [op |-> op, topics |-> T \cap Shared],
                                   ![Half(p)] = [op |-> op, topics |-> T \cap Normal]]
          BY <1>1, <3>2 DEF Begin
        <4> QED BY <4>1, <3>1 DEF TypeOK
      <3>3. CASE ~Splits(op, T)
        <4>1. call' = [call EXCEPT ![p] = [op |-> op, topics |-> T]]
          BY <1>1, <3>3 DEF Begin
        <4> QED BY <4>1, <3>1 DEF TypeOK
      <3> QED BY <3>2, <3>3
    <2>2. \A q \in Calls : q # p /\ q # Half(p) => call'[q] = call[q]
      BY <1>1 DEF Begin, TypeOK
    <2>3. ASSUME NEW r \in undisturbed', NEW q \in Calls
          PROVE  ~WorksAgainst(q, call[r].op, call[r].topics)'
      <3>0. r \in Calls
        BY <1>1, <2>3 DEF Begin, TypeOK
      <3>1. CASE r = p
        <4>1. p \notin undisturbed
          BY <1>1 DEF Begin, ControlOK, HalfOK
        <4>2. \A u \in Calls : ~WorksAgainst(u, op, T)
          BY <1>1, <2>3, <3>1, <4>1 DEF Begin
        <4> QED BY <3>1, <4>2, <2>1, <2>2, <1>n DEF WorksAgainst
      <3>2. CASE r # p
        <4>1. r \in undisturbed /\ ~WorksAgainst(r, op, T)
          BY <1>1, <2>3, <3>2 DEF Begin
        <4>2. r # Half(p)
          BY <4>1 DEF ControlOK, HalfOK
        <4> QED BY <3>0, <3>2, <4>1, <4>2, <2>1, <2>2, <1>n DEF WorksAgainst, AgainstOK
      <3> QED BY <3>1, <3>2
    <2>4. ASSUME NEW t \in resumed', NEW q \in Calls
          PROVE  ~WorksAgainst(q, "sub", {t})'
      <3>1. t \in resumed /\ (op = "unsub" => t \notin T)
        BY <1>1, <2>4 DEF Begin
      <3> QED BY <3>1, <2>1, <2>2, <1>n DEF WorksAgainst, AgainstOK
    <2>5. (wpc # "watch" => resumed = {})'
      BY <1>1 DEF Begin, AgainstOK
    <2> QED BY <2>3, <2>4, <2>5 DEF AgainstOK
  <1>2. ASSUME NEW p \in Callers, Join(p) PROVE AgainstOK'
    BY <1>2, <1>a DEF Join, Returned, TypeOK
  <1>3. ASSUME NEW p \in Callers, Remember(p) PROVE AgainstOK'
    BY <1>3, <1>a DEF Remember, Returned, TypeOK
  <1>4. CASE ResumeBegin
    <2>0. subscriptions \subseteq Topics
      BY DEF TypeOK
    <2>1. \A q \in subscriptions : call'[q].op = "sub" /\ call'[q].topics = {q}
      BY <1>4, <2>0 DEF ResumeBegin
    <2>2. \A q \in Calls : q \notin subscriptions => call'[q] = call[q]
      BY <1>4 DEF ResumeBegin
    <2>3. ASSUME NEW r \in undisturbed', NEW q \in Calls
          PROVE  ~WorksAgainst(q, call[r].op, call[r].topics)'
      <3>1. CASE r \in subscriptions
        <4>1. r \notin undisturbed
          BY <1>4, <3>1, <2>0 DEF ResumeBegin, ControlOK, TopicOK
        <4>2. \A u \in Callers : ~WorksAgainst(u, "sub", {r})
          BY <1>4, <2>3, <4>1 DEF ResumeBegin
        <4>3. CASE q \in subscriptions
          BY <3>1, <4>3, <2>1 DEF WorksAgainst
        <4>4. CASE q \notin subscriptions /\ call[q].op = "unsub"
          BY <3>1, <4>2, <4>4, <2>1, <2>2 DEF WorksAgainst, CallOK
        <4>5. CASE q \notin subscriptions /\ call[q].op # "unsub"
          BY <3>1, <4>5, <2>1, <2>2 DEF WorksAgainst
        <4> QED BY <4>3, <4>4, <4>5
      <3>2. CASE r \notin subscriptions
        <4>1. r \in undisturbed /\ ~WorksAgainst(r, "sub", subscriptions) /\ call'[r] = call[r]
          BY <1>4, <2>2, <2>3, <3>2 DEF ResumeBegin, TypeOK
        <4>2. CASE q \in subscriptions
          BY <4>1, <4>2, <2>1 DEF WorksAgainst
        <4>3. CASE q \notin subscriptions
          BY <4>1, <4>3, <2>2 DEF WorksAgainst, AgainstOK
        <4> QED BY <4>2, <4>3
      <3> QED BY <3>1, <3>2
    <2>4. resumed' = {}
      BY <1>4 DEF ResumeBegin, AgainstOK
    <2> QED BY <2>3, <2>4 DEF AgainstOK
  <1>5. CASE ResumeEnd
    <2>1. \A q \in Calls : call'[q] = call[q] \/ call'[q] = NoCall
      BY <1>5 DEF ResumeEnd
    <2>2. \A t \in resumed' : t \in undisturbed /\ t \in Topics
      BY <1>5 DEF ResumeEnd
    <2>3. \A t \in resumed' : call[t].op = "sub" /\ call[t].topics = {t}
      <3>1. TAKE t \in resumed'
      <3>2. call[t] = [op |-> "sub", topics |-> {t}]
        BY <2>2 DEF ControlOK, TopicOK
      <3> HIDE Names
      <3> QED BY <3>2
    <2>4. wpc' = "watch" /\ undisturbed' \subseteq undisturbed
      BY <1>5 DEF ResumeEnd
    <2>5. \A r \in undisturbed', q \in Calls : ~WorksAgainst(q, call[r].op, call[r].topics)'
      BY <2>1, <2>4, <1>n DEF AgainstOK, WorksAgainst, TypeOK
    <2>6. \A t \in resumed', q \in Calls : ~WorksAgainst(q, "sub", {t})'
      BY <2>1, <2>2, <2>3, <1>n DEF AgainstOK, WorksAgainst
    <2> QED BY <2>4, <2>5, <2>6 DEF AgainstOK
  <1>6. CASE ~CallsMove
    <2>1. call' = call
      BY <1>6, OthersMoveFrame
    <2>2. undisturbed' = undisturbed
      BY <1>6, OthersMoveFrame
      DEF CallNext, ExecBegin, ExecEnd, TaskSkip, TaskSend, TaskAck, TaskFail, TaskEnd,
          UpdateReceived, Reload, ReloadNothing, ResumeNothing, HandlerNext, ConnectionLost,
          HandlerBegin, HandlerEnd, watchVars, histVars, vars
    <2>3. (resumed' = resumed \/ resumed' = {}) /\ (wpc' # "watch" => resumed' = {})
      BY <1>6, OthersMoveFrame
      DEF CallNext, ExecBegin, ExecEnd, TaskSkip, TaskSend, TaskAck, TaskFail, TaskEnd,
          UpdateReceived, Reload, ReloadNothing, ResumeNothing, HandlerNext, ConnectionLost,
          HandlerBegin, HandlerEnd, watchVars, histVars, vars, AgainstOK
    <2> QED BY <2>1, <2>2, <2>3 DEF AgainstOK, WorksAgainst
  <1> QED BY <1>1, <1>2, <1>3, <1>4, <1>5, <1>6 DEF CallsMove

-----------------------------------------------------------------------------
(***************************************************************************)
(* What is in subsCalled.                                                  *)
(***************************************************************************)
LEMMA StateStep == TypeOK /\ ControlOK /\ CallOK /\ LockOK /\ StateOK /\ [Next]_vars => StateOK'
  <1> SUFFICES ASSUME TypeOK, ControlOK, CallOK, LockOK, StateOK, [Next]_vars,
                      NEW d \in Conns
               PROVE  /\ \A t \in subsCalled'[d] : (Has(t, d) \/ Loss(d) \/ Leaving(t, d))'
                      /\ \A q \in Calls :
                          (call[q].op = "sub" /\ UsesState(q) /\ task[q][d] = "acked")' =>
                              \A t \in call'[q].topics : (Has(t, d) \/ Loss(d))'
    BY DEF StateOK
  <1> USE Names
  <1> DEFINE Goal == /\ \A t \in subsCalled'[d] : (Has(t, d) \/ Loss(d) \/ Leaving(t, d))'
                     /\ \A q \in Calls :
                          (call[q].op = "sub" /\ UsesState(q) /\ task[q][d] = "acked")' =>
                              \A t \in call'[q].topics : (Has(t, d) \/ Loss(d))'
  (* Nothing is lost, and the same goroutines are about to report.          *)
  <1>f. ASSUME subsCalled'[d] = subsCalled[d],
               \A t \in Topics : Has(t, d) => Has(t, d)' \/ Loss(d)',
               Loss(d) => Loss(d)',
               \A q \in Calls : task[q][d] = "acked" <=> task'[q][d] = "acked",
               \A q \in Calls : task[q][d] = "acked" => call'[q] = call[q]
        PROVE  Goal
    <2>1. \A t \in Topics : Leaving(t, d) => Leaving(t, d)'
      BY <1>f DEF Leaving
    <2>2. ASSUME NEW t \in subsCalled'[d] PROVE (Has(t, d) \/ Loss(d) \/ Leaving(t, d))'
      <3>1. t \in Topics
        BY <1>f, <2>2 DEF TypeOK
      <3> QED BY <1>f, <2>1, <2>2, <3>1 DEF StateOK
    <2>3. ASSUME NEW q \in Calls, (call[q].op = "sub" /\ UsesState(q) /\ task[q][d] = "acked")',
                 NEW t \in call'[q].topics
          PROVE  (Has(t, d) \/ Loss(d))'
      <3>1. task[q][d] = "acked" /\ call'[q] = call[q] /\ call[q].op = "sub"
        BY <1>f, <2>3
      <3>2. UsesState(q)
        BY <2>3, <3>1 DEF UsesState
      <3>3. t \in Topics
        BY <3>1, <2>3, CallFields DEF TypeOK, CallType
      <3> QED BY <1>f, <2>3, <3>1, <3>2, <3>3 DEF StateOK
    <2> QED BY <2>2, <2>3
  <1>1. CASE CallsMove
    <2>1. UNCHANGED <<subsCalled, held, handler, task, forgot, doubt>>
      BY <1>1, CallsMoveFrame
    <2>2. \A q \in Calls : task[q][d] = "acked" => call'[q] = call[q]
      <3>1. \A q \in Calls : pc[q] = "in" => call'[q] = call[q]
        BY <1>1, CallsMoveFrame
      <3> QED BY <3>1 DEF ControlOK, TaskOK
    <2> QED BY <1>f, <2>1, <2>2 DEF Has, Loss
  <1>2. ASSUME ~CallsMove PROVE Goal
    <2>0. call' = call
      BY <1>2, OthersMoveFrame
    <2>1. ASSUME NEW p \in Calls, CallNext(p) PROVE Goal
      <3>1. CASE ExecBegin(p)
        <4>1. /\ UNCHANGED <<subsCalled, held, handler, forgot, doubt>>
              /\ task[p][d] = "none" /\ task'[p][d] \in {"none", "todo"}
              /\ \A q \in Calls : q # p => task'[q] = task[q]
          BY <3>1 DEF ExecBegin, stateVars, watchVars, histVars, ControlOK, TaskOK, TypeOK
        <4> QED BY <1>f, <2>0, <4>1 DEF Has, Loss
      <3>2. CASE ExecEnd(p)
        BY <3>2, <1>f DEF ExecEnd, stateVars, watchVars, histVars, Has, Loss
      <3>3. ASSUME NEW c \in Conns, TaskSkip(p, c) \/ TaskSend(p, c)
            PROVE  Goal
        <4>1. /\ UNCHANGED <<subsCalled, held, handler, forgot, doubt>>
              /\ task[p][c] = "todo" /\ task'[p][c] # "acked"
              /\ \A q \in Calls, e \in Conns : q # p \/ e # c => task'[q][e] = task[q][e]
          BY <3>3 DEF TaskSkip, TaskSend, stateVars, watchVars, histVars, TypeOK
        <4> QED BY <1>f, <2>0, <4>1 DEF Has, Loss
      <3>4. ASSUME NEW c \in Conns, TaskAck(p, c) PROVE Goal
        <4>1. /\ UNCHANGED <<subsCalled, handler, forgot, smu>>
              /\ task[p][c] = "sent" /\ task'[p][c] = "acked"
              /\ held'[c] = Applied(p, held[c]) /\ doubt'[c] = doubt[c] \ call[p].topics
              /\ \A e \in Conns : e # c => held'[e] = held[e] /\ doubt'[e] = doubt[e]
              /\ \A q \in Calls, e \in Conns : q # p \/ e # c => task'[q][e] = task[q][e]
          BY <3>4 DEF TaskAck, TypeOK
        <4>2. CASE d # c
          BY <1>f, <2>0, <4>1, <4>2 DEF Has, Loss
        <4>3. CASE d = c /\ call[p].op # "unsub"
          <5>1. \A t : Has(t, d) => Has(t, d)'
            BY <4>1, <4>3 DEF Has, Applied, Changed
          <5>2. \A t \in call[p].topics : Has(t, d)'
            BY <4>1, <4>3 DEF Has, Applied, Changed
          <5>3. Loss(d)' = Loss(d)
            BY <4>1 DEF Loss
          <5>4. \A t : Leaving(t, d) => Leaving(t, d)'
            BY <2>0, <4>1, <4>3 DEF Leaving
          <5>5. \A t \in subsCalled'[d] : (Has(t, d) \/ Loss(d) \/ Leaving(t, d))'
            BY <4>1, <5>1, <5>3, <5>4 DEF StateOK
          <5>6. ASSUME NEW q \in Calls, (call[q].op = "sub" /\ UsesState(q) /\ task[q][d] = "acked")'
                PROVE  \A t \in call'[q].topics : (Has(t, d) \/ Loss(d))'
            <6>1. UsesState(q)
              BY <2>0, <5>6 DEF UsesState
            <6>2. CASE q = p
              BY <6>2, <2>0, <5>2
            <6>3. CASE q # p
              BY <6>1, <6>3, <2>0, <4>1, <5>1, <5>3, <5>6 DEF StateOK
            <6> QED BY <6>2, <6>3
          <5> QED BY <5>5, <5>6
        <4>4. CASE d = c /\ call[p].op = "unsub"
          <5>0. UsesState(p) /\ smu[c] = p /\ p \in Callers
            BY <4>1, <4>4 DEF UsesState, LockOK, CallOK
          <5>1. \A t : t \notin call[p].topics /\ Has(t, d) => Has(t, d)'
            BY <4>1, <4>4 DEF Has, Applied, Changed
          <5>2. \A t \in call[p].topics : Leaving(t, d)'
            BY <2>0, <4>1, <4>4, <5>0 DEF Leaving
          <5>3. Loss(d)' = Loss(d)
            BY <4>1 DEF Loss
          <5>4. \A t : Leaving(t, d) => Leaving(t, d)'
            BY <2>0, <4>1, <4>4 DEF Leaving
          <5>5. \A t \in subsCalled'[d] : (Has(t, d) \/ Loss(d) \/ Leaving(t, d))'
            BY <4>1, <5>1, <5>2, <5>3, <5>4 DEF StateOK
          <5>6. \A q \in Calls : ~(call[q].op = "sub" /\ UsesState(q) /\ task[q][d] = "acked")'
            <6>1. \A q \in Calls : UsesState(q)' = UsesState(q)
              BY <2>0 DEF UsesState
            <6> QED BY <2>0, <4>1, <4>4, <5>0, <6>1 DEF LockOK
          <5> QED BY <5>5, <5>6
        <4> QED BY <4>2, <4>3, <4>4
      <3>5. ASSUME NEW c \in Conns, TaskFail(p, c) PROVE Goal
        <4>1. /\ UNCHANGED <<subsCalled, handler, forgot>>
              /\ task[p][c] = "sent" /\ task'[p][c] = "failed"
              /\ \A q \in Calls, e \in Conns : q # p \/ e # c => task'[q][e] = task[q][e]
          BY <3>5 DEF TaskFail, TypeOK
        <4>2. /\ held'[c] = held[c] \/ held'[c] = Applied(p, held[c])
              /\ doubt'[c] = IF call[p].op = "unsub" THEN doubt[c] \cup call[p].topics ELSE doubt[c]
              /\ \A e \in Conns : e # c => held'[e] = held[e] /\ doubt'[e] = doubt[e]
          BY <3>5 DEF TaskFail, TypeOK
        <4>3. \A t : Has(t, d) => Has(t, d)'
          BY <4>2 DEF Has, Applied, Changed
        <4> QED BY <1>f, <2>0, <4>1, <4>3 DEF Loss
      <3>6. ASSUME NEW c \in Conns, TaskEnd(p, c) PROVE Goal
        <4>1. /\ UNCHANGED <<held, handler, forgot, doubt>>
              /\ task[p][c] \in {"acked", "failed"} /\ task'[p][c] = "none"
              /\ subsCalled'[c] = IF UsesState(p) /\ task[p][c] = "acked"
                                  THEN Applied(p, subsCalled[c]) ELSE subsCalled[c]
              /\ \A e \in Conns : e # c => subsCalled'[e] = subsCalled[e]
              /\ \A q \in Calls, e \in Conns : q # p \/ e # c => task'[q][e] = task[q][e]
          BY <3>6 DEF TaskEnd, watchVars, histVars, TypeOK
        <4>2. CASE d # c
          BY <1>f, <2>0, <4>1, <4>2 DEF Has, Loss
        <4>3. CASE d = c
          <5>1. /\ \A t : Has(t, d)' = Has(t, d)
                /\ Loss(d)' = Loss(d)
                /\ \A q \in Calls : UsesState(q)' = UsesState(q)
            BY <2>0, <4>1 DEF Has, Loss, UsesState
          <5>2. \A q \in Calls : (call[q].op = "sub" /\ UsesState(q) /\ task[q][d] = "acked")' =>
                              \A t \in call'[q].topics : (Has(t, d) \/ Loss(d))'
            <6> SUFFICES ASSUME NEW q \in Calls,
                                (call[q].op = "sub" /\ UsesState(q) /\ task[q][d] = "acked")'
                         PROVE  \A t \in call'[q].topics : (Has(t, d) \/ Loss(d))'
              OBVIOUS
            <6>1. call[q].op = "sub" /\ UsesState(q) /\ task[q][d] = "acked"
              BY <2>0, <4>1, <4>3, <5>1
            <6> QED BY <2>0, <5>1, <6>1 DEF StateOK
          <5>3. ASSUME NEW t \in subsCalled'[d] PROVE (Has(t, d) \/ Loss(d) \/ Leaving(t, d))'
            <6>1. CASE t \notin subsCalled[d]
              <7>1. /\ UsesState(p) /\ task[p][d] = "acked"
                    /\ call[p].op # "unsub" /\ t \in call[p].topics
                BY <6>1, <5>3, <4>1, <4>3 DEF Applied, Changed
              <7>2. call[p].op = "sub"
                BY <7>1 DEF UsesState
              <7> QED BY <7>1, <7>2, <5>1 DEF StateOK
            <6>2. CASE t \in subsCalled[d] /\ Leaving(t, d)
              <7>1. PICK q \in Callers : call[q].op = "unsub" /\ t \in call[q].topics
                                        /\ task[q][d] = "acked"
                BY <6>2 DEF Leaving
              <7>2. q # p
                BY <7>1, <5>3, <4>1, <4>3 DEF Applied, Changed, UsesState
              <7> QED BY <7>1, <7>2, <2>0, <4>1 DEF Leaving
            <6>3. CASE t \in subsCalled[d] /\ ~Leaving(t, d)
              BY <6>3, <5>1 DEF StateOK
            <6> QED BY <6>1, <6>2, <6>3
          <5> QED BY <5>2, <5>3
        <4> QED BY <4>2, <4>3
      <3> QED BY <2>1, <3>1, <3>2, <3>3, <3>4, <3>5, <3>6 DEF CallNext
    <2>2. CASE UpdateReceived \/ ReloadNothing \/ ResumeNothing
      BY <2>2, <1>f DEF UpdateReceived, ReloadNothing, ResumeNothing, stateVars, callVars, histVars,
                        Has, Loss
    <2>3. CASE Reload
      <3>1. subsCalled'[d] = {} /\ task' = task /\ \A q \in Calls : pc[q] # "in"
        BY <2>3 DEF Reload, NewSubsCalled, callVars, Readers
      <3> QED BY <3>1 DEF ControlOK, TaskOK
    <2>4. ASSUME NEW c \in Conns, HandlerNext(c) PROVE Goal
      <3>1. CASE ConnectionLost(c)
        <4>1. UNCHANGED <<subsCalled, task, doubt>>
          BY <3>1 DEF ConnectionLost, callVars
        <4>2. \/ held' = held /\ forgot' = forgot
              \/ held' = [held EXCEPT ![c] = {}] /\ forgot' = forgot \cup {c}
          BY <3>1 DEF ConnectionLost
        <4>3. handler[c] = "none" /\ handler' = [handler EXCEPT ![c] = "pending"]
          BY <3>1 DEF ConnectionLost
        <4>4. Loss(d) => Loss(d)'
          BY <4>2, <4>3 DEF Loss, TypeOK
        <4>5. \A t \in Topics : Has(t, d) => Has(t, d)' \/ Loss(d)'
          BY <4>1, <4>2, <4>3 DEF Has, Loss, TypeOK
        <4> QED BY <1>f, <2>0, <4>1, <4>4, <4>5
      <3>2. CASE HandlerBegin(c)
        <4>1. UNCHANGED <<subsCalled, task, held, forgot, doubt>>
              /\ handler[c] = "pending" /\ handler' = [handler EXCEPT ![c] = "in"]
          BY <3>2 DEF HandlerBegin, callVars, watchVars, histVars
        <4>2. Loss(d) => Loss(d)'
          BY <4>1 DEF Loss, TypeOK
        <4> QED BY <1>f, <2>0, <4>1, <4>2 DEF Has
      <3>3. CASE HandlerEnd(c)
        <4>1. UNCHANGED <<task, held, forgot, doubt>> /\ smu[c] = None
              /\ subsCalled' = [subsCalled EXCEPT ![c] = {}]
              /\ handler' = [handler EXCEPT ![c] = "none"]
          BY <3>3 DEF HandlerEnd, SubsAfterLoss, callVars, watchVars, histVars
        <4>2. CASE d # c
          <5>1. subsCalled'[d] = subsCalled[d] /\ handler'[d] = handler[d]
            BY <4>1, <4>2 DEF TypeOK
          <5> QED BY <1>f, <2>0, <4>1, <5>1 DEF Has, Loss
        <4>3. CASE d = c
          <5>1. subsCalled'[d] = {}
            BY <4>1, <4>3 DEF TypeOK
          <5>2. \A q \in Calls : ~(call[q].op = "sub" /\ UsesState(q) /\ task[q][d] = "acked")'
            <6>1. \A q \in Calls : UsesState(q)' = UsesState(q)
              BY <2>0 DEF UsesState
            <6> QED BY <2>0, <4>1, <4>3, <6>1 DEF LockOK
          <5> QED BY <5>1, <5>2
        <4> QED BY <4>2, <4>3
      <3> QED BY <2>4, <3>1, <3>2, <3>3 DEF HandlerNext
    <2>5. CASE UNCHANGED vars
      BY <2>5, <1>f DEF vars, stateVars, callVars, watchVars, histVars, Has, Loss
    <2> QED BY <1>2, OthersMoveFrame, <2>1, <2>2, <2>3, <2>4, <2>5
  <1> QED BY <1>1, <1>2

-----------------------------------------------------------------------------
(***************************************************************************)
(* What the calls have achieved. A topic stays with a connection if nobody *)
(* unsubscribes it, and away from it if nobody subscribes it.              *)
(***************************************************************************)
LEMMA ReachedStays ==
    ASSUME TypeOK, ControlOK, [Next]_vars, ~Reload, NEW t \in Topics, NEW c \in Conns,
           \A q \in Calls : ~WorksAgainst(q, "sub", {t}), Reached(t, c)
    PROVE  Reached(t, c)'
  <1> USE Names
  <1>1. ASSUME UNCHANGED <<held, doubt, forgot>> PROVE Reached(t, c)'
    BY <1>1 DEF Reached, Has
  <1>2. CASE CallsMove
    BY <1>1, <1>2, CallsMoveFrame
  <1>3. ASSUME NEW p \in Calls, CallNext(p) PROVE Reached(t, c)'
    <2>1. CASE ExecBegin(p) \/ ExecEnd(p) \/ \E d \in Conns : TaskSkip(p, d) \/ TaskSend(p, d) \/ TaskEnd(p, d)
      BY <1>1, <2>1
      DEF ExecBegin, ExecEnd, TaskSkip, TaskSend, TaskEnd, stateVars, watchVars, histVars
    <2>2. ASSUME NEW d \in Conns, TaskAck(p, d) \/ TaskFail(p, d) PROVE Reached(t, c)'
      <3>1. forgot' = forgot
        BY <2>2 DEF TaskAck, TaskFail
      <3>2. \/ held'[c] = held[c] /\ doubt'[c] = doubt[c]
            \/ held'[c] = Applied(p, held[c]) /\ doubt'[c] = doubt[c] \ call[p].topics
            \/ /\ held'[c] = held[c] \/ held'[c] = Applied(p, held[c])
               /\ doubt'[c] = IF call[p].op = "unsub" THEN doubt[c] \cup call[p].topics ELSE doubt[c]
        <4>1. CASE d # c
          BY <2>2, <4>1 DEF TaskAck, TaskFail, TypeOK
        <4>2. CASE d = c /\ TaskAck(p, d)
          BY <4>2 DEF TaskAck, TypeOK
        <4>3. CASE d = c /\ TaskFail(p, d)
          <5>1. held'[c] = held[c] \/ held'[c] = Applied(p, held[c])
            BY <4>3 DEF TaskFail, TypeOK
          <5>2. doubt'[c] = IF call[p].op = "unsub" THEN doubt[c] \cup call[p].topics ELSE doubt[c]
            BY <4>3 DEF TaskFail, TypeOK
          <5> QED BY <5>1, <5>2
        <4> QED BY <2>2, <4>1, <4>2, <4>3
      <3>3. call[p].op = "unsub" => t \notin call[p].topics
        BY DEF WorksAgainst
      <3> QED BY <3>1, <3>2, <3>3 DEF Reached, Has, Applied, Changed
    <2> QED BY <1>3, <2>1, <2>2 DEF CallNext
  <1>4. CASE UpdateReceived \/ ReloadNothing \/ ResumeNothing
    BY <1>1, <1>4 DEF UpdateReceived, ReloadNothing, ResumeNothing, stateVars, histVars
  <1>5. ASSUME NEW d \in Conns, HandlerNext(d) PROVE Reached(t, c)'
    <2>1. CASE ConnectionLost(d)
      BY <2>1 DEF ConnectionLost, Reached, Has, TypeOK
    <2>2. CASE HandlerBegin(d) \/ HandlerEnd(d)
      BY <1>1, <2>2 DEF HandlerBegin, HandlerEnd, watchVars, histVars
    <2> QED BY <1>5, <2>1, <2>2 DEF HandlerNext
  <1>6. CASE UNCHANGED vars
    BY <1>1, <1>6 DEF vars, stateVars, watchVars, histVars
  <1> QED BY <1>2, <1>3, <1>4, <1>5, <1>6, OthersMoveFrame

(* What the broker does not hold, only a Subscribe brings back.            *)
LEMMA GoneStays ==
    ASSUME TypeOK, ControlOK, [Next]_vars, NEW t \in Topics, NEW c \in Conns,
           \A q \in Calls : ~WorksAgainst(q, "unsub", {t}), t \notin held[c]
    PROVE  t \notin held'[c]
  <1> USE Names
  <1>1. CASE held' = held
    BY <1>1
  <1>2. CASE CallsMove
    BY <1>1, <1>2, CallsMoveFrame
  <1>3. ASSUME NEW p \in Calls, CallNext(p) PROVE t \notin held'[c]
    <2>1. held'[c] = held[c] \/ held'[c] = Applied(p, held[c])
      BY <1>3 DEF CallNext, ExecBegin, ExecEnd, TaskSkip, TaskSend, TaskAck, TaskFail, TaskEnd,
                  stateVars, TypeOK
    <2>2. call[p].op # "unsub" => t \notin call[p].topics
      BY DEF WorksAgainst
    <2> QED BY <2>1, <2>2 DEF Applied, Changed
  <1>4. CASE UpdateReceived \/ Reload \/ ReloadNothing \/ ResumeNothing
    BY <1>4 DEF UpdateReceived, Reload, ReloadNothing, ResumeNothing, stateVars
  <1>5. ASSUME NEW d \in Conns, HandlerNext(d) PROVE t \notin held'[c]
    BY <1>5 DEF HandlerNext, ConnectionLost, HandlerBegin, HandlerEnd, TypeOK
  <1>6. CASE UNCHANGED vars
    BY <1>1, <1>6 DEF vars, stateVars
  <1> QED BY <1>2, <1>3, <1>4, <1>5, <1>6, OthersMoveFrame

(* The steps that begin and end calls leave those that are executed as     *)
(* they are, and what they do to the resumption of topics.                 *)
LEMMA CallsMoveHistory ==
    ASSUME TypeOK, ControlOK, CallsMove
    PROVE  /\ \A q \in Calls :
                pc[q] = "in" => failed'[q] = failed[q] /\ (q \in undisturbed' => q \in undisturbed)
           /\ ~ResumeBegin /\ ~ResumeEnd =>
                /\ \A t \in Topics :
                    /\ pc'[t] = pc[t] /\ failed'[t] = failed[t]
                    /\ t \in undisturbed' => t \in undisturbed
                /\ resumed' \subseteq resumed
  <1> USE Names DEF ControlOK
  <1>1. ASSUME NEW p \in Callers, NEW op \in {"sub", "multi", "unsub"}, NEW T \in TopicSets(op),
               Begin(p, op, T)
        PROVE  /\ failed' = failed /\ undisturbed' \subseteq undisturbed \cup {p}
               /\ pc[p] = "idle" /\ resumed' \subseteq resumed
               /\ \A t \in Topics : pc'[t] = pc[t]
    <2>1. failed' = failed /\ pc[p] = "idle"
      BY <1>1 DEF Begin
    <2>2. undisturbed' \subseteq undisturbed \cup {p} /\ resumed' \subseteq resumed
      BY <1>1 DEF Begin
    <2>3. \A t \in Topics : pc'[t] = pc[t]
      BY <1>1 DEF Begin, Goto, TypeOK
    <2> QED BY <2>1, <2>2, <2>3
  <1>2. ASSUME NEW p \in Callers, Join(p) \/ Remember(p)
        PROVE  /\ undisturbed' \subseteq undisturbed /\ resumed' = resumed
               /\ pc[p] # "in" /\ pc[Half(p)] # "in"
               /\ \A q \in Calls : q # p /\ q # Half(p) => failed'[q] = failed[q] /\ pc'[q] = pc[q]
    <2>1. pc[p] # "in" /\ pc[Half(p)] # "in"
      BY <1>2 DEF Join, Remember, HalfOK
    <2>2. undisturbed' \subseteq undisturbed /\ resumed' = resumed
      BY <1>2 DEF Join, Remember, Returned
    <2>3. \A q \in Calls : q # p /\ q # Half(p) => failed'[q] = failed[q] /\ pc'[q] = pc[q]
      BY <1>2 DEF Join, Remember, Returned, Goto, TypeOK
    <2> QED BY <2>1, <2>2, <2>3
  <1>3. CASE ResumeBegin
    <2>1. \A t \in Topics : pc[t] = "idle"
      BY <1>3 DEF ResumeBegin, TopicOK
    <2>2. failed' = failed /\ \A q \in undisturbed' : q \in undisturbed \/ q \in Topics
      BY <1>3 DEF ResumeBegin, TypeOK
    <2> QED BY <1>3, <2>1, <2>2
  <1>4. CASE ResumeEnd
    <2>1. \A t \in Topics : pc[t] = "idle"
      BY <1>4 DEF ResumeEnd
    <2>2. \A q \in Calls : q \notin Topics => failed'[q] = failed[q]
      BY <1>4 DEF ResumeEnd, TypeOK
    <2>3. undisturbed' \subseteq undisturbed
      BY <1>4 DEF ResumeEnd
    <2> QED BY <1>4, <2>1, <2>2, <2>3
  <1> QED BY <1>1, <1>2, <1>3, <1>4 DEF CallsMove

(* The other steps disturb nobody, and what failed stays so.               *)
LEMMA OthersMoveHistory ==
    ASSUME TypeOK, [Next]_vars, ~CallsMove
    PROVE  /\ undisturbed' = undisturbed /\ (resumed' = resumed \/ resumed' = {})
           /\ \A q \in Calls : failed[q] => failed'[q]
  <1>1. ASSUME NEW p \in Calls, CallNext(p)
        PROVE  undisturbed' = undisturbed /\ resumed' = resumed /\ \A q \in Calls : failed[q] => failed'[q]
    <2>1. undisturbed' = undisturbed /\ resumed' = resumed
      BY <1>1 DEF CallNext, ExecBegin, ExecEnd, TaskSkip, TaskSend, TaskAck, TaskFail, TaskEnd,
                  watchVars, histVars
    <2>2. CASE failed' = failed
      BY <2>1, <2>2
    <2>3. ASSUME NEW c \in Conns, TaskEnd(p, c) PROVE \A q \in Calls : failed[q] => failed'[q]
      BY <2>3 DEF TaskEnd, TypeOK
    <2> QED BY <1>1, <2>1, <2>2, <2>3
            DEF CallNext, ExecBegin, ExecEnd, TaskSkip, TaskSend, TaskAck, TaskFail
  <1>2. CASE UpdateReceived \/ Reload \/ ReloadNothing \/ ResumeNothing
    BY <1>2 DEF UpdateReceived, Reload, ReloadNothing, ResumeNothing, callVars, histVars
  <1>3. ASSUME NEW c \in Conns, HandlerNext(c)
        PROVE  undisturbed' = undisturbed /\ resumed' = resumed /\ failed' = failed
    BY <1>3 DEF HandlerNext, ConnectionLost, HandlerBegin, HandlerEnd, callVars, watchVars, histVars
  <1>4. CASE UNCHANGED vars
    BY <1>4 DEF vars, callVars, watchVars, histVars
  <1> QED BY <1>1, <1>2, <1>3, <1>4, OthersMoveFrame

(* A call that nothing has disturbed keeps what it has achieved.           *)
LEMMA AchievedStays ==
    ASSUME TypeOK, ControlOK, AgainstOK, [Next]_vars, ~Reload, NEW p \in undisturbed,
           NEW c \in Conns, Achieved(p, c), call'[p] = call[p]
    PROVE  Achieved(p, c)'
  <1>1. p \in Calls /\ call[p].topics \subseteq Topics
    BY CallFields DEF TypeOK, CallType
  <1>2. \A t \in call[p].topics, q \in Calls : ~WorksAgainst(q, call[p].op, {t})
    BY <1>1 DEF AgainstOK, WorksAgainst
  <1>3. CASE call[p].op = "unsub"
    <2>1. \A t \in call[p].topics : t \notin held'[c]
      BY <1>1, <1>2, <1>3, GoneStays DEF Achieved
    <2> QED BY <1>3, <2>1 DEF Achieved
  <1>4. CASE call[p].op # "unsub"
    <2>1. \A t \in call[p].topics, q \in Calls : ~WorksAgainst(q, "sub", {t})
      BY <1>2, <1>4 DEF WorksAgainst
    <2>2. \A t \in call[p].topics \cap Shared : Reached(t, c)'
      BY <1>1, <1>4, <2>1, ReachedStays DEF Achieved
    <2> QED BY <1>4, <2>2 DEF Achieved
  <1> QED BY <1>3, <1>4

(* Every step keeps what undisturbed calls have achieved.                  *)
LEMMA OverStep ==
    ASSUME TypeOK, ControlOK, CallOK, AgainstOK, StateOK, OverOK, [Next]_vars
    PROVE  OverOK'
  <1> SUFFICES ASSUME NEW p \in undisturbed', NEW c \in Conns, Over(p, c)'
               PROVE  Achieved(p, c)'
    BY DEF OverOK
  <1> USE Names
  <1>1. CASE CallsMove
    <2>0. p \in Calls
      BY TypeStep DEF TypeOK
    <2>1. pc[p] = "in" /\ call'[p] = call[p] /\ UNCHANGED <<held, task, forgot, doubt>>
      BY <1>1, <2>0, CallsMoveFrame DEF Over
    <2>2. failed'[p] = failed[p] /\ p \in undisturbed
      BY <1>1, <2>0, <2>1, CallsMoveHistory
    <2>3. Achieved(p, c)
      BY <2>1, <2>2 DEF OverOK, Over
    <2> QED BY <2>1, <2>3 DEF Achieved, Reached, Has
  <1>2. CASE ~CallsMove
    <2>0. call' = call /\ p \in undisturbed /\ p \in Calls /\ ~failed[p]
      BY <1>2, OthersMoveFrame, OthersMoveHistory DEF TypeOK, Over
    <2>1. CASE Over(p, c) /\ ~Reload
      <3>1. Achieved(p, c)
        BY <2>0, <2>1 DEF OverOK
      <3> QED BY <2>0, <2>1, <3>1, AchievedStays
    <2>2. CASE Reload
      BY <2>0, <2>2 DEF Reload, Readers, Over, callVars
    <2>3. ASSUME ~Over(p, c) PROVE Achieved(p, c)'
      <3>1. PICK q \in Calls : CallNext(q)
        <4>1. ASSUME UNCHANGED <<pc, task>> PROVE FALSE
          BY <4>1, <2>0, <2>3 DEF Over
        <4>2. CASE UpdateReceived \/ Reload \/ ReloadNothing \/ ResumeNothing
          BY <4>1, <4>2 DEF UpdateReceived, Reload, ReloadNothing, ResumeNothing, callVars
        <4>3. CASE \E d \in Conns : HandlerNext(d)
          BY <4>1, <4>3 DEF HandlerNext, ConnectionLost, HandlerBegin, HandlerEnd, callVars
        <4>4. CASE UNCHANGED vars
          BY <4>1, <4>4 DEF vars, callVars
        <4> QED BY <1>2, OthersMoveFrame, <4>2, <4>3, <4>4
      <3>2. CASE ExecBegin(q)
        <4>1. q = p
          BY <3>2, <2>0, <2>3 DEF ExecBegin, Goto, Over, TypeOK
        <4>2. CASE call[p].op = "unsub" \/ ~(call[p].topics \subseteq Normal)
          <5>1. TargetSets(p) = {Conns}
            BY <4>2 DEF TargetSets
          <5>2. task'[p][c] = "todo"
            BY <3>2, <4>1, <5>1, <2>0 DEF ExecBegin, TypeOK
          <5> QED BY <5>2 DEF Over
        <4>3. CASE call[p].op # "unsub" /\ call[p].topics \subseteq Normal
          BY <4>3, <2>0 DEF Achieved
        <4> QED BY <4>2, <4>3
      <3>3. CASE ExecEnd(q)
        BY <3>3, <2>0, <2>3 DEF ExecEnd, Goto, Over, TypeOK
      <3>4. ASSUME NEW d \in Conns, TaskSkip(q, d) PROVE Achieved(p, c)'
        <4>1. q = p /\ d = c
          BY <3>4, <2>0, <2>3 DEF TaskSkip, Over, TypeOK
        <4>2. /\ call[p].op = "sub" /\ call[p].topics \subseteq subsCalled[c]
              /\ UNCHANGED <<held, forgot, doubt>>
          BY <3>4, <4>1 DEF TaskSkip, KnownToHold, stateVars, watchVars, histVars
        <4>3. ASSUME NEW t \in call[p].topics PROVE Reached(t, c)
          <5>1. ~Leaving(t, c)
            BY <2>0, <4>2, <4>3 DEF AgainstOK, WorksAgainst, Leaving
          <5>2. Has(t, c) \/ Loss(c) \/ Leaving(t, c)
            BY <4>2, <4>3 DEF StateOK
          <5> QED BY <5>1, <5>2 DEF Reached, Loss
        <4> QED BY <4>2, <4>3, <2>0 DEF Achieved, Reached, Has
      <3>5. ASSUME NEW d \in Conns, TaskSend(q, d) \/ TaskFail(q, d) PROVE FALSE
        <4>1. /\ pc' = pc /\ failed' = failed /\ task'[q][d] \in {"sent", "failed"}
              /\ \A r \in Calls, e \in Conns : r # q \/ e # d => task'[r][e] = task[r][e]
          BY <3>5 DEF TaskSend, TaskFail, TypeOK
        <4> QED BY <4>1, <2>0, <2>3 DEF Over
      <3>6. ASSUME NEW d \in Conns, TaskAck(q, d) PROVE Achieved(p, c)'
        <4>1. q = p /\ d = c
          BY <3>6, <2>0, <2>3 DEF TaskAck, Over, TypeOK
        <4>2. held'[c] = Applied(p, held[c])
          BY <3>6, <4>1 DEF TaskAck, TypeOK
        <4> QED BY <4>2, <2>0 DEF Achieved, Reached, Has, Applied, Changed
      <3>7. ASSUME NEW d \in Conns, TaskEnd(q, d) PROVE FALSE
        <4>1. q = p /\ d = c
          BY <3>7, <2>0, <2>3 DEF TaskEnd, Over, TypeOK
        <4>2. task[p][c] = "failed" /\ pc' = pc
          BY <3>7, <4>1, <2>0, <2>3 DEF TaskEnd, Over
        <4>3. failed'[p]
          BY <3>7, <4>1, <4>2, <2>0 DEF TaskEnd, TypeOK
        <4> QED BY <4>3 DEF Over
      <3> QED BY <3>1, <3>2, <3>3, <3>4, <3>5, <3>6, <3>7 DEF CallNext
    <2> QED BY <2>1, <2>2, <2>3
  <1> QED BY <1>1, <1>2

(* Nothing is reloaded while topics are resumed.                           *)
LEMMA Resuming ==
    ASSUME ControlOK, NEW t \in Topics, t \in undisturbed
    PROVE  /\ wpc = "resuming" /\ ~Reload /\ ~ResumeBegin
           /\ call[t].op = "sub" /\ call[t].topics = {t}
  <1>1. wpc = "resuming" /\ call[t] = [op |-> "sub", topics |-> {t}]
    BY DEF ControlOK, TopicOK
  <1>2. ~Reload /\ ~ResumeBegin
    BY <1>1 DEF Reload, ResumeBegin
  <1> QED BY <1>1, <1>2

(* A topic that is being resumed was being resumed before, or is about to. *)
LEMMA ResumingBefore ==
    ASSUME TypeOK, ControlOK, [Next]_vars, NEW t \in Topics, t \in undisturbed'
    PROVE  \/ ResumeBegin /\ pc'[t] = "rlock"
           \/ t \in undisturbed /\ ~ResumeBegin /\ ~ResumeEnd /\ (failed[t] => failed'[t])
  <1> USE Names
  <1>1. CASE ResumeBegin
    <2>1. t \notin undisturbed
      BY <1>1 DEF ResumeBegin, ControlOK, TopicOK
    <2>2. t \in subscriptions
      BY <1>1, <2>1 DEF ResumeBegin
    <2> QED BY <1>1, <2>2 DEF ResumeBegin
  <1>2. CASE ~ResumeBegin
    <2>1. ~ResumeEnd
      BY DEF ResumeEnd
    <2>2. CASE CallsMove
      BY <1>2, <2>1, <2>2, CallsMoveHistory
    <2>3. CASE ~CallsMove
      BY <1>2, <2>1, <2>3, OthersMoveHistory
    <2> QED BY <2>2, <2>3
  <1> QED BY <1>1, <1>2

(* Every step keeps resumed shared topics on all connections.              *)
LEMMA SharedStep ==
    ASSUME TypeOK, ControlOK, AgainstOK, OverOK, SharedOK, [Next]_vars
    PROVE  SharedOK'
  <1> SUFFICES ASSUME NEW t \in Shared, t \in undisturbed', pc'[t] = "idle", ~failed'[t],
                      NEW c \in Conns
               PROVE  Reached(t, c)'
    BY DEF SharedOK
  <1> USE Names
  <1>1. t \in undisturbed /\ ~ResumeBegin /\ ~ResumeEnd /\ ~failed[t]
    BY ResumingBefore
  <1>2. ~Reload /\ call[t].op = "sub" /\ call[t].topics = {t}
    BY <1>1, Resuming
  <1>3. \A q \in Calls : ~WorksAgainst(q, "sub", {t})
    BY <1>1, <1>2 DEF AgainstOK, WorksAgainst
  <1>4. CASE pc[t] = "idle"
    BY <1>1, <1>2, <1>3, <1>4, ReachedStays DEF SharedOK
  <1>5. CASE pc[t] # "idle"
    <2>1. ExecEnd(t)
      <3>1. CASE CallsMove
        BY <1>1, <1>5, <3>1, CallsMoveHistory
      <3>2. ASSUME NEW q \in Calls, CallNext(q) PROVE ExecEnd(t)
        BY <1>5, <3>2 DEF CallNext, ExecBegin, ExecEnd, TaskSkip, TaskSend, TaskAck, TaskFail,
                          TaskEnd, Goto, TypeOK
      <3>3. CASE UpdateReceived \/ Reload \/ ReloadNothing \/ ResumeNothing
        BY <1>5, <3>3 DEF UpdateReceived, Reload, ReloadNothing, ResumeNothing, callVars
      <3>4. CASE \E d \in Conns : HandlerNext(d)
        BY <1>5, <3>4 DEF HandlerNext, ConnectionLost, HandlerBegin, HandlerEnd, callVars
      <3>5. CASE UNCHANGED vars
        BY <1>5, <3>5 DEF vars, callVars
      <3> QED BY <3>1, <3>2, <3>3, <3>4, <3>5, OthersMoveFrame
    <2>2. Over(t, c)
      BY <1>1, <2>1 DEF ExecEnd, Over, NoTask
    <2>3. Reached(t, c)
      BY <1>1, <1>2, <2>2 DEF OverOK, Achieved
    <2> QED BY <1>2, <1>3, <2>3, ReachedStays
  <1> QED BY <1>4, <1>5

(* Every step keeps resumed other topics on some connection.               *)
LEMMA NormalStep ==
    ASSUME TypeOK, ControlOK, AgainstOK, NormalOK, [Next]_vars
    PROVE  NormalOK'
  <1> SUFFICES ASSUME NEW t \in Normal, t \in undisturbed', pc'[t] # "rlock", ~failed'[t]
               PROVE  \E c \in Conns : Reached(t, c)' \/ task'[t][c] \in {"todo", "sent", "failed"}
    BY DEF NormalOK
  <1> USE Names
  <1>1. t \in undisturbed /\ ~ResumeBegin /\ ~ResumeEnd /\ ~failed[t]
    BY ResumingBefore
  <1>2. ~Reload /\ call[t].op = "sub" /\ call[t].topics = {t}
    BY <1>1, Resuming
  <1>3. \A q \in Calls : ~WorksAgainst(q, "sub", {t})
    BY <1>1, <1>2 DEF AgainstOK, WorksAgainst
  <1>4. CASE CallsMove
    <2>1. pc'[t] = pc[t]
      BY <1>1, <1>4, CallsMoveHistory
    <2>2. UNCHANGED <<held, task, forgot, doubt>>
      BY <1>4, CallsMoveFrame
    <2> QED BY <1>1, <2>1, <2>2 DEF NormalOK, Reached, Has
  <1>5. CASE ~CallsMove /\ pc[t] = "rlock"
    <2>1. ExecBegin(t)
      <3>1. ASSUME NEW q \in Calls, CallNext(q) PROVE ExecBegin(t)
        <4>0. pc \in [Calls -> {"idle", "rlock", "in", "done", "remember"}] /\ pc'[t] # pc[t]
          BY <1>5 DEF TypeOK
        <4>1. CASE \E c \in Conns : TaskSkip(q, c) \/ TaskSend(q, c) \/ TaskAck(q, c)
                                    \/ TaskFail(q, c) \/ TaskEnd(q, c)
          <5>1. pc' = pc
            BY <4>1 DEF TaskSkip, TaskSend, TaskAck, TaskFail, TaskEnd
          <5> QED BY <4>0, <5>1
        <4>2. CASE ExecEnd(q)
          <5>1. q # t
            BY <1>5, <4>2 DEF ExecEnd
          <5> QED BY <4>0, <4>2, <5>1 DEF ExecEnd, Goto
        <4>3. CASE ExecBegin(q)
          <5>1. q = t
            BY <4>0, <4>3 DEF ExecBegin, Goto
          <5> QED BY <4>3, <5>1
        <4> QED BY <3>1, <4>1, <4>2, <4>3 DEF CallNext
      <3>2. CASE UpdateReceived \/ Reload \/ ReloadNothing \/ ResumeNothing
        BY <1>5, <3>2 DEF UpdateReceived, Reload, ReloadNothing, ResumeNothing, callVars
      <3>3. CASE \E d \in Conns : HandlerNext(d)
        BY <1>5, <3>3 DEF HandlerNext, ConnectionLost, HandlerBegin, HandlerEnd, callVars
      <3>4. CASE UNCHANGED vars
        BY <1>5, <3>4 DEF vars, callVars
      <3> QED BY <1>5, <3>1, <3>2, <3>3, <3>4, OthersMoveFrame
    <2>2. TargetSets(t) = {{c} : c \in Conns}
      BY <1>2 DEF TargetSets
    <2>3. PICK T \in TargetSets(t) :
            task' = [task EXCEPT ![t] = [e \in Conns |-> IF e \in T THEN "todo" ELSE "none"]]
      BY <2>1 DEF ExecBegin
    <2>4. PICK c \in Conns : c \in T
      BY <2>2
    <2>5. task'[t][c] = "todo"
      BY <2>3, <2>4 DEF TypeOK
    <2> QED BY <2>5
  <1>6. CASE ~CallsMove /\ pc[t] # "rlock"
    <2>1. PICK c \in Conns : Reached(t, c) \/ task[t][c] \in {"todo", "sent", "failed"}
      BY <1>1, <1>6 DEF NormalOK
    <2>2. CASE Reached(t, c)
      BY <1>2, <1>3, <2>2, ReachedStays
    <2>3. CASE task[t][c] \in {"todo", "sent", "failed"}
      <3>0. ~UsesState(t)
        BY <1>2 DEF UsesState
      <3>1. CASE task'[t][c] = task[t][c]
        BY <2>3, <3>1
      <3>2. ASSUME NEW q \in Calls, CallNext(q)
            PROVE  Reached(t, c)' \/ task'[t][c] \in {"todo", "sent", "failed"}
        <4>1. CASE ExecBegin(q)
          <5>1. pc[t] = "in"
            BY <2>3 DEF ControlOK, TaskOK
          <5>2. q # t
            BY <4>1, <5>1 DEF ExecBegin
          <5> QED BY <2>3, <4>1, <5>2 DEF ExecBegin, TypeOK
        <4>2. CASE ExecEnd(q)
          BY <2>3, <4>2 DEF ExecEnd
        <4>3. ASSUME NEW d \in Conns, TaskSkip(q, d) PROVE task'[t][c] = task[t][c]
          BY <3>0, <4>3 DEF TaskSkip, TypeOK
        <4>4. ASSUME NEW d \in Conns, TaskSend(q, d) \/ TaskFail(q, d)
              PROVE  task'[t][c] \in {"todo", "sent", "failed"}
          BY <2>3, <4>4 DEF TaskSend, TaskFail, TypeOK
        <4>5. ASSUME NEW d \in Conns, TaskAck(q, d)
              PROVE  Reached(t, c)' \/ task'[t][c] = task[t][c]
          <5>1. CASE q = t /\ d = c
            <6>1. held'[c] = Applied(t, held[c])
              BY <4>5, <5>1 DEF TaskAck, TypeOK
            <6> QED BY <1>2, <6>1 DEF Reached, Has, Applied, Changed
          <5>2. CASE ~(q = t /\ d = c)
            BY <4>5, <5>2 DEF TaskAck, TypeOK
          <5> QED BY <5>1, <5>2
        <4>6. ASSUME NEW d \in Conns, TaskEnd(q, d) PROVE task'[t][c] = task[t][c]
          <5>1. CASE q = t /\ d = c
            <6>1. task[t][c] = "failed"
              BY <2>3, <4>6, <5>1 DEF TaskEnd
            <6>2. failed'[t]
              BY <4>6, <5>1, <6>1 DEF TaskEnd, TypeOK
            <6> QED BY <6>2
          <5>2. CASE ~(q = t /\ d = c)
            BY <4>6, <5>2 DEF TaskEnd, TypeOK
          <5> QED BY <5>1, <5>2
        <4> QED BY <2>3, <3>2, <4>1, <4>2, <4>3, <4>4, <4>5, <4>6 DEF CallNext
      <3>3. CASE UpdateReceived \/ Reload \/ ReloadNothing \/ ResumeNothing
        BY <3>1, <3>3 DEF UpdateReceived, Reload, ReloadNothing, ResumeNothing, callVars
      <3>4. CASE \E d \in Conns : HandlerNext(d)
        BY <3>1, <3>4 DEF HandlerNext, ConnectionLost, HandlerBegin, HandlerEnd, callVars
      <3>5. CASE UNCHANGED vars
        BY <3>1, <3>5 DEF vars, callVars
      <3> QED BY <1>6, <3>2, <3>3, <3>4, <3>5, OthersMoveFrame
    <2> QED BY <2>1, <2>2, <2>3
  <1> QED BY <1>4, <1>5, <1>6

(* Every step keeps what was resumed, until something disturbs it.         *)
LEMMA ResumedStep ==
    ASSUME TypeOK, ControlOK, AgainstOK, SharedOK, NormalOK, ResumedOK, [Next]_vars
    PROVE  ResumedOK'
  <1> USE Names
  <1>1. CASE ResumeEnd
    <2>1. /\ \A t \in resumed' : t \in undisturbed /\ t \in Topics /\ ~failed[t] /\ pc[t] = "idle"
          /\ UNCHANGED <<held, forgot, doubt>>
      BY <1>1 DEF ResumeEnd, stateVars
    <2>2. \A t \in resumed', c \in Conns : task[t][c] = "none"
      BY <2>1 DEF ControlOK, TaskOK, TypeOK
    <2>3. /\ \A t \in resumed' \cap Shared, c \in Conns : Reached(t, c)
          /\ \A t \in resumed' \cap Normal : \E c \in Conns : Reached(t, c)
      BY <2>1, <2>2 DEF SharedOK, NormalOK
    <2> QED BY <2>1, <2>3 DEF ResumedOK, Reached, Has
  <1>2. CASE ~ResumeEnd
    <2>1. ASSUME NEW t \in resumed', NEW c \in Conns, Reached(t, c) PROVE Reached(t, c)'
      <3>1. t \in resumed /\ t \in Topics
        <4>1. CASE CallsMove
          <5>1. ResumeBegin => resumed' = resumed
            BY DEF ResumeBegin
          <5> QED BY <1>2, <2>1, <4>1, <5>1, CallsMoveHistory DEF TypeOK
        <4>2. CASE ~CallsMove
          BY <2>1, <4>2, OthersMoveHistory DEF TypeOK
        <4> QED BY <4>1, <4>2
      <3>2. ~Reload
        BY <3>1 DEF AgainstOK, Reload
      <3> QED BY <2>1, <3>1, <3>2, ReachedStays DEF AgainstOK
    <2>2. resumed' \subseteq resumed
      <3>1. CASE CallsMove
        <4>1. ResumeBegin => resumed' = resumed
          BY DEF ResumeBegin
        <4> QED BY <1>2, <3>1, <4>1, CallsMoveHistory
      <3>2. CASE ~CallsMove
        BY <3>2, OthersMoveHistory
      <3> QED BY <3>1, <3>2
    <2> QED BY <2>1, <2>2 DEF ResumedOK
  <1> QED BY <1>1, <1>2

-----------------------------------------------------------------------------
(***************************************************************************)
(* The theorems.                                                           *)
(***************************************************************************)
LEMMA IInvInit == Init => IInv
  <1> SUFFICES ASSUME Init PROVE IInv
    OBVIOUS
  <1> USE Names
  <1>1. TypeOK
    BY TypeInit
  <1>2. /\ \A p \in Calls : pc[p] = "idle" /\ call[p] = NoCall /\ task[p] = NoTask
        /\ \A p \in Calls, c \in Conns : task[p][c] = "none"
        /\ \A c \in Conns : smu[c] = None /\ subsCalled[c] = {}
        /\ wpc = "watch" /\ undisturbed = {} /\ resumed = {}
    BY DEF Init, NoTask
  <1>3. NoCall.op = "none" /\ NoCall.topics = {}
    BY DEF NoCall
  <1>4. ControlOK
    BY <1>2 DEF ControlOK, TaskOK, HalfOK, TopicOK
  <1>5. CallOK /\ LockOK
    BY <1>2, <1>3 DEF CallOK, LockOK
  <1>6. AgainstOK /\ StateOK /\ ReachOK
    BY <1>2 DEF AgainstOK, StateOK, ReachOK, OverOK, SharedOK, NormalOK, ResumedOK
  <1> QED BY <1>1, <1>4, <1>5, <1>6 DEF IInv

(* The inductive invariant holds whatever the application, the watcher and *)
(* the handlers of lost connections do.                                    *)
THEOREM Invariance == Spec => []IInv
  <1>1. IInv /\ [Next]_vars => IInv'
    <2> SUFFICES ASSUME IInv, [Next]_vars PROVE IInv'
      OBVIOUS
    <2>1. TypeOK' /\ ControlOK' /\ CallOK' /\ LockOK' /\ AgainstOK' /\ StateOK'
      BY TypeStep, ControlStep, CallStep, LockStep, AgainstStep, StateStep DEF IInv
    <2>2. OverOK' /\ SharedOK' /\ NormalOK' /\ ResumedOK'
      BY OverStep, SharedStep, NormalStep, ResumedStep DEF IInv, ReachOK
    <2> QED BY <2>1, <2>2 DEF IInv, ReachOK
  <1> QED BY <1>1, IInvInit, PTL DEF Spec

(* The variables have their types, and internalState.subsCalled "currently *)
(* holds only shared subscriptions info".                                  *)
THEOREM TypeCorrect == Spec => []TypeOK
  <1>1. IInv => TypeOK
    BY DEF IInv
  <1> QED BY <1>1, Invariance, PTL

(* What subscribeOnlyOnce skips, the connection really has, with the       *)
(* exceptions SkippedIsHeld names, for any number of connections, callers, *)
(* topics, calls, losses and failed requests.                              *)
THEOREM SkippedIsHeldAlways == Spec => []SkippedIsHeld
  <1>1. IInv => SkippedIsHeld
    BY DEF IInv, StateOK, Has, Loss, Leaving, SkippedIsHeld
  <1> QED BY <1>1, Invariance, PTL

(* A Subscribe to shared topics that returns without an error has reached  *)
(* every connection.                                                       *)
THEOREM SubscribeReachesAlways == Spec => []SubscribeReaches
  <1>1. IInv => SubscribeReaches
    <2> SUFFICES ASSUME IInv, NEW p \in undisturbed \cap Callers, call[p].op # "unsub",
                        AboutToSucceed(p), NEW t \in call[p].topics \cap Shared, NEW c \in Conns,
                        c \notin forgot
                 PROVE  t \in held[c] \/ t \in doubt[c]
      BY DEF SubscribeReaches
    <2>1. Over(p, c)
      BY DEF AboutToSucceed, Over, NoTask
    <2> QED BY <2>1 DEF IInv, ReachOK, OverOK, Achieved, Reached, Has
  <1> QED BY <1>1, Invariance, PTL

(* An Unsubscribe that returns without an error has removed its topics     *)
(* from every connection.                                                  *)
THEOREM UnsubscribeReachesAlways == Spec => []UnsubscribeReaches
  <1>1. IInv => UnsubscribeReaches
    <2> SUFFICES ASSUME IInv, NEW p \in undisturbed \cap Callers, call[p].op = "unsub",
                        AboutToSucceed(p), NEW c \in Conns
                 PROVE  call[p].topics \cap held[c] = {}
      BY DEF UnsubscribeReaches
    <2>1. Over(p, c)
      BY DEF AboutToSucceed, Over, NoTask
    <2>2. Achieved(p, c)
      BY <2>1 DEF IInv, ReachOK, OverOK
    <2> QED BY <2>2 DEF Achieved
  <1> QED BY <1>1, Invariance, PTL

(* What the last update resumed is on all connections, or on one if the    *)
(* topic is a normal one.                                                  *)
THEOREM ResumedIsHeldAlways == Spec => []ResumedIsHeld
  <1>1. IInv => ResumedIsHeld
    BY DEF IInv, ReachOK, ResumedOK, Reached, Has, ResumedIsHeld
  <1> QED BY <1>1, Invariance, PTL
==========================================================================
