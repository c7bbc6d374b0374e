--------------------------- MODULE PoolPublish ---------------------------
(***************************************************************************)
(* Publish on a connection pool: the calls of ClientLifecycle's Ops are    *)
(* publications, which share the round-robin counter of the client.        *)
(*                                                                         *)
(* atomicCounter.next loads the counter and adds one to it in two atomic   *)
(* steps, with nothing but a read lock held. The number a call has loaded  *)
(* is converted to int, IntBits wide, and selects the client by its        *)
(* remainder. Taking the read lock commutes with what the other calls do   *)
(* to the counter and is one step with the load.                           *)
(***************************************************************************)
EXTENDS ClientLifecycle

CONSTANTS
    IntBits,       \* the width of int: 64 or, on 32-bit platforms, 32
    MaxPublishes   \* bound: publications

ASSUME PoolAssumption ==
    /\ poolEnabled /\ HasAddress /\ ~HasResolver
    /\ IntBits \in Nat \ {0}
    /\ MaxPublishes \in Nat
    /\ None \notin Nat

VARIABLES
    rrCounter,  \* Client.rrCounter
    loaded,     \* the number each call has loaded and not yet advanced
    served,     \* history: the publications each client got
    taken,      \* history: the numbers given to publications
    repeats     \* history: publications that got a number given before

counterVars == <<rrCounter, loaded, served, taken, repeats>>
poolVars == <<vars, counterVars>>

Published == rrCounter + Cardinality({p \in Ops : loaded[p] # None})

PoolInit ==
    /\ Init
    /\ rrCounter = 0
    /\ loaded = [p \in Ops |-> None]
    /\ served = [c \in 1..PoolSize |-> 0]
    /\ taken = {} /\ repeats = 0

(* int(n) keeps the low bits of n, the highest of them being the sign, and *)
(* the remainder has the sign of the dividend.                             *)
ToInt(n) ==
    LET low == n % 2^IntBits IN IF low < 2^(IntBits - 1) THEN low ELSE low - 2^IntBits
Remainder(a, b) == IF a < 0 THEN -((-a) % b) ELSE a % b

ClientIndex_First(n) == 0
ClientIndex(n) == Remainder(ToInt(n), PoolSize)

(* publishHandler has encoded the message; execute finds the client. A     *)
(* negative index panics.                                                  *)
PublishBegin(p) ==
    /\ pc[p] = "idle"
    /\ ~Uninitialized
    /\ Published < MaxPublishes
    /\ LET i == ClientIndex(rrCounter) IN
        /\ RLock(p, {i + 1} \cap mqttClients)
        /\ panicked' = (i < 0)
        /\ served' = [c \in 1..PoolSize |-> IF c = i + 1 THEN served[c] + 1 ELSE served[c]]
    /\ loaded' = [loaded EXCEPT ![p] = rrCounter]
    /\ taken' = taken \cup {rrCounter}
    /\ repeats' = IF rrCounter \in taken THEN repeats + 1 ELSE repeats
    /\ Goto(p, "in")
    /\ UNCHANGED <<clientVars, wlock, connVars, watching, emitting, rrCounter>>

CounterAfter_Stored(p) == loaded[p] + 1
CounterAfter(p) == rrCounter + 1

(* atomic.AddUint64; then the message is handed to the client.             *)
PublishAdd(p) ==
    /\ loaded[p] # None
    /\ rrCounter' = CounterAfter(p)
    /\ loaded' = [loaded EXCEPT ![p] = None]
    /\ UNCHANGED <<vars, served, taken, repeats>>

PublishEnd(p) ==
    /\ loaded[p] = None
    /\ OpEnd(p)
    /\ UNCHANGED counterVars

PublishUninitialized(p) == OpUninitialized(p) /\ UNCHANGED counterVars

PublishNext(p) ==
    PublishBegin(p) \/ PublishAdd(p) \/ PublishEnd(p) \/ PublishUninitialized(p)

OthersNext ==
    /\ \/ \E s \in Stoppers : StopNext(s)
       \/ ConnectBegin \/ ConnectOK \/ ConnectFailed
       \/ \E c \in Conns : ConnStep(c)
    /\ UNCHANGED counterVars

PoolNext == ~panicked /\ ((\E p \in Ops : PublishNext(p)) \/ OthersNext)

PoolSpec ==
    /\ PoolInit /\ [][PoolNext]_poolVars
    /\ Fairness /\ \A p \in Ops : WF_poolVars(PublishAdd(p))

(***************************************************************************)
(* Properties.                                                             *)
(***************************************************************************)

(* The clients share the load evenly but for the publications that got a   *)
(* number another one had: each of them may move one publication from one  *)
(* client to another. Without overlapping calls the clients differ by one. *)
LoadIsShared ==
    \A c, d \in 1..PoolSize : served[c] - served[d] <= 1 + 2 * repeats

(* Concurrent calls may repeat a number but never lose an increment: a     *)
(* number is skipped for every one that is repeated, no more, so that the  *)
(* counter always tells how many publications there were.                  *)
NoIncrementLost ==
    (\A p \in Ops : loaded[p] = None) => rrCounter = Cardinality(taken) + repeats

(***************************************************************************)
(* What the code does not guarantee: each of these has a counterexample    *)
(* (the README says which constants show it).                              *)
(***************************************************************************)

(* "round-robin messages on each client": once there were as many          *)
(* publications as clients, every client has had one.                      *)
EveryClientServes ==
    ((\A p \in Ops : loaded[p] = None) /\ rrCounter >= PoolSize)
    => \A c \in 1..PoolSize : served[c] > 0

(* The index of the client is never negative.                              *)
IndexInRange == ~panicked
==========================================================================
