------------------------- MODULE ResolverClient --------------------------
(***************************************************************************)
(* A Client with one connection at a time and its Resolver: the actions of *)
(* ClientLifecycle joined with those of an AddressFeed. What               *)
(* ClientLifecycle leaves open (whether an update has addresses, when the  *)
(* watch loop ends) is here what the feed delivers.                        *)
(***************************************************************************)
EXTENDS ClientLifecycle, Sequences, Functions

CONSTANTS
    Lists,        \* the address lists the resolver may publish
    MaxInflight   \* bound: lists published and not yet received

ASSUME ResolverAssumption ==
    /\ HasResolver /\ ~poolEnabled /\ ~multiConnectionMode
    /\ <<>> \in Lists
    /\ \A l \in Lists : l \in Seq(Range(l))
    /\ MaxInflight \in Nat

VARIABLES
    current, inflight, received, stopped, ended,  \* the feed
    tries,     \* newClient's argument attempt
    address,   \* the broker address each connection was created for
    abandoned  \* history: connections newClient gave up waiting for

Feed == INSTANCE AddressFeed WITH Empty <- <<>>

feedVars == <<current, inflight, received, stopped, ended>>
dialVars == <<tries, address, abandoned>>
allVars == <<vars, feedVars, dialVars>>

RCInit ==
    /\ Init
    /\ Feed!Init
    /\ tries = 0
    /\ address = [c \in Conns |-> None]
    /\ abandoned = {}

(* runResolver and watchAddressUpdates hand the list that UpdateChan gave, *)
(* nil if it is closed, to attemptSingleConnection.                        *)
RCReceive ==
    /\ ReceiveUpdate
    /\ Feed!DeliverNil \/ \E l \in Lists : Feed!Deliver(l)
    /\ pc'[Watcher] = IF received' = <<>> THEN "swap_lock" ELSE "dial"
    /\ tries' = 0
    /\ UNCHANGED <<address, abandoned>>

(* The select of the watch loop may prefer the closed Done channel.        *)
RCWatchDone == WatchDone /\ stopped /\ UNCHANGED <<feedVars, dialVars>>

(* newClient dials the addresses of the list in turn.                      *)
RCDial ==
    /\ Dial
    /\ address' = [address EXCEPT ![created + 1] = received[(tries % Len(received)) + 1]]
    /\ UNCHANGED <<feedVars, tries, abandoned>>

RCDialRetry ==
    /\ DialRetry
    /\ tries' = tries + 1
    /\ abandoned' = abandoned \cup attempt
    /\ UNCHANGED <<feedVars, address>>

(* Every other action of the client leaves the resolver alone.             *)
ClientAlone ==
    /\ \/ \E p \in Ops : OpNext(p)
       \/ \E p \in Infos : InfoNext(p)
       \/ \E s \in Stoppers : StopNext(s)
       \/ RunResolver \/ RunResolverTimeout \/ DialConnected \/ SwapAnnounce \/ Swap
       \/ ResumeNothing \/ ResumeUninitialized \/ ResumeBegin \/ ResumeEnd
       \/ \E c \in Conns : Retire(c) \/ ConnStep(c)
    /\ UNCHANGED <<feedVars, dialVars>>

(* The resolver at work, and its Stop.                                     *)
FeedAlone ==
    /\ \/ /\ Cardinality({l \in Lists : inflight[l] > 0}) < MaxInflight
          /\ \E l \in Lists : Feed!Publish(l)
       \/ ~stopped /\ Feed!Stop
       \/ ~ended /\ Feed!Close
    /\ UNCHANGED <<vars, dialVars>>

RCNext ==
    /\ ~panicked
    /\ RCReceive \/ RCWatchDone \/ RCDial \/ RCDialRetry \/ ClientAlone \/ FeedAlone

RCSpec == RCInit /\ [][RCNext]_allVars

(***************************************************************************)
(* Properties.                                                             *)
(***************************************************************************)

(* Whenever the watch loop waits for the next list, the client is with a   *)
(* broker of the last one it received, or has no connection at all. It has *)
(* none only because that list was empty or because of Stop.               *)
ServesReceived ==
    pc[Watcher] = "watch" =>
        /\ mqttClient # None => address[mqttClient] \in Range(received)
        /\ (\A s \in Stoppers : pc[s] # "done") => (mqttClient = None <=> received = <<>>)

(* The only connections that leak before a Stop has returned are connects  *)
(* that succeed after newClient gave them up and went on to the next       *)
(* address.                                                                *)
OnlyLateConnectsLeak ==
    (\A s \in Stoppers : pc[s] # "done") => Orphans \subseteq abandoned

(***************************************************************************)
(* What the code does not guarantee: each of these has a counterexample    *)
(* (the README says which constants show it).                              *)
(***************************************************************************)

(* A client whose resolver ends keeps its connection: the list published   *)
(* last still has addresses. But the nil that the closed channel delivers  *)
(* is taken for an empty list.                                             *)
EndKeepsConnection ==
    [][ended /\ current # <<>> /\ mqttClient # None
        => mqttClient' # None \/ \E s \in Stoppers : pc[s] # pc'[s]]_allVars

(* newClient never dials a list when a newer one is waiting.               *)
DialsNewest ==
    pc[Watcher] \in {"dial", "dialing"} => \A l \in Lists : inflight[l] = 0
==========================================================================
