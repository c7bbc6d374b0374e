-------------------------- MODULE ConnectionSet --------------------------
(***************************************************************************)
(* What the users of a Client may rely on, whatever replaces its broker    *)
(* connections behind their back: every call works on connections that are *)
(* installed from its beginning to its end, connections are only exchanged *)
(* between calls, and one that was replaced or given up never serves a     *)
(* call again.                                                             *)
(*                                                                         *)
(* ClientLifecycle implements this (ImplementsConnectionSet there); clientMu, *)
(* dialling, resuming, telemetry and Stop have disappeared.                *)
(***************************************************************************)
CONSTANTS Conns, Procs

VARIABLES
    installed,  \* the connections that calls may use
    gone,       \* connections that will never be used again
    calls       \* the connections each goroutine is using

vars == <<installed, gone, calls>>

Init ==
    /\ installed \subseteq Conns
    /\ gone = {}
    /\ calls = [p \in Procs |-> {}]

Fresh == Conns \ (installed \cup gone)

(* A call begins: execute picks installed connections.                     *)
Begin(p) ==
    /\ calls[p] = {}
    /\ \E T \in SUBSET installed : calls' = [calls EXCEPT ![p] = T]
    /\ UNCHANGED <<installed, gone>>

(* A call is done with some of its connections.                            *)
Leave(p) ==
    /\ \E T \in SUBSET calls[p] : calls' = [calls EXCEPT ![p] = T]
    /\ UNCHANGED <<installed, gone>>

(* Between calls connections may be dropped and new ones installed.        *)
Replace ==
    /\ \A p \in Procs : calls[p] = {}
    /\ installed' \subseteq installed \cup Fresh
    /\ gone' = gone \cup (installed \ installed')
    /\ UNCHANGED calls

(* Connections that were dialled are given up.                             *)
Abandon ==
    /\ gone \subseteq gone' /\ gone' \subseteq Conns \ installed
    /\ UNCHANGED <<installed, calls>>

Next == (\E p \in Procs : Begin(p) \/ Leave(p)) \/ Replace \/ Abandon

Spec == Init /\ [][Next]_vars
==========================================================================
