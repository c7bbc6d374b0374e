------------------------ MODULE ConnectBackground ------------------------
(***************************************************************************)
(* Connecting in the background, as the documentation's tutorial does:     *)
(* ExponentialStartStrategy keeps calling Client.Start while the           *)
(* application waits in WaitForConnection. Both share the clock and, more  *)
(* importantly, the client.                                                *)
(***************************************************************************)
EXTENDS ExponentialStart, WaitForConnection

bgVars == <<vars, waitVars, connected>>

BGInit == Init /\ WaitInit /\ connected = FALSE

(* A Start that succeeds leaves the client connected.                      *)
BGStartReturns ==
    /\ StartReturns
    /\ connected' = (connected \/ started')
    /\ UNCHANGED waitVars

BGStart ==
    /\ StartReports \/ LoopNext \/ SelectDone \/ Cancel
    /\ UNCHANGED <<waitVars, connected>>

BGWait == WaitNext /\ UNCHANGED <<vars, connected>>

BGTick == Tick /\ WaitTick /\ UNCHANGED connected

(* The mqtt library loses the connection and gets it back, or completes a  *)
(* connect that Start gave up after connectTimeout.                        *)
LinkChanges ==
    /\ connected' = ~connected
    /\ UNCHANGED <<vars, waitVars>>

BGNext == BGStartReturns \/ BGStart \/ BGWait \/ BGTick \/ LinkChanges

(* The fairness of the start strategy; goroutines that can go on do, and   *)
(* the select of WaitForConnection chooses an expired timer at last. That  *)
(* Start returns is not assumed, nor that IsConnected does, which waits    *)
(* for clientMu.                                                           *)
BGSpec ==
    /\ BGInit /\ [][BGNext]_bgVars
    /\ WF_bgVars(StartReports /\ BGStart)
    /\ WF_bgVars(LoopNext /\ BGStart) /\ SF_bgVars(SelectDone /\ BGStart)
    /\ WF_bgVars(BGTick)
    /\ WF_bgVars(AnswerSent /\ BGWait)
    /\ SF_bgVars(WaitTimeout /\ BGWait)

(***************************************************************************)
(* Properties.                                                             *)
(***************************************************************************)

(* WaitForConnection returns, also when IsConnected never does.            *)
WaitReturns == <>(result # "none")

(* The polling goroutine ends once IsConnected returned, also when nobody  *)
(* receives the answer any more.                                           *)
PollEnds == answers # <<>> ~> answers = <<>>

(***************************************************************************)
(* What the code does not guarantee: this has a counterexample.            *)
(***************************************************************************)

(* WaitForConnection is true only after a successful Start. A connect that *)
(* Start gave up may succeed: then Start is called on a connected client.  *)
TrueMeansStarted == result = "true" => started
==========================================================================
