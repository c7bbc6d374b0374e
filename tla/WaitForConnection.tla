------------------------ MODULE WaitForConnection ------------------------
(***************************************************************************)
(* WaitForConnection(c, waitFor, tick): polls c.IsConnected in goroutines  *)
(* of its own, since IsConnected waits for clientMu and may block for as   *)
(* long as Client.Start dials. Time passes in ticks; the module that uses  *)
(* this one says when (WaitTick) and what connected is.                    *)
(***************************************************************************)
LOCAL INSTANCE Naturals
LOCAL INSTANCE Sequences

CONSTANTS
    waitFor,    \* the maximum duration, in ticks
    pollEvery   \* the argument tick, in ticks

ASSUME WaitAssumption == waitFor \in Nat /\ pollEvery \in Nat \ {0}

VARIABLES
    connected,  \* what IsConnected would return (external)
    result,     \* "none" until the call returns "true" or "false"
    timer,      \* ticks until timer.C is ready
    ticker,     \* ticks until the ticker's next tick
    tickC,      \* the ticker has put a tick into its channel
    tick,       \* the loop's variable tick is ticker.C, and not nil
    asking,     \* goroutines inside IsConnected
    answers,    \* answers that goroutines want to send on ch
    ch          \* the buffer of ch

pollVars == <<asking, answers, ch>>
clockVars == <<timer, ticker, tickC>>
waitVars == <<result, tick, pollVars, clockVars>>

ChCap_Unbuffered == 0
ChCap == 1

WaitInit ==
    /\ result = "none"
    /\ timer = waitFor /\ ticker = pollEvery /\ tickC = FALSE
    /\ tick = TRUE
    /\ asking = 0 /\ answers = <<>> /\ ch = <<>>

WaitTimeout ==
    /\ result = "none"
    /\ timer = 0
    /\ result' = "false"
    /\ UNCHANGED <<tick, pollVars, clockVars>>

(* There is one timer for the whole call, not one per turn of the loop.    *)
TimerAfterPoll_Restarted == waitFor
TimerAfterPoll == timer

WaitPoll ==
    /\ result = "none"
    /\ tick /\ tickC
    /\ tick' = FALSE   \* no tick is received while a poll is under way
    /\ tickC' = FALSE
    /\ asking' = asking + 1
    /\ timer' = TimerAfterPoll
    /\ UNCHANGED <<result, answers, ch, ticker>>

IsConnectedReturns ==
    /\ asking > 0
    /\ asking' = asking - 1
    /\ answers' = Append(answers, connected)
    /\ UNCHANGED <<result, tick, ch, clockVars>>

(* ch <- v: into the buffer, if the loop does not take it directly.        *)
AnswerSent ==
    /\ answers # <<>>
    /\ Len(ch) < ChCap
    /\ ch' = Append(ch, Head(answers))
    /\ answers' = Tail(answers)
    /\ UNCHANGED <<result, tick, asking, clockVars>>

WaitAnswer ==
    /\ result = "none"
    /\ \E v \in BOOLEAN :
        /\ \/ ch # <<>> /\ v = Head(ch) /\ ch' = Tail(ch) /\ answers' = answers
           \/ ch = <<>> /\ answers # <<>> /\ v = Head(answers) /\ answers' = Tail(answers)
              /\ ch' = ch
        /\ result' = IF v THEN "true" ELSE "none"
        /\ tick' = ~v
    /\ UNCHANGED <<asking, clockVars>>

(* One tick of time. The ticker drops a tick that finds its channel full;  *)
(* both timers are stopped when the call returns.                          *)
WaitTick ==
    /\ IF result # "none" THEN UNCHANGED clockVars
       ELSE /\ timer' = IF timer > 0 THEN timer - 1 ELSE 0
            /\ ticker' = IF ticker > 1 THEN ticker - 1 ELSE pollEvery
            /\ tickC' = (tickC \/ ticker = 1)
    /\ UNCHANGED <<result, tick, pollVars>>

WaitLoop == WaitTimeout \/ WaitPoll \/ WaitAnswer

WaitNext == WaitLoop \/ IsConnectedReturns \/ AnswerSent
==========================================================================
