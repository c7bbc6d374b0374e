------------------------ MODULE ExponentialStart -------------------------
(***************************************************************************)
(* ExponentialStartStrategy: Client.Start is called in goroutines of its   *)
(* own (startFn), which report on errCh; a loop goroutine starts the next  *)
(* one as soon as an error was reported, and sleeps after that.            *)
(*                                                                         *)
(* Time passes in ticks. A sleeping goroutine may wake up late.            *)
(***************************************************************************)
EXTENDS Integers, Sequences

CONSTANTS
    InitialInterval,  \* 100 milliseconds, in ticks
    maxInterval,      \* startOptions.maxInterval, in ticks
    MaxCount,         \* bound: retries are counted up to this
    MaxGap            \* bound: ticks between two retries are counted up to this

(* WithMaxInterval ignores intervals that are not positive.                *)
ASSUME IntervalAssumption ==
    /\ InitialInterval \in Nat \ {0}
    /\ maxInterval \in Nat \ {0}
    /\ MaxCount \in Nat /\ MaxGap \in Nat

Results == {"nil", "error"}

VARIABLES
    loop,               \* the loop goroutine: "select", "sleep" or "exited"
    calling,            \* startFn goroutines inside Client.Start
    sending,            \* results that startFn goroutines want to send
    errCh,              \* the buffer of errCh
    nextRetryInterval,  \* the loop's variable
    remaining,          \* ticks that Sleep still has to last
    cancelled,          \* ctx is cancelled
    started,            \* some Start returned nil
    retries,            \* retries so far, up to MaxCount
    gap                 \* ticks since the last retry, up to MaxGap

startVars == <<calling, sending, started>>
loopVars == <<loop, nextRetryInterval, remaining, retries>>
vars == <<startVars, loopVars, errCh, cancelled, gap>>

Smaller(x, y) == IF x < y THEN x ELSE y

ErrChCap_Unbuffered == 0
ErrChCap == 1

(* exponentialStartStrategy has started both goroutines and returned.      *)
Init ==
    /\ loop = "select"
    /\ calling = 1
    /\ sending = <<>> /\ errCh = <<>>
    /\ nextRetryInterval = InitialInterval
    /\ remaining = 0
    /\ cancelled = FALSE /\ started = FALSE
    /\ retries = 0 /\ gap = 0

(* The first interval is not limited by maxInterval.                       *)
LongestInterval == IF InitialInterval > maxInterval THEN InitialInterval ELSE maxInterval

(* The type invariant; no interval exceeds the longest one configured,     *)
(* however often the loop doubles it.                                      *)
TypeOK ==
    /\ loop \in {"select", "sleep", "exited"}
    /\ calling \in Nat
    /\ sending \in Seq(Results)
    /\ errCh \in Seq(Results) /\ Len(errCh) <= ErrChCap
    /\ nextRetryInterval \in 1..LongestInterval
    /\ remaining \in 0..LongestInterval
    /\ {cancelled, started} \subseteq BOOLEAN
    /\ retries \in 0..MaxCount /\ gap \in 0..MaxGap

(***************************************************************************)
(* startFn: errCh <- c.Start()                                             *)
(***************************************************************************)
StartReturns ==
    /\ calling > 0
    /\ calling' = calling - 1
    /\ \E r \in Results :
        /\ sending' = Append(sending, r)
        /\ started' = (started \/ r = "nil")
    /\ UNCHANGED <<loopVars, errCh, cancelled, gap>>

StartReports ==
    /\ sending # <<>>
    /\ Len(errCh) < ErrChCap
    /\ errCh' = Append(errCh, Head(sending))
    /\ sending' = Tail(sending)
    /\ UNCHANGED <<calling, started, loopVars, cancelled, gap>>

(***************************************************************************)
(* The loop.                                                               *)
(***************************************************************************)

(* The loop receives r from errCh: a buffered result, or else that of a    *)
(* sender, which hands it over directly.                                   *)
Take(r) ==
    \/ errCh # <<>> /\ r = Head(errCh) /\ errCh' = Tail(errCh) /\ sending' = sending
    \/ errCh = <<>> /\ sending # <<>> /\ r = Head(sending) /\ sending' = Tail(sending)
       /\ errCh' = errCh

Succeeded_NotChecked(r) == FALSE
Succeeded_Always(r) == TRUE
Succeeded(r) == r = "nil"

(* The start that go startFn() adds.                                       *)
Launched_Twice == calling + 2
Launched == calling + 1

SelectSuccess ==
    /\ loop = "select"
    /\ \E r \in Results : Take(r) /\ Succeeded(r)
    /\ loop' = "exited"
    /\ UNCHANGED <<calling, started, nextRetryInterval, remaining, retries, cancelled, gap>>

(* onRetry, go startFn() and the beginning of Sleep.                       *)
SelectRetry ==
    /\ loop = "select"
    /\ \E r \in Results : Take(r) /\ ~Succeeded(r)
    /\ calling' = Launched
    /\ retries' = Smaller(retries + 1, MaxCount)
    /\ gap' = 0
    /\ remaining' = nextRetryInterval
    /\ loop' = "sleep"
    /\ UNCHANGED <<started, nextRetryInterval, cancelled>>

(* The select statement chooses at random when a result is there as well.  *)
SelectDone ==
    /\ loop = "select"
    /\ cancelled
    /\ loop' = "exited"
    /\ UNCHANGED <<startVars, errCh, nextRetryInterval, remaining, retries, cancelled, gap>>

NextInterval_NotDoubled == Smaller(nextRetryInterval, maxInterval)
NextInterval_Uncapped == nextRetryInterval * 2
NextInterval == Smaller(nextRetryInterval * 2, maxInterval)

Wake ==
    /\ loop = "sleep"
    /\ remaining = 0
    /\ nextRetryInterval' = NextInterval
    /\ loop' = "select"
    /\ UNCHANGED <<startVars, remaining, retries, errCh, cancelled, gap>>

(* ctx is cancelled by its owner.                                          *)
Cancel ==
    /\ ~cancelled
    /\ cancelled' = TRUE
    /\ UNCHANGED <<startVars, loopVars, errCh, gap>>

Tick ==
    /\ remaining' = IF remaining > 0 THEN remaining - 1 ELSE 0
    /\ gap' = Smaller(gap + 1, MaxGap)
    /\ UNCHANGED <<startVars, loop, nextRetryInterval, retries, errCh, cancelled>>

LoopNext == SelectSuccess \/ SelectRetry \/ Wake

Next == StartReturns \/ StartReports \/ LoopNext \/ SelectDone \/ Cancel \/ Tick

(* Goroutines that can go on do, time passes, and a select that finds      *)
(* ctx.Done() ready again and again chooses it once. That Client.Start     *)
(* returns is not assumed: connectTimeout bounds one attempt to connect,   *)
(* but with a resolver and a single connection newClient repeats it        *)
(* without end.                                                            *)
Fairness ==
    /\ WF_vars(StartReports)
    /\ WF_vars(LoopNext) /\ SF_vars(SelectDone)
    /\ WF_vars(Tick)

Spec == Init /\ [][Next]_vars
FairSpec == Spec /\ Fairness

(***************************************************************************)
(* Properties.                                                             *)
(***************************************************************************)

(* Two calls of Start never overlap, and no report waits for another: what *)
(* Start does (dial, and spawn the watch loop) is not done twice at once.  *)
AtMostOneStart == calling + Len(sending) + Len(errCh) <= 1

(* Start is not called again once it has succeeded.                        *)
StartedOnce == started => calling = 0

(* The retry that follows retry number n comes no sooner than the nth      *)
(* backoff interval, InitialInterval doubled n - 1 times up to maxInterval.*)
Doubled[n \in Nat] == IF n = 0 THEN InitialInterval ELSE 2 * Doubled[n - 1]
Backoff(n) == IF n = 1 THEN InitialInterval ELSE Smaller(Doubled[n - 1], maxInterval)
RetriesArePaced ==
    [][retries > 0 /\ calling' > calling => gap >= Backoff(retries)]_vars

(* As long as ctx is not cancelled, a Start that fails is followed by      *)
(* another one.                                                            *)
KeepsTrying == calling = 0 /\ ~started ~> calling > 0 \/ cancelled

(* After ctx was cancelled the loop ends for good, also when Start never   *)
(* returns, and it leaves no goroutine behind but for that Start: once it  *)
(* has returned, its result is sent although nobody receives it.           *)
CancelEnds == cancelled ~> [](loop = "exited" /\ (calling = 0 => <>(sending = <<>>)))

(***************************************************************************)
(* What the code does not guarantee: each of these has a counterexample    *)
(* (the README says which constants show it).                              *)
(***************************************************************************)

(* The strategy tries "until the context is cancelled": no Start after it. *)
NoStartAfterCancel == [][cancelled => calling' <= calling]_vars

(* maxInterval is "the maximum interval the retry logic will wait before   *)
(* attempting another Client.Start".                                       *)
WaitsAtMostMax == loop = "sleep" => remaining <= maxInterval
==========================================================================
