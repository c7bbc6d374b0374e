--------------------- MODULE ExponentialStartProofs ----------------------
(* ExponentialStart never overlaps two calls of Start and never repeats    *)
(* one that succeeded, for all intervals.                                  *)
EXTENDS ExponentialStart, PrimitiveRecursion, SequenceTheorems, TLAPS

(* Where the result of a Start that succeeded is: on its way to the loop,  *)
(* which will exit when it takes it, unless the loop has exited already.   *)
SuccessIsReported ==
    started => loop = "exited" \/ sending = <<"nil">> \/ errCh = <<"nil">>

(* The inductive invariant. StartedOnce alone is not inductive: it has to  *)
(* say that the loop cannot find an error once a Start succeeded.          *)
IInv == TypeOK /\ AtMostOneStart /\ StartedOnce /\ SuccessIsReported

(* Sequences that hold at most one result.                                 *)
LEMMA OneResult ==
    ASSUME NEW s \in Seq(Results), Len(s) <= 1
    PROVE  /\ s # <<>> => Head(s) \in Results /\ s = <<Head(s)>> /\ Tail(s) = <<>> /\ Len(s) = 1
           /\ s = <<>> <=> Len(s) = 0
           /\ \A r \in Results : s = <<>> => Append(s, r) = <<r>>
  <1>1. /\ <<>> \in Seq(Results) /\ Len(<<>>) = 0
        /\ s # <<>> => Len(s) \in Nat \ {0}
    BY EmptySeq
  <1>2. ASSUME s # <<>>
        PROVE  Head(s) \in Results /\ s = <<Head(s)>> /\ Tail(s) = <<>> /\ Len(s) = 1
    <2>1. /\ Head(s) \in Results /\ Tail(s) \in Seq(Results)
          /\ Len(Tail(s)) = Len(s) - 1 /\ Head(s) = s[1]
      BY <1>2, HeadTailProperties
    <2>2. Len(s) = 1
      BY <1>1, <1>2
    <2>3. Tail(s) = <<>>
      <3>1. \A t \in Seq(Results) : t # <<>> => Len(t) \in Nat \ {0}
        BY EmptySeq
      <3>2. Len(Tail(s)) = 0 /\ Tail(s) \in Seq(Results)
        BY <2>1, <2>2
      <3> QED BY <3>1, <3>2, Zenon
    <2>4. s = <<Head(s)>>
      BY <2>1, <2>2
    <2> QED BY <2>1, <2>2, <2>3, <2>4
  <1>3. \A r \in Results : s = <<>> => Append(s, r) = <<r>>
    OBVIOUS
  <1> QED BY <1>1, <1>2, <1>3

(* The initial state satisfies the inductive invariant.                    *)
LEMMA InitIInv == Init => IInv
  <1> SUFFICES ASSUME Init PROVE IInv
    OBVIOUS
  <1> USE IntervalAssumption DEF Init
  <1>1. {cancelled, started} \subseteq BOOLEAN /\ ~started
    BY Zenon
  <1>2. <<>> \in Seq(Results) /\ Len(<<>>) = 0
    OBVIOUS
  <1>3. TypeOK
    BY <1>1, <1>2 DEF TypeOK, LongestInterval, ErrChCap
  <1>4. AtMostOneStart
    BY <1>2 DEF AtMostOneStart
  <1> QED BY <1>1, <1>3, <1>4 DEF IInv, StartedOnce, SuccessIsReported

(* Every step preserves the inductive invariant.                           *)
LEMMA StepIInv == IInv /\ [Next]_vars => IInv'
  <1> SUFFICES ASSUME IInv, [Next]_vars PROVE IInv'
    OBVIOUS
  <1> USE IntervalAssumption DEF IInv, Results
  <1>a. /\ sending \in Seq(Results) /\ Len(sending) <= 1 /\ Len(sending) \in Nat
        /\ errCh \in Seq(Results) /\ Len(errCh) <= 1 /\ Len(errCh) \in Nat
        /\ calling \in Nat
    BY DEF TypeOK, AtMostOneStart
  <1>1. CASE StartReturns
    BY <1>a, <1>1, OneResult DEF StartReturns, Take, Succeeded, Launched, NextInterval, Smaller,
       startVars, loopVars, ErrChCap, LongestInterval,
       TypeOK, AtMostOneStart, StartedOnce, SuccessIsReported
  <1>2. CASE StartReports
    BY <1>a, <1>2, OneResult DEF StartReports, Take, Succeeded, Launched, NextInterval, Smaller,
       startVars, loopVars, ErrChCap, LongestInterval,
       TypeOK, AtMostOneStart, StartedOnce, SuccessIsReported
  <1>3. CASE SelectSuccess
    BY <1>a, <1>3, OneResult DEF SelectSuccess, Take, Succeeded, Launched, NextInterval, Smaller,
       startVars, loopVars, ErrChCap, LongestInterval,
       TypeOK, AtMostOneStart, StartedOnce, SuccessIsReported
  <1>4. CASE SelectRetry
    BY <1>a, <1>4, OneResult DEF SelectRetry, Take, Succeeded, Launched, NextInterval, Smaller,
       startVars, loopVars, ErrChCap, LongestInterval,
       TypeOK, AtMostOneStart, StartedOnce, SuccessIsReported
  <1>5. CASE Wake
    BY <1>a, <1>5, OneResult DEF Wake, Take, Succeeded, Launched, NextInterval, Smaller,
       startVars, loopVars, ErrChCap, LongestInterval,
       TypeOK, AtMostOneStart, StartedOnce, SuccessIsReported
  <1>6. CASE SelectDone
    BY <1>a, <1>6, OneResult DEF SelectDone, Take, Succeeded, Launched, NextInterval, Smaller,
       startVars, loopVars, ErrChCap, LongestInterval,
       TypeOK, AtMostOneStart, StartedOnce, SuccessIsReported
  <1>7. CASE Cancel
    BY <1>a, <1>7, OneResult DEF Cancel, Take, Succeeded, Launched, NextInterval, Smaller,
       startVars, loopVars, ErrChCap, LongestInterval,
       TypeOK, AtMostOneStart, StartedOnce, SuccessIsReported
  <1>8. CASE Tick
    BY <1>a, <1>8, OneResult DEF Tick, Take, Succeeded, Launched, NextInterval, Smaller,
       startVars, loopVars, ErrChCap, LongestInterval,
       TypeOK, AtMostOneStart, StartedOnce, SuccessIsReported
  <1>9. CASE UNCHANGED vars
    BY <1>9 DEF vars, startVars, loopVars, TypeOK, AtMostOneStart, StartedOnce, SuccessIsReported
  <1> QED
    BY <1>1, <1>2, <1>3, <1>4, <1>5, <1>6, <1>7, <1>8, <1>9 DEF Next, LoopNext

(* ExponentialStart keeps the inductive invariant forever.                 *)
THEOREM StartInvariance == Spec => []IInv
  BY InitIInv, StepIInv, PTL DEF Spec

(* Type correctness; in particular the retry interval stays within         *)
(* maxInterval, or the initial interval if that is longer.                 *)
THEOREM StartTypeCorrect == Spec => []TypeOK
  BY StartInvariance, PTL DEF IInv

(* startFn is never under way twice: the loop only launches it after it    *)
(* received the result of the one before.                                  *)
THEOREM AtMostOneStartAlways == Spec => []AtMostOneStart
  BY StartInvariance, PTL DEF IInv

(* Client.Start is never called again after it has returned nil.           *)
THEOREM StartedOnceAlways == Spec => []StartedOnce
  BY StartInvariance, PTL DEF IInv

(* What the recursive definition of Doubled computes.                      *)
LEMMA DoubledDoubles ==
  /\ Doubled \in [Nat -> Nat \ {0}] /\ Doubled[0] = InitialInterval
  /\ \A n \in Nat \ {0} : Doubled[n] = 2 * Doubled[n - 1]
  <1>. USE IntervalAssumption DEF IntervalAssumption
  <1>. DEFINE D(g) == [n \in Nat |-> IF n = 0 THEN InitialInterval ELSE 2 * g[n - 1]]
              S == Nat \ {0}
              step == [a \in Nat \X S |-> 2 * a[2]]
  <1>1. PICK f \in [Nat -> S] : Unfolding(f, Nat, InitialInterval, step)
    <2>1. InitialInterval \in S /\ step \in [Nat \X S -> S]
      OBVIOUS
    <2>. HIDE DEF step, S
    <2>. QED
      BY <2>1, FunctionExists
  <1>2. f[0] = InitialInterval /\ \A n \in Nat \ {0} : f[n] = 2 * f[n - 1]
    <2>1. ASSUME NEW n \in Nat \ {0} PROVE f[n] = 2 * f[n - 1]
      <3>1. n - 1 \in Nat
        BY <2>1
      <3>2. <<n, f[n - 1]>> \in Nat \X S
        BY <1>1, <3>1
      <3>3. f[n] = step[<<n, f[n - 1]>>]
        BY <1>1, <2>1 DEF Unfolding
      <3>. QED
        BY <3>2, <3>3
    <2>. QED
      BY <1>1, <2>1 DEF Unfolding
  <1>3. f = D(f)
    BY <1>1, <1>2
  <1>4. Doubled = D(Doubled)
    BY <1>3 DEF Doubled
  <1>5. Doubled[0] = InitialInterval /\ \A n \in Nat \ {0} : Doubled[n] = 2 * Doubled[n - 1]
    <2>. HIDE DEF D
    <2>1. Doubled = [n \in Nat |-> IF n = 0 THEN InitialInterval ELSE 2 * Doubled[n - 1]]
      BY <1>4 DEF D
    <2>. QED
      BY <2>1
  <1>6. \A n \in Nat : Doubled[n] = f[n]
    <2>. DEFINE T == {n \in Nat : Doubled[n] # f[n]}
    <2>. SUFFICES ASSUME T # {} PROVE FALSE
      OBVIOUS
    <2>1. PICK m \in T : \A k \in T : m <= k
      <3>1. T \in SUBSET Nat
        OBVIOUS
      <3>. HIDE DEF T
      <3>. QED BY <3>1, LeastNumber
    <2>2. m # 0 /\ m - 1 \in Nat /\ m - 1 \notin T
      BY <1>2, <1>5, <2>1
    <2>. QED
      BY <1>2, <1>5, <2>1, <2>2
  <1>7. Doubled \in [Nat -> S]
    <2>1. Doubled = [n \in Nat |-> f[n]]
      BY <1>4, <1>6
    <2>. QED
      BY <1>1, <2>1
  <1>. QED
    BY <1>5, <1>7

(* Each interval is at least as long as it has to be: the one the loop     *)
(* sleeps, what is left of it together with what has passed, and the next  *)
(* one. The count of retries stops at MaxCount, the interval does not.     *)
PaceOK ==
    /\ loop = "sleep" => /\ retries > 0
                         /\ nextRetryInterval >= Backoff(retries)
                         /\ gap + remaining >= Backoff(retries)
    /\ loop = "select" => /\ nextRetryInterval >= Backoff(Smaller(retries + 1, MaxCount))
                          /\ retries > 0 => gap >= Backoff(retries)

(* Doubling an interval that is long enough, up to maxInterval, makes one  *)
(* that is long enough for the next retry.                                 *)
LEMMA BackoffGrows ==
  ASSUME NEW n \in 1..MaxCount, MaxCount >= 2, NEW i \in Nat, i >= Backoff(n)
  PROVE  /\ Backoff(n) \in Nat /\ Backoff(n) <= LongestInterval
         /\ Smaller(i * 2, maxInterval) >= Backoff(Smaller(n + 1, MaxCount))
  <1>. USE IntervalAssumption DEF IntervalAssumption
  <1>1. /\ Doubled[n - 1] \in Nat /\ Doubled[n] \in Nat /\ Doubled[n] = 2 * Doubled[n - 1]
        /\ Doubled[0] = InitialInterval
    <2>1. n - 1 \in Nat /\ n \in Nat \ {0}
      OBVIOUS
    <2>. QED
      BY <2>1, DoubledDoubles
  <1>2. Backoff(n) \in Nat /\ Backoff(n) <= LongestInterval
    BY <1>1 DEF Backoff, Smaller, LongestInterval
  <1>3. CASE n < MaxCount
    <2>1. Smaller(n + 1, MaxCount) = n + 1 /\ n + 1 # 1 /\ (n + 1) - 1 = n
      BY <1>3 DEF Smaller
    <2>2. Backoff(n + 1) = Smaller(Doubled[n], maxInterval)
      BY <2>1 DEF Backoff
    <2>3. CASE n = 1
      <3>1. Doubled[n] = 2 * InitialInterval /\ i >= InitialInterval
        BY <1>1, <2>3 DEF Backoff
      <3>. QED
        BY <1>2, <2>1, <2>2, <3>1 DEF Smaller
    <2>4. CASE n # 1
      <3>1. i >= Smaller(Doubled[n - 1], maxInterval)
        BY <2>4 DEF Backoff
      <3>. QED
        BY <1>1, <1>2, <2>1, <2>2, <3>1 DEF Smaller
    <2>. QED
      BY <2>3, <2>4
  <1>4. CASE n = MaxCount
    <2>1. Smaller(n + 1, MaxCount) = n /\ n # 1
      BY <1>4 DEF Smaller
    <2>2. Backoff(n) <= maxInterval
      BY <1>1, <2>1 DEF Backoff, Smaller
    <2>. QED
      BY <1>2, <2>1, <2>2 DEF Smaller
  <1>. QED
    BY <1>2, <1>3, <1>4

(* The pace of the loop, if the counters of the model reach far enough.    *)
LEMMA PaceInvariance ==
  ASSUME MaxCount >= 2, MaxGap >= LongestInterval
  PROVE  Spec => [](IInv /\ PaceOK)
  <1>. USE IntervalAssumption DEF IntervalAssumption, vars, startVars, loopVars
  <1>1. Init => PaceOK
    <2>. SUFFICES ASSUME Init PROVE PaceOK
      OBVIOUS
    <2>1. Smaller(retries + 1, MaxCount) = 1
      BY DEF Init, Smaller
    <2>. QED
      BY <2>1 DEF Init, PaceOK, Backoff
  <1>2. IInv /\ PaceOK /\ [Next]_vars => PaceOK'
    <2>. SUFFICES ASSUME IInv, PaceOK, [Next]_vars PROVE PaceOK'
      OBVIOUS
    <2>0. /\ retries \in 0..MaxCount /\ gap \in 0..MaxGap /\ nextRetryInterval \in Nat
          /\ remaining \in Nat
      BY DEF IInv, TypeOK, LongestInterval
    <2>1. CASE UNCHANGED <<loopVars, gap>>
      BY <2>1 DEF PaceOK
    <2>2. CASE SelectSuccess \/ SelectDone
      BY <2>2 DEF SelectSuccess, SelectDone, PaceOK
    <2>3. CASE SelectRetry
      <3>1. retries' = Smaller(retries + 1, MaxCount) /\ retries' > 0
        BY <2>0, <2>3 DEF SelectRetry, Smaller
      <3>2. /\ nextRetryInterval' >= Backoff(retries') /\ loop' = "sleep"
            /\ gap' = 0 /\ remaining' = nextRetryInterval'
        BY <2>3, <3>1 DEF SelectRetry, PaceOK
      <3>3. nextRetryInterval' \in Nat
        BY <2>0, <2>3 DEF SelectRetry
      <3>. QED
        BY <3>1, <3>2, <3>3 DEF PaceOK
    <2>4. CASE Wake
      <3>1. /\ retries \in 1..MaxCount /\ nextRetryInterval >= Backoff(retries)
            /\ gap >= Backoff(retries) /\ retries' = retries /\ gap' = gap /\ loop' = "select"
        BY <2>0, <2>4 DEF Wake, PaceOK
      <3>2. nextRetryInterval' >= Backoff(Smaller(retries + 1, MaxCount))
        BY <2>0, <2>4, <3>1, BackoffGrows DEF Wake, NextInterval
      <3>. QED
        BY <3>1, <3>2 DEF PaceOK
    <2>5. CASE Tick
      <3>1. /\ UNCHANGED <<loop, nextRetryInterval, retries>>
            /\ gap' = Smaller(gap + 1, MaxGap)
            /\ remaining' = IF remaining > 0 THEN remaining - 1 ELSE 0
        BY <2>5 DEF Tick
      <3>2. loop = "sleep" => gap' + remaining' >= Backoff(retries)
        <4>. SUFFICES ASSUME loop = "sleep" PROVE gap' + remaining' >= Backoff(retries)
          OBVIOUS
        <4>1. /\ retries \in 1..MaxCount /\ nextRetryInterval >= Backoff(retries)
              /\ gap + remaining >= Backoff(retries)
          BY <2>0 DEF PaceOK
        <4>2. Backoff(retries) \in Nat /\ Backoff(retries) <= LongestInterval
          BY <2>0, <4>1, BackoffGrows
        <4>3. LongestInterval \in Nat
          BY DEF LongestInterval
        <4>. QED
          BY <2>0, <3>1, <4>1, <4>2, <4>3 DEF Smaller
      <3>3. loop = "select" /\ retries > 0 => gap' >= Backoff(retries)
        <4>. SUFFICES ASSUME loop = "select", retries > 0 PROVE gap' >= Backoff(retries)
          OBVIOUS
        <4>1. retries \in 1..MaxCount /\ gap >= Backoff(retries)
          BY <2>0 DEF PaceOK
        <4>2. Backoff(retries) \in Nat
          BY <2>0, <4>1, BackoffGrows
        <4>. QED
          BY <2>0, <3>1, <4>1, <4>2 DEF Smaller
      <3>. QED
        BY <3>1, <3>2, <3>3 DEF PaceOK
    <2>6. CASE StartReturns \/ StartReports \/ Cancel
      BY <2>1, <2>6 DEF StartReturns, StartReports, Cancel
    <2>7. CASE UNCHANGED vars
      BY <2>1, <2>7
    <2>. QED
      BY <2>2, <2>3, <2>4, <2>5, <2>6, <2>7 DEF Next, LoopNext
  <1>. QED
    BY <1>1, <1>2, StartInvariance, PTL DEF Spec

(* A retry never comes before the interval that was due after the previous *)
(* one is over, although the loop launches startFn first and sleeps after  *)
(* that. The hypotheses keep the model's counters from stopping too early: *)
(* at an interval that they could not tell from a longer one.              *)
THEOREM RetriesArePacedAlways ==
  ASSUME MaxCount >= 2, MaxGap >= LongestInterval
  PROVE  Spec => RetriesArePaced
  <1>1. IInv /\ PaceOK /\ [Next]_vars
        => [retries > 0 /\ calling' > calling => gap >= Backoff(retries)]_vars
    <2>. SUFFICES ASSUME IInv, PaceOK, Next, retries > 0, calling' > calling
                  PROVE  gap >= Backoff(retries)
      OBVIOUS
    <2>1. calling \in Nat
      BY DEF IInv, TypeOK
    <2>2. loop = "select"
      BY <2>1 DEF Next, LoopNext, StartReturns, StartReports, SelectSuccess, SelectRetry,
         SelectDone, Wake, Cancel, Tick, startVars, loopVars
    <2>. QED
      BY <2>2 DEF PaceOK
  <1>. QED
    BY <1>1, PaceInvariance, PTL DEF Spec, RetriesArePaced
==========================================================================
