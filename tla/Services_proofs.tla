-------------------------- MODULE Services_proofs --------------------------
(***************************************************************************)
(* Proofs about RateLimiter, SystemConfigs and QuotesIngestion for every   *)
(* number of jobs, callers and failures, and, with those about the other   *)
(* services, about MCServices, where they run beside each other.           *)
(***************************************************************************)
EXTENDS MCServices, PaperAccount_proofs, BasicsSync_proofs, ForeignQuotes_proofs

-----------------------------------------------------------------------------
(* RateLimiter                                                             *)

\* What RateKept rests on.  The log is the end of the history and never longer
\* than the limit; whatever the limiter has forgotten had expired before; and
\* who sleeps does so until the oldest call of a full log expires.
LimiterInv ==
    /\ Len(callLog) <= Len(granted) /\ Len(callLog) <= CallLimit
    /\ \A i \in 1 .. Len(callLog) : callLog[i] = granted[Len(granted) - Len(callLog) + i]
    /\ \A i \in 1 .. Len(granted) - Len(callLog) : granted[i] + TimeWindow <= clock
    /\ sleeper # Awake =>
          /\ Len(callLog) = CallLimit /\ sleeper.until = callLog[1] + TimeWindow
    /\ RateKept

\* The calls that leave the log are its beginning, and all of them have expired.
LEMMA LeavingFacts ==
    ASSUME clock \in Nat, callLog \in Seq(Nat)
    PROVE  /\ Leaving \in 0 .. Len(callLog)
           /\ \A i \in 1 .. Leaving : Expired(callLog[i])
           /\ Leaving < Len(callLog) => ~Expired(callLog[Leaving + 1])
<1> DEFINE Stops == {k \in 0 .. Len(callLog) : k < Len(callLog) => ~Expired(callLog[k + 1])}
           R == OpToRel(<, Nat)
<1>1. Len(callLog) \in Nat /\ Len(callLog) \in Stops /\ Stops \subseteq Nat
  OBVIOUS
<1>2. PICK m \in Stops : \A k \in Stops : ~(<<k, m>> \in R)
  <2> HIDE DEF Stops, R
  <2>1. IsWellFoundedOn(R, Nat) BY NatLessThanWellFounded DEF R
  <2>2. Stops # {} BY <1>1
  <2>3. QED BY <1>1, <2>1, <2>2, WFMin
<1>3. ASSUME NEW i \in 1 .. m PROVE Expired(callLog[i])
  <2>1. i - 1 \in 0 .. Len(callLog) /\ i - 1 < m /\ i - 1 < Len(callLog) /\ (i - 1) + 1 = i
    BY <1>1
  <2>2. <<i - 1, m>> \in R BY <1>1, <2>1 DEF OpToRel
  <2>3. i - 1 \notin Stops BY <1>2, <2>2
  <2>4. QED BY <2>1, <2>3
<1>4. \E k \in 0 .. Len(callLog) :
        /\ \A i \in 1 .. k : Expired(callLog[i])
        /\ k < Len(callLog) => ~Expired(callLog[k + 1])
  <2>1. m \in 0 .. Len(callLog) /\ (m < Len(callLog) => ~Expired(callLog[m + 1]))
    OBVIOUS
  <2>2. QED BY <1>3, <2>1
<1>5. QED BY <1>4 DEF Leaving

\* What is remembered is still the end of the history, and all else expired.
LEMMA RememberedFacts ==
    ASSUME LimiterTypeOK, LimiterInv
    PROVE  /\ Remembered \in Seq(Nat)
           /\ Len(Remembered) <= Len(callLog)
           /\ \A i \in 1 .. Len(Remembered) :
                 Remembered[i] = granted[Len(granted) - Len(Remembered) + i]
           /\ \A i \in 1 .. Len(granted) - Len(Remembered) : granted[i] + TimeWindow <= clock
           /\ sleeper # Awake /\ clock >= sleeper.until => Len(Remembered) < CallLimit
<1> DEFINE L == Len(callLog)
           n == Len(granted)
           k == Leaving
<1>0. /\ clock \in Nat /\ callLog \in Seq(Nat) /\ granted \in Seq(Nat)
      /\ L \in Nat /\ n \in Nat /\ CallLimit \in Nat \ {0} /\ TimeWindow \in Nat
  BY LimiterConstants DEF LimiterTypeOK
<1>1. /\ k \in 0 .. L /\ \A i \in 1 .. k : Expired(callLog[i])
      /\ k < L => ~Expired(callLog[k + 1])
  BY <1>0, LeavingFacts
<1> HIDE DEF k
<1>2. Remembered = SubSeq(callLog, k + 1, L) BY DEF Remembered, k
<1>3. /\ Remembered \in Seq(Nat) /\ Len(Remembered) = L - k
      /\ \A i \in 1 .. L - k : Remembered[i] = callLog[k + i]
  BY <1>0, <1>1, <1>2
<1>4. ASSUME NEW i \in 1 .. Len(Remembered)
      PROVE  Remembered[i] = granted[n - Len(Remembered) + i]
  <2>1. k + i \in 1 .. L /\ n - L + (k + i) = n - Len(Remembered) + i BY <1>0, <1>1, <1>3
  <2>2. QED BY <1>3, <2>1 DEF LimiterInv
<1>5. ASSUME NEW i \in 1 .. n - Len(Remembered) PROVE granted[i] + TimeWindow <= clock
  <2>1. CASE i <= n - L
    BY <1>0, <1>1, <1>3, <2>1 DEF LimiterInv
  <2>2. CASE i > n - L
    <3>1. L <= n BY DEF LimiterInv
    <3> DEFINE d == i - (n - L)
    <3>0. i \in Nat /\ i <= n - (L - k) /\ k \in Nat /\ k <= L BY <1>0, <1>1, <1>3
    <3>2. d \in 1 .. k /\ d \in 1 .. L /\ n - L + d = i
      BY <1>0, <2>2, <3>1, <3>0
    <3>3. callLog[d] = granted[i] BY <3>2 DEF LimiterInv
    <3>4. QED BY <1>1, <3>2, <3>3 DEF Expired
  <2>3. QED BY <1>0, <1>3, <2>1, <2>2
<1>6. ASSUME sleeper # Awake, clock >= sleeper.until PROVE Len(Remembered) < CallLimit
  <2>1. L = CallLimit /\ sleeper.until = callLog[1] + TimeWindow BY <1>6 DEF LimiterInv
  <2>2. Expired(callLog[1]) BY <1>0, <1>6, <2>1 DEF Expired
  <2>3. k # 0 BY <1>0, <1>1, <2>1, <2>2
  <2>4. QED BY <1>0, <1>1, <1>3, <2>1, <2>3
<1>7. QED BY <1>0, <1>1, <1>3, <1>4, <1>5, <1>6

\* A permission that finds room in the log keeps the rate.
LEMMA GrantKept ==
    ASSUME LimiterTypeOK, LimiterInv, Grant, Len(Remembered) < CallLimit, clock' = clock
    PROVE  LimiterInv'
<1> DEFINE n == Len(granted)
           m == Len(Remembered)
<1>0. /\ clock \in Nat /\ granted \in Seq(Nat) /\ n \in Nat
      /\ CallLimit \in Nat \ {0} /\ TimeWindow \in Nat /\ callLog \in Seq(Nat)
  BY LimiterConstants DEF LimiterTypeOK
<1>1. /\ Remembered \in Seq(Nat) /\ m \in Nat /\ m <= n /\ m < CallLimit
      /\ \A i \in 1 .. m : Remembered[i] = granted[n - m + i]
      /\ \A i \in 1 .. n - m : granted[i] + TimeWindow <= clock
  BY <1>0, RememberedFacts DEF LimiterInv
<1>2. /\ granted' = Append(granted, clock) /\ callLog' = Append(Remembered, clock)
      /\ sleeper' = Awake
  BY DEF Grant
<1> HIDE DEF m
<1>3. /\ Len(granted') = n + 1 /\ DOMAIN granted' = 1 .. n + 1
      /\ granted'[n + 1] = clock /\ \A i \in 1 .. n : granted'[i] = granted[i]
  BY <1>0, <1>2
<1>4. /\ Len(callLog') = m + 1
      /\ callLog'[m + 1] = clock /\ \A i \in 1 .. m : callLog'[i] = Remembered[i]
  BY <1>1, <1>2 DEF m
<1>5. ASSUME NEW i \in 1 .. Len(callLog')
      PROVE  callLog'[i] = granted'[Len(granted') - Len(callLog') + i]
  <2>1. CASE i = m + 1
    BY <1>0, <1>1, <1>3, <1>4, <2>1
  <2>2. CASE i \in 1 .. m
    <3>1. Len(granted') - Len(callLog') + i = n - m + i /\ n - m + i \in 1 .. n
      BY <1>0, <1>1, <1>3, <1>4, <2>2
    <3>2. QED BY <1>1, <1>3, <1>4, <2>2, <3>1
  <2>3. QED BY <1>0, <1>1, <1>4, <2>1, <2>2
<1>6. ASSUME NEW i \in 1 .. Len(granted') - Len(callLog')
      PROVE  granted'[i] + TimeWindow <= clock'
  <2>1. i \in 1 .. n - m /\ i \in 1 .. n BY <1>0, <1>1, <1>3, <1>4
  <2>2. QED BY <1>1, <1>3, <2>1
<1>7. RateKept'
  <2> SUFFICES ASSUME NEW i \in DOMAIN granted', i + CallLimit \in DOMAIN granted'
               PROVE  granted'[i] + TimeWindow <= granted'[i + CallLimit]
    BY DEF RateKept
  <2>1. CASE i + CallLimit <= n
    <3>1. i \in 1 .. n /\ i + CallLimit \in 1 .. n BY <1>0, <1>3, <2>1
    <3>2. i \in DOMAIN granted /\ i + CallLimit \in DOMAIN granted BY <1>0, <3>1
    <3>3. granted[i] + TimeWindow <= granted[i + CallLimit]
      BY <3>2 DEF RateKept, LimiterInv
    <3>4. QED BY <1>3, <3>1, <3>3
  <2>2. CASE i + CallLimit = n + 1
    <3>1. i \in 1 .. n - m /\ i \in 1 .. n BY <1>0, <1>1, <1>3, <2>2
    <3>2. QED BY <1>1, <1>3, <2>2, <3>1
  <2>3. QED BY <1>0, <1>3, <2>1, <2>2
<1>8. Len(callLog') <= Len(granted') /\ Len(callLog') <= CallLimit
  BY <1>0, <1>1, <1>3, <1>4
<1>9. QED BY <1>2, <1>5, <1>6, <1>7, <1>8 DEF LimiterInv

\* A job that gets the lock goes ahead or falls asleep on a full log.
LEMMA EnterKept ==
    ASSUME LimiterTypeOK, LimiterInv, NEW j \in Jobs, Enter(j), clock' = clock
    PROVE  LimiterInv'
<1>1. CASE Len(Remembered) < CallLimit
  BY <1>1, GrantKept DEF Enter
<1>2. CASE ~(Len(Remembered) < CallLimit)
  <2>1. /\ callLog' = Remembered /\ granted' = granted
        /\ sleeper' = [job |-> {j}, until |-> Remembered[1] + TimeWindow]
    BY <1>2 DEF Enter
  <2>2. /\ Remembered \in Seq(Nat) /\ Len(Remembered) \in Nat
        /\ Len(Remembered) <= Len(callLog)
        /\ \A i \in 1 .. Len(Remembered) :
              Remembered[i] = granted[Len(granted) - Len(Remembered) + i]
        /\ \A i \in 1 .. Len(granted) - Len(Remembered) : granted[i] + TimeWindow <= clock
    BY RememberedFacts
  <2>3. /\ Len(callLog) \in Nat /\ Len(callLog) <= CallLimit /\ Len(callLog) <= Len(granted)
        /\ CallLimit \in Nat /\ Len(granted) \in Nat
    BY LimiterConstants DEF LimiterTypeOK, LimiterInv
  <2>4. Len(Remembered) = CallLimit BY <1>2, <2>2, <2>3
  <2> HIDE DEF Remembered
  <2>5. RateKept' BY <2>1 DEF RateKept, LimiterInv
  <2>6. sleeper'.until = callLog'[1] + TimeWindow BY <2>1
  <2>7. QED BY <2>1, <2>2, <2>3, <2>4, <2>5, <2>6 DEF LimiterInv
<1>3. QED BY <1>1, <1>2

LEMMA LimiterKept ==
    LimiterTypeOK /\ LimiterInv /\ [LimiterNext]_limiterVars => LimiterInv'
<1> SUFFICES ASSUME LimiterTypeOK, LimiterInv, [LimiterNext]_limiterVars PROVE LimiterInv'
  OBVIOUS
<1>1. ASSUME NEW j \in Jobs, Acquire(j) PROVE LimiterInv'
  <2>1. CASE Enter(j)
    BY <1>1, <2>1, EnterKept DEF Acquire
  <2>2. CASE UNCHANGED <<callLog, sleeper, granted, clock>>
    BY <2>2 DEF LimiterInv, RateKept
  <2>3. QED BY <1>1, <2>1, <2>2 DEF Acquire
<1>2. CASE TakeLock
  <2>1. Head(queue) \in Jobs BY <1>2 DEF TakeLock, LimiterTypeOK
  <2>2. QED BY <1>2, <2>1, EnterKept DEF TakeLock
<1>3. CASE WakeUp
  <2>1. Len(Remembered) < CallLimit BY <1>3, RememberedFacts DEF WakeUp
  <2>2. QED BY <1>3, <2>1, GrantKept DEF WakeUp
<1>4. CASE ClockTick
  <2>1. /\ clock' = clock + 1 /\ clock \in Nat /\ granted \in Seq(Nat) /\ TimeWindow \in Nat
        /\ UNCHANGED <<callLog, sleeper, granted>>
        /\ Len(callLog) \in Nat /\ Len(granted) \in Nat
    BY <1>4, LimiterConstants DEF ClockTick, LimiterTypeOK
  <2>2. ASSUME NEW i \in 1 .. Len(granted) - Len(callLog)
        PROVE  granted[i] + TimeWindow <= clock'
    <3>1. granted[i] \in Nat /\ granted[i] + TimeWindow <= clock
      BY <2>1 DEF LimiterInv
    <3>2. QED BY <2>1, <3>1
  <2>3. RateKept' BY <2>1 DEF RateKept, LimiterInv
  <2>4. QED BY <2>1, <2>2, <2>3 DEF LimiterInv
<1>5. CASE UNCHANGED limiterVars
  BY <1>5 DEF limiterVars, LimiterInv, RateKept
<1>6. QED BY <1>1, <1>2, <1>3, <1>4, <1>5 DEF LimiterNext

LEMMA LimiterTypesKept ==
    LimiterTypeOK /\ LimiterInv /\ [LimiterNext]_limiterVars => LimiterTypeOK'
<1> SUFFICES ASSUME LimiterTypeOK, LimiterInv, [LimiterNext]_limiterVars
             PROVE  LimiterTypeOK'
  OBVIOUS
<1>0. /\ clock \in Nat /\ granted \in Seq(Nat) /\ Remembered \in Seq(Nat)
      /\ TimeWindow \in Nat /\ CallLimit \in Nat \ {0}
  BY LimiterConstants, RememberedFacts DEF LimiterTypeOK
<1>1. Awake \in [job: SUBSET Jobs, until: Nat] BY DEF Awake
<1>2. ASSUME Grant
      PROVE  /\ callLog' \in Seq(Nat) /\ granted' \in Seq(Nat)
             /\ sleeper' \in [job: SUBSET Jobs, until: Nat]
  <2> HIDE DEF Remembered
  <2>1. QED BY <1>0, <1>1, <1>2 DEF Grant
<1>3. ASSUME NEW j \in Jobs, Enter(j)
      PROVE  /\ callLog' \in Seq(Nat) /\ granted' \in Seq(Nat)
             /\ sleeper' \in [job: SUBSET Jobs, until: Nat]
  <2> HIDE DEF Remembered
  <2>1. CASE ~(Len(Remembered) < CallLimit)
    <3>1. Remembered[1] \in Nat
      <4>1. 1 \in 1 .. Len(Remembered) BY <1>0, <2>1
      <4>2. QED BY <1>0, <4>1
    <3>2. QED BY <1>0, <1>3, <2>1, <3>1 DEF Enter, LimiterTypeOK
  <2>2. QED BY <1>2, <1>3, <2>1 DEF Enter
<1>4. ASSUME NEW j \in Jobs, Acquire(j) PROVE LimiterTypeOK'
  <2>1. CASE Enter(j) /\ UNCHANGED queue
    BY <1>3, <1>4, <2>1 DEF Acquire, LimiterTypeOK
  <2>2. CASE queue' = Append(queue, j) /\ UNCHANGED <<callLog, sleeper, granted>>
    BY <1>4, <2>2 DEF Acquire, LimiterTypeOK
  <2>3. QED BY <1>4, <2>1, <2>2 DEF Acquire
<1>5. CASE TakeLock
  <2>1. Head(queue) \in Jobs /\ queue' \in Seq(Jobs) BY <1>5 DEF TakeLock, LimiterTypeOK
  <2>2. QED BY <1>3, <1>5, <2>1 DEF TakeLock, LimiterTypeOK
<1>6. CASE WakeUp BY <1>2, <1>6 DEF WakeUp, LimiterTypeOK
<1>7. CASE ClockTick BY <1>7 DEF ClockTick, LimiterTypeOK
<1>8. CASE UNCHANGED limiterVars BY <1>8 DEF limiterVars, LimiterTypeOK
<1>9. QED BY <1>4, <1>5, <1>6, <1>7, <1>8 DEF LimiterNext

LEMMA LimiterInvariant == LimiterSpec => [](LimiterTypeOK /\ LimiterInv)
<1>1. LimiterInit => LimiterTypeOK /\ LimiterInv
  <2> SUFFICES ASSUME LimiterInit PROVE LimiterTypeOK /\ LimiterInv OBVIOUS
  <2>1. LimiterTypeOK BY DEF LimiterInit, LimiterTypeOK, Awake
  <2>2. LimiterInv BY LimiterConstants DEF LimiterInit, LimiterInv, RateKept
  <2>3. QED BY <2>1, <2>2
<1>2. LimiterTypeOK /\ LimiterInv /\ [LimiterNext]_limiterVars => (LimiterTypeOK /\ LimiterInv)'
  BY LimiterTypesKept, LimiterKept
<1>3. QED BY <1>1, <1>2, PTL DEF LimiterSpec

\* However many jobs share the limiter, no window of TimeWindow ticks holds more
\* than CallLimit permissions (RateLimiter.acquire).
THEOREM RateIsKept == LimiterSpec => []RateKept
<1>1. LimiterInv => RateKept BY DEF LimiterInv
<1>2. QED BY <1>1, LimiterInvariant, PTL

-----------------------------------------------------------------------------
(* SystemConfigs                                                           *)

ChangeSets == SUBSET Nat

CallRecords == [n: Nat, pc: {"none", "find", "reorder", "deactivate", "insert", "verify"},
                op: CallKinds, version: Nat, has: ChangeSets, rec: Nat,
                making: BOOLEAN, alone: BOOLEAN]

ConfigRecords == [active: BOOLEAN, version: Nat, has: ChangeSets]

\* What ChangesKept rests on.  Who is alone is the only one; a change is only
\* kept while nobody overlaps; a lone save carries all kept changes and its own
\* (an import its own only) from the version it has read to the one it stores.
Carrying(c) ==
    /\ calls[c].making => kept = {}
    /\ calls[c].pc \in {"reorder", "deactivate", "insert", "verify"} /\ ~calls[c].making =>
          /\ calls[c].n \in calls[c].has
          /\ calls[c].op # "import" => kept \subseteq calls[c].has
    /\ calls[c].pc = "reorder" =>
          /\ calls[c].op = "reorder" /\ calls[c].rec \in Effective /\ ~calls[c].making
          /\ calls[c].version > configs[calls[c].rec].version
    /\ calls[c].pc = "insert" => Active = {}
    /\ calls[c].pc = "verify" =>
          /\ Active = {Len(configs)}
          /\ configs[Len(configs)].has = calls[c].has

KeptInUse == Effective # {} /\ \A i \in Effective : kept \subseteq configs[i].has

KeptInv ==
    /\ \A c, d \in Callers : Calling(c) /\ Calling(d) /\ calls[c].alone => c = d
    /\ \A c \in Callers : Calling(c) /\ ~calls[c].alone => kept = {}
    /\ \A c \in Callers : Calling(c) /\ calls[c].alone => Carrying(c)
    /\ kept # {} /\ (\A c \in Callers : calls[c].pc \notin {"insert", "verify"}) => KeptInUse

\* The next place of a request that reads or saves.
LEMMA EditedFacts ==
    ASSUME NEW call \in CallRecords, NEW version \in Nat, NEW has \in ChangeSets
    PROVE  /\ Edited(call, version, has) \in CallRecords
           /\ Edited(call, version, has).pc = "deactivate"
           /\ Edited(call, version, has).making = FALSE
           /\ Edited(call, version, has).version = version + 1
           /\ call.n \in Edited(call, version, has).has
           /\ has \subseteq Edited(call, version, has).has
<1>1. call.n \in Nat BY DEF CallRecords
<1>2. has \cup {call.n} \in ChangeSets
  <2>1. has \cup {call.n} \subseteq Nat BY <1>1 DEF ChangeSets
  <2>2. QED BY <2>1, Zenon DEF ChangeSets
<1>3. version + 1 \in Nat OBVIOUS
<1> DEFINE more == has \cup {call.n}
           newer == version + 1
<1> HIDE DEF more, newer
<1>4. more \in ChangeSets /\ newer \in Nat BY <1>2, <1>3 DEF more, newer
<1>5. Edited(call, version, has) =
        [call EXCEPT !.pc = "deactivate", !.making = FALSE, !.version = newer, !.has = more]
  BY DEF Edited, more, newer
<1>6. Edited(call, version, has) \in CallRecords BY <1>4, <1>5 DEF CallRecords
<1>7. /\ Edited(call, version, has).pc = "deactivate"
      /\ Edited(call, version, has).making = FALSE
      /\ Edited(call, version, has).version = newer
      /\ Edited(call, version, has).has = more
  BY <1>5 DEF CallRecords
<1>8. QED BY <1>6, <1>7 DEF more, newer

LEMMA EditedSame ==
    ASSUME NEW call \in CallRecords, NEW version, NEW has
    PROVE  /\ Edited(call, version, has).n = call.n
           /\ Edited(call, version, has).op = call.op
           /\ Edited(call, version, has).alone = call.alone
BY DEF Edited, CallRecords

LEMMA DefaultsFacts ==
    ASSUME NEW call \in CallRecords
    PROVE  /\ Defaults(call) \in CallRecords
           /\ Defaults(call).pc = "deactivate" /\ Defaults(call).making = TRUE
           /\ Defaults(call).n = call.n /\ Defaults(call).op = call.op
           /\ Defaults(call).alone = call.alone
<1>1. {} \in ChangeSets /\ 2 \in Nat BY DEF ChangeSets
<1>2. Defaults(call) \in CallRecords BY <1>1 DEF Defaults, CallRecords
<1>3. QED BY <1>2 DEF Defaults, CallRecords

LEMMA CallTypes ==
    ASSUME ConfigTypeOK
    PROVE  /\ calls \in [Callers -> CallRecords] /\ \A c \in Callers : calls[c] \in CallRecords
           /\ NoCall \in CallRecords /\ NoCall.pc = "none"
           /\ configs \in Seq(ConfigRecords) /\ files \in ChangeSets
           /\ {} \in ChangeSets /\ 1 \in Nat
           /\ \A c \in Callers : /\ calls[c].n \in Nat /\ calls[c].version \in Nat
                                /\ calls[c].has \in ChangeSets
<1>1. calls \in [Callers -> CallRecords] BY DEF ConfigTypeOK, CallRecords, ChangeSets
<1>2. \A c \in Callers : calls[c] \in CallRecords BY <1>1
<1>3. \A c \in Callers : /\ calls[c].n \in Nat /\ calls[c].version \in Nat
                        /\ calls[c].has \in ChangeSets
  BY <1>2 DEF CallRecords
<1>4. NoCall \in CallRecords /\ NoCall.pc = "none"
  BY DEF NoCall, CallRecords, CallKinds, ChangeSets
<1>5. /\ configs \in Seq(ConfigRecords) /\ files \in ChangeSets
      /\ {} \in ChangeSets /\ 1 \in Nat
  BY DEF ConfigTypeOK, ConfigRecords, ChangeSets
<1>6. QED BY <1>1, <1>2, <1>3, <1>4, <1>5

LEMMA ProceedFacts ==
    ASSUME calls \in [Callers -> CallRecords], NEW c \in Callers, NEW next \in CallRecords,
           Proceed(c, next)
    PROVE  /\ calls' \in [Callers -> CallRecords]
           /\ calls'[c] = next
           /\ \A d \in Callers : d # c => calls'[d] = calls[d]
BY DEF Proceed

\* A save, or the default configuration on the way to one: the ways a call ends.
LEMMA AfterDefaultsFacts ==
    ASSUME ConfigTypeOK, NEW c \in Callers, AfterDefaults(c)
    PROVE  \E next \in CallRecords : /\ Proceed(c, next)
                                     /\ \/ next = NoCall
                                        \/ next = Edited(calls[c], calls[c].version, {})
<1>1. calls[c] \in CallRecords /\ calls[c].version \in Nat /\ NoCall \in CallRecords
  BY CallTypes
<1>2. Edited(calls[c], calls[c].version, {}) \in CallRecords
  <2>1. {} \in ChangeSets BY DEF ChangeSets
  <2>2. QED BY <1>1, <2>1, EditedFacts
<1>3. QED BY <1>1, <1>2 DEF AfterDefaults, Answer

LEMMA ConfigTypesKept == ConfigTypeOK /\ [ConfigNext]_configVars => ConfigTypeOK'
<1> SUFFICES ASSUME ConfigTypeOK, [ConfigNext]_configVars PROVE ConfigTypeOK'
  OBVIOUS
<1>0. /\ calls \in [Callers -> CallRecords] /\ configs \in Seq(ConfigRecords)
      /\ files \in ChangeSets /\ files \subseteq Nat /\ {} \in ChangeSets
      /\ kept \subseteq Nat /\ spent \in [calls: Nat, troubles: Nat]
      /\ NoCall \in CallRecords /\ NoCall.pc = "none"
      /\ \A c \in Callers : calls[c].pc = "reorder" => calls[c].rec \in DOMAIN configs
  BY DEF ConfigTypeOK, CallRecords, ConfigRecords, NoCall, CallKinds, ChangeSets
\* The conjuncts, for the next state.
<1>a. ASSUME calls' \in [Callers -> CallRecords], configs' \in Seq(ConfigRecords),
             files' \subseteq Nat, kept' \subseteq Nat, spent' \in [calls: Nat, troubles: Nat],
             \A c \in Callers : calls'[c].pc = "reorder" => calls'[c].rec \in DOMAIN configs'
      PROVE  ConfigTypeOK'
  BY <1>a DEF ConfigTypeOK, CallRecords, ConfigRecords, ChangeSets
\* A step in which one call goes on.
<1>b. ASSUME NEW c \in Callers, NEW next \in CallRecords, Proceed(c, next),
             next.pc = "reorder" => next.rec \in DOMAIN configs,
             DOMAIN configs \subseteq DOMAIN configs'
      PROVE  /\ calls' \in [Callers -> CallRecords]
             /\ \A d \in Callers : calls'[d].pc = "reorder" => calls'[d].rec \in DOMAIN configs'
  <2>1. /\ calls' \in [Callers -> CallRecords] /\ calls'[c] = next
        /\ \A d \in Callers : d # c => calls'[d] = calls[d]
    BY <1>0, <1>b, ProceedFacts
  <2>2. ASSUME NEW d \in Callers, calls'[d].pc = "reorder" PROVE calls'[d].rec \in DOMAIN configs
    BY <1>0, <1>b, <2>1, <2>2
  <2>3. QED BY <1>b, <2>1, <2>2
<1>c. Trouble => kept' \subseteq Nat /\ spent' \in [calls: Nat, troubles: Nat]
  BY <1>0 DEF Trouble
<1>1. ASSUME NEW c \in Callers, NEW op \in CallKinds, StartCall(c, op) PROVE ConfigTypeOK'
  <2> DEFINE call == [NoCall EXCEPT !.n = spent'.calls, !.op = op, !.pc = "find",
                                    !.alone = NoCalls]
  <2>1. spent' \in [calls: Nat, troubles: Nat] BY <1>0, <1>1 DEF StartCall
  <2>2. NoCalls \in BOOLEAN BY DEF NoCalls
  <2>3. call \in CallRecords /\ call.n \in Nat /\ call.pc = "find"
    BY <1>0, <2>1, <2>2 DEF CallRecords, NoCall
  <2>4. Edited(call, 1, {}) \in CallRecords /\ Edited(call, 1, {}).pc = "deactivate"
    <3> HIDE DEF call
    <3>1. 1 \in Nat /\ {} \in ChangeSets BY DEF ChangeSets
    <3>2. QED BY <2>3, <3>1, EditedFacts
  <2>5. \A d \in Callers : [calls[d] EXCEPT !.alone = ~Calling(d)] \in CallRecords
    BY <1>0 DEF CallRecords, Calling
  <2>6. calls' = [d \in Callers |->
                    IF d # c THEN [calls[d] EXCEPT !.alone = ~Calling(d)]
                    ELSE IF op = "import" THEN Edited(call, 1, {}) ELSE call]
    BY <1>1 DEF StartCall
  <2> HIDE DEF call
  <2>7. calls' \in [Callers -> CallRecords] BY <2>3, <2>4, <2>5, <2>6
  <2>8. ASSUME NEW d \in Callers, calls'[d].pc = "reorder" PROVE calls'[d].rec \in DOMAIN configs
    <3>1. d # c BY <2>3, <2>4, <2>6, <2>8
    <3>2. calls'[d].pc = calls[d].pc /\ calls'[d].rec = calls[d].rec
      BY <1>0, <2>6, <3>1 DEF CallRecords
    <3>3. QED BY <1>0, <2>8, <3>2
  <2>9. files' \subseteq Nat
    <3>1. files' = files \/ files' = files \cup {call.n} BY <1>1 DEF StartCall, call
    <3>2. QED BY <1>0, <2>3, <3>1
  <2>10. configs' = configs /\ kept' \subseteq Nat BY <1>0, <1>1 DEF StartCall
  <2>11. QED BY <1>0, <1>a, <2>1, <2>7, <2>8, <2>9, <2>10
<1>2. ASSUME NEW c \in Callers, FindConfig(c) PROVE ConfigTypeOK'
  <2>1. PICK i \in Effective :
          CASE calls[c].op = "read" -> Answer(c)
            [] calls[c].op = "reorder" ->
                 Proceed(c, [Edited(calls[c], configs[i].version, configs[i].has)
                               EXCEPT !.pc = "reorder", !.rec = i])
            [] OTHER -> Proceed(c, Edited(calls[c], configs[i].version, configs[i].has))
    BY <1>2 DEF FindConfig
  <2>2. i \in DOMAIN configs /\ i \in Nat BY <1>0 DEF Effective, Active
  <2>3. configs[i] \in ConfigRecords BY <1>0, <2>2
  <2>4. configs[i].version \in Nat /\ configs[i].has \in ChangeSets BY <2>3 DEF ConfigRecords
  <2> DEFINE edited == Edited(calls[c], configs[i].version, configs[i].has)
             next == [edited EXCEPT !.pc = "reorder", !.rec = i]
  <2>5. edited \in CallRecords /\ edited.pc = "deactivate"
    <3>1. calls[c] \in CallRecords BY <1>0
    <3>2. QED BY <2>4, <3>1, EditedFacts
  <2>6. next \in CallRecords /\ next.rec = i
    <3> HIDE DEF edited
    <3>1. QED BY <2>2, <2>5 DEF CallRecords
  <2>7. Proceed(c, NoCall) \/ Proceed(c, next) \/ Proceed(c, edited)
    BY <2>1 DEF Answer
  <2>8. UNCHANGED <<configs, files, kept, spent>> BY <1>2 DEF FindConfig
  <2> HIDE DEF edited, next
  <2>9. PICK after \in CallRecords :
          Proceed(c, after) /\ (after.pc = "reorder" => after.rec \in DOMAIN configs)
    BY <1>0, <2>2, <2>5, <2>6, <2>7
  <2>10. QED BY <1>0, <1>a, <1>b, <2>8, <2>9
<1>3. ASSUME NEW c \in Callers, FindNothing(c) PROVE ConfigTypeOK'
  <2>1. PICK next \in CallRecords : Proceed(c, next) /\ next.pc # "reorder"
    <3>1. Defaults(calls[c]) \in CallRecords /\ Defaults(calls[c]).pc = "deactivate"
      BY <1>0, DefaultsFacts
    <3>2. QED BY <1>0, <1>3, <3>1 DEF FindNothing, Answer
  <2>2. UNCHANGED <<configs, files, kept, spent>> BY <1>3 DEF FindNothing
  <2>3. QED BY <1>0, <1>a, <1>b, <2>1, <2>2
<1>4. ASSUME NEW c \in Callers, FindRaises(c) PROVE ConfigTypeOK'
  <2>1. PICK next \in CallRecords : Proceed(c, next) /\ next.pc # "reorder"
    <3>1. Edited(calls[c], 1, files) \in CallRecords
          /\ Edited(calls[c], 1, files).pc = "deactivate"
      <4>1. calls[c] \in CallRecords /\ 1 \in Nat /\ files \in ChangeSets BY <1>0
      <4>2. QED BY <4>1, EditedFacts
    <3>2. QED BY <1>0, <1>4, <3>1 DEF FindRaises, Answer
  <2>2. UNCHANGED <<configs, files>> BY <1>4 DEF FindRaises
  <2>3. QED BY <1>0, <1>4, <1>a, <1>b, <1>c, <2>1, <2>2 DEF FindRaises
<1>5. ASSUME NEW c \in Callers, Reorder(c) PROVE ConfigTypeOK'
  <2>1. calls[c] \in CallRecords /\ calls[c].rec \in DOMAIN configs
    BY <1>0, <1>5 DEF Reorder
  <2>2. calls[c].n \in Nat /\ calls[c].version \in Nat /\ calls[c].has \in ChangeSets
    BY <2>1 DEF CallRecords
  <2> DEFINE i == calls[c].rec
             e == [configs[i] EXCEPT !.version = calls[c].version, !.has = calls[c].has]
  <2>3. configs' = [configs EXCEPT ![i] = e] BY <1>5 DEF Reorder
  <2>4. e \in ConfigRecords
    <3>1. configs[i] \in ConfigRecords BY <1>0, <2>1
    <3>2. QED BY <2>2, <3>1 DEF ConfigRecords
  <2> HIDE DEF e
  <2>5. configs' \in Seq(ConfigRecords) /\ DOMAIN configs' = DOMAIN configs
    BY <1>0, <2>1, <2>3, <2>4
  <2>6. kept' \subseteq Nat BY <1>0, <1>5, <2>2 DEF Reorder
  <2>7. Proceed(c, NoCall) /\ UNCHANGED <<files, spent>> BY <1>5 DEF Reorder, Answer
  <2>8. QED BY <1>0, <1>a, <1>b, <2>5, <2>6, <2>7
<1>6. ASSUME NEW c \in Callers, Deactivate(c) PROVE ConfigTypeOK'
  <2>1. ASSUME NEW i \in DOMAIN configs
        PROVE  [configs[i] EXCEPT !.active = FALSE] \in ConfigRecords
    <3>1. configs[i] \in ConfigRecords BY <1>0
    <3>2. QED BY <3>1 DEF ConfigRecords
  <2>2. configs' \in Seq(ConfigRecords) /\ DOMAIN configs' = DOMAIN configs
    <3> DEFINE off(i) == [configs[i] EXCEPT !.active = FALSE]
    <3>1. configs' = [i \in 1 .. Len(configs) |-> off(i)] BY <1>0, <1>6 DEF Deactivate
    <3>2. \A i \in 1 .. Len(configs) : off(i) \in ConfigRecords BY <1>0, <2>1
    <3> HIDE DEF off
    <3>3. QED BY <1>0, <3>1, <3>2
  <2>3. [calls[c] EXCEPT !.pc = "insert"] \in CallRecords
        /\ [calls[c] EXCEPT !.pc = "insert"].pc = "insert"
    BY <1>0 DEF CallRecords
  <2>4. PICK next \in CallRecords : Proceed(c, next) /\ next.pc = "insert"
    BY <1>6, <2>3 DEF Deactivate
  <2>5. UNCHANGED <<files, kept, spent>> BY <1>6 DEF Deactivate
  <2>6. QED BY <1>0, <1>a, <1>b, <2>2, <2>4, <2>5
<1>7. ASSUME NEW c \in Callers, InsertConfig(c) PROVE ConfigTypeOK'
  <2> DEFINE e == [active |-> TRUE, version |-> calls[c].version, has |-> calls[c].has]
  <2>1. e \in ConfigRecords BY <1>0 DEF CallRecords, ConfigRecords
  <2>2. configs' = Append(configs, e) BY <1>7 DEF InsertConfig
  <2> HIDE DEF e
  <2>3. configs' \in Seq(ConfigRecords) /\ Len(configs') = Len(configs) + 1
    BY <1>0, <2>1, <2>2
  <2>4. [calls[c] EXCEPT !.pc = "verify"] \in CallRecords
        /\ [calls[c] EXCEPT !.pc = "verify"].pc = "verify"
    BY <1>0 DEF CallRecords
  <2>5. PICK next \in CallRecords : Proceed(c, next) /\ next.pc = "verify"
    BY <1>7, <2>4 DEF InsertConfig
  <2>6. UNCHANGED <<files, kept, spent>> BY <1>7 DEF InsertConfig
  <2>7. DOMAIN configs \subseteq DOMAIN configs' BY <1>0, <2>3
  <2>8. QED BY <1>0, <1>a, <1>b, <2>3, <2>5, <2>6, <2>7
<1>8. ASSUME NEW c \in Callers, VerifyConfig(c) PROVE ConfigTypeOK'
  <2>1. calls[c].n \in Nat /\ calls[c].version \in Nat BY <1>0 DEF CallRecords
  <2>2. PICK next \in CallRecords : Proceed(c, next) /\ next.pc # "reorder"
    <3>1. Edited(calls[c], calls[c].version, {}).pc = "deactivate"
      <4>1. calls[c] \in CallRecords /\ {} \in ChangeSets BY <1>0
      <4>2. QED BY <2>1, <4>1, EditedFacts
    <3>2. CASE AfterDefaults(c) BY <1>0, <3>1, <3>2, AfterDefaultsFacts
    <3>3. QED BY <1>0, <1>8, <3>2 DEF VerifyConfig, Answer
  <2>3. files' \subseteq Nat /\ kept' \subseteq Nat BY <1>0, <1>8, <2>1 DEF VerifyConfig
  <2>4. UNCHANGED <<configs, spent>> BY <1>8 DEF VerifyConfig
  <2>5. QED BY <1>0, <1>a, <1>b, <2>2, <2>3, <2>4
<1>9. ASSUME NEW c \in Callers, SaveRaises(c) PROVE ConfigTypeOK'
  <2>1. calls[c].version \in Nat BY <1>0 DEF CallRecords
  <2>2. PICK next \in CallRecords : Proceed(c, next) /\ next.pc # "reorder"
    <3>1. Edited(calls[c], calls[c].version, {}).pc = "deactivate"
      <4>1. calls[c] \in CallRecords /\ {} \in ChangeSets BY <1>0
      <4>2. QED BY <2>1, <4>1, EditedFacts
    <3>2. CASE AfterDefaults(c) BY <1>0, <3>1, <3>2, AfterDefaultsFacts
    <3>3. QED BY <1>0, <1>9, <3>2 DEF SaveRaises, Answer
  <2>3. QED BY <1>0, <1>9, <1>a, <1>b, <1>c, <2>2 DEF SaveRaises
<1>10. CASE RestartBackend
  BY <1>0, <1>10, <1>a, <1>c DEF RestartBackend
<1>11. CASE UNCHANGED configVars
  BY <1>11 DEF configVars, ConfigTypeOK
<1>12. QED BY <1>1, <1>2, <1>3, <1>4, <1>5, <1>6, <1>7, <1>8, <1>9, <1>10, <1>11
           DEF ConfigNext

\* The types of the system configuration's records, calls and histories.
THEOREM ConfigTypes == ConfigSpec => []ConfigTypeOK
<1>1. ConfigInit => ConfigTypeOK
  <2> SUFFICES ASSUME ConfigInit PROVE ConfigTypeOK OBVIOUS
  <2>1. calls \in [Callers -> CallRecords]
    <3>1. NoCall \in CallRecords BY DEF NoCall, CallRecords, CallKinds, ChangeSets
    <3>2. QED BY <3>1 DEF ConfigInit
  <2>2. \A c \in Callers : calls[c].pc = "none" BY DEF ConfigInit, NoCall
  <2>3. configs = <<>> /\ files = {} /\ kept = {} /\ spent = [calls |-> 0, troubles |-> 0]
    BY DEF ConfigInit
  <2>4. QED BY <2>1, <2>2, <2>3 DEF ConfigTypeOK, CallRecords, ChangeSets
<1>2. QED BY <1>1, ConfigTypesKept, PTL DEF ConfigSpec

\* Whatever requests overlap, no version is active only while a save is about to
\* insert one, or after a failure between the two commands (save_system_config).
THEOREM AlwaysAConfig == ConfigSpec => []NeverWithoutConfig
<1>1. ConfigInit => NeverWithoutConfig BY DEF ConfigInit, NeverWithoutConfig
<1>2. ConfigTypeOK /\ NeverWithoutConfig /\ [ConfigNext]_configVars => NeverWithoutConfig'
  <2> SUFFICES ASSUME ConfigTypeOK, NeverWithoutConfig, [ConfigNext]_configVars
               PROVE  NeverWithoutConfig'
    OBVIOUS
  <2>0. /\ calls \in [Callers -> CallRecords] /\ configs \in Seq(ConfigRecords)
        /\ spent \in [calls: Nat, troubles: Nat] /\ NoCall.pc = "none"
        /\ spent.troubles \in Nat
    BY CallTypes DEF ConfigTypeOK
  \* The versions are as they were, and whoever was to insert one still is.
  <2>a. ASSUME configs' = configs, spent'.troubles = spent.troubles,
               \A d \in Callers : calls[d].pc = "insert" => calls'[d].pc = "insert"
        PROVE  NeverWithoutConfig'
    BY <2>a DEF NeverWithoutConfig, Active
  <2>b. ASSUME NEW c \in Callers, NEW next, Proceed(c, next), calls[c].pc # "insert"
        PROVE  \A d \in Callers : calls[d].pc = "insert" => calls'[d].pc = "insert"
    BY <2>0, <2>b DEF Proceed
  <2>c. ASSUME Trouble PROVE NeverWithoutConfig'
    <3>1. spent'.troubles = spent.troubles + 1 BY <2>0, <2>c DEF Trouble
    <3>2. spent'.troubles > 0 BY <2>0, <3>1
    <3>3. QED BY <3>2 DEF NeverWithoutConfig
  <2>1. ASSUME NEW c \in Callers, NEW op \in CallKinds, StartCall(c, op)
        PROVE  NeverWithoutConfig'
    <3>1. configs' = configs /\ spent'.troubles = spent.troubles
      BY <2>0, <2>1 DEF StartCall
    <3>2. ASSUME NEW d \in Callers, calls[d].pc = "insert" PROVE calls'[d].pc = "insert"
      <4>1. d # c BY <2>1, <3>2 DEF StartCall, Calling
      <4>2. calls'[d] = [calls[d] EXCEPT !.alone = ~Calling(d)]
        BY <2>1, <4>1 DEF StartCall
      <4>3. calls[d] \in CallRecords BY <2>0
      <4>4. QED BY <3>2, <4>2, <4>3 DEF CallRecords
    <3>3. QED BY <2>a, <3>1, <3>2
  <2>2. ASSUME NEW c \in Callers, FindConfig(c) PROVE NeverWithoutConfig'
    <3>1. PICK next : Proceed(c, next) BY <2>2 DEF FindConfig, Answer
    <3>2. QED BY <2>2, <2>a, <2>b, <3>1 DEF FindConfig
  <2>3. ASSUME NEW c \in Callers, FindNothing(c) PROVE NeverWithoutConfig'
    <3>1. PICK next : Proceed(c, next) BY <2>3 DEF FindNothing, Answer
    <3>2. QED BY <2>3, <2>a, <2>b, <3>1 DEF FindNothing
  <2>4. ASSUME NEW c \in Callers, Reorder(c) PROVE NeverWithoutConfig'
    <3> DEFINE i == calls[c].rec
               e == [configs[i] EXCEPT !.version = calls[c].version, !.has = calls[c].has]
    <3>1. i \in DOMAIN configs BY <2>4 DEF ConfigTypeOK, Reorder
    <3>2. configs' = [configs EXCEPT ![i] = e] BY <2>4 DEF Reorder
    <3>3. e.active = configs[i].active
      <4>1. configs[i] \in ConfigRecords BY <2>0, <3>1
      <4>2. QED BY <4>1 DEF ConfigRecords
    <3> HIDE DEF e
    <3>4. DOMAIN configs' = DOMAIN configs BY <2>0, <3>2
    <3>5. \A j \in DOMAIN configs : configs'[j].active = configs[j].active
      BY <2>0, <3>2, <3>3
    <3>6. Active' = Active BY <3>4, <3>5 DEF Active
    <3>7. configs # <<>> BY <2>0, <3>1
    <3>8. \A d \in Callers : calls[d].pc = "insert" => calls'[d].pc = "insert"
      BY <2>4, <2>b DEF Reorder, Answer
    <3>9. spent' = spent BY <2>4 DEF Reorder
    <3>10. QED BY <3>6, <3>7, <3>8, <3>9 DEF NeverWithoutConfig
  <2>5. ASSUME NEW c \in Callers, Deactivate(c) PROVE NeverWithoutConfig'
    <3>1. calls[c] \in CallRecords /\ calls'[c] = [calls[c] EXCEPT !.pc = "insert"]
      BY <2>0, <2>5 DEF Deactivate, Proceed
    <3>2. calls'[c].pc = "insert" BY <3>1 DEF CallRecords
    <3>3. QED BY <3>2 DEF NeverWithoutConfig
  <2>6. ASSUME NEW c \in Callers, InsertConfig(c) PROVE NeverWithoutConfig'
    <3> DEFINE e == [active |-> TRUE, version |-> calls[c].version, has |-> calls[c].has]
    <3>1. configs' = Append(configs, e) BY <2>6 DEF InsertConfig
    <3>2. e.active OBVIOUS
    <3> HIDE DEF e
    <3>3. Len(configs) + 1 \in DOMAIN configs' /\ configs'[Len(configs) + 1] = e
      BY <2>0, <3>1
    <3>4. Len(configs) + 1 \in Active' BY <3>2, <3>3 DEF Active
    <3>5. QED BY <3>4 DEF NeverWithoutConfig
  <2>7. ASSUME NEW c \in Callers, VerifyConfig(c) PROVE NeverWithoutConfig'
    <3>1. PICK next : Proceed(c, next) BY <2>7 DEF VerifyConfig, AfterDefaults, Answer
    <3>2. QED BY <2>7, <2>a, <2>b, <3>1 DEF VerifyConfig
  <2>8. CASE UNCHANGED configVars
    BY <2>8 DEF configVars, NeverWithoutConfig, Active
  <2>9. QED
    BY <2>1, <2>2, <2>3, <2>4, <2>5, <2>6, <2>7, <2>8, <2>c
    DEF ConfigNext, FindRaises, SaveRaises, RestartBackend
<1>3. QED BY <1>1, <1>2, ConfigTypes, PTL DEF ConfigSpec

\* While a call is in progress and changes are to be kept, it is the only one;
\* unless it is storing a version, the changes are in the one in use.
LEMMA KeptFacts ==
    ASSUME ConfigTypeOK, KeptInv, NEW c \in Callers, Calling(c)
    PROVE  /\ ~calls[c].alone => kept = {}
           /\ calls[c].alone => Carrying(c)
           /\ kept # {} /\ calls[c].pc \notin {"insert", "verify"} => KeptInUse
<1>1. (~calls[c].alone => kept = {}) /\ (calls[c].alone => Carrying(c)) BY DEF KeptInv
<1>2. ASSUME kept # {}, calls[c].pc \notin {"insert", "verify"} PROVE KeptInUse
  <2>1. calls[c].alone BY <1>1, <1>2
  <2>2. \A d \in Callers : d # c => ~Calling(d) BY <2>1 DEF KeptInv
  <2>3. \A d \in Callers : calls[d].pc \notin {"insert", "verify"}
    BY <1>2, <2>2 DEF Calling
  <2>4. QED BY <1>2, <2>3 DEF KeptInv
<1>3. QED BY <1>1, <1>2

\* A step of one call keeps the invariant when what that call carries is right.
LEMMA CallGoesOn ==
    ASSUME ConfigTypeOK, KeptInv, NEW c \in Callers, Calling(c),
           NEW next \in CallRecords, Proceed(c, next),
           next.pc # "none" => next.alone = calls[c].alone,
           ~calls[c].alone => kept' = {},
           calls[c].alone /\ next.pc # "none" => Carrying(c)',
           kept' # {} /\ next.pc \notin {"insert", "verify"} => KeptInUse'
    PROVE  KeptInv'
<1>1. /\ calls'[c] = next
      /\ \A d \in Callers : d # c => calls'[d] = calls[d]
  BY CallTypes, ProceedFacts
<1>2. ASSUME NEW d \in Callers, d # c, calls'[d].pc # "none"
      PROVE  ~calls[c].alone /\ ~calls'[d].alone
  <2>1. calls'[d] = calls[d] /\ Calling(d) BY <1>1, <1>2 DEF Calling
  <2>2. QED BY <1>2, <2>1 DEF KeptInv
<1>3. \A d, e \in Callers :
        calls'[d].pc # "none" /\ calls'[e].pc # "none" /\ calls'[d].alone => d = e
  <2> SUFFICES ASSUME NEW d \in Callers, NEW e \in Callers, calls'[d].pc # "none",
                      calls'[e].pc # "none", calls'[d].alone, d # e
               PROVE  FALSE
    OBVIOUS
  <2>1. d = c BY <1>2
  <2>2. ~calls[c].alone BY <1>2, <2>1
  <2>3. QED BY <1>1, <2>1, <2>2
<1>4. ASSUME NEW d \in Callers, calls'[d].pc # "none", ~calls'[d].alone PROVE kept' = {}
  <2>1. CASE d = c BY <1>1, <1>4, <2>1
  <2>2. CASE d # c BY <1>2, <1>4, <2>2
  <2>3. QED BY <2>1, <2>2
<1>5. ASSUME NEW d \in Callers, calls'[d].pc # "none", calls'[d].alone PROVE Carrying(d)'
  <2>1. d = c BY <1>2, <1>5
  <2>2. QED BY <1>1, <1>5, <2>1
<1>6. kept' # {} /\ (\A d \in Callers : calls'[d].pc \notin {"insert", "verify"}) => KeptInUse'
  BY <1>1
<1>7. QED BY <1>3, <1>4, <1>5, <1>6 DEF KeptInv, Calling

LEMMA StartKept ==
    ASSUME ConfigTypeOK, KeptInv, NEW c \in Callers, NEW op \in CallKinds, StartCall(c, op)
    PROVE  KeptInv'
<1> DEFINE call == [NoCall EXCEPT !.n = spent'.calls, !.op = op, !.pc = "find",
                                  !.alone = NoCalls]
           next == IF op = "import" THEN Edited(call, 1, {}) ELSE call
<1>1. NoCalls \in BOOLEAN BY DEF NoCalls
<1>2. spent'.calls \in Nat BY DEF StartCall, ConfigTypeOK
<1>3. /\ call \in CallRecords /\ call.pc = "find" /\ call.making = FALSE
      /\ call.alone = NoCalls /\ call.op = op
  BY <1>1, <1>2, CallTypes DEF NoCall, CallRecords
<1>4. calls' = [d \in Callers |-> IF d # c THEN [calls[d] EXCEPT !.alone = ~Calling(d)]
                                  ELSE next]
  BY DEF StartCall
<1>5. configs' = configs /\ kept' = (IF NoCalls THEN kept ELSE {}) BY DEF StartCall
<1> HIDE DEF call
<1>6. /\ Edited(call, 1, {}).pc = "deactivate" /\ Edited(call, 1, {}).making = FALSE
      /\ Edited(call, 1, {}).n \in Edited(call, 1, {}).has
      /\ Edited(call, 1, {}).op = call.op /\ Edited(call, 1, {}).alone = call.alone
  <2>1. call \in CallRecords /\ 1 \in Nat /\ {} \in ChangeSets BY <1>3, CallTypes
  <2>2. /\ Edited(call, 1, {}).pc = "deactivate" /\ Edited(call, 1, {}).making = FALSE
        /\ call.n \in Edited(call, 1, {}).has /\ Edited(call, 1, {}).n = call.n
        /\ Edited(call, 1, {}).op = call.op /\ Edited(call, 1, {}).alone = call.alone
    <3>1. Edited(call, 1, {}).pc = "deactivate" /\ Edited(call, 1, {}).making = FALSE
      BY <2>1, EditedFacts
    <3>2. call.n \in Edited(call, 1, {}).has
      BY <2>1, EditedFacts
    <3>3. /\ Edited(call, 1, {}).n = call.n
          /\ Edited(call, 1, {}).op = call.op /\ Edited(call, 1, {}).alone = call.alone
      BY <2>1, EditedSame
    <3>4. QED BY <3>1, <3>2, <3>3, Zenon
  <2>3. QED BY <2>2
<1>7. /\ next.pc \in {"find", "deactivate"} /\ next.making = FALSE /\ next.alone = NoCalls
      /\ next.pc = "deactivate" => next.op = "import" /\ next.n \in next.has
  BY <1>3, <1>6
<1> HIDE DEF next
<1>8. calls'[c] = next BY <1>4
<1>9. ASSUME NEW d \in Callers, d # c
      PROVE  calls'[d].pc = calls[d].pc /\ calls'[d].alone = ~Calling(d)
  <2>1. calls[d] \in CallRecords BY CallTypes
  <2>2. calls'[d] = [calls[d] EXCEPT !.alone = ~Calling(d)] BY <1>4, <1>9
  <2>3. QED BY <2>1, <2>2 DEF CallRecords
<1>10. ASSUME NEW d \in Callers, d # c, calls'[d].pc # "none"
       PROVE  ~calls'[d].alone /\ ~next.alone /\ kept' = {}
  <2>1. Calling(d) BY <1>9, <1>10 DEF Calling
  <2>2. QED BY <1>5, <1>7, <1>9, <1>10, <2>1 DEF NoCalls
<1>11. \A d, e \in Callers :
         calls'[d].pc # "none" /\ calls'[e].pc # "none" /\ calls'[d].alone => d = e
  <2> SUFFICES ASSUME NEW d \in Callers, NEW e \in Callers, calls'[d].pc # "none",
                      calls'[e].pc # "none", calls'[d].alone, d # e
               PROVE  FALSE
    OBVIOUS
  <2>1. d = c BY <1>10
  <2>2. ~next.alone BY <1>10, <2>1
  <2>3. QED BY <1>8, <2>1, <2>2
<1>12. ASSUME NEW d \in Callers, calls'[d].pc # "none", ~calls'[d].alone PROVE kept' = {}
  <2>1. CASE d = c BY <1>5, <1>7, <1>8, <1>12, <2>1
  <2>2. CASE d # c BY <1>10, <1>12, <2>2
  <2>3. QED BY <2>1, <2>2
<1>13. ASSUME NEW d \in Callers, calls'[d].pc # "none", calls'[d].alone PROVE Carrying(d)'
  <2>1. d = c BY <1>10, <1>13
  <2>2. QED BY <1>7, <1>8, <2>1 DEF Carrying
<1>14. ASSUME kept' # {} PROVE KeptInUse'
  <2>1. kept # {} /\ NoCalls /\ kept' = kept BY <1>5, <1>14
  <2>2. \A d \in Callers : calls[d].pc \notin {"insert", "verify"}
    BY <2>1 DEF NoCalls, Calling
  <2>3. KeptInUse BY <2>1, <2>2 DEF KeptInv
  <2>4. QED BY <1>5, <2>1, <2>3 DEF KeptInUse, Effective, Active
<1>15. QED BY <1>11, <1>12, <1>13, <1>14 DEF KeptInv, Calling

LEMMA FindKept ==
    ASSUME ConfigTypeOK, KeptInv, NEW c \in Callers, FindConfig(c) PROVE KeptInv'
<1>1. /\ calls[c].pc = "find" /\ Calling(c) /\ calls[c] \in CallRecords
      /\ UNCHANGED <<configs, kept>>
  BY CallTypes DEF FindConfig, Calling
<1>2. /\ ~calls[c].alone => kept = {}
      /\ kept # {} => KeptInUse
  BY <1>1, KeptFacts
<1>3. PICK i \in Effective :
        CASE calls[c].op = "read" -> Answer(c)
          [] calls[c].op = "reorder" ->
               Proceed(c, [Edited(calls[c], configs[i].version, configs[i].has)
                             EXCEPT !.pc = "reorder", !.rec = i])
          [] OTHER -> Proceed(c, Edited(calls[c], configs[i].version, configs[i].has))
  BY DEF FindConfig
<1> DEFINE edited == Edited(calls[c], configs[i].version, configs[i].has)
           next == [edited EXCEPT !.pc = "reorder", !.rec = i]
<1>4. i \in Nat /\ configs[i].version \in Nat /\ configs[i].has \in ChangeSets
  <2>1. i \in DOMAIN configs /\ configs \in Seq(ConfigRecords)
    BY CallTypes DEF Effective, Active
  <2>2. i \in Nat /\ configs[i] \in ConfigRecords BY <2>1
  <2>3. QED BY <2>2 DEF ConfigRecords
<1>5. /\ edited \in CallRecords /\ edited.pc = "deactivate" /\ edited.making = FALSE
      /\ edited.version = configs[i].version + 1
      /\ calls[c].n \in edited.has /\ configs[i].has \subseteq edited.has
      /\ edited.n = calls[c].n /\ edited.op = calls[c].op /\ edited.alone = calls[c].alone
  <2>1. /\ calls[c] \in CallRecords /\ configs[i].version \in Nat
        /\ configs[i].has \in ChangeSets
    BY <1>1, <1>4
  <2>2. edited \in CallRecords /\ edited.pc = "deactivate" /\ edited.making = FALSE
    BY <2>1, EditedFacts
  <2>3. /\ edited.version = configs[i].version + 1
        /\ calls[c].n \in edited.has /\ configs[i].has \subseteq edited.has
    BY <2>1, EditedFacts
  <2>4. edited.n = calls[c].n /\ edited.op = calls[c].op /\ edited.alone = calls[c].alone
    BY <2>1, EditedSame
  <2>5. QED BY <2>2, <2>3, <2>4, Zenon
<1>6. kept \subseteq configs[i].has BY <1>2 DEF KeptInUse
<1>7. edited.n \in edited.has /\ kept \subseteq edited.has BY <1>5, <1>6
<1>8. \/ Proceed(c, NoCall) \/ Proceed(c, edited)
      \/ Proceed(c, next) /\ calls[c].op = "reorder"
  BY <1>3 DEF Answer
<1> HIDE DEF edited
<1>9. /\ next \in CallRecords /\ next.pc = "reorder" /\ next.rec = i
      /\ next.making = FALSE /\ next.version = configs[i].version + 1
      /\ next.n \in next.has /\ kept \subseteq next.has /\ next.alone = calls[c].alone
      /\ next.op = calls[c].op
  BY <1>4, <1>5, <1>7 DEF CallRecords
<1> HIDE DEF next
<1>10. ASSUME NEW after \in CallRecords, Proceed(c, after) PROVE calls'[c] = after
  BY <1>10, CallTypes, ProceedFacts
<1>11. kept' # {} => KeptInUse'
  BY <1>1, <1>2 DEF KeptInUse, Effective, Active
<1>12. CASE Proceed(c, NoCall) BY <1>1, <1>2, <1>11, <1>12, CallGoesOn, CallTypes
<1>13. CASE Proceed(c, edited)
  <2>1. calls'[c] = edited BY <1>5, <1>10, <1>13
  <2>2. Carrying(c)' BY <1>1, <1>5, <1>7, <2>1 DEF Carrying
  <2>3. QED BY <1>1, <1>2, <1>5, <1>11, <1>13, <2>2, CallGoesOn
<1>14. CASE Proceed(c, next) /\ calls[c].op = "reorder"
  <2>1. calls'[c] = next BY <1>9, <1>10, <1>14
  <2>2. i \in Effective' /\ next.version > configs[i].version
    BY <1>1, <1>4, <1>9 DEF Effective, Active
  <2>3. Carrying(c)' BY <1>1, <1>9, <1>14, <2>1, <2>2 DEF Carrying
  <2>4. QED BY <1>1, <1>2, <1>9, <1>11, <1>14, <2>3, CallGoesOn
<1>15. QED BY <1>8, <1>12, <1>13, <1>14

LEMMA NothingKept ==
    ASSUME ConfigTypeOK, KeptInv, NEW c \in Callers, FindNothing(c) PROVE KeptInv'
<1>1. /\ calls[c].pc = "find" /\ Calling(c) /\ calls[c] \in CallRecords
      /\ UNCHANGED <<configs, kept>> /\ Active = {} /\ NoCall \in CallRecords
      /\ NoCall.pc = "none"
  BY CallTypes DEF FindNothing, Calling
<1>2. kept = {} BY <1>1, KeptFacts DEF KeptInUse, Effective
<1> DEFINE next == Defaults(calls[c])
<1>3. /\ next \in CallRecords /\ next.pc = "deactivate" /\ next.making = TRUE
      /\ next.alone = calls[c].alone
  BY <1>1, DefaultsFacts
<1>4. Proceed(c, NoCall) \/ Proceed(c, next) BY DEF FindNothing, Answer
<1> HIDE DEF next
<1>5. CASE Proceed(c, NoCall) BY <1>1, <1>2, <1>5, CallGoesOn
<1>6. CASE Proceed(c, next)
  <2>1. calls'[c] = next BY <1>3, <1>6, CallTypes, ProceedFacts
  <2>2. Carrying(c)' BY <1>1, <1>2, <1>3, <2>1 DEF Carrying
  <2>3. QED BY <1>1, <1>2, <1>3, <1>6, <2>2, CallGoesOn
<1>7. QED BY <1>4, <1>5, <1>6

\* What a failure leaves: nothing has to be kept any more.
LEMMA FailureKept ==
    ASSUME ConfigTypeOK, KeptInv, NEW c \in Callers, Calling(c), kept' = {},
           NEW next \in CallRecords, Proceed(c, next),
           \/ next.pc = "none"
           \/ /\ next.pc = "deactivate" /\ next.making = FALSE
              /\ next.n \in next.has /\ next.alone = calls[c].alone
    PROVE  KeptInv'
<1>1. calls'[c] = next BY CallTypes, ProceedFacts
<1>2. next.pc # "none" => Carrying(c)' BY <1>1 DEF Carrying
<1>3. QED BY <1>2, CallGoesOn

LEMMA FindRaisesKept ==
    ASSUME ConfigTypeOK, KeptInv, NEW c \in Callers, FindRaises(c) PROVE KeptInv'
<1>1. /\ calls[c].pc = "find" /\ Calling(c) /\ calls[c] \in CallRecords
      /\ kept' = {} /\ NoCall \in CallRecords /\ NoCall.pc = "none"
  BY CallTypes DEF FindRaises, Calling, Trouble
<1> DEFINE next == Edited(calls[c], 1, files)
<1>2. calls[c] \in CallRecords /\ 1 \in Nat /\ files \in ChangeSets BY CallTypes
<1>3. next \in CallRecords /\ next.pc = "deactivate" /\ next.making = FALSE
  BY <1>2, EditedFacts
<1>4. calls[c].n \in next.has BY <1>2, EditedFacts
<1>5. next.n = calls[c].n /\ next.alone = calls[c].alone BY <1>2, EditedSame
<1>6. Proceed(c, NoCall) \/ Proceed(c, next) BY DEF FindRaises, Answer
<1> HIDE DEF next
<1>7. next.n \in next.has BY <1>4, <1>5
<1>8. QED BY <1>1, <1>3, <1>5, <1>6, <1>7, FailureKept

LEMMA ReorderKept ==
    ASSUME ConfigTypeOK, KeptInv, NEW c \in Callers, Reorder(c) PROVE KeptInv'
<1> DEFINE i == calls[c].rec
           e == [configs[i] EXCEPT !.version = calls[c].version, !.has = calls[c].has]
<1>1. /\ calls[c].pc = "reorder" /\ Calling(c) /\ i \in DOMAIN configs
      /\ configs \in Seq(ConfigRecords) /\ NoCall \in CallRecords /\ NoCall.pc = "none"
      /\ calls[c].version \in Nat /\ Proceed(c, NoCall)
  BY CallTypes DEF Reorder, Calling, Answer, ConfigTypeOK
<1>2. configs' = [configs EXCEPT ![i] = e] BY DEF Reorder
<1>3. e.active = configs[i].active /\ e.version = calls[c].version /\ e.has = calls[c].has
  <2>1. configs[i] \in ConfigRecords BY <1>1
  <2>2. QED BY <2>1 DEF ConfigRecords
<1> HIDE DEF e
<1>4. DOMAIN configs' = DOMAIN configs /\ configs'[i] = e
      /\ \A j \in DOMAIN configs : j # i => configs'[j] = configs[j]
  BY <1>1, <1>2
<1>5. Active' = Active BY <1>3, <1>4 DEF Active
<1>6. ~calls[c].alone => kept' = {} BY <1>1, KeptFacts DEF Reorder
<1>7. ASSUME calls[c].alone PROVE KeptInUse'
  <2>1. /\ i \in Effective /\ calls[c].version > configs[i].version
        /\ calls[c].n \in calls[c].has
        /\ calls[c].op # "import" => kept \subseteq calls[c].has
    BY <1>1, <1>7, KeptFacts DEF Carrying
  <2>2. ASSUME NEW j \in Active, j # i
        PROVE  configs'[j].version \in Nat /\ configs'[j].version < configs'[i].version
    <3>1. configs[j].version <= configs[i].version BY <2>1, <2>2 DEF Effective
    <3>2. configs[j] \in ConfigRecords /\ configs[i] \in ConfigRecords
      BY <1>1, <2>2 DEF Active
    <3>3. configs[j].version \in Nat /\ configs[i].version \in Nat
      BY <3>2 DEF ConfigRecords
    <3>4. configs'[j] = configs[j] BY <1>4, <2>2 DEF Active
    <3>5. QED BY <1>1, <1>3, <1>4, <2>1, <3>1, <3>3, <3>4
  <2>3. i \in Active BY <2>1 DEF Effective
  <2>4. configs'[i].version \in Nat BY <1>1, <1>3, <1>4
  <2>5. i \in Effective' BY <1>5, <2>2, <2>3, <2>4 DEF Effective
  <2>6. ASSUME NEW j \in Effective' PROVE j = i
    <3>1. j \in Active /\ configs'[i].version <= configs'[j].version
      BY <1>5, <2>3, <2>6 DEF Effective
    <3>2. QED BY <2>2, <2>4, <3>1
  <2>7. kept' \subseteq calls[c].has
    <3>1. calls[c].op # "import" BY <1>1, <1>7, KeptFacts DEF Carrying
    <3>2. QED BY <2>1, <3>1 DEF Reorder
  <2>8. QED BY <1>3, <1>4, <2>5, <2>6, <2>7 DEF KeptInUse
<1>8. QED BY <1>1, <1>6, <1>7, CallGoesOn

LEMMA DeactivateKept ==
    ASSUME ConfigTypeOK, KeptInv, NEW c \in Callers, Deactivate(c) PROVE KeptInv'
<1> DEFINE next == [calls[c] EXCEPT !.pc = "insert"]
<1>1. /\ calls[c].pc = "deactivate" /\ Calling(c) /\ calls[c] \in CallRecords
      /\ configs \in Seq(ConfigRecords) /\ kept' = kept /\ Proceed(c, next)
  BY CallTypes DEF Deactivate, Calling
<1>2. next \in CallRecords /\ next.pc = "insert"
  BY <1>1 DEF CallRecords
<1>3. /\ next.n = calls[c].n /\ next.op = calls[c].op /\ next.has = calls[c].has
      /\ next.making = calls[c].making /\ next.alone = calls[c].alone
  BY <1>1 DEF CallRecords
<1> HIDE DEF next
<1>4. calls'[c] = next BY <1>1, <1>2, CallTypes, ProceedFacts
<1>5. Active' = {}
  <2>1. DOMAIN configs' = DOMAIN configs BY DEF Deactivate
  <2>2. ASSUME NEW j \in DOMAIN configs PROVE ~configs'[j].active
    <3>1. configs'[j] = [configs[j] EXCEPT !.active = FALSE] BY DEF Deactivate
    <3>2. configs[j] \in ConfigRecords BY <1>1
    <3>3. QED BY <3>1, <3>2 DEF ConfigRecords
  <2>3. QED BY <2>1, <2>2 DEF Active
<1>6. ~calls[c].alone => kept' = {} BY <1>1, KeptFacts
<1>7. ASSUME calls[c].alone PROVE Carrying(c)'
  <2>1. Carrying(c) BY <1>1, <1>7, KeptFacts
  <2>2. QED BY <1>1, <1>2, <1>3, <1>4, <1>5, <2>1 DEF Carrying
<1>8. QED BY <1>1, <1>2, <1>3, <1>6, <1>7, CallGoesOn

LEMMA InsertKept ==
    ASSUME ConfigTypeOK, KeptInv, NEW c \in Callers, InsertConfig(c) PROVE KeptInv'
<1> DEFINE next == [calls[c] EXCEPT !.pc = "verify"]
           e == [active |-> TRUE, version |-> calls[c].version, has |-> calls[c].has]
<1>1. /\ calls[c].pc = "insert" /\ Calling(c) /\ calls[c] \in CallRecords
      /\ configs \in Seq(ConfigRecords) /\ kept' = kept /\ Proceed(c, next)
      /\ configs' = Append(configs, e)
  BY CallTypes DEF InsertConfig, Calling
<1>2. next \in CallRecords /\ next.pc = "verify"
  BY <1>1 DEF CallRecords
<1>3. /\ next.n = calls[c].n /\ next.op = calls[c].op /\ next.has = calls[c].has
      /\ next.making = calls[c].making /\ next.alone = calls[c].alone
  BY <1>1 DEF CallRecords
<1>4. e.active /\ e.has = calls[c].has OBVIOUS
<1> HIDE DEF next, e
<1>5. calls'[c] = next BY <1>1, <1>2, CallTypes, ProceedFacts
<1>6. ~calls[c].alone => kept' = {} BY <1>1, KeptFacts
<1>7. ASSUME calls[c].alone PROVE Carrying(c)'
  <2>1. Carrying(c) /\ Active = {} BY <1>1, <1>7, KeptFacts DEF Carrying
  <2>2. /\ Len(configs') = Len(configs) + 1 /\ configs' \in Seq(ConfigRecords \cup {e})
        /\ configs'[Len(configs')] = e
        /\ \A j \in 1 .. Len(configs) : configs'[j] = configs[j]
    BY <1>1
  <2>3. ASSUME NEW j \in Active' PROVE j = Len(configs')
    <3>1. j \in 1 .. Len(configs') /\ configs'[j].active BY <2>2, <2>3 DEF Active
    <3>2. CASE j \in 1 .. Len(configs)
      BY <1>1, <2>1, <2>2, <3>1, <3>2 DEF Active
    <3>3. QED BY <1>1, <2>2, <3>1, <3>2
  <2>4. Len(configs') \in Active' BY <1>1, <1>4, <2>2 DEF Active
  <2>5. Active' = {Len(configs')} BY <2>3, <2>4
  <2>6. configs'[Len(configs')].has = next.has BY <1>3, <1>4, <2>2
  <2>7. QED BY <1>1, <1>2, <1>3, <1>5, <2>1, <2>5, <2>6 DEF Carrying
<1>8. QED BY <1>1, <1>2, <1>3, <1>6, <1>7, CallGoesOn

LEMMA VerifyKept ==
    ASSUME ConfigTypeOK, KeptInv, NEW c \in Callers, VerifyConfig(c) PROVE KeptInv'
<1>1. /\ calls[c].pc = "verify" /\ Calling(c) /\ calls[c] \in CallRecords
      /\ configs' = configs /\ NoCall \in CallRecords /\ NoCall.pc = "none"
      /\ configs \in Seq(ConfigRecords) /\ calls[c].version \in Nat /\ {} \in ChangeSets
  BY CallTypes DEF VerifyConfig, Calling
<1>2. ~calls[c].alone => kept = {} BY <1>1, KeptFacts
<1>3. CASE calls[c].making
  <2>1. kept = {} BY <1>1, <1>2, <1>3, KeptFacts DEF Carrying
  <2>2. kept' = {} /\ AfterDefaults(c) BY <1>3, <2>1 DEF VerifyConfig
  <2>3. PICK next \in CallRecords :
          Proceed(c, next) /\ (next = NoCall \/ next = Edited(calls[c], calls[c].version, {}))
    BY <2>2, AfterDefaultsFacts
  <2>4. \/ next.pc = "none"
        \/ /\ next.pc = "deactivate" /\ next.making = FALSE
           /\ next.n \in next.has /\ next.alone = calls[c].alone
    <3>1. CASE next = NoCall BY <1>1, <3>1
    <3>2. CASE next = Edited(calls[c], calls[c].version, {})
      <4>1. next.pc = "deactivate" /\ next.making = FALSE /\ calls[c].n \in next.has
        BY <1>1, <3>2, EditedFacts
      <4>2. next.n = calls[c].n /\ next.alone = calls[c].alone
        BY <1>1, <3>2, EditedSame
      <4>3. QED BY <4>1, <4>2
    <3>3. QED BY <2>3, <3>1, <3>2
  <2>5. QED BY <1>1, <2>2, <2>3, <2>4, FailureKept
<1>4. CASE ~calls[c].making
  <2>1. /\ Proceed(c, NoCall)
        /\ kept' = (IF calls[c].alone
                     THEN (IF calls[c].op = "import" THEN {} ELSE kept) \cup {calls[c].n}
                     ELSE kept)
    BY <1>4 DEF VerifyConfig, Answer
  <2>2. ~calls[c].alone => kept' = {} BY <1>2, <2>1
  <2>3. ASSUME calls[c].alone PROVE KeptInUse'
    <3>1. /\ Active = {Len(configs)} /\ configs[Len(configs)].has = calls[c].has
          /\ calls[c].n \in calls[c].has
          /\ calls[c].op # "import" => kept \subseteq calls[c].has
      BY <1>1, <1>4, <2>3, KeptFacts DEF Carrying
    <3>2. kept' \subseteq calls[c].has
      <4>1. CASE calls[c].op = "import"
        <5>1. kept' = {} \cup {calls[c].n} BY <2>1, <2>3, <4>1
        <5>2. QED BY <3>1, <5>1
      <4>2. CASE calls[c].op # "import"
        <5>1. kept' = kept \cup {calls[c].n} BY <2>1, <2>3, <4>2
        <5>2. QED BY <3>1, <4>2, <5>1
      <4>3. QED BY <4>1, <4>2
    <3>3. configs[Len(configs)].version \in Nat
      <4>1. Len(configs) \in DOMAIN configs BY <3>1 DEF Active
      <4>2. configs[Len(configs)] \in ConfigRecords BY <1>1, <4>1
      <4>3. QED BY <4>2 DEF ConfigRecords
    <3>4. Effective = {Len(configs)} BY <3>1, <3>3 DEF Effective
    <3>5. Effective' = Effective BY <1>1 DEF Effective, Active
    <3>6. QED BY <1>1, <3>1, <3>2, <3>4, <3>5 DEF KeptInUse
  <2>4. QED BY <1>1, <2>1, <2>2, <2>3, CallGoesOn
<1>5. QED BY <1>3, <1>4

LEMMA SaveRaisesKept ==
    ASSUME ConfigTypeOK, KeptInv, NEW c \in Callers, SaveRaises(c) PROVE KeptInv'
<1>1. /\ Calling(c) /\ kept' = {} /\ calls[c] \in CallRecords
      /\ NoCall \in CallRecords /\ NoCall.pc = "none"
      /\ calls[c].version \in Nat /\ {} \in ChangeSets
  BY CallTypes DEF SaveRaises, Calling, Trouble
<1>2. CASE calls[c].making
  <2>1. AfterDefaults(c) BY <1>2 DEF SaveRaises
  <2>2. PICK next \in CallRecords :
          Proceed(c, next) /\ (next = NoCall \/ next = Edited(calls[c], calls[c].version, {}))
    BY <2>1, AfterDefaultsFacts
  <2>3. \/ next.pc = "none"
        \/ /\ next.pc = "deactivate" /\ next.making = FALSE
           /\ next.n \in next.has /\ next.alone = calls[c].alone
    <3>1. CASE next = NoCall BY <1>1, <3>1
    <3>2. CASE next = Edited(calls[c], calls[c].version, {})
      <4>1. next.pc = "deactivate" /\ next.making = FALSE /\ calls[c].n \in next.has
        BY <1>1, <3>2, EditedFacts
      <4>2. next.n = calls[c].n /\ next.alone = calls[c].alone
        BY <1>1, <3>2, EditedSame
      <4>3. QED BY <4>1, <4>2
    <3>3. QED BY <2>2, <3>1, <3>2
  <2>4. QED BY <1>1, <2>2, <2>3, FailureKept
<1>3. CASE ~calls[c].making
  <2>1. Proceed(c, NoCall) BY <1>3 DEF SaveRaises, Answer
  <2>2. QED BY <1>1, <2>1, FailureKept
<1>4. QED BY <1>2, <1>3

LEMMA KeptStep ==
    ASSUME ConfigTypeOK, KeptInv, [ConfigNext]_configVars PROVE KeptInv'
<1>1. ASSUME RestartBackend PROVE KeptInv'
  <2>1. kept' = {} /\ \A c \in Callers : calls'[c].pc = "none"
    BY <1>1, CallTypes DEF RestartBackend, Trouble
  <2>2. QED BY <2>1 DEF KeptInv, Calling
<1>2. CASE UNCHANGED configVars
  BY <1>2 DEF configVars, KeptInv, Calling, Carrying, KeptInUse, Effective, Active
<1>3. QED
  BY <1>1, <1>2, StartKept, FindKept, NothingKept, FindRaisesKept, ReorderKept,
     DeactivateKept, InsertKept, VerifyKept, SaveRaisesKept
  DEF ConfigNext

\* While requests do not overlap and no command fails, a confirmed change is in
\* every later configuration in use, whatever the order of the saves, imports and
\* reorders (ConfigService).
THEOREM ChangesAreKept == ConfigSpec => []ChangesKept
<1>1. ConfigInit => KeptInv
  BY DEF ConfigInit, KeptInv, Calling, NoCall
<1>2. ConfigTypeOK /\ KeptInv /\ [ConfigNext]_configVars => KeptInv'
  BY KeptStep
<1>3. KeptInv => ChangesKept
  BY DEF KeptInv, ChangesKept, KeptInUse, NoCalls, Calling
<1>4. QED BY <1>1, <1>2, <1>3, ConfigTypes, PTL DEF ConfigSpec

-----------------------------------------------------------------------------
(* QuotesIngestion                                                         *)

\* What HourlyKept rests on.  Until the account is known to be a paying one, the
\* recorded calls are the end of the history, and whatever has been forgotten is
\* more than an hour old.
HourInv ==
    /\ HourlyKept
    /\ premium # "yes" =>
          /\ Len(callTimes) <= Len(served)
          /\ \A i \in 1 .. Len(callTimes) :
                callTimes[i] = served[Len(served) - Len(callTimes) + i]
          /\ \A i \in 1 .. Len(served) - Len(callTimes) : served[i] + Hour < time

\* The calls that are cleaned away are the oldest, and all are out of the hour.
LEMMA WithinHourFacts ==
    ASSUME time \in Nat, callTimes \in Seq(Nat)
    PROVE  \E k \in 0 .. Len(callTimes) :
              /\ \A i \in 1 .. k : callTimes[i] + Hour < time
              /\ WithinHour = SubSeq(callTimes, k + 1, Len(callTimes))
              /\ WithinHour \in Seq(Nat) /\ Len(WithinHour) = Len(callTimes) - k
              /\ \A i \in 1 .. Len(callTimes) - k : WithinHour[i] = callTimes[k + i]
<1> DEFINE L == Len(callTimes)
           Gone(i) == callTimes[i] + Hour < time
           old == {k \in 0 .. L : \A i \in 1 .. k : Gone(i)}
           Stops == {k \in 0 .. L : k < L => ~Gone(k + 1)}
           R == OpToRel(<, Nat)
<1>1. L \in Nat /\ L \in Stops /\ Stops \subseteq Nat
  OBVIOUS
<1>2. PICK m \in Stops : \A k \in Stops : ~(<<k, m>> \in R)
  <2> HIDE DEF Stops, R
  <2>1. IsWellFoundedOn(R, Nat) BY NatLessThanWellFounded DEF R
  <2>2. Stops # {} BY <1>1
  <2>3. QED BY <1>1, <2>1, <2>2, WFMin
<1>3. ASSUME NEW i \in 1 .. m PROVE Gone(i)
  <2> HIDE DEF Gone
  <2>1. i - 1 \in 0 .. L /\ i - 1 < m /\ i - 1 < L /\ (i - 1) + 1 = i
    BY <1>1
  <2>2. <<i - 1, m>> \in R BY <1>1, <2>1 DEF OpToRel
  <2>3. i - 1 \notin Stops BY <1>2, <2>2
  <2>4. QED BY <2>1, <2>3
<1>4. m \in old /\ \A k \in old : k <= m
  <2> HIDE DEF Gone
  <2>1. m \in 0 .. L /\ (m < L => ~Gone(m + 1)) OBVIOUS
  <2>2. ASSUME NEW k \in old, ~(k <= m) PROVE FALSE
    <3>1. k \in 0 .. L /\ \A i \in 1 .. k : Gone(i) OBVIOUS
    <3>2. m + 1 \in 1 .. k /\ m < L BY <1>1, <2>1, <2>2, <3>1
    <3>3. QED BY <2>1, <3>1, <3>2
  <2>3. QED BY <1>3, <2>1, <2>2
<1> DEFINE k == CHOOSE k \in old : \A n \in old : n <= k
<1>5. k \in old
  <2> HIDE DEF old
  <2>1. QED BY <1>4
<1>6. WithinHour = SubSeq(callTimes, 1 + k, L) BY DEF WithinHour
<1>7. k \in 0 .. L /\ \A i \in 1 .. k : Gone(i) BY <1>5
<1> HIDE DEF k
<1>8. WithinHour = SubSeq(callTimes, k + 1, L) BY <1>6, <1>7
<1>9. /\ WithinHour \in Seq(Nat) /\ Len(WithinHour) = L - k
      /\ \A i \in 1 .. L - k : WithinHour[i] = callTimes[k + i]
  BY <1>7, <1>8
<1>10. QED BY <1>7, <1>8, <1>9

\* What is left after a cleaning still is the end of the history.
LEMMA CleanedFacts ==
    ASSUME IngestionTypeOK, HourInv, premium # "yes"
    PROVE  /\ WithinHour \in Seq(Nat) /\ Len(WithinHour) <= Len(served)
           /\ \A i \in 1 .. Len(WithinHour) :
                 WithinHour[i] = served[Len(served) - Len(WithinHour) + i]
           /\ \A i \in 1 .. Len(served) - Len(WithinHour) : served[i] + Hour < time
<1> DEFINE L == Len(callTimes)
           n == Len(served)
           w == Len(WithinHour)
<1>0. /\ time \in Nat /\ callTimes \in Seq(Nat) /\ served \in Seq(Nat)
      /\ L \in Nat /\ n \in Nat /\ Hour \in Nat
  BY IngestionConstants DEF IngestionTypeOK
<1>1. PICK k \in 0 .. L :
         /\ \A i \in 1 .. k : callTimes[i] + Hour < time
         /\ WithinHour \in Seq(Nat) /\ w = L - k
         /\ \A i \in 1 .. L - k : WithinHour[i] = callTimes[k + i]
  BY <1>0, WithinHourFacts
<1>2. /\ L <= n
      /\ \A i \in 1 .. L : callTimes[i] = served[n - L + i]
      /\ \A i \in 1 .. n - L : served[i] + Hour < time
  BY DEF HourInv
<1> HIDE DEF w
<1>3. ASSUME NEW i \in 1 .. w PROVE WithinHour[i] = served[n - w + i]
  <2>1. k + i \in 1 .. L /\ n - L + (k + i) = n - w + i BY <1>0, <1>1
  <2>2. QED BY <1>1, <1>2, <2>1
<1>4. ASSUME NEW i \in 1 .. n - w PROVE served[i] + Hour < time
  <2>1. CASE i <= n - L
    BY <1>0, <1>1, <1>2, <2>1
  <2>2. CASE i > n - L
    <3> DEFINE d == i - (n - L)
    <3>1. i \in Nat /\ i <= n - (L - k) /\ k \in Nat /\ k <= L BY <1>0, <1>1
    <3>2. d \in 1 .. k /\ d \in 1 .. L /\ n - L + d = i
      BY <1>0, <1>2, <2>2, <3>1
    <3>3. callTimes[d] = served[i] BY <1>2, <3>2
    <3>4. QED BY <1>1, <3>2, <3>3
  <2>3. QED BY <1>0, <1>1, <2>1, <2>2
<1>5. QED BY <1>0, <1>1, <1>2, <1>3, <1>4 DEF w

\* The parts of RunOnce that the types and the limit depend on.
LEMMA RunFacts ==
    ASSUME IngestionTypeOK, RunOnce
    PROVE  \E known \in {"unchecked", "yes", "no"}, rest \in Seq(Nat), called \in BOOLEAN :
              /\ premium' = known /\ (premium = "yes" => known = "yes")
              /\ known # "yes" => rest \in {WithinHour, callTimes}
              /\ called /\ known # "yes" =>
                    rest = WithinHour /\ Len(WithinHour) < HourlyLimit
              /\ callTimes' = IF called THEN Append(rest, time) ELSE rest
              /\ served' = IF called /\ known # "yes" THEN Append(served, time) ELSE served
<1>1. PICK known \in Detected, quoted \in BOOLEAN :
          LET paying == known = "yes"
              rest   == IF NextSource = "tushare" /\ ~paying THEN WithinHour ELSE callTimes
              called == NextSource = "tushare" /\ quoted
          IN  /\ quoted => NextSource # "tushare" \/ CanCallTushare(paying)
              /\ premium' = known
              /\ callTimes' = IF called THEN Append(rest, time) ELSE rest
              /\ served' = IF called /\ ~paying THEN Append(served, time) ELSE served
  BY DEF RunOnce
<1> DEFINE rest == IF NextSource = "tushare" /\ known # "yes" THEN WithinHour ELSE callTimes
           called == NextSource = "tushare" /\ quoted
<1>2. known \in {"unchecked", "yes", "no"} /\ (premium = "yes" => known = "yes")
  BY DEF Detected, IngestionTypeOK
<1>3. time \in Nat /\ callTimes \in Seq(Nat) BY DEF IngestionTypeOK
<1>4. WithinHour \in Seq(Nat) BY <1>3, WithinHourFacts
<1>5. rest \in Seq(Nat) /\ called \in BOOLEAN BY <1>3, <1>4
<1>6. known # "yes" => rest \in {WithinHour, callTimes} OBVIOUS
<1>7. called /\ known # "yes" => rest = WithinHour /\ Len(WithinHour) < HourlyLimit
  BY <1>1 DEF CanCallTushare
<1>8. /\ callTimes' = IF called THEN Append(rest, time) ELSE rest
      /\ served' = IF called /\ known # "yes" THEN Append(served, time) ELSE served
  BY <1>1
<1> HIDE DEF rest, called
<1>9. QED BY <1>1, <1>2, <1>5, <1>6, <1>7, <1>8

\* Where stored quotes come from: a run stores those of a source of the rotation,
\* a back-fill those of the history or of a snapshot.
SourceInv ==
    /\ ingest.pc = "store" => ingest.source \in {RotationSources[i] : i \in 1 .. 3}
    /\ ingest.pc = "fill" => ingest.source \in {"history", "snapshot"}

LEMMA IngestionTypesKept ==
    IngestionTypeOK /\ SourceInv /\ [IngestionNext]_ingestionVars
        => (IngestionTypeOK /\ SourceInv)'
<1> SUFFICES ASSUME IngestionTypeOK, SourceInv, [IngestionNext]_ingestionVars
             PROVE  IngestionTypeOK' /\ SourceInv'
  OBVIOUS
<1> DEFINE Rotated == {RotationSources[i] : i \in 1 .. 3}
<1>a. ASSUME NEW pc \in Stages, NEW s, ingest' = At(pc, s),
             pc = "store" => s \in Rotated, pc = "fill" => s \in {"history", "snapshot"}
      PROVE  ingest'.pc \in Stages /\ SourceInv'
  BY <1>a DEF At, SourceInv, RotationSources
<1>b. ingest' = ingest => ingest'.pc \in Stages /\ SourceInv'
  BY DEF SourceInv, IngestionTypeOK
<1>c. ingest' = Resting => ingest'.pc \in Stages /\ SourceInv'
  BY DEF SourceInv, Resting, At, Stages
<1>1. CASE RunOnce
  <2>1. /\ premium' \in {"unchecked", "yes", "no"}
        /\ callTimes' \in Seq(Nat) /\ served' \in Seq(Nat)
    <3>1. PICK known \in {"unchecked", "yes", "no"}, rest \in Seq(Nat), called \in BOOLEAN :
              /\ premium' = known
              /\ callTimes' = IF called THEN Append(rest, time) ELSE rest
              /\ served' = IF called /\ known # "yes" THEN Append(served, time) ELSE served
      BY <1>1, RunFacts
    <3>2. time \in Nat /\ served \in Seq(Nat) BY DEF IngestionTypeOK
    <3>3. Append(rest, time) \in Seq(Nat) /\ Append(served, time) \in Seq(Nat) BY <3>2
    <3>4. QED BY <3>1, <3>2, <3>3
  <2>2. rotation' \in 0 .. 2
    <3>1. rotation' \in {rotation, (rotation + 1) % 3} BY <1>1 DEF RunOnce
    <3>2. rotation \in 0 .. 2 BY DEF IngestionTypeOK
    <3>3. QED BY <3>1, <3>2
  <2>3. NextSource \in Rotated
    <3>1. rotation + 1 \in 1 .. 3 /\ "tushare" = RotationSources[1]
      BY DEF IngestionTypeOK, RotationSources
    <3>2. QED BY <3>1 DEF NextSource
  <2>4. ingest'.pc \in Stages /\ SourceInv'
    <3>1. PICK s : ingest' = At("store", NextSource) \/ ingest' = At("failed", s)
      BY <1>1 DEF RunOnce
    <3>2. "store" \in Stages /\ "failed" \in Stages BY DEF Stages
    <3> HIDE DEF Rotated
    <3>3. QED BY <1>a, <2>3, <3>1, <3>2
  <2>5. UNCHANGED <<time, trading, quotes, status, upsets>> /\ due' = FALSE
    BY <1>1 DEF RunOnce
  <2>6. QED BY <2>1, <2>2, <2>4, <2>5 DEF IngestionTypeOK
<1>2. CASE Store
  <2>1. quotes' \in Rotated BY <1>2 DEF Store, SourceInv
  <2>2. ingest'.pc \in Stages /\ SourceInv'
    BY <1>2, <1>a DEF Store, Stages
  <2>3. QED BY <1>2, <2>1, <2>2 DEF Store, IngestionTypeOK
<1>3. CASE RecordStatus BY <1>3, <1>c DEF RecordStatus, IngestionTypeOK
<1>4. CASE RunOffHours
  <2>1. ingest' = At("look", None) \/ ingest' = Resting BY <1>4 DEF RunOffHours
  <2>2. ingest'.pc \in Stages /\ SourceInv' BY <2>1, <1>a, <1>c DEF Stages
  <2>3. QED BY <1>4, <2>2 DEF RunOffHours, IngestionTypeOK
<1>5. CASE LookForQuotes
  <2>1. \/ ingest' = At("import", "history") \/ ingest' = Resting
        \/ ingest' = At("fill", "snapshot")
    BY <1>5 DEF LookForQuotes
  <2>2. ingest'.pc \in Stages /\ SourceInv' BY <2>1, <1>a, <1>c DEF Stages
  <2>3. QED BY <1>5, <2>2 DEF LookForQuotes, IngestionTypeOK
<1>6. CASE Import
  <2>1. ingest' = Resting \/ ingest' = At("fill", "history") BY <1>6 DEF Import
  <2>2. ingest'.pc \in Stages /\ SourceInv' BY <2>1, <1>a, <1>c DEF Stages
  <2>3. QED BY <1>6, <2>2 DEF Import, IngestionTypeOK
<1>7. CASE Fill
  <2>1. quotes' \in {"history", "snapshot"} BY <1>7 DEF Fill, SourceInv
  <2>2. QED BY <1>7, <1>c, <2>1 DEF Fill, IngestionTypeOK
<1>8. CASE MongoRaises
  <2>1. \/ ingest' = At("import", "history") \/ ingest' = At("fill", "history")
        \/ ingest' = At("failed", None) \/ ingest' = Resting
    BY <1>8 DEF MongoRaises
  <2>2. ingest'.pc \in Stages /\ SourceInv' BY <2>1, <1>a, <1>c DEF Stages
  <2>3. upsets' \in Nat BY <1>8 DEF MongoRaises, Upset, IngestionTypeOK
  <2>4. UNCHANGED <<time, due, trading, premium, rotation, callTimes, quotes, status, served>>
    BY <1>8 DEF MongoRaises
  <2>5. QED BY <2>2, <2>3, <2>4 DEF IngestionTypeOK
<1>9. CASE RestartIngestion
  <2>1. ingest'.pc \in Stages /\ SourceInv' BY <1>9, <1>a DEF RestartIngestion, Stages
  <2>2. upsets' \in Nat BY <1>9 DEF RestartIngestion, Upset, IngestionTypeOK
  <2>3. /\ due' = FALSE /\ premium' = "unchecked" /\ rotation' = 0
        /\ callTimes' = <<>> /\ served' = <<>>
        /\ UNCHANGED <<time, trading, quotes, status>>
    BY <1>9 DEF RestartIngestion
  <2>4. callTimes' \in Seq(Nat) /\ served' \in Seq(Nat) /\ rotation' \in 0 .. 2
    BY <2>3
  <2>5. QED BY <2>1, <2>2, <2>3, <2>4 DEF IngestionTypeOK
<1>10. CASE NextInterval
  <2>1. ingest'.pc \in Stages /\ SourceInv' BY <1>10, <1>b DEF NextInterval
  <2>2. QED BY <1>10, <2>1 DEF NextInterval, IngestionTypeOK
<1>11. CASE UNCHANGED ingestionVars
  BY <1>11, <1>b DEF ingestionVars, IngestionTypeOK
<1>12. QED
  BY <1>1, <1>2, <1>3, <1>4, <1>5, <1>6, <1>7, <1>8, <1>9, <1>10, <1>11 DEF IngestionNext

\* A call that the hour has room for keeps the limit.
LEMMA RunKept ==
    ASSUME IngestionTypeOK, HourInv, RunOnce
    PROVE  HourInv'
<1> DEFINE n == Len(served)
<1>0. /\ time \in Nat /\ time' = time /\ served \in Seq(Nat) /\ callTimes \in Seq(Nat)
      /\ n \in Nat /\ Hour \in Nat /\ HourlyLimit \in Nat \ {0}
  BY IngestionConstants DEF IngestionTypeOK, RunOnce
<1>1. PICK known \in {"unchecked", "yes", "no"}, rest \in Seq(Nat), called \in BOOLEAN :
         /\ premium' = known /\ (premium = "yes" => known = "yes")
         /\ known # "yes" => rest \in {WithinHour, callTimes}
         /\ called /\ known # "yes" => rest = WithinHour /\ Len(WithinHour) < HourlyLimit
         /\ callTimes' = IF called THEN Append(rest, time) ELSE rest
         /\ served' = IF called /\ known # "yes" THEN Append(served, time) ELSE served
  BY RunFacts
<1>2. CASE known = "yes"
  <2>1. premium' = "yes" /\ served' = served BY <1>1, <1>2
  <2>2. QED BY <2>1 DEF HourInv, HourlyKept
<1>3. CASE known # "yes"
  <2> DEFINE m == Len(rest)
  <2>1. /\ m <= n /\ m \in Nat
        /\ \A i \in 1 .. m : rest[i] = served[n - m + i]
        /\ \A i \in 1 .. n - m : served[i] + Hour < time
    <3>1. premium # "yes" /\ rest \in {WithinHour, callTimes} BY <1>1, <1>3
    <3> HIDE DEF m
    <3>2. CASE rest = WithinHour BY <3>1, <3>2, CleanedFacts DEF m
    <3>3. CASE rest = callTimes BY <3>1, <3>3 DEF HourInv, m
    <3>4. QED BY <3>1, <3>2, <3>3
  <2> HIDE DEF m
  <2>2. CASE ~called
    <3>1. callTimes' = rest /\ served' = served BY <1>1, <2>2
    <3>2. HourlyKept' BY <3>1 DEF HourInv, HourlyKept
    <3>3. QED BY <1>0, <2>1, <3>1, <3>2 DEF HourInv, m
  <2>3. CASE called
    <3>1. /\ callTimes' = Append(rest, time) /\ served' = Append(served, time)
          /\ m < HourlyLimit
      BY <1>1, <1>3, <2>3 DEF m
    <3>2. /\ Len(served') = n + 1 /\ DOMAIN served' = 1 .. n + 1
          /\ served'[n + 1] = time /\ \A i \in 1 .. n : served'[i] = served[i]
      BY <1>0, <3>1
    <3>3. /\ Len(callTimes') = m + 1 /\ callTimes'[m + 1] = time
          /\ \A i \in 1 .. m : callTimes'[i] = rest[i]
      BY <1>0, <3>1 DEF m
    <3>4. ASSUME NEW i \in 1 .. Len(callTimes')
          PROVE  callTimes'[i] = served'[Len(served') - Len(callTimes') + i]
      <4>1. CASE i = m + 1 BY <1>0, <2>1, <3>2, <3>3, <4>1
      <4>2. CASE i \in 1 .. m
        <5>1. Len(served') - Len(callTimes') + i = n - m + i /\ n - m + i \in 1 .. n
          BY <1>0, <2>1, <3>2, <3>3, <4>2
        <5>2. QED BY <2>1, <3>2, <3>3, <4>2, <5>1
      <4>3. QED BY <2>1, <3>3, <4>1, <4>2
    <3>5. ASSUME NEW i \in 1 .. Len(served') - Len(callTimes')
          PROVE  served'[i] + Hour < time'
      <4>1. i \in 1 .. n - m /\ i \in 1 .. n BY <1>0, <2>1, <3>2, <3>3
      <4>2. QED BY <1>0, <2>1, <3>2, <4>1
    <3>6. HourlyKept'
      <4> SUFFICES ASSUME NEW i \in DOMAIN served', i + HourlyLimit \in DOMAIN served'
                   PROVE  served'[i] + Hour < served'[i + HourlyLimit]
        BY DEF HourlyKept
      <4>1. CASE i + HourlyLimit <= n
        <5>1. i \in 1 .. n /\ i + HourlyLimit \in 1 .. n BY <1>0, <3>2, <4>1
        <5>2. i \in DOMAIN served /\ i + HourlyLimit \in DOMAIN served BY <1>0, <5>1
        <5>3. served[i] + Hour < served[i + HourlyLimit]
          BY <5>2 DEF HourlyKept, HourInv
        <5>4. QED BY <3>2, <5>1, <5>3
      <4>2. CASE i + HourlyLimit = n + 1
        <5>1. i \in 1 .. n - m /\ i \in 1 .. n BY <1>0, <2>1, <3>1, <3>2, <4>2
        <5>2. QED BY <2>1, <3>2, <4>2, <5>1
      <4>3. QED BY <1>0, <3>2, <4>1, <4>2
    <3>7. Len(callTimes') <= Len(served') BY <1>0, <2>1, <3>2, <3>3
    <3>8. QED BY <3>4, <3>5, <3>6, <3>7 DEF HourInv
  <2>4. QED BY <2>2, <2>3
<1>4. QED BY <1>2, <1>3

LEMMA HourKept ==
    IngestionTypeOK /\ HourInv /\ [IngestionNext]_ingestionVars => HourInv'
<1> SUFFICES ASSUME IngestionTypeOK, HourInv, [IngestionNext]_ingestionVars PROVE HourInv'
  OBVIOUS
<1>1. CASE RunOnce BY <1>1, RunKept
<1>2. CASE UNCHANGED <<time, premium, callTimes, served>>
  BY <1>2 DEF HourInv, HourlyKept
<1>3. CASE RestartIngestion
  <2>1. callTimes' = <<>> /\ served' = <<>> BY <1>3 DEF RestartIngestion
  <2>2. HourlyKept' BY <2>1 DEF HourlyKept
  <2>3. QED BY <2>1, <2>2 DEF HourInv
<1>4. CASE NextInterval
  <2>1. /\ time' = time + 1 /\ UNCHANGED <<premium, callTimes, served>>
        /\ time \in Nat /\ Hour \in Nat /\ served \in Seq(Nat)
        /\ Len(callTimes) \in Nat /\ Len(served) \in Nat
    BY <1>4, IngestionConstants DEF NextInterval, IngestionTypeOK
  <2>2. HourlyKept' BY <2>1 DEF HourInv, HourlyKept
  <2>3. ASSUME premium # "yes", NEW i \in 1 .. Len(served) - Len(callTimes)
        PROVE  served[i] + Hour < time'
    <3>1. served[i] \in Nat /\ served[i] + Hour < time
      <4>1. i \in 1 .. Len(served) BY <2>1
      <4>2. QED BY <2>1, <2>3, <4>1 DEF HourInv
    <3>2. QED BY <2>1, <3>1
  <2>4. QED BY <2>1, <2>2, <2>3 DEF HourInv
<1>5. QED
  BY <1>1, <1>2, <1>3, <1>4
     DEF IngestionNext, ingestionVars, Store, RecordStatus, RunOffHours, LookForQuotes,
         Import, Fill, MongoRaises

LEMMA IngestionInvariant == IngestionSpec => [](IngestionTypeOK /\ HourInv)
<1> DEFINE Inv == IngestionTypeOK /\ SourceInv /\ HourInv
<1>1. IngestionInit => Inv
  <2> SUFFICES ASSUME IngestionInit PROVE Inv OBVIOUS
  <2>1. /\ time = 0 /\ due = FALSE /\ trading \in BOOLEAN /\ premium = "unchecked"
        /\ rotation = 0 /\ callTimes = <<>> /\ quotes \in {None, "history"}
        /\ status = [success |-> FALSE, source |-> None]
        /\ ingest = At("look", None) /\ served = <<>> /\ upsets = 0
    BY DEF IngestionInit
  <2>2. ingest.pc \in Stages /\ SourceInv BY <2>1 DEF SourceInv, At, Stages
  <2>3. status.success \in BOOLEAN /\ rotation \in 0 .. 2 BY <2>1
  <2>4. callTimes \in Seq(Nat) /\ served \in Seq(Nat) BY <2>1
  <2>5. IngestionTypeOK BY <2>1, <2>2, <2>3, <2>4 DEF IngestionTypeOK
  <2>6. HourlyKept BY <2>1 DEF HourlyKept
  <2>7. QED BY <2>1, <2>2, <2>5, <2>6 DEF HourInv
<1>2. Inv /\ [IngestionNext]_ingestionVars => Inv' BY IngestionTypesKept, HourKept
<1>3. QED BY <1>1, <1>2, PTL DEF IngestionSpec

\* A free account gets quotes of Tushare at most HourlyLimit times in an hour of
\* one process, whatever the rotation does, whichever calls yield nothing and
\* however the permission is found out (_can_call_tushare, run_once).
THEOREM HourIsKept == IngestionSpec => []HourlyKept
<1>1. HourInv => HourlyKept BY DEF HourInv
<1>2. QED BY <1>1, IngestionInvariant, PTL

-----------------------------------------------------------------------------
(* All services beside each other                                          *)

\* Each service takes its own steps, or none while another one works.
LEMMA PaperPart == Spec => PaperSpec
<1>1. Init => PaperInit BY DEF Init
<1>2. [Next]_vars => [PaperNext]_paperVars BY DEF Next, vars
<1>3. QED BY <1>1, <1>2, PTL DEF Spec, PaperSpec

LEMMA ConfigPart == Spec => ConfigSpec
<1>1. Init => ConfigInit BY DEF Init
<1>2. [Next]_vars => [ConfigNext]_configVars BY DEF Next, vars
<1>3. QED BY <1>1, <1>2, PTL DEF Spec, ConfigSpec

LEMMA SyncPart == Spec => SyncSpec
<1>1. Init => SyncInit BY DEF Init
<1>2. [Next]_vars => [SyncNext]_syncVars BY DEF Next, vars
<1>3. QED BY <1>1, <1>2, PTL DEF Spec, SyncSpec

LEMMA QuotePart == Spec => QuoteSpec
<1>1. Init => QuoteInit BY DEF Init
<1>2. [Next]_vars => [QuoteNext]_quoteVars BY DEF Next, vars
<1>3. QED BY <1>1, <1>2, PTL DEF Spec, QuoteSpec

LEMMA LimiterPart == Spec => LimiterSpec
<1>1. Init => LimiterInit BY DEF Init
<1>2. [Next]_vars => [LimiterNext]_limiterVars BY DEF Next, vars
<1>3. QED BY <1>1, <1>2, PTL DEF Spec, LimiterSpec

LEMMA IngestionPart == Spec => IngestionSpec
<1>1. Init => IngestionInit BY DEF Init
<1>2. [Next]_vars => [IngestionNext]_ingestionVars BY DEF Next, vars
<1>3. QED BY <1>1, <1>2, PTL DEF Spec, IngestionSpec

\* In all services every variable keeps its type.
THEOREM TypesKept == Spec => []TypesOK
<1>1. IngestionTypeOK /\ HourInv => IngestionTypeOK OBVIOUS
<1>2. LimiterTypeOK /\ LimiterInv => LimiterTypeOK OBVIOUS
<1>3. PaperTypeOK /\ ConfigTypeOK /\ SyncTypeOK /\ QuoteTypeOK /\ LimiterTypeOK /\ IngestionTypeOK
        => TypesOK
  BY DEF TypesOK
<1>4. QED
  BY <1>1, <1>2, <1>3, PaperPart, ConfigPart, SyncPart, QuotePart, LimiterPart, IngestionPart,
     PaperTypesKept, ConfigTypes, SyncTypes, QuoteTypes, LimiterInvariant, IngestionInvariant,
     PTL

\* What the sources allow is not exceeded, by the jobs that share the limiter of
\* the Tushare worker or by the rotation of the quotes.
THEOREM LimitsAreKept == Spec => []LimitsKept
<1>1. RateKept /\ HourlyKept => LimitsKept BY DEF LimitsKept
<1>2. QED BY <1>1, LimiterPart, IngestionPart, RateIsKept, HourIsKept, PTL
=============================================================================
