---------------------------- MODULE RateLimiter ----------------------------
(***************************************************************************)
(* The sliding window of app/core/rate_limiter.py, one limiter shared by    *)
(* the scheduled jobs of the Tushare worker.  A caller that must wait sleeps *)
(* while it holds the asyncio lock; the others queue in the order they came. *)
(* One step is what the event loop does between two awaits.                 *)
(***************************************************************************)
EXTENDS Naturals, Sequences

CONSTANTS Jobs,       \* the jobs that share the limiter
          CallLimit,  \* calls allowed in a window
          TimeWindow, \* its length, in ticks
          MaxGrants,  \* permissions given
          MaxTicks    \* ticks

ASSUME LimiterConstants ==
    /\ CallLimit \in Nat \ {0} /\ TimeWindow \in Nat
    /\ MaxGrants \in Nat /\ MaxTicks \in Nat

VARIABLES clock,   \* time.time(), which is taken to run forwards
          callLog, \* times of the calls the limiter remembers, oldest first
          sleeper, \* the job that holds the lock and sleeps, and until when
          queue,   \* jobs that wait for the lock, in order
          granted  \* times of all permissions (history)

limiterVars == <<clock, callLog, sleeper, queue, granted>>

-----------------------------------------------------------------------------
Awake == [job |-> {}, until |-> 0]

LimiterInit ==
    /\ clock = 0
    /\ callLog = <<>>
    /\ sleeper = Awake
    /\ queue = <<>>
    /\ granted = <<>>

\* Mutant: a call is forgotten a tick before its window has passed.
Expired_Late(t) == t + TimeWindow <= clock + 1

\* calls[0] <= now - time_window
Expired(t) == t + TimeWindow <= clock

\* How many calls the loop of popleft takes away.
Leaving ==
    CHOOSE k \in 0 .. Len(callLog) :
        /\ \A i \in 1 .. k : Expired(callLog[i])
        /\ k < Len(callLog) => ~Expired(callLog[k + 1])

Remembered == SubSeq(callLog, Leaving + 1, Len(callLog))

\* The call is recorded and the lock released.
Grant ==
    /\ callLog' = Append(Remembered, clock)
    /\ granted' = Append(granted, clock)
    /\ sleeper' = Awake

\* A job has the lock: it goes ahead or sleeps until the oldest call expires.
Enter(j) ==
    IF Len(Remembered) < CallLimit THEN Grant
    ELSE /\ callLog' = Remembered
         /\ sleeper' = [job |-> {j}, until |-> Remembered[1] + TimeWindow]
         /\ UNCHANGED granted

InLine(j) == j \in sleeper.job \/ \E i \in DOMAIN queue : queue[i] = j

Acquire(j) ==
    /\ ~InLine(j) /\ Len(granted) < MaxGrants
    /\ IF sleeper = Awake /\ queue = <<>> THEN Enter(j) /\ UNCHANGED queue
       ELSE queue' = Append(queue, j) /\ UNCHANGED <<callLog, sleeper, granted>>
    /\ UNCHANGED clock

\* The lock is free and the first in the queue gets it.
TakeLock ==
    /\ sleeper = Awake /\ queue # <<>>
    /\ Enter(Head(queue))
    /\ queue' = Tail(queue)
    /\ UNCHANGED clock

\* asyncio.sleep returns, some time after the oldest call has expired.
WakeUp ==
    /\ sleeper # Awake /\ clock >= sleeper.until
    /\ Grant
    /\ UNCHANGED <<clock, queue>>

ClockTick ==
    /\ clock < MaxTicks
    /\ clock' = clock + 1
    /\ UNCHANGED <<callLog, sleeper, queue, granted>>

LimiterNext ==
    \/ \E j \in Jobs : Acquire(j)
    \/ TakeLock \/ WakeUp \/ ClockTick

LimiterSpec == LimiterInit /\ [][LimiterNext]_limiterVars

-----------------------------------------------------------------------------
\* Types of all variables.
LimiterTypeOK ==
    /\ clock \in Nat
    /\ callLog \in Seq(Nat)
    /\ sleeper \in [job: SUBSET Jobs, until: Nat]
    /\ queue \in Seq(Jobs)
    /\ granted \in Seq(Nat)

\* No window of TimeWindow ticks holds more than CallLimit permissions, however
\* many jobs ask for one at a time: the limiter forgets no call too early and a
\* job that slept does not add one to a window another job has filled.
RateKept ==
    \A k \in DOMAIN granted :
        k + CallLimit \in DOMAIN granted => granted[k] + TimeWindow <= granted[k + CallLimit]
=============================================================================
