-------------------------- MODULE QuotesIngestion --------------------------
(***************************************************************************)
(* The periodic ingestion of market quotes                                  *)
(* (app/services/quotes_ingestion_service.py).  APScheduler never runs       *)
(* run_once twice at a time; a back-fill precedes it at every start.        *)
(*                                                                         *)
(* The fetches are synchronous, so a step is what happens between two       *)
(* commands of Mongo.  Time passes in ticks.                                *)
(***************************************************************************)
EXTENDS Naturals, Sequences

CONSTANTS HourlyLimit,   \* calls of Tushare a free account may make in an hour
          Hour,          \* its length, in ticks (intervals between runs)
          MaxIntervals,  \* ticks
          MaxUpsets      \* restarts and commands of Mongo that raise

ASSUME IngestionConstants ==
    /\ HourlyLimit \in Nat \ {0} /\ Hour \in Nat
    /\ MaxIntervals \in Nat /\ MaxUpsets \in Nat

VARIABLES features,  \* which of the settings QUOTES_ROTATION_ENABLED,
                     \* QUOTES_AUTO_DETECT_TUSHARE_PERMISSION and
                     \* QUOTES_BACKFILL_ON_OFFHOURS are on
          time,      \* the present tick
          due,       \* the interval has passed since the last run
          trading,   \* _is_trading_time()
          premium,   \* what is known of the Tushare account
          rotation,  \* index into _rotation_sources
          callTimes, \* recorded calls of Tushare, oldest first
          quotes,    \* where the documents of market_quotes come from
          status,    \* the document of quotes_ingestion_status
          ingest,    \* the run or back-fill in progress: its place and source
          served,    \* when this process got quotes of Tushare, unless it knew
                     \* the account to be a paying one (history)
          upsets     \* restarts and raised commands so far

ingestionVars == <<features, time, due, trading, premium, rotation, callTimes, quotes,
                   status, ingest, served, upsets>>

-----------------------------------------------------------------------------
RotationSources == <<"tushare", "akshare_eastmoney", "akshare_sina">>
None == "none"
Stages == {"idle", "look", "import", "fill", "store", "succeeded", "failed"}
At(pc, source) == [pc |-> pc, source |-> source]
Resting == At("idle", None)

Upset == upsets < MaxUpsets /\ upsets' = upsets + 1

IngestionInit ==
    /\ features \in SUBSET {"rotation", "detection", "backfill"}
    /\ time = 0
    /\ due = FALSE
    /\ trading \in BOOLEAN
    /\ premium = "unchecked"
    /\ rotation = 0
    /\ callTimes = <<>>
    /\ quotes \in {None, "history"}
    /\ status = [success |-> FALSE, source |-> None]
    /\ ingest = At("look", None)
    /\ served = <<>>
    /\ upsets = 0

-----------------------------------------------------------------------------
(* run_once in trading hours                                               *)

\* The paying account that _check_tushare_permission may find, on the first run.
Detected == IF "detection" \in features /\ premium = "unchecked" THEN {"yes", "no"}
            ELSE {premium}

NextSource == IF "rotation" \in features THEN RotationSources[rotation + 1] ELSE "tushare"

\* Call times within the last hour: those the loop of popleft leaves.
WithinHour ==
    LET old == {k \in 0 .. Len(callTimes) : \A i \in 1 .. k : callTimes[i] + Hour < time}
    IN  SubSeq(callTimes, 1 + CHOOSE k \in old : \A m \in old : m <= k, Len(callTimes))

\* Mutant: one call more than the limit.
CanCallTushare_OneMore(paying) == paying \/ Len(WithinHour) <= HourlyLimit

CanCallTushare(paying) == paying \/ Len(WithinHour) < HourlyLimit

\* A failure is reported without the interface of AKShare.
FailedSource == IF NextSource = "tushare" THEN "tushare" ELSE "akshare"

\* A call that yields nothing is not recorded; a paying account's are recorded
\* and never cleaned.
RunOnce ==
    /\ ingest.pc = "idle" /\ due /\ trading
    /\ due' = FALSE
    /\ rotation' = IF "rotation" \in features THEN (rotation + 1) % 3 ELSE rotation
    /\ \E account \in Detected, quoted \in BOOLEAN :
          LET paying == account = "yes"
              kept   == IF NextSource = "tushare" /\ ~paying THEN WithinHour ELSE callTimes
              called == NextSource = "tushare" /\ quoted
          IN  /\ quoted => NextSource # "tushare" \/ CanCallTushare(paying)
              /\ premium' = account
              /\ callTimes' = IF called THEN Append(kept, time) ELSE kept
              /\ served' = IF called /\ ~paying THEN Append(served, time) ELSE served
              /\ ingest' = IF quoted THEN At("store", NextSource)
                           ELSE At("failed", FailedSource)
    /\ UNCHANGED <<features, time, trading, quotes, status, upsets>>

\* _bulk_upsert and _record_sync_status: an error while storing is recorded
\* without a source, an error while recording only logged.
Store ==
    /\ ingest.pc = "store"
    /\ quotes' = ingest.source
    /\ ingest' = At("succeeded", ingest.source)
    /\ UNCHANGED <<features, time, due, trading, premium, rotation, callTimes, status,
                   served, upsets>>

RecordStatus ==
    /\ ingest.pc \in {"succeeded", "failed"}
    /\ status' = [success |-> ingest.pc = "succeeded", source |-> ingest.source]
    /\ ingest' = Resting
    /\ UNCHANGED <<features, time, due, trading, premium, rotation, callTimes, quotes,
                   served, upsets>>

-----------------------------------------------------------------------------
(* backfill_last_close_snapshot_if_needed, at start-up and off hours       *)

RunOffHours ==
    /\ ingest.pc = "idle" /\ due /\ ~trading
    /\ due' = FALSE
    /\ ingest' = IF "backfill" \in features THEN At("look", None) ELSE Resting
    /\ UNCHANGED <<features, time, trading, premium, rotation, callTimes, quotes, status,
                   served, upsets>>

\* No documents: the historical ones are imported.  Older than the latest
\* trading day: a snapshot is fetched.  (A new trading day may have come.)
LookForQuotes ==
    /\ ingest.pc = "look"
    /\ ingest' \in IF quotes = None THEN {At("import", "history")}
                   ELSE {Resting, At("fill", "snapshot")}
    /\ UNCHANGED <<features, time, due, trading, premium, rotation, callTimes, quotes,
                   status, served, upsets>>

\* backfill_from_historical_data looks again (and where there are quotes now,
\* repairs their volumes only); history may have no such day.
Import ==
    /\ ingest.pc = "import"
    /\ ingest' \in {Resting} \cup IF quotes = None THEN {At("fill", "history")} ELSE {}
    /\ UNCHANGED <<features, time, due, trading, premium, rotation, callTimes, quotes,
                   status, served, upsets>>

Fill ==
    /\ ingest.pc = "fill"
    /\ quotes' = ingest.source
    /\ ingest' = Resting
    /\ UNCHANGED <<features, time, due, trading, premium, rotation, callTimes, status,
                   served, upsets>>

\* A command raises.  A collection that cannot be counted passes for empty.
MongoRaises ==
    /\ ingest.pc # "idle"
    /\ ingest' \in CASE ingest.pc = "look"   -> {At("import", "history")}
                     [] ingest.pc = "import" -> {At("fill", "history"), Resting}
                     [] ingest.pc = "store"  -> {At("failed", None)}
                     [] OTHER                -> {Resting}
    /\ Upset
    /\ UNCHANGED <<features, time, due, trading, premium, rotation, callTimes, quotes,
                   status, served>>

-----------------------------------------------------------------------------
\* An hour counts from the calls a process remembers: a restart forgets them.
RestartIngestion ==
    /\ due' = FALSE
    /\ premium' = "unchecked"
    /\ rotation' = 0
    /\ callTimes' = <<>> /\ served' = <<>>
    /\ ingest' = At("look", None)
    /\ Upset
    /\ UNCHANGED <<features, time, trading, quotes, status>>

NextInterval ==
    /\ time < MaxIntervals
    /\ time' = time + 1
    /\ due' = TRUE
    /\ trading' \in BOOLEAN
    /\ UNCHANGED <<features, premium, rotation, callTimes, quotes, status, ingest,
                   served, upsets>>

IngestionNext ==
    \/ RunOnce \/ Store \/ RecordStatus
    \/ RunOffHours \/ LookForQuotes \/ Import \/ Fill \/ MongoRaises
    \/ RestartIngestion \/ NextInterval

IngestionSpec == IngestionInit /\ [][IngestionNext]_ingestionVars

-----------------------------------------------------------------------------
\* Types of all variables.
IngestionTypeOK ==
    /\ time \in Nat /\ due \in BOOLEAN
    /\ trading \in BOOLEAN
    /\ premium \in {"unchecked", "yes", "no"}
    /\ rotation \in 0 .. 2
    /\ callTimes \in Seq(Nat)
    /\ quotes \in {None, "history", "snapshot"} \cup {RotationSources[i] : i \in 1 .. 3}
    /\ status.success \in BOOLEAN /\ ingest.pc \in Stages
    /\ served \in Seq(Nat)
    /\ upsets \in Nat

\* A free account gets quotes of Tushare at most HourlyLimit times in an hour
\* of one process, whatever the rotation does and however calls fail in between.
HourlyKept ==
    \A k \in DOMAIN served :
        k + HourlyLimit \in DOMAIN served => served[k] + Hour < served[k + HourlyLimit]
=============================================================================
