---------------------------- MODULE MCServices ----------------------------
(* The services that share no state, in one run: the initial state chooses  *)
(* the one that is explored, the others stay at an initial state.           *)
EXTENDS PaperAccount, SystemConfigs, BasicsSync, ForeignQuotes, RateLimiter,
        QuotesIngestion

CONSTANTS a, b, r1, r2

VARIABLE focus

vars == <<focus, paperVars, configVars, syncVars, quoteVars, limiterVars,
          ingestionVars>>

Init ==
    /\ focus \in {"paper", "configs", "sync", "quotes", "limiter", "ingestion"}
    /\ PaperInit /\ ConfigInit /\ SyncInit /\ QuoteInit /\ LimiterInit /\ IngestionInit
    /\ focus # "paper" => tPlus
    /\ focus # "quotes" => locked /\ shared /\ primary = "files"
    /\ focus # "ingestion" => features = {} /\ trading /\ quotes = None

Next ==
    \/ /\ focus = "paper" /\ PaperNext
       /\ UNCHANGED <<focus, configVars, syncVars, quoteVars, limiterVars, ingestionVars>>
    \/ /\ focus = "configs" /\ ConfigNext
       /\ UNCHANGED <<focus, paperVars, syncVars, quoteVars, limiterVars, ingestionVars>>
    \/ /\ focus = "sync" /\ SyncNext
       /\ UNCHANGED <<focus, paperVars, configVars, quoteVars, limiterVars, ingestionVars>>
    \/ /\ focus = "quotes" /\ QuoteNext
       /\ UNCHANGED <<focus, paperVars, configVars, syncVars, limiterVars, ingestionVars>>
    \/ /\ focus = "limiter" /\ LimiterNext
       /\ UNCHANGED <<focus, paperVars, configVars, syncVars, quoteVars, ingestionVars>>
    \/ /\ focus = "ingestion" /\ IngestionNext
       /\ UNCHANGED <<focus, paperVars, configVars, syncVars, quoteVars, limiterVars>>

Spec == Init /\ [][Next]_vars

\* The variables of all the modules keep their types.
TypesOK == PaperTypeOK /\ ConfigTypeOK /\ SyncTypeOK /\ QuoteTypeOK /\ LimiterTypeOK
           /\ IngestionTypeOK

\* What the sources allow is not exceeded: calls of the Tushare worker in a
\* minute, quotes of Tushare for a free account in an hour.
LimitsKept == RateKept /\ HourlyKept
=============================================================================
