--------------------------- MODULE ForeignQuotes ---------------------------
(***************************************************************************)
(* Data of one Hong Kong or US stock: the cache and the sources behind it   *)
(* (app/services/foreign_stock_service.py and the adaptive cache it writes  *)
(* to, tradingagents/dataflows/cache/adaptive.py).  Quotes are requested     *)
(* under a lock of the service, basic information and candles without.      *)
(*                                                                         *)
(* One step is what the event loop does between two awaits; the cache uses   *)
(* synchronous clients, so looking up and saving are parts of a step.       *)
(* Time passes in ticks.                                                    *)
(***************************************************************************)
EXTENDS Naturals

CONSTANTS Sources,   \* number of data sources tried, by priority
          TTL,       \* lifetime of a cached answer, in ticks
          Recent,    \* ticks of the second in which an answer counts as just stored
          MaxAsked,  \* requests made
          MaxTime,   \* ticks
          MaxOutages \* times the database of the cache goes down or comes back

ASSUME QuoteConstants ==
    /\ Sources \in Nat \ {0} /\ TTL \in Nat \ {0} /\ Recent \in Nat \ {0}
    /\ MaxAsked \in Nat /\ MaxTime \in Nat /\ MaxOutages \in Nat

VARIABLES locked,  \* the data are quotes: requests take the service's lock
          shared,  \* the requests use one service, as the tests do, or a new
                   \* one each, as the routes do
          primary, \* is the cache's main store a database or the files?
          up,      \* the database of the cache answers
          cache,   \* what is stored: when, or 0 for nothing
          now,     \* the present tick, counted from 1
          asks,    \* per request: place, force_refresh, when it was made
          answer,  \* the answer given last (history)
          fetched, \* when an unforced request under the shared lock last stored data (history)
          uses     \* requests made and outages so far

quoteVars == <<locked, shared, primary, up, cache, now, asks, answer, fetched, uses>>

-----------------------------------------------------------------------------
Stores == {"database", "files"}
Askers == 1 .. MaxAsked

NoAsk == [pc |-> "none", force |-> FALSE, at |-> 0, source |-> 0]
NoAnswer == [at |-> 0, asked |-> 0, given |-> 0, force |-> FALSE]

QuoteInit ==
    /\ locked \in BOOLEAN /\ shared \in BOOLEAN
    /\ primary \in Stores
    /\ up = TRUE
    /\ cache = [s \in Stores |-> 0]
    /\ now = 1
    /\ asks = [a \in Askers |-> NoAsk]
    /\ answer = NoAnswer
    /\ fetched = 0
    /\ uses = [asked |-> 0, outages |-> 0]

-----------------------------------------------------------------------------
(* AdaptiveCacheSystem                                                     *)

Valid(store) == cache[store] # 0 /\ now < cache[store] + TTL

\* load_data: the main store, then the files; each checks the age.
Loaded ==
    IF primary = "database" /\ up /\ Valid("database") THEN cache["database"]
    ELSE IF Valid("files") THEN cache["files"] ELSE 0

\* save_data: the files only when the main store refuses.
Save == cache' = [cache EXCEPT ![IF primary = "database" /\ up THEN "database"
                                 ELSE "files"] = now]

-----------------------------------------------------------------------------
(* get_quote, get_basic_info, get_kline                                    *)

Give(a, at) ==
    /\ asks' = [asks EXCEPT ![a] = NoAsk]
    /\ answer' = [at |-> at, asked |-> asks[a].at, given |-> now, force |-> asks[a].force]

Ask(a, force) ==
    /\ a = uses.asked + 1
    /\ uses' = [uses EXCEPT !.asked = a]
    /\ IF ~force /\ Loaded # 0
         THEN /\ answer' = [at |-> Loaded, asked |-> now, given |-> now, force |-> force]
              /\ UNCHANGED asks
         ELSE /\ asks' = [asks EXCEPT ![a] =
                            [pc |-> IF locked THEN "lock" ELSE "call", force |-> force,
                             at |-> now, source |-> 1]]
              /\ UNCHANGED answer
    /\ UNCHANGED <<locked, shared, primary, up, cache, now, fetched>>

\* The key of the lock names the stock and force_refresh; a service has its own locks.
LockFree(a) ==
    ~ \E b \in Askers \ {a} : shared /\ asks[b].pc = "call" /\ asks[b].force = asks[a].force

\* Mutant: under the lock whatever is cached serves a forced request, too.
EnterLock_IgnoresForce(a) ==
    /\ asks[a].pc = "lock" /\ LockFree(a)
    /\ IF Loaded # 0
         THEN Give(a, Loaded)
         ELSE asks' = [asks EXCEPT ![a].pc = "call"] /\ UNCHANGED answer
    /\ UNCHANGED <<locked, shared, primary, up, cache, now, fetched, uses>>

\* Mutant: the cache is not looked up again under the lock.
EnterLock_NoSecondLook(a) ==
    /\ asks[a].pc = "lock" /\ LockFree(a)
    /\ asks' = [asks EXCEPT ![a].pc = "call"]
    /\ UNCHANGED <<locked, shared, primary, up, cache, now, answer, fetched, uses>>

\* Under the lock the cache is looked up again: what was stored within a second
\* is taken for the result of a request just ended and serves a forced one, too.
EnterLock(a) ==
    /\ asks[a].pc = "lock" /\ LockFree(a)
    /\ IF Loaded # 0 /\ (now < Loaded + Recent \/ ~asks[a].force)
         THEN Give(a, Loaded)
         ELSE asks' = [asks EXCEPT ![a].pc = "call"] /\ UNCHANGED answer
    /\ UNCHANGED <<locked, shared, primary, up, cache, now, fetched, uses>>

SourceAnswers(a) ==
    /\ asks[a].pc = "call"
    /\ Save
    /\ fetched' = IF locked /\ shared /\ ~asks[a].force THEN now ELSE fetched
    /\ Give(a, now)
    /\ UNCHANGED <<locked, shared, primary, up, now, uses>>

\* The next source; after the last the request raises.
SourceFails(a) ==
    /\ asks[a].pc = "call"
    /\ asks' = IF asks[a].source < Sources THEN [asks EXCEPT ![a].source = @ + 1]
               ELSE [asks EXCEPT ![a] = NoAsk]
    /\ UNCHANGED <<locked, shared, primary, up, cache, now, answer, fetched, uses>>

-----------------------------------------------------------------------------
Tick ==
    /\ now < MaxTime
    /\ now' = now + 1
    /\ UNCHANGED <<locked, shared, primary, up, cache, asks, answer, fetched, uses>>

Outage ==
    /\ uses.outages < MaxOutages
    /\ uses' = [uses EXCEPT !.outages = @ + 1]
    /\ up' = ~up
    /\ UNCHANGED <<locked, shared, primary, cache, now, asks, answer, fetched>>

QuoteNext ==
    \/ \E a \in Askers :
        \/ \E force \in BOOLEAN : Ask(a, force)
        \/ EnterLock(a) \/ SourceAnswers(a) \/ SourceFails(a)
    \/ Tick \/ Outage

QuoteSpec == QuoteInit /\ [][QuoteNext]_quoteVars

-----------------------------------------------------------------------------
(* Properties                                                              *)

\* Types of all variables.
QuoteTypeOK ==
    /\ {locked, shared, up} \subseteq BOOLEAN
    /\ primary \in Stores
    /\ cache \in [Stores -> Nat]
    /\ now \in Nat \ {0}
    /\ asks \in [Askers -> [pc: {"none", "lock", "call"}, force: BOOLEAN, at: Nat, source: Nat]]
    /\ answer \in [at: Nat, asked: Nat, given: Nat, force: BOOLEAN]
    /\ fetched \in Nat
    /\ uses \in [asked: Nat, outages: Nat]

\* An answer is never older than the lifetime of the cache, through whichever
\* store and after whatever outage; a forced request gets data stored less than
\* a second before it was made, or later, although the cache may serve it.
AnswersFresh ==
    answer # NoAnswer =>
        /\ answer.given < answer.at + TTL
        /\ answer.force => answer.asked < answer.at + Recent

\* Requests of one service that are not forced call the sources again only when
\* what one of them stored has expired, unless the cache lost its database.
CallsSpaced ==
    [][fetched # 0 /\ fetched' # fetched /\ uses.outages = 0
         => fetched' >= fetched + TTL]_quoteVars

=============================================================================
