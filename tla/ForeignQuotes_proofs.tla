----------------------- MODULE ForeignQuotes_proofs -----------------------
(* Proofs about ForeignQuotes, for every number of sources, requests and   *)
(* outages and every lifetime of the cache.                                *)
EXTENDS ForeignQuotes, TLAPS

\* What a request is.
AskRecords == [pc: {"none", "lock", "call"}, force: BOOLEAN, at: Nat, source: Nat]

\* The store that answers first while the database has never gone down.
Main == primary

\* No request was made and nothing was stored after the present tick.
TimesPast ==
    /\ \A a \in Askers : asks[a].at <= now
    /\ \A s \in Stores : cache[s] <= now

\* What CallsSpaced rests on.  Until the first outage the main store has all
\* that was stored; and whoever has passed the shared lock unforced is alone
\* there and has found what was fetched before expired.
Lapsed(at) == at = 0 \/ now >= at + TTL

Passed(a) == asks[a].pc = "call" /\ ~asks[a].force

SpacingInv ==
    uses.outages = 0 =>
        /\ up
        /\ fetched <= cache[Main]
        /\ locked /\ shared =>
             /\ \A a \in Askers : Passed(a) => Lapsed(fetched)
             /\ \A a, b \in Askers : Passed(a) /\ Passed(b) => a = b

-----------------------------------------------------------------------------
\* What a look into the cache returns was stored and has not expired.
LEMMA LoadedFacts ==
    ASSUME QuoteTypeOK, Loaded # 0
    PROVE  /\ Loaded \in Nat \ {0}
           /\ now < Loaded + TTL
           /\ TimesPast => Loaded <= now
  BY QuoteConstants DEF QuoteTypeOK, Loaded, Valid, Stores, TimesPast

\* Nothing is found only if what the main store holds has expired.
LEMMA NothingLoaded ==
    ASSUME QuoteTypeOK, up, Loaded = 0
    PROVE  Lapsed(cache[Main])
  BY QuoteConstants DEF QuoteTypeOK, Loaded, Valid, Stores, Main, Lapsed

\* Saving stores the present tick in one place, while the database is up in
\* the main store.
LEMMA SaveFacts ==
    ASSUME QuoteTypeOK, Save
    PROVE  /\ cache' \in [Stores -> Nat]
           /\ \A s \in Stores : cache'[s] = cache[s] \/ cache'[s] = now
           /\ up => cache'[Main] = now
  BY DEF QuoteTypeOK, Save, Stores, Main

-----------------------------------------------------------------------------
\* Every variable keeps its type.
THEOREM QuoteTypes == QuoteSpec => []QuoteTypeOK
<1>1. QuoteInit => QuoteTypeOK
  BY QuoteConstants DEF QuoteInit, QuoteTypeOK, NoAsk, NoAnswer
<1>2. QuoteTypeOK /\ [QuoteNext]_quoteVars => QuoteTypeOK'
  <2> SUFFICES ASSUME QuoteTypeOK, [QuoteNext]_quoteVars PROVE QuoteTypeOK'
    OBVIOUS
  <2>1. ASSUME NEW a \in Askers, NEW force \in BOOLEAN, Ask(a, force) PROVE QuoteTypeOK'
    <3>1. Loaded \in Nat BY LoadedFacts
    <3>2. answer' \in [at: Nat, asked: Nat, given: Nat, force: BOOLEAN]
      BY <2>1, <3>1 DEF Ask, QuoteTypeOK
    <3>3. asks' \in [Askers -> AskRecords]
      BY <2>1 DEF Ask, QuoteTypeOK, AskRecords
    <3>4. uses' \in [asked: Nat, outages: Nat]
      <4>1. uses.asked + 1 \in Nat /\ uses' = [uses EXCEPT !.asked = a] /\ a = uses.asked + 1
        BY <2>1 DEF Ask, QuoteTypeOK
      <4>2. QED BY <4>1 DEF QuoteTypeOK
    <3>5. QED BY <2>1, <3>2, <3>3, <3>4 DEF Ask, QuoteTypeOK, AskRecords
  <2>2. ASSUME NEW a \in Askers, EnterLock(a) PROVE QuoteTypeOK'
    <3>1. Loaded \in Nat BY LoadedFacts
    <3>2. asks' \in [Askers -> AskRecords]
      <4>1. asks \in [Askers -> AskRecords] /\ NoAsk \in AskRecords
        BY DEF QuoteTypeOK, AskRecords, NoAsk
      <4>2. [asks[a] EXCEPT !.pc = "call"] \in AskRecords
        BY <4>1 DEF AskRecords
      <4>3. asks' = [asks EXCEPT ![a] = NoAsk] \/ asks' = [asks EXCEPT ![a].pc = "call"]
        BY <2>2 DEF EnterLock, Give
      <4>4. QED BY <4>1, <4>2, <4>3
    <3>3. answer' \in [at: Nat, asked: Nat, given: Nat, force: BOOLEAN]
      BY <2>2, <3>1 DEF EnterLock, Give, QuoteTypeOK
    <3>4. QED BY <2>2, <3>2, <3>3 DEF EnterLock, QuoteTypeOK, AskRecords
  <2>3. ASSUME NEW a \in Askers, SourceAnswers(a) PROVE QuoteTypeOK'
    <3>1. cache' \in [Stores -> Nat] BY <2>3, SaveFacts DEF SourceAnswers
    <3>2. fetched' \in Nat BY <2>3 DEF SourceAnswers, QuoteTypeOK
    <3>3. QED BY <2>3, <3>1, <3>2 DEF SourceAnswers, Give, NoAsk, QuoteTypeOK
  <2>4. ASSUME NEW a \in Askers, SourceFails(a) PROVE QuoteTypeOK'
    <3>1. asks' \in [Askers -> AskRecords]
      <4>1. asks \in [Askers -> AskRecords] /\ NoAsk \in AskRecords
        BY DEF QuoteTypeOK, AskRecords, NoAsk
      <4>2. [asks[a] EXCEPT !.source = @ + 1] \in AskRecords
        BY <4>1 DEF AskRecords
      <4>3. asks' = [asks EXCEPT ![a] = NoAsk]
            \/ asks' = [asks EXCEPT ![a].source = @ + 1]
        BY <2>4 DEF SourceFails
      <4>4. QED BY <4>1, <4>2, <4>3
    <3>2. QED BY <2>4, <3>1 DEF SourceFails, QuoteTypeOK, AskRecords
  <2>5. CASE Tick BY <2>5 DEF Tick, QuoteTypeOK
  <2>6. CASE Outage BY <2>6 DEF Outage, QuoteTypeOK
  <2>7. CASE UNCHANGED quoteVars BY <2>7 DEF quoteVars, QuoteTypeOK
  <2>8. QED BY <2>1, <2>2, <2>3, <2>4, <2>5, <2>6, <2>7 DEF QuoteNext
<1>3. QED BY <1>1, <1>2, PTL DEF QuoteSpec

-----------------------------------------------------------------------------
\* Requests and stored data are never from a later tick.
LEMMA TimesKept == QuoteTypeOK /\ TimesPast /\ [QuoteNext]_quoteVars => TimesPast'
<1> SUFFICES ASSUME QuoteTypeOK, TimesPast, [QuoteNext]_quoteVars PROVE TimesPast'
  OBVIOUS
<1>1. ASSUME NEW a \in Askers, NEW force \in BOOLEAN, Ask(a, force) PROVE TimesPast'
  <2>1. \A b \in Askers : asks'[b] = asks[b] \/ asks'[b].at = now
    BY <1>1 DEF Ask, QuoteTypeOK
  <2>2. QED BY <1>1, <2>1 DEF Ask, QuoteTypeOK, TimesPast
<1>2. ASSUME NEW a \in Askers,
             EnterLock(a) \/ SourceAnswers(a) \/ SourceFails(a)
      PROVE TimesPast'
  <2>1. /\ \A b \in Askers : asks'[b].at = asks[b].at \/ asks'[b].at = 0
        /\ now' = now
    BY <1>2 DEF EnterLock, SourceAnswers, SourceFails, Give, NoAsk, QuoteTypeOK
  <2>2. \A s \in Stores : cache'[s] = cache[s] \/ cache'[s] = now
    BY <1>2, SaveFacts DEF EnterLock, SourceAnswers, SourceFails
  <2>3. QED BY <2>1, <2>2 DEF TimesPast, QuoteTypeOK
<1>3. CASE Tick BY <1>3 DEF Tick, TimesPast, QuoteTypeOK
<1>4. CASE Outage BY <1>4 DEF Outage, TimesPast
<1>5. CASE UNCHANGED quoteVars BY <1>5 DEF quoteVars, TimesPast
<1>6. QED BY <1>1, <1>2, <1>3, <1>4, <1>5 DEF QuoteNext

\* An answer is younger than the lifetime of the cache through whichever store
\* and outage, and a forced request is never answered with data stored a second
\* or more before it.
THEOREM AnswersAreFresh == QuoteSpec => []AnswersFresh
<1>1. QuoteInit => TimesPast /\ AnswersFresh
  BY QuoteConstants DEF QuoteInit, TimesPast, AnswersFresh, NoAsk, NoAnswer, Stores
<1>2. QuoteTypeOK /\ TimesPast /\ AnswersFresh /\ [QuoteNext]_quoteVars => AnswersFresh'
  <2> SUFFICES ASSUME QuoteTypeOK, TimesPast, AnswersFresh, [QuoteNext]_quoteVars
               PROVE  AnswersFresh'
    OBVIOUS
  <2>1. ASSUME NEW a \in Askers, NEW force \in BOOLEAN, Ask(a, force) PROVE AnswersFresh'
    <3>1. CASE UNCHANGED answer BY <3>1 DEF AnswersFresh
    <3>2. CASE ~force /\ Loaded # 0 /\
               answer' = [at |-> Loaded, asked |-> now, given |-> now, force |-> force]
      BY <3>2, LoadedFacts DEF AnswersFresh
    <3>3. QED BY <2>1, <3>1, <3>2 DEF Ask
  <2>2. ASSUME NEW a \in Askers, EnterLock(a) PROVE AnswersFresh'
    <3>1. CASE UNCHANGED answer BY <3>1 DEF AnswersFresh
    <3>2. CASE Loaded # 0 /\ (now < Loaded + Recent \/ ~asks[a].force) /\ Give(a, Loaded)
      <4>1. asks[a].at \in Nat /\ asks[a].at <= now /\ now \in Nat
        BY DEF QuoteTypeOK, TimesPast
      <4>2. Loaded \in Nat /\ now < Loaded + TTL BY <3>2, LoadedFacts
      <4>3. answer'.asked = asks[a].at /\ answer'.given = now /\ answer'.at = Loaded
            /\ answer'.force = asks[a].force
        BY <3>2 DEF Give
      <4>4. QED BY <3>2, <4>1, <4>2, <4>3, QuoteConstants DEF AnswersFresh
    <3>3. QED BY <2>2, <3>1, <3>2 DEF EnterLock
  <2>3. ASSUME NEW a \in Askers, SourceAnswers(a) PROVE AnswersFresh'
    <3>1. asks[a].at \in Nat /\ asks[a].at <= now /\ now \in Nat
      BY DEF QuoteTypeOK, TimesPast
    <3>2. answer'.asked = asks[a].at /\ answer'.given = now /\ answer'.at = now
      BY <2>3 DEF SourceAnswers, Give
    <3>3. QED BY <3>1, <3>2, QuoteConstants DEF AnswersFresh
  <2>4. ASSUME NEW a \in Askers, SourceFails(a) PROVE AnswersFresh'
    BY <2>4 DEF SourceFails, AnswersFresh
  <2>5. CASE Tick BY <2>5 DEF Tick, AnswersFresh
  <2>6. CASE Outage BY <2>6 DEF Outage, AnswersFresh
  <2>7. CASE UNCHANGED quoteVars BY <2>7 DEF quoteVars, AnswersFresh
  <2>8. QED BY <2>1, <2>2, <2>3, <2>4, <2>5, <2>6, <2>7 DEF QuoteNext
<1>3. QED BY <1>1, <1>2, QuoteTypes, TimesKept, PTL DEF QuoteSpec

-----------------------------------------------------------------------------
\* SpacingInv holds at the start and is kept by every step.
LEMMA SpacingKept ==
    QuoteTypeOK /\ TimesPast /\ SpacingInv /\ [QuoteNext]_quoteVars => SpacingInv'
<1> SUFFICES ASSUME QuoteTypeOK, TimesPast, SpacingInv, [QuoteNext]_quoteVars,
                    uses'.outages = 0
             PROVE  /\ up'
                    /\ fetched' <= cache'[Main']
                    /\ locked' /\ shared' =>
                         /\ \A a \in Askers : Passed(a)' => Lapsed(fetched)'
                         /\ \A a, b \in Askers : Passed(a)' /\ Passed(b)' => a = b
  BY DEF SpacingInv
<1>0. /\ now \in Nat \ {0} /\ fetched \in Nat /\ cache[Main] \in Nat
      /\ cache[Main] <= now /\ TTL \in Nat
  BY QuoteConstants DEF QuoteTypeOK, TimesPast, Main, Stores
<1>1. ASSUME NEW a \in Askers, NEW force \in BOOLEAN, Ask(a, force)
      PROVE  SpacingInv'
  <2>1. locked => \A b \in Askers : Passed(b)' => Passed(b)
    BY <1>1 DEF Ask, Passed, QuoteTypeOK
  <2>2. UNCHANGED <<locked, shared, primary, up, cache, now, fetched, uses.outages>>
    BY <1>1 DEF Ask, QuoteTypeOK
  <2>3. QED BY <2>1, <2>2 DEF SpacingInv, Lapsed, Main
<1>2. ASSUME NEW a \in Askers, EnterLock(a) PROVE SpacingInv'
  <2>1. UNCHANGED <<locked, shared, primary, up, cache, now, fetched, uses>>
    BY <1>2 DEF EnterLock
  <2>2. CASE \A b \in Askers : Passed(b)' => Passed(b)
    BY <2>1, <2>2 DEF SpacingInv, Lapsed, Main
  <2>3. CASE \E b \in Askers : Passed(b)' /\ ~Passed(b)
    <3>1. /\ Loaded = 0 /\ ~asks[a].force
          /\ \A b \in Askers : Passed(b)' => b = a \/ Passed(b)
      BY <1>2, <2>3 DEF EnterLock, Give, NoAsk, Passed, QuoteTypeOK
    <3>2. shared => \A b \in Askers \ {a} : ~Passed(b)
      <4>1. ASSUME NEW b \in Askers \ {a}, Passed(b), shared PROVE FALSE
        <5>1. asks[b].pc = "call" /\ asks[b].force = asks[a].force
          BY <3>1, <4>1 DEF Passed, QuoteTypeOK
        <5>2. QED BY <1>2, <4>1, <5>1 DEF EnterLock, LockFree
      <4>2. QED BY <4>1
    <3>3. uses.outages = 0 => Lapsed(fetched)
      <4> SUFFICES ASSUME uses.outages = 0 PROVE Lapsed(fetched)
        OBVIOUS
      <4>1. up /\ fetched <= cache[Main] BY DEF SpacingInv
      <4>2. Lapsed(cache[Main]) BY <3>1, <4>1, NothingLoaded
      <4>3. QED BY <1>0, <4>1, <4>2 DEF Lapsed
    <3>4. QED BY <2>1, <3>1, <3>2, <3>3 DEF SpacingInv, Lapsed, Main
  <2>4. QED BY <2>2, <2>3
<1>3. ASSUME NEW a \in Askers, SourceAnswers(a) PROVE SpacingInv'
  <2>1. /\ UNCHANGED <<locked, shared, primary, up, now, uses>>
        /\ ~Passed(a)' /\ asks[a].pc = "call"
        /\ \A b \in Askers \ {a} : asks'[b] = asks[b]
    BY <1>3 DEF SourceAnswers, Give, NoAsk, Passed, QuoteTypeOK
  <2>2. up => cache'[Main] = now
    BY <1>3, SaveFacts DEF SourceAnswers
  <2>3. fetched' = fetched \/ (fetched' = now /\ ~asks[a].force)
    BY <1>3 DEF SourceAnswers, QuoteTypeOK
  <2>4. \A b \in Askers : Passed(b)' => b # a /\ Passed(b)
    BY <2>1 DEF Passed
  <2>5. ASSUME uses.outages = 0, locked, shared, NEW b \in Askers, Passed(b)'
        PROVE  fetched' = fetched
    BY <2>1, <2>3, <2>4, <2>5 DEF SpacingInv, Passed
  <2>6. uses.outages = 0 => fetched' <= cache'[Main]
    BY <1>0, <2>1, <2>2, <2>3 DEF SpacingInv
  <2>7. QED BY <2>1, <2>4, <2>5, <2>6 DEF SpacingInv, Lapsed, Main
<1>4. ASSUME NEW a \in Askers, SourceFails(a) PROVE SpacingInv'
  <2>1. \A b \in Askers : Passed(b)' => Passed(b)
    BY <1>4 DEF SourceFails, Passed, NoAsk, QuoteTypeOK
  <2>2. QED BY <1>4, <2>1 DEF SourceFails, SpacingInv, Lapsed, Main
<1>5. CASE Tick
  <2>1. Lapsed(fetched) => Lapsed(fetched)'
    BY <1>0, <1>5 DEF Tick, Lapsed
  <2>2. QED BY <1>5, <2>1 DEF Tick, SpacingInv, Passed, Main
<1>6. CASE Outage
  BY <1>6 DEF Outage, QuoteTypeOK, SpacingInv
<1>7. CASE UNCHANGED quoteVars
  BY <1>7 DEF quoteVars, SpacingInv, Lapsed, Passed, Main
<1>8. QED BY <1>1, <1>2, <1>3, <1>4, <1>5, <1>6, <1>7 DEF QuoteNext, SpacingInv

\* Until the cache loses its database, unforced requests of one service call
\* the sources again only when what one of them stored has expired.
THEOREM CallsAreSpaced == QuoteSpec => CallsSpaced
<1>1. QuoteInit => TimesPast /\ SpacingInv
  BY DEF QuoteInit, TimesPast, SpacingInv, Passed, NoAsk, Main, Stores
<1>2. QuoteTypeOK /\ SpacingInv /\ [QuoteNext]_quoteVars =>
        [fetched # 0 /\ fetched' # fetched /\ uses.outages = 0
           => fetched' >= fetched + TTL]_quoteVars
  <2> SUFFICES ASSUME QuoteTypeOK, SpacingInv, QuoteNext, fetched # 0,
                      fetched' # fetched, uses.outages = 0
               PROVE  fetched' >= fetched + TTL
    OBVIOUS
  <2>1. PICK a \in Askers : SourceAnswers(a)
    BY DEF QuoteNext, Ask, EnterLock, SourceFails, Tick, Outage
  <2>2. locked /\ shared /\ Passed(a) /\ fetched' = now
    BY <2>1 DEF SourceAnswers, Passed, QuoteTypeOK
  <2>3. QED BY <2>2 DEF SpacingInv, Lapsed
<1>3. QED BY <1>1, <1>2, QuoteTypes, TimesKept, SpacingKept, PTL DEF QuoteSpec, CallsSpaced

=============================================================================
