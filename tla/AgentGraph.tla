----------------------------- MODULE AgentGraph -----------------------------
(***************************************************************************)
(* One run of the LangGraph workflow of tradingagents/graph: the analysts  *)
(* with their tool loops, the investment debate, the plans, the risk       *)
(* debate and the judge, as propagate() streams it.  A step is one node    *)
(* with the conditional edge that follows it (a LangGraph super-step); the *)
(* answers of the language model are arbitrary.                            *)
(*                                                                         *)
(* Texts are kept as far as the code measures them: "short" is at most 100 *)
(* characters, "medium" at most 500, "long" is more.  An answer that asks  *)
(* for tools asks for one: the code only tests whether there are any.      *)
(***************************************************************************)
EXTENDS Naturals, Sequences, FiniteSets

CONSTANTS
    Selected,          \* selected_analysts, in order
    MaxDebateRounds,   \* config max_debate_rounds
    MaxRiskRounds,     \* config max_risk_discuss_rounds
    RecursionLimits,   \* the values of recursion_limit to look at
    ProgressCallback,  \* propagate was given a progress_callback
    Debug              \* the graph was built with debug=True

AnalystKinds == {"market", "social", "news", "fundamentals"}

ASSUME ConfigOK ==
    /\ Selected \in Seq(AnalystKinds) /\ Len(Selected) >= 1
    /\ \A i, j \in 1..Len(Selected) : Selected[i] = Selected[j] => i = j
    /\ MaxDebateRounds \in Nat \ {0} /\ MaxRiskRounds \in Nat \ {0}
    /\ RecursionLimits \subseteq Nat
    /\ ProgressCallback \in BOOLEAN /\ Debug \in BOOLEAN

VARIABLES
    google,           \* GoogleToolCallHandler.is_google_model(llm)
    recursionLimit,   \* recursion_limit given to graph.stream
    node,             \* the node to run next, "end" or "failed"
    pos,              \* which selected analyst is at work
    steps,            \* super-steps so far
    messages,         \* state["messages"]
    report,           \* the analysts' reports
    calls,            \* the analysts' tool_call_count
    bullSaid, bearSaid,   \* arguments in bull_history and bear_history
    currentResponse,  \* whose text current_response starts with
    riskSaid,         \* arguments in the three risk histories
    latestSpeaker,    \* risk_debate_state.latest_speaker
    investmentPlan,   \* who wrote investment_plan
    traderPlan,       \* who wrote trader_investment_plan
    judgedPlan,       \* who wrote the plan in the judge's prompt
    retries,          \* retry_count of the judge
    decision,         \* final_trade_decision
    error             \* why the run failed

setup  == <<google, recursionLimit>>   \* fixed when the graph is built
talk   == <<messages, report, calls>>
debate == <<bullSaid, bearSaid, currentResponse, investmentPlan>>
risk   == <<riskSaid, latestSpeaker>>
verdict == <<judgedPlan, retries, decision>>
vars == <<setup, node, pos, steps, talk, debate, risk, traderPlan, verdict, error>>

Texts == {"empty", "short", "medium", "long"}
Message(kind) == [kind |-> kind, by |-> pos]
Human == [kind |-> "human", by |-> 0]

\* "ask": an AIMessage with tool_calls; "answer": one without;
\* "result": a ToolMessage.
MessageKinds == {"human", "ask", "answer", "result"}
RiskSpeakers == {"Risky", "Safe", "Neutral"}

DebateCount == bullSaid + bearSaid
RiskCount == riskSaid["Risky"] + riskSaid["Safe"] + riskSaid["Neutral"]

Init ==
    /\ google \in BOOLEAN /\ recursionLimit \in RecursionLimits
    /\ node = "start" /\ pos = 1 /\ steps = 0
    /\ messages = <<Human>>
    /\ report = [i \in 1..Len(Selected) |-> "empty"]
    /\ calls = [i \in 1..Len(Selected) |-> 0]
    /\ bullSaid = 0 /\ bearSaid = 0 /\ currentResponse = "none"
    /\ riskSaid = [s \in RiskSpeakers |-> 0] /\ latestSpeaker = "none"
    /\ investmentPlan = "none" /\ traderPlan = "none" /\ judgedPlan = "none"
    /\ retries = 0 /\ decision = "none" /\ error = "none"

Fail(why) == node' = "failed" /\ error' = why
Goto(n) == node' = n /\ UNCHANGED error

\* A router's answer must be one of the targets add_conditional_edges lists.
Route(target, declared) ==
    IF target \in declared THEN Goto(target) ELSE Fail("route")

\* LangGraph runs a node only within the recursion limit.
Run(n) == node = n /\ steps < recursionLimit /\ steps' = steps + 1

\* Streaming full values without debug, propagate feeds the values to
\* dict.update, which raises on the first chunk.
Start ==
    /\ node = "start"
    /\ IF ~ProgressCallback /\ ~Debug THEN Fail("stream") ELSE Goto("analyst")
    /\ UNCHANGED <<pos, steps, talk, debate, risk, traderPlan, verdict>>

-----------------------------------------------------------------------------
(* The analysts.                                                           *)

MaxToolCalls(kind) == IF kind = "fundamentals" THEN 1 ELSE 3

\* The four routers: more tools only while the last message asks for some,
\* the report has at most 100 characters and the counter allows it.
should_continue(kind, last, text, count) ==
    IF last.kind = "ask" /\ text \in {"empty", "short"} /\ count < MaxToolCalls(kind)
    THEN "tools" ELSE "clear"

\* The analyst's node returns `new` messages, its report and its counter.
Returns(new, text, count) ==
    /\ messages' = messages \o new
    /\ report' = [report EXCEPT ![pos] = text]
    /\ calls' = [calls EXCEPT ![pos] = count]
    /\ Goto(should_continue(Selected[pos], messages'[Len(messages')], text, count))
    /\ UNCHANGED <<pos, debate, risk, traderPlan, verdict>>

\* With a Google model the handler runs the tools itself, and the node still
\* returns the model's first message.
GoogleAnswer ==
    \E m \in {"ask", "answer"}, text \in Texts :
        Returns(<<Message(m)>>, text, calls[pos] + 1)

\* The market analyst runs the tools itself and writes the report from their
\* results; if that fails it returns the request with a failure notice.
Market ==
    IF google THEN GoogleAnswer ELSE
    \/ \E text \in Texts : Returns(<<Message("answer")>>, text, calls[pos] + 1)
    \/ \E text \in Texts :
          Returns(<<Message("ask"), Message("result"), Message("answer")>>,
                  text, calls[pos] + 1)
    \/ Returns(<<Message("ask")>>, "short", calls[pos] + 1)

Social_NoCount ==
    IF google THEN GoogleAnswer ELSE
    \/ \E text \in Texts : Returns(<<Message("answer")>>, text, calls[pos])
    \/ Returns(<<Message("ask")>>, "empty", calls[pos])

Social ==
    IF google THEN GoogleAnswer ELSE
    \/ \E text \in Texts : Returns(<<Message("answer")>>, text, calls[pos] + 1)
    \/ Returns(<<Message("ask")>>, "empty", calls[pos] + 1)

News_Raw ==
    \E m \in {"ask", "answer"}, text \in Texts :
        Returns(<<Message(m)>>, text, calls[pos] + 1)

\* Whatever the model answered, the news analyst returns a message without
\* tool calls; a request for tools is not run and its text is the report.
News == \E text \in Texts : Returns(<<Message("answer")>>, text, calls[pos] + 1)

Results == Cardinality({i \in 1..Len(messages) : messages[i].kind = "result"})
ToolCount == IF Results > calls[pos] THEN Results ELSE calls[pos]

FundamentalsAsks_Counts ==
    /\ Results = 0 /\ ToolCount < MaxToolCalls("fundamentals")
    /\ Returns(<<Message("ask")>>, report[pos], ToolCount + 1)

\* First request for tools: only the message is returned.
FundamentalsAsks ==
    /\ Results = 0 /\ ToolCount < MaxToolCalls("fundamentals")
    /\ messages' = Append(messages, Message("ask"))
    /\ Goto(should_continue("fundamentals", Message("ask"), report[pos], calls[pos]))
    /\ UNCHANGED <<pos, report, calls, debate, risk, traderPlan, verdict>>

\* The limit is reached with no result to use: a fixed notice.
FundamentalsFallsBack ==
    /\ Results = 0 /\ ToolCount >= MaxToolCalls("fundamentals")
    /\ Returns(<<Message("ask")>>, "short", ToolCount)

\* A request although results are there is answered by a second call without
\* tools; an answer is used as it is when there are results or it is long;
\* otherwise the tool is run by the node and only the report returned.
FundamentalsReports ==
    \/ /\ Results > 0
       /\ \E text \in Texts : Returns(<<Message("answer")>>, text, ToolCount)
    \/ \E text \in Texts :
          /\ Results > 0 \/ text = "long"
          /\ Returns(<<Message("answer")>>, text, Results)
    \/ Results = 0 /\ \E text \in Texts : Returns(<<>>, text, Results)

Fundamentals ==
    IF google THEN \E text \in Texts : Returns(<<>>, text, calls[pos])
    ELSE FundamentalsAsks \/ FundamentalsFallsBack \/ FundamentalsReports

Analyst ==
    /\ Run("analyst")
    /\ \/ Selected[pos] = "market" /\ Market
       \/ Selected[pos] = "social" /\ Social
       \/ Selected[pos] = "news" /\ News
       \/ Selected[pos] = "fundamentals" /\ Fundamentals

\* The ToolNode answers the request of the last message.
Tools ==
    /\ Run("tools")
    /\ messages' = Append(messages, Message("result"))
    /\ Goto("analyst")
    /\ UNCHANGED <<pos, report, calls, debate, risk, traderPlan, verdict>>

MsgClear_KeepsHistory ==
    /\ Run("clear")
    /\ messages' = Append(messages, Human)
    /\ pos' = pos + 1
    /\ Goto(IF pos < Len(Selected) THEN "analyst" ELSE "Bull Researcher")
    /\ UNCHANGED <<report, calls, debate, risk, traderPlan, verdict>>

MsgClear_KeepsLast ==
    /\ Run("clear")
    /\ messages' = <<Human, messages[Len(messages)]>>
    /\ pos' = pos + 1
    /\ Goto(IF pos < Len(Selected) THEN "analyst" ELSE "Bull Researcher")
    /\ UNCHANGED <<report, calls, debate, risk, traderPlan, verdict>>

\* Msg Clear removes every message and hands over to the next analyst.
MsgClear ==
    /\ Run("clear")
    /\ messages' = <<Human>>
    /\ pos' = pos + 1
    /\ Goto(IF pos < Len(Selected) THEN "analyst" ELSE "Bull Researcher")
    /\ UNCHANGED <<report, calls, debate, risk, traderPlan, verdict>>

-----------------------------------------------------------------------------
(* The investment debate and the plans.                                    *)

should_continue_debate_OneMore(count, response) ==
    IF count > 2 * MaxDebateRounds THEN "Research Manager"
    ELSE IF response = "Bull" THEN "Bear Researcher" ELSE "Bull Researcher"

should_continue_debate(count, response) ==
    IF count >= 2 * MaxDebateRounds THEN "Research Manager"
    ELSE IF response = "Bull" THEN "Bear Researcher" ELSE "Bull Researcher"

BullResearcher ==
    /\ Run("Bull Researcher")
    /\ bullSaid' = bullSaid + 1 /\ currentResponse' = "Bull"
    /\ Route(should_continue_debate(DebateCount + 1, "Bull"),
             {"Bear Researcher", "Research Manager"})
    /\ UNCHANGED <<pos, talk, bearSaid, investmentPlan, risk, traderPlan, verdict>>

BearResearcher_WrongName ==
    /\ Run("Bear Researcher")
    /\ bearSaid' = bearSaid + 1 /\ currentResponse' = "Bull"
    /\ Route(should_continue_debate(DebateCount + 1, "Bull"),
             {"Bull Researcher", "Research Manager"})
    /\ UNCHANGED <<pos, talk, bullSaid, investmentPlan, risk, traderPlan, verdict>>

BearResearcher ==
    /\ Run("Bear Researcher")
    /\ bearSaid' = bearSaid + 1 /\ currentResponse' = "Bear"
    /\ Route(should_continue_debate(DebateCount + 1, "Bear"),
             {"Bull Researcher", "Research Manager"})
    /\ UNCHANGED <<pos, talk, bullSaid, investmentPlan, risk, traderPlan, verdict>>

ResearchManager ==
    /\ Run("Research Manager")
    /\ investmentPlan' = "Research Manager" /\ currentResponse' = "Research Manager"
    /\ Goto("Trader")
    /\ UNCHANGED <<pos, talk, bullSaid, bearSaid, risk, traderPlan, verdict>>

Trader ==
    /\ Run("Trader")
    /\ messages' = Append(messages, Message("answer"))
    /\ traderPlan' = "Trader"
    /\ Goto("Risky Analyst")
    /\ UNCHANGED <<pos, report, calls, debate, risk, verdict>>

-----------------------------------------------------------------------------
(* The risk debate and the judge.                                          *)

should_continue_risk_analysis(count, speaker) ==
    IF count >= 3 * MaxRiskRounds THEN "Risk Judge"
    ELSE CASE speaker = "Risky" -> "Safe Analyst"
           [] speaker = "Safe"  -> "Neutral Analyst"
           [] OTHER             -> "Risky Analyst"

\* A risk debator adds its argument and signs as the latest speaker.
Argues(s, declared) ==
    /\ riskSaid' = [riskSaid EXCEPT ![s] = @ + 1]
    /\ latestSpeaker' = s
    /\ Route(should_continue_risk_analysis(RiskCount + 1, s), declared)
    /\ UNCHANGED <<pos, talk, debate, traderPlan, verdict>>

RiskyAnalyst   == Run("Risky Analyst") /\ Argues("Risky", {"Safe Analyst", "Risk Judge"})
SafeAnalyst    == Run("Safe Analyst") /\ Argues("Safe", {"Neutral Analyst", "Risk Judge"})
NeutralAnalyst == Run("Neutral Analyst") /\ Argues("Neutral", {"Risky Analyst", "Risk Judge"})

MaxRetries == 3

JudgeRetries_Wraps ==
    /\ node = "Risk Judge" /\ steps < recursionLimit
    /\ retries' = (retries + 1) % MaxRetries
    /\ UNCHANGED <<node, pos, steps, talk, debate, risk, traderPlan,
                   judgedPlan, decision, error>>

JudgeRetries_Unbounded ==
    /\ node = "Risk Judge" /\ steps < recursionLimit
    /\ retries' = retries + 1
    /\ UNCHANGED <<node, pos, steps, talk, debate, risk, traderPlan,
                   judgedPlan, decision, error>>

\* A call that raised or answered with at most 10 characters is repeated.
JudgeRetries ==
    /\ node = "Risk Judge" /\ steps < recursionLimit /\ retries < MaxRetries
    /\ retries' = retries + 1
    /\ UNCHANGED <<node, pos, steps, talk, debate, risk, traderPlan,
                   judgedPlan, decision, error>>

\* The judge's answer, or after three failed calls the default decision; the
\* prompt carries investment_plan as the trader's plan.
RiskJudge ==
    /\ Run("Risk Judge")
    /\ decision' = IF retries < MaxRetries THEN "answer" ELSE "default"
    /\ latestSpeaker' = "Judge" /\ judgedPlan' = investmentPlan
    /\ Goto("end")
    /\ UNCHANGED <<pos, talk, debate, riskSaid, traderPlan, retries>>

-----------------------------------------------------------------------------
\* The nodes whose model call is not guarded: an exception ends the run.
Unguarded == {"analyst", "Bull Researcher", "Bear Researcher", "Research Manager",
              "Trader", "Risky Analyst", "Safe Analyst", "Neutral Analyst"}

CallRaises ==
    /\ node \in Unguarded /\ steps < recursionLimit /\ Fail("llm")
    /\ UNCHANGED <<pos, steps, talk, debate, risk, traderPlan, verdict>>

\* GraphRecursionError.
OutOfSteps ==
    /\ node \notin {"start", "end", "failed"} /\ steps >= recursionLimit
    /\ Fail("recursion")
    /\ UNCHANGED <<pos, steps, talk, debate, risk, traderPlan, verdict>>

RunNode ==
    \/ Start \/ Analyst \/ Tools \/ MsgClear
    \/ BullResearcher \/ BearResearcher \/ ResearchManager \/ Trader
    \/ RiskyAnalyst \/ SafeAnalyst \/ NeutralAnalyst
    \/ JudgeRetries \/ RiskJudge
    \/ CallRaises \/ OutOfSteps

Next == RunNode /\ UNCHANGED setup

\* One thread drives the stream to its end.
Spec == Init /\ [][Next]_vars /\ WF_vars(Next)

-----------------------------------------------------------------------------
(* Properties.                                                             *)

AnalystNodes == {"analyst", "tools", "clear"}
DebateNodes  == {"Bull Researcher", "Bear Researcher"}
RiskNodes    == {"Risky Analyst", "Safe Analyst", "Neutral Analyst"}
AfterDebate  == {"Research Manager", "Trader", "Risk Judge", "end"} \cup RiskNodes
Nodes == AnalystNodes \cup DebateNodes \cup AfterDebate \cup {"start", "failed"}

Histories == Seq([kind : MessageKinds, by : 0..(Len(Selected) + 1)])

StateOK ==
    /\ node \in Nodes /\ pos \in 1..(Len(Selected) + 1) /\ steps \in Nat
    /\ messages \in Histories
    /\ report \in [1..Len(Selected) -> Texts]
    /\ calls \in [1..Len(Selected) -> Nat]
    /\ bullSaid \in Nat /\ bearSaid \in Nat
    /\ currentResponse \in {"none", "Bull", "Bear", "Research Manager"}
    /\ riskSaid \in [RiskSpeakers -> Nat]
    /\ latestSpeaker \in RiskSpeakers \cup {"none", "Judge"}
    /\ investmentPlan \in {"none", "Research Manager"}
    /\ traderPlan \in {"none", "Trader"}
    /\ judgedPlan \in {"none", "Research Manager", "Trader"}
    /\ retries \in 0..MaxRetries
    /\ decision \in {"none", "answer", "default"}
    /\ error \in {"none", "llm", "route", "recursion", "stream"}

\* The types of a run's state and of what is fixed when its graph is built.
TypeOK == StateOK /\ google \in BOOLEAN /\ recursionLimit \in RecursionLimits

\* A router never names a node its conditional edge does not list: what the
\* researchers and debators write into the state always agrees with who may
\* speak after them.
RoutesDeclared == error # "route"

\* The researchers are heard equally often and for exactly the configured
\* rounds when the manager decides, and each risk analyst exactly its rounds
\* when the judge decides.
EqualHearing ==
    /\ node \in AfterDebate => bullSaid = MaxDebateRounds /\ bearSaid = MaxDebateRounds
    /\ node \in {"Risk Judge", "end"} =>
          \A s \in RiskSpeakers : riskSaid[s] = MaxRiskRounds

\* No model is called with a history that ends in an unanswered request for
\* tools, although market, social and Google runs may leave one behind when
\* the counter or the report ends the loop.
RequestsAnswered ==
    node = "analyst" => messages[Len(messages)].kind # "ask"

\* An analyst only sees tool results of its own requests: fundamentals counts
\* the ToolMessages it finds as its own calls.
OwnEvidence ==
    node = "analyst" =>
        \A i \in 1..Len(messages) : messages[i].kind = "result" => messages[i].by = pos

\* The news analyst is done after one visit; its tool node never runs.
NewsNeverLoops == node = "tools" => Selected[pos] # "news"

\* A request of the fundamentals analyst is always served: the run never
\* goes on to the next analyst with its tool call pending and no report.
FundamentalsServed ==
    node = "clear" /\ Selected[pos] = "fundamentals" =>
        messages[Len(messages)].kind # "ask"

\* The longest run: three visits with two tool rounds for every analyst.
StepBound == 6 * Len(Selected) + 2 * MaxDebateRounds + 3 * MaxRiskRounds + 3

\* A recursion limit of StepBound is never exhausted: the counters end every
\* tool loop whatever the models answer.
NeverOutOfSteps == recursionLimit >= StepBound => error # "recursion"

\* The inductive invariant behind these: what each node may rely on.
AnalystPhase ==
    node \in AnalystNodes \cup {"start"} =>
        /\ pos \in 1..Len(Selected)
        /\ bullSaid = 0 /\ bearSaid = 0 /\ currentResponse = "none"

DebatePhase ==
    /\ node \in DebateNodes \cup AfterDebate => pos = Len(Selected) + 1
    /\ node = "Bull Researcher" =>
          /\ bullSaid = bearSaid /\ bullSaid < MaxDebateRounds
          /\ currentResponse = IF bullSaid = 0 THEN "none" ELSE "Bear"
    /\ node = "Bear Researcher" =>
          /\ bullSaid = bearSaid + 1 /\ bullSaid <= MaxDebateRounds
          /\ currentResponse = "Bull"
    /\ node \in AfterDebate =>
          /\ bullSaid = MaxDebateRounds /\ bearSaid = MaxDebateRounds
          /\ currentResponse = IF node = "Research Manager" THEN "Bear"
                               ELSE "Research Manager"

PlanPhase ==
    /\ node \in AnalystNodes \cup DebateNodes \cup {"start", "Research Manager"}
          => investmentPlan = "none" /\ traderPlan = "none"
    /\ node = "Trader" => investmentPlan # "none" /\ traderPlan = "none"
    /\ node \in RiskNodes \cup {"Risk Judge", "end"} =>
          investmentPlan # "none" /\ traderPlan # "none"

RiskPhase ==
    /\ node \in AnalystNodes \cup DebateNodes \cup {"start", "Research Manager", "Trader"}
          => latestSpeaker = "none" /\ \A s \in RiskSpeakers : riskSaid[s] = 0
    /\ node = "Risky Analyst" =>
          /\ riskSaid["Safe"] = riskSaid["Risky"] /\ riskSaid["Neutral"] = riskSaid["Risky"]
          /\ riskSaid["Risky"] < MaxRiskRounds
          /\ latestSpeaker = IF riskSaid["Risky"] = 0 THEN "none" ELSE "Neutral"
    /\ node = "Safe Analyst" =>
          /\ riskSaid["Risky"] = riskSaid["Safe"] + 1 /\ riskSaid["Neutral"] = riskSaid["Safe"]
          /\ riskSaid["Risky"] <= MaxRiskRounds /\ latestSpeaker = "Risky"
    /\ node = "Neutral Analyst" =>
          /\ riskSaid["Risky"] = riskSaid["Neutral"] + 1
          /\ riskSaid["Safe"] = riskSaid["Neutral"] + 1
          /\ riskSaid["Risky"] <= MaxRiskRounds /\ latestSpeaker = "Safe"
    /\ node \in {"Risk Judge", "end"} =>
          /\ \A s \in RiskSpeakers : riskSaid[s] = MaxRiskRounds
          /\ node = "Risk Judge" => latestSpeaker = "Neutral"

EndPhase ==
    /\ node = "end" <=> decision # "none"
    /\ node = "failed" <=> error # "none"
    /\ error # "route"

PhaseInv == AnalystPhase /\ DebatePhase /\ PlanPhase /\ RiskPhase /\ EndPhase

\* What the tool loops may rely on, and how many steps they have used.
HistoryInv ==
    /\ Len(messages) >= 1
    /\ node = "start" => messages = <<Human>>
    /\ RequestsAnswered
    /\ node = "analyst" /\ Selected[pos] = "fundamentals" =>
          \/ steps <= 6 * (pos - 1)
          \/ \E i \in 1..Len(messages) : messages[i].kind = "result"
    /\ node \in {"start", "analyst", "tools"} /\ Selected[pos] = "fundamentals" =>
          calls[pos] = 0

LoopInv ==
    /\ node \in AnalystNodes \cup {"start"} =>
          \A i \in 1..Len(Selected) : i > pos => calls[i] = 0
    /\ node = "start" => pos = 1 /\ steps = 0 /\ calls[1] = 0
    /\ node = "analyst" =>
          /\ calls[pos] <= 2
          /\ steps <= 6 * (pos - 1) +
                 (IF Selected[pos] = "fundamentals" THEN 2 ELSE 2 * calls[pos])
    /\ node = "tools" =>
          /\ calls[pos] <= 2
          /\ steps <= 6 * (pos - 1) +
                 (IF Selected[pos] = "fundamentals" THEN 1 ELSE 2 * calls[pos] - 1)
    /\ node = "clear" => steps <= 6 * (pos - 1) + 5
    /\ node \notin AnalystNodes \cup {"start", "failed", "end"} =>
          steps <= 6 * Len(Selected) + DebateCount + RiskCount
                     + (IF investmentPlan # "none" THEN 1 ELSE 0)
                     + (IF traderPlan # "none" THEN 1 ELSE 0)

\* Every run ends with a decision or with an error.
RunEnds == <>(decision # "none" \/ error # "none")

\* Who has spoken so far, read off the state the nodes write.
SpokenSoFar ==
    (pos - 1) + DebateCount + RiskCount
      + (IF investmentPlan # "none" THEN 1 ELSE 0)
      + (IF traderPlan # "none" THEN 1 ELSE 0)
      + (IF decision # "none" THEN 1 ELSE 0)

LastSpeaker ==
    IF latestSpeaker # "none" THEN latestSpeaker
    ELSE IF traderPlan # "none" THEN traderPlan
    ELSE IF currentResponse # "none" THEN currentResponse
    ELSE IF pos > 1 THEN Selected[pos - 1] ELSE "none"

Outcome ==
    IF decision # "none" THEN "decided"
    ELSE IF error # "none" THEN "aborted" ELSE "running"

\* The graph keeps to the agenda: every agent in its place, nobody left out
\* and nobody heard twice, whichever way the tool loops go.
A == INSTANCE Agenda WITH
        spoken <- SpokenSoFar, speaker <- LastSpeaker, outcome <- Outcome
KeepsAgenda == A!Spec

\* risk_manager.py, "从交易员的原始计划{trader_plan}开始": the judge
\* starts from the trader's plan.
JudgeReadsTraderPlan == decision # "none" => judgedPlan = "Trader"

=============================================================================
