------------------------- MODULE AgentGraph_proofs -------------------------
(***************************************************************************)
(* Theorems about AgentGraph for every choice of analysts, rounds and kind *)
(* of model: every speaker is heard the configured number of times, every  *)
(* route is declared, the graph implements Agenda; and the tool loops are  *)
(* bounded, call no model with an unanswered request and leave in the      *)
(* history what is the working analyst's own.                              *)
(***************************************************************************)
EXTENDS AgentGraph, SequenceTheorems, FiniteSetTheorems, TLAPS

USE DEF talk, debate, risk, verdict

\* The configuration in the form the steps below use it.
LEMMA Config ==
    /\ Len(Selected) \in Nat \ {0}
    /\ \A i \in 1..Len(Selected) : Selected[i] \in AnalystKinds
    /\ MaxDebateRounds \in Nat \ {0} /\ MaxRiskRounds \in Nat \ {0}
    /\ RecursionLimits \subseteq Nat
BY ConfigOK

\* The counters as numbers.
LEMMA Counters ==
    ASSUME StateOK
    PROVE  /\ steps \in Nat /\ pos \in 1..(Len(Selected) + 1)
           /\ bullSaid \in Nat /\ bearSaid \in Nat /\ retries \in 0..MaxRetries
           /\ calls \in [1..Len(Selected) -> Nat] /\ riskSaid \in [RiskSpeakers -> Nat]
           /\ messages \in Histories
BY DEF StateOK

\* One message, or an empty return, keeps the history well typed.
LEMMA HistoryType ==
    ASSUME StateOK, NEW kind \in MessageKinds
    PROVE  /\ <<Message(kind)>> \in Histories
           /\ Append(messages, Message(kind)) \in Histories
           /\ <<Human>> \in Histories /\ <<>> \in Histories
<1>1. pos \in 0..(Len(Selected) + 1) /\ 0 \in 0..(Len(Selected) + 1)
  <2>1. pos \in 1..(Len(Selected) + 1)
    BY DEF StateOK
  <2>. QED
    BY <2>1, Config
<1>2. messages \in Histories
  BY DEF StateOK
<1>. QED
  BY <1>1, <1>2 DEF Message, Human, Histories, MessageKinds

\* What one return of an analyst's node does to the state's type.
LEMMA ReturnsType ==
    ASSUME StateOK, pos \in 1..Len(Selected),
           NEW new \in Histories, NEW text \in Texts, NEW count \in Nat,
           Returns(new, text, count), steps' = steps + 1
    PROVE  StateOK'
<1>1. node' \in {"tools", "clear"} /\ UNCHANGED error
  BY DEF Returns, Goto, should_continue
<1>2. messages' \in Histories
  <2>1. messages \in Histories /\ messages' = messages \o new
    BY DEF Returns, StateOK
  <2>. QED
    BY <2>1, ConcatProperties DEF Histories
<1>3. report' \in [1..Len(Selected) -> Texts] /\ calls' \in [1..Len(Selected) -> Nat]
  BY DEF Returns, StateOK
<1>4. UNCHANGED <<pos, debate, risk, traderPlan, verdict>>
  BY DEF Returns
<1>5. steps' \in Nat /\ node' \in Nodes
  BY <1>1, Counters DEF Nodes, AnalystNodes
<1>. QED
  BY <1>1, <1>2, <1>3, <1>4, <1>5 DEF StateOK

\* Counters and answers stay in their types over the analysts' nodes.
LEMMA AnalystType ==
    ASSUME StateOK, pos \in 1..Len(Selected), Analyst
    PROVE  StateOK'
<1>0. calls[pos] \in Nat /\ calls[pos] + 1 \in Nat
  BY Counters
<1>1. Results \in Nat /\ ToolCount \in Nat
  <2>1. Len(messages) \in Nat
    BY Counters DEF Histories
  <2>2. IsFiniteSet(1..Len(messages))
    BY <2>1, FS_Interval
  <2>3. IsFiniteSet({i \in 1..Len(messages) : messages[i].kind = "result"})
    BY <2>2, FS_Subset
  <2>. QED
    BY <1>0, <2>3, FS_CardinalityType DEF Results, ToolCount
<1>2. \A m \in MessageKinds : <<Message(m)>> \in Histories
  BY HistoryType
<1>3. <<Message("ask"), Message("result"), Message("answer")>> \in Histories
  <2>1. \A m \in MessageKinds :
            Message(m) \in [kind : MessageKinds, by : 0..(Len(Selected) + 1)]
    <3>1. pos \in 0..(Len(Selected) + 1)
      BY Config
    <3>. QED
      BY <3>1 DEF Message
  <2>. QED
    BY <2>1 DEF Histories, MessageKinds
<1>4. <<>> \in Histories /\ \A m \in MessageKinds : Append(messages, Message(m)) \in Histories
  BY HistoryType DEF MessageKinds
<1>5. steps' = steps + 1
  BY DEF Analyst, Run
<1>6. ASSUME GoogleAnswer PROVE StateOK'
  BY <1>0, <1>2, <1>5, <1>6, ReturnsType DEF GoogleAnswer, MessageKinds
<1>7. CASE Market
  BY <1>0, <1>2, <1>3, <1>5, <1>6, <1>7, ReturnsType DEF Market, MessageKinds, Texts
<1>8. CASE Social
  BY <1>0, <1>2, <1>5, <1>6, <1>8, ReturnsType DEF Social, MessageKinds, Texts
<1>9. CASE News
  BY <1>0, <1>2, <1>5, <1>9, ReturnsType DEF News, MessageKinds
<1>10. CASE Fundamentals
  <2>1. CASE google
    BY <1>0, <1>4, <1>5, <1>10, <2>1, ReturnsType DEF Fundamentals
  <2>2. CASE FundamentalsAsks
    <3>1. node' \in {"tools", "clear"} /\ UNCHANGED error
      BY <2>2 DEF FundamentalsAsks, Goto, should_continue
    <3>2. steps' \in Nat /\ node' \in Nodes
      BY <1>5, <3>1, Counters DEF Nodes, AnalystNodes
    <3>3. messages' \in Histories
      BY <1>4, <2>2 DEF FundamentalsAsks, MessageKinds
    <3>. QED
      BY <2>2, <3>1, <3>2, <3>3 DEF FundamentalsAsks, StateOK
  <2>3. CASE FundamentalsFallsBack
    BY <1>1, <1>2, <1>5, <2>3, ReturnsType DEF FundamentalsFallsBack, MessageKinds, Texts
  <2>4. CASE FundamentalsReports
    BY <1>1, <1>2, <1>4, <1>5, <2>4, ReturnsType DEF FundamentalsReports, MessageKinds
  <2>. QED
    BY <1>10, <2>1, <2>2, <2>3, <2>4 DEF Fundamentals
<1>. QED
  BY <1>7, <1>8, <1>9, <1>10 DEF Analyst

\* Every step keeps the types.
LEMMA TypeStep ==
    ASSUME StateOK, PhaseInv, [Next]_vars
    PROVE  StateOK'
<1>1. pos \in 1..(Len(Selected) + 1) /\ steps \in Nat /\ steps + 1 \in Nat
  BY Counters
<1>2. bullSaid + 1 \in Nat /\ bearSaid + 1 \in Nat
  BY Counters
<1>3. node \in {"start", "analyst", "tools", "clear"} =>
          pos \in 1..Len(Selected) /\ pos + 1 \in 1..(Len(Selected) + 1)
  <2>1. node \in {"start", "analyst", "tools", "clear"} => pos \in 1..Len(Selected)
    BY DEF PhaseInv, AnalystPhase, AnalystNodes
  <2>. QED
    BY <2>1, Config
<1>4. \A m \in MessageKinds : Append(messages, Message(m)) \in Histories
  BY HistoryType
<1>5. <<Human>> \in Histories
  BY HistoryType DEF MessageKinds
<1>23. retries < MaxRetries => retries + 1 \in 0..MaxRetries
  BY Counters DEF MaxRetries
<1>24. \A s \in RiskSpeakers : [riskSaid EXCEPT ![s] = @ + 1] \in [RiskSpeakers -> Nat]
  BY Counters
<1>22. CASE UNCHANGED vars
  BY <1>22 DEF vars, setup, StateOK
<1>. USE DEF Goto, Fail, Route, Run, Nodes, AnalystNodes, DebateNodes, RiskNodes, AfterDebate
<1>6. CASE Start
  <2>1. node' \in Nodes
    BY <1>6 DEF Start
  <2>2. error' \in {"none", "llm", "route", "recursion", "stream"}
    BY <1>6 DEF Start, StateOK
  <2>3. /\ pos' = pos /\ steps' = steps /\ messages' = messages
        /\ report' = report /\ calls' = calls
        /\ bullSaid' = bullSaid /\ bearSaid' = bearSaid
        /\ currentResponse' = currentResponse /\ riskSaid' = riskSaid
        /\ latestSpeaker' = latestSpeaker /\ investmentPlan' = investmentPlan
        /\ traderPlan' = traderPlan /\ judgedPlan' = judgedPlan
        /\ retries' = retries /\ decision' = decision
    BY <1>6 DEF Start, talk, debate, risk, verdict
  <2>. HIDE DEF Nodes
  <2>. QED
    BY <2>1, <2>2, <2>3 DEF StateOK
<1>7. CASE Analyst
  BY <1>3, <1>7, AnalystType DEF Analyst
<1>8. CASE Tools
  BY <1>1, <1>4, <1>8 DEF Tools, StateOK, MessageKinds
<1>9. CASE MsgClear
  <2>1. pos' \in 1..(Len(Selected) + 1)
    BY <1>3, <1>9 DEF MsgClear
  <2>. QED
    BY <1>1, <1>5, <1>9, <2>1 DEF MsgClear, StateOK
<1>10. CASE BullResearcher
  <2>1. node' \in Nodes /\ error' \in {error, "route"}
    BY <1>10 DEF BullResearcher, should_continue_debate
  <2>. QED
    BY <1>1, <1>2, <1>10, <2>1 DEF BullResearcher, StateOK
<1>11. CASE BearResearcher
  <2>1. node' \in Nodes /\ error' \in {error, "route"}
    BY <1>11 DEF BearResearcher, should_continue_debate
  <2>. QED
    BY <1>1, <1>2, <1>11, <2>1 DEF BearResearcher, StateOK
<1>12. CASE ResearchManager
  BY <1>1, <1>12 DEF ResearchManager, StateOK
<1>13. CASE Trader
  BY <1>1, <1>4, <1>13 DEF Trader, StateOK, MessageKinds
<1>14. ASSUME NEW s \in RiskSpeakers, NEW declared \in SUBSET Nodes,
              Argues(s, declared), steps' = steps + 1
       PROVE  StateOK'
  <2>1. node' \in Nodes /\ error' \in {error, "route"}
    BY <1>14 DEF Argues
  <2>2. riskSaid' \in [RiskSpeakers -> Nat]
    BY <1>14, <1>24 DEF Argues
  <2>. QED
    BY <1>1, <1>14, <2>1, <2>2 DEF Argues, StateOK
<1>15. CASE RiskyAnalyst
  BY <1>14, <1>15 DEF RiskyAnalyst, RiskSpeakers
<1>16. CASE SafeAnalyst
  BY <1>14, <1>16 DEF SafeAnalyst, RiskSpeakers
<1>17. CASE NeutralAnalyst
  BY <1>14, <1>17 DEF NeutralAnalyst, RiskSpeakers
<1>18. CASE JudgeRetries
  <2>1. retries' \in 0..MaxRetries
    BY <1>18, <1>23 DEF JudgeRetries
  <2>. QED
    BY <1>18, <2>1 DEF JudgeRetries, StateOK
<1>19. CASE RiskJudge
  <2>1. decision' \in {"none", "answer", "default"}
    BY <1>19 DEF RiskJudge
  <2>. QED
    BY <1>1, <1>19, <2>1 DEF RiskJudge, StateOK
<1>20. CASE CallRaises
  BY <1>20 DEF CallRaises, StateOK
<1>21. CASE OutOfSteps
  BY <1>21 DEF OutOfSteps, StateOK
<1>. QED
  BY <1>6, <1>7, <1>8, <1>9, <1>10, <1>11, <1>12, <1>13, <1>15, <1>16, <1>17,
     <1>18, <1>19, <1>20, <1>21, <1>22 DEF Next, RunNode

\* An analyst's node is followed by its tools or by the clearing of messages,
\* and touches nothing of the debates.
LEMMA AnalystFrame ==
    ASSUME Analyst
    PROVE  /\ node = "analyst" /\ node' \in {"tools", "clear"} /\ UNCHANGED error
           /\ UNCHANGED <<pos, debate, risk, traderPlan, verdict>>
<1>1. \A new, text, count : Returns(new, text, count) =>
          /\ node' \in {"tools", "clear"} /\ UNCHANGED error
          /\ UNCHANGED <<pos, debate, risk, traderPlan, verdict>>
  BY DEF Returns, Goto, should_continue
<1>2. FundamentalsAsks =>
          /\ node' \in {"tools", "clear"} /\ UNCHANGED error
          /\ UNCHANGED <<pos, debate, risk, traderPlan, verdict>>
  BY DEF FundamentalsAsks, Goto, should_continue
<1>. QED
  BY <1>1, <1>2 DEF Analyst, Run, Market, Social, News, Fundamentals, GoogleAnswer,
     FundamentalsFallsBack, FundamentalsReports

\* The routers, for what the state says when a speaker is done.
LEMMA Routing ==
    /\ \A c \in Nat :
          /\ c >= 2 * MaxDebateRounds =>
                \A s : should_continue_debate(c, s) = "Research Manager"
          /\ c < 2 * MaxDebateRounds =>
                /\ should_continue_debate(c, "Bull") = "Bear Researcher"
                /\ should_continue_debate(c, "Bear") = "Bull Researcher"
    /\ \A c \in Nat :
          /\ c >= 3 * MaxRiskRounds =>
                \A s : should_continue_risk_analysis(c, s) = "Risk Judge"
          /\ c < 3 * MaxRiskRounds =>
                /\ should_continue_risk_analysis(c, "Risky") = "Safe Analyst"
                /\ should_continue_risk_analysis(c, "Safe") = "Neutral Analyst"
                /\ should_continue_risk_analysis(c, "Neutral") = "Risky Analyst"
BY Config DEF should_continue_debate, should_continue_risk_analysis

\* Every step keeps what each node relies on.
LEMMA PhaseStep ==
    ASSUME StateOK, PhaseInv, [Next]_vars
    PROVE  PhaseInv'
<1>1. /\ bullSaid \in Nat /\ bearSaid \in Nat
      /\ riskSaid \in [RiskSpeakers -> Nat] /\ pos \in 1..(Len(Selected) + 1)
  BY Counters
<1>22. CASE UNCHANGED vars
  BY <1>22 DEF vars, setup, PhaseInv, AnalystPhase, DebatePhase, PlanPhase, RiskPhase, EndPhase
<1>. USE DEF Nodes, AnalystNodes, DebateNodes, RiskNodes, AfterDebate,
             AnalystPhase, DebatePhase, PlanPhase, RiskPhase, EndPhase
<1>2. ASSUME UNCHANGED <<pos, debate, risk, traderPlan, verdict>>,
             node' = "failed", error' # "none", error' # "route",
             node \notin {"end", "failed"}
      PROVE  PhaseInv'
  BY <1>2 DEF PhaseInv
<1>6. CASE Start
  BY <1>2, <1>6 DEF Start, Fail, Goto, PhaseInv
<1>7. CASE Analyst
  BY <1>7, AnalystFrame DEF PhaseInv
<1>8. CASE Tools
  BY <1>8 DEF Tools, Run, Goto, PhaseInv
<1>9. CASE MsgClear
  <2>0. pos \in 1..Len(Selected)
    BY <1>9 DEF MsgClear, Run, PhaseInv
  <2>1. \/ pos = Len(Selected) /\ ~ (pos < Len(Selected)) /\ pos + 1 = Len(Selected) + 1
        \/ pos < Len(Selected) /\ pos + 1 \in 1..Len(Selected)
    BY <2>0, Config
  <2>2. pos' = pos + 1 /\ node' = IF pos < Len(Selected) THEN "analyst" ELSE "Bull Researcher"
    BY <1>9 DEF MsgClear, Goto
  <2>3. UNCHANGED <<error, debate, risk, traderPlan, verdict>> /\ node = "clear"
    BY <1>9 DEF MsgClear, Goto, Run
  <2>4. bullSaid = 0 /\ bearSaid = 0 => bullSaid = bearSaid /\ bullSaid < MaxDebateRounds
    BY Config
  <2>. QED
    BY <2>1, <2>2, <2>3, <2>4 DEF PhaseInv
<1>10. CASE BullResearcher
  <2>1. /\ node = "Bull Researcher" /\ bullSaid' = bullSaid + 1 /\ currentResponse' = "Bull"
        /\ UNCHANGED <<pos, talk, bearSaid, investmentPlan, risk, traderPlan, verdict>>
    BY <1>10 DEF BullResearcher, Run
  <2>2. bullSaid = bearSaid /\ bullSaid < MaxDebateRounds /\ pos = Len(Selected) + 1
    BY <2>1 DEF PhaseInv
  <2>3. DebateCount + 1 \in Nat /\ DebateCount + 1 < 2 * MaxDebateRounds
    BY <1>1, <2>2, Config DEF DebateCount
  <2>4. should_continue_debate(DebateCount + 1, "Bull") = "Bear Researcher"
    BY <2>3, Routing
  <2>5. node' = "Bear Researcher" /\ UNCHANGED error
    BY <1>10, <2>4 DEF BullResearcher, Route, Goto
  <2>6. bullSaid' = bearSaid' + 1 /\ bullSaid' <= MaxDebateRounds
    <3>1. bullSaid' = bullSaid + 1 /\ bearSaid' = bearSaid
      BY <2>1
    <3>. QED
      BY <1>1, <2>2, <3>1, Config
  <2>. QED
    BY <2>1, <2>2, <2>5, <2>6 DEF PhaseInv
<1>11. CASE BearResearcher
  <2>1. /\ node = "Bear Researcher" /\ bearSaid' = bearSaid + 1 /\ currentResponse' = "Bear"
        /\ UNCHANGED <<pos, talk, bullSaid, investmentPlan, risk, traderPlan, verdict>>
    BY <1>11 DEF BearResearcher, Run
  <2>2. bullSaid = bearSaid + 1 /\ bullSaid <= MaxDebateRounds /\ pos = Len(Selected) + 1
    BY <2>1 DEF PhaseInv
  <2>3. CASE bullSaid < MaxDebateRounds
    <3>1. DebateCount + 1 \in Nat /\ DebateCount + 1 < 2 * MaxDebateRounds
      BY <1>1, <2>2, <2>3, Config DEF DebateCount
    <3>2. should_continue_debate(DebateCount + 1, "Bear") = "Bull Researcher"
      BY <3>1, Routing
    <3>3. node' = "Bull Researcher" /\ UNCHANGED error
      BY <1>11, <3>2 DEF BearResearcher, Route, Goto
    <3>4. bullSaid' = bearSaid' /\ bullSaid' < MaxDebateRounds /\ bullSaid' # 0
      <4>1. bearSaid' = bearSaid + 1 /\ bullSaid' = bullSaid
        BY <2>1
      <4>. QED
        BY <1>1, <2>2, <2>3, <4>1, Config
    <3>. QED
      BY <2>1, <2>2, <3>3, <3>4 DEF PhaseInv
  <2>4. CASE bullSaid = MaxDebateRounds
    <3>1. DebateCount + 1 \in Nat /\ DebateCount + 1 >= 2 * MaxDebateRounds
      BY <1>1, <2>2, <2>4, Config DEF DebateCount
    <3>2. should_continue_debate(DebateCount + 1, "Bear") = "Research Manager"
      BY <3>1, Routing
    <3>3. node' = "Research Manager" /\ UNCHANGED error
      BY <1>11, <3>2 DEF BearResearcher, Route, Goto
    <3>4. bullSaid' = MaxDebateRounds /\ bearSaid' = MaxDebateRounds
      BY <1>1, <2>1, <2>2, <2>4, Config
    <3>. QED
      BY <2>1, <2>2, <3>3, <3>4 DEF PhaseInv
  <2>. QED
    BY <1>1, <2>2, <2>3, <2>4, Config
<1>12. CASE ResearchManager
  BY <1>12 DEF ResearchManager, Run, Goto, PhaseInv
<1>13. CASE Trader
  <2>1. riskSaid["Risky"] = 0 /\ riskSaid["Safe"] = 0 /\ riskSaid["Neutral"] = 0
    BY <1>13 DEF Trader, Run, PhaseInv, RiskSpeakers
  <2>2. 0 < MaxRiskRounds
    BY Config
  <2>. QED
    BY <1>13, <2>1, <2>2 DEF Trader, Run, Goto, PhaseInv
<1>20. CASE CallRaises
  BY <1>2, <1>20 DEF CallRaises, Fail, Unguarded
<1>21. CASE OutOfSteps
  BY <1>2, <1>21 DEF OutOfSteps, Fail
<1>18. CASE JudgeRetries
  BY <1>18 DEF JudgeRetries, PhaseInv
<1>19. CASE RiskJudge
  <2>1. decision' # "none"
    BY <1>19 DEF RiskJudge
  <2>. QED
    BY <1>19, <2>1 DEF RiskJudge, Run, Goto, PhaseInv
<1>15. CASE RiskyAnalyst
  <2>1. /\ node = "Risky Analyst" /\ latestSpeaker' = "Risky"
        /\ riskSaid' = [riskSaid EXCEPT !["Risky"] = @ + 1]
        /\ UNCHANGED <<pos, talk, debate, traderPlan, verdict>>
    BY <1>15 DEF RiskyAnalyst, Argues, Run
  <2>2. /\ riskSaid'["Risky"] = riskSaid["Risky"] + 1
        /\ riskSaid'["Safe"] = riskSaid["Safe"] /\ riskSaid'["Neutral"] = riskSaid["Neutral"]
    BY <1>1, <2>1 DEF RiskSpeakers
  <2>3. /\ riskSaid["Safe"] = riskSaid["Risky"] /\ riskSaid["Neutral"] = riskSaid["Risky"]
        /\ riskSaid["Risky"] < MaxRiskRounds
    BY <2>1 DEF PhaseInv
  <2>4. RiskCount + 1 \in Nat /\ RiskCount + 1 < 3 * MaxRiskRounds /\ riskSaid["Risky"] \in Nat
    BY <1>1, <2>3, Config DEF RiskCount, RiskSpeakers
  <2>5. should_continue_risk_analysis(RiskCount + 1, "Risky") = "Safe Analyst"
    BY <2>4, Routing
  <2>6. node' = "Safe Analyst" /\ UNCHANGED error
    BY <1>15, <2>5 DEF RiskyAnalyst, Argues, Route, Goto
  <2>7. /\ riskSaid'["Risky"] = riskSaid'["Safe"] + 1 /\ riskSaid'["Neutral"] = riskSaid'["Safe"]
        /\ riskSaid'["Risky"] <= MaxRiskRounds
    BY <2>2, <2>3, <2>4, Config
  <2>. QED
    BY <2>1, <2>6, <2>7 DEF PhaseInv
<1>16. CASE SafeAnalyst
  <2>1. /\ node = "Safe Analyst" /\ latestSpeaker' = "Safe"
        /\ riskSaid' = [riskSaid EXCEPT !["Safe"] = @ + 1]
        /\ UNCHANGED <<pos, talk, debate, traderPlan, verdict>>
    BY <1>16 DEF SafeAnalyst, Argues, Run
  <2>2. /\ riskSaid'["Safe"] = riskSaid["Safe"] + 1
        /\ riskSaid'["Risky"] = riskSaid["Risky"] /\ riskSaid'["Neutral"] = riskSaid["Neutral"]
    BY <1>1, <2>1 DEF RiskSpeakers
  <2>3. /\ riskSaid["Risky"] = riskSaid["Safe"] + 1 /\ riskSaid["Neutral"] = riskSaid["Safe"]
        /\ riskSaid["Risky"] <= MaxRiskRounds
    BY <2>1 DEF PhaseInv
  <2>4. RiskCount + 1 \in Nat /\ RiskCount + 1 < 3 * MaxRiskRounds /\ riskSaid["Safe"] \in Nat
    BY <1>1, <2>3, Config DEF RiskCount, RiskSpeakers
  <2>5. should_continue_risk_analysis(RiskCount + 1, "Safe") = "Neutral Analyst"
    BY <2>4, Routing
  <2>6. node' = "Neutral Analyst" /\ UNCHANGED error
    BY <1>16, <2>5 DEF SafeAnalyst, Argues, Route, Goto
  <2>7. /\ riskSaid'["Risky"] = riskSaid'["Neutral"] + 1
        /\ riskSaid'["Safe"] = riskSaid'["Neutral"] + 1
        /\ riskSaid'["Risky"] <= MaxRiskRounds
    BY <2>2, <2>3, <2>4, Config
  <2>. QED
    BY <2>1, <2>6, <2>7 DEF PhaseInv
<1>17. CASE NeutralAnalyst
  <2>1. /\ node = "Neutral Analyst" /\ latestSpeaker' = "Neutral"
        /\ riskSaid' = [riskSaid EXCEPT !["Neutral"] = @ + 1]
        /\ UNCHANGED <<pos, talk, debate, traderPlan, verdict>>
    BY <1>17 DEF NeutralAnalyst, Argues, Run
  <2>2. /\ riskSaid'["Neutral"] = riskSaid["Neutral"] + 1
        /\ riskSaid'["Risky"] = riskSaid["Risky"] /\ riskSaid'["Safe"] = riskSaid["Safe"]
    BY <1>1, <2>1 DEF RiskSpeakers
  <2>3. /\ riskSaid["Risky"] = riskSaid["Neutral"] + 1
        /\ riskSaid["Safe"] = riskSaid["Neutral"] + 1
        /\ riskSaid["Risky"] <= MaxRiskRounds
    BY <2>1 DEF PhaseInv
  <2>4. riskSaid["Neutral"] \in Nat
    BY <1>1 DEF RiskSpeakers
  <2>5. CASE riskSaid["Risky"] < MaxRiskRounds
    <3>1. RiskCount + 1 \in Nat /\ RiskCount + 1 < 3 * MaxRiskRounds
      BY <2>3, <2>4, <2>5, Config DEF RiskCount
    <3>2. should_continue_risk_analysis(RiskCount + 1, "Neutral") = "Risky Analyst"
      BY <3>1, Routing
    <3>3. node' = "Risky Analyst" /\ UNCHANGED error
      BY <1>17, <3>2 DEF NeutralAnalyst, Argues, Route, Goto
    <3>4. /\ riskSaid'["Safe"] = riskSaid'["Risky"] /\ riskSaid'["Neutral"] = riskSaid'["Risky"]
          /\ riskSaid'["Risky"] < MaxRiskRounds /\ riskSaid'["Risky"] # 0
      BY <2>2, <2>3, <2>4, <2>5, Config
    <3>. QED
      BY <2>1, <3>3, <3>4 DEF PhaseInv
  <2>6. CASE riskSaid["Risky"] = MaxRiskRounds
    <3>1. RiskCount + 1 \in Nat /\ RiskCount + 1 >= 3 * MaxRiskRounds
      BY <2>3, <2>4, <2>6, Config DEF RiskCount
    <3>2. should_continue_risk_analysis(RiskCount + 1, "Neutral") = "Risk Judge"
      BY <3>1, Routing
    <3>3. node' = "Risk Judge" /\ UNCHANGED error
      BY <1>17, <3>2 DEF NeutralAnalyst, Argues, Route, Goto
    <3>4. \A s \in RiskSpeakers : riskSaid'[s] = MaxRiskRounds
      BY <2>2, <2>3, <2>4, <2>6, Config DEF RiskSpeakers
    <3>. QED
      BY <2>1, <3>3, <3>4 DEF PhaseInv
  <2>. QED
    BY <2>3, <2>4, <2>5, <2>6, Config
<1>. QED
  BY <1>6, <1>7, <1>8, <1>9, <1>10, <1>11, <1>12, <1>13, <1>15, <1>16, <1>17,
     <1>18, <1>19, <1>20, <1>21, <1>22 DEF Next, RunNode

LEMMA InitInv == Init => StateOK /\ PhaseInv
<1> SUFFICES ASSUME Init PROVE StateOK /\ PhaseInv
  OBVIOUS
<1>1. pos = 1 /\ 1 \in 1..Len(Selected) /\ 1 \in 1..(Len(Selected) + 1)
  BY Config DEF Init
<1>2. <<Human>> \in Histories
  <2>1. 0 \in 0..(Len(Selected) + 1)
    BY Config
  <2>. QED
    BY <2>1 DEF Human, Histories, MessageKinds
<1>3. retries \in 0..MaxRetries
  BY DEF Init, MaxRetries
<1>4. StateOK
  BY <1>1, <1>2, <1>3 DEF Init, StateOK, Nodes, Texts, RiskSpeakers
<1>5. PhaseInv
  BY <1>1 DEF Init, PhaseInv, AnalystPhase, DebatePhase, PlanPhase, RiskPhase, EndPhase,
     AnalystNodes, DebateNodes, RiskNodes, AfterDebate
<1>. QED
  BY <1>4, <1>5

LEMMA Invariance == Spec => [](StateOK /\ PhaseInv)
<1>1. StateOK /\ PhaseInv /\ [Next]_vars => (StateOK /\ PhaseInv)'
  BY TypeStep, PhaseStep
<1>. QED
  BY <1>1, InitInv, PTL DEF Spec

\* What the graph was built with stays as it is.
SetupOK == google \in BOOLEAN /\ recursionLimit \in RecursionLimits

LEMMA SetupFixed == Spec => []SetupOK
<1>1. Init => SetupOK
  BY DEF Init, SetupOK
<1>2. SetupOK /\ [Next]_vars => SetupOK'
  BY DEF SetupOK, Next, vars, setup
<1>. QED
  BY <1>1, <1>2, PTL DEF Spec

\* Whatever the models answer and wherever the run stops, its state is one
\* the readers of a finished or failed run expect.
THEOREM GraphTypes == Spec => []TypeOK
BY Invariance, SetupFixed, PTL DEF TypeOK, SetupOK

\* Every run that reaches the manager has heard both researchers exactly
\* MaxDebateRounds times, and one that reaches the judge each risk analyst
\* exactly MaxRiskRounds times.
THEOREM EveryoneHeard == Spec => []EqualHearing
<1>1. PhaseInv => EqualHearing
  BY DEF PhaseInv, DebatePhase, RiskPhase, EqualHearing
<1>. QED
  BY <1>1, Invariance, PTL

\* LangGraph is never handed a route its conditional edge does not declare.
THEOREM RoutesAreDeclared == Spec => []RoutesDeclared
<1>1. PhaseInv => RoutesDeclared
  BY DEF PhaseInv, EndPhase, RoutesDeclared
<1>. QED
  BY <1>1, Invariance, PTL

-----------------------------------------------------------------------------
(* The graph implements the agenda.                                        *)

LEMMA RefinementInit == Init => A!Init
BY Config DEF Init, A!Init, SpokenSoFar, LastSpeaker, Outcome, DebateCount, RiskCount,
   RiskSpeakers

\* The agenda's speakers, in the places the graph's counters give them.
LEMMA SpeakerAt ==
    /\ \A k \in 1..Len(Selected) : A!Speaker(k) = Selected[k] /\ k # A!Total
    /\ \A b \in Nat : b < MaxDebateRounds =>
          /\ A!Speaker(Len(Selected) + 2 * b + 1) = "Bull"
          /\ A!Speaker(Len(Selected) + 2 * b + 2) = "Bear"
          /\ Len(Selected) + 2 * b + 1 # A!Total /\ Len(Selected) + 2 * b + 2 # A!Total
    /\ A!Speaker(A!PlansFrom + 1) = "Research Manager" /\ A!PlansFrom + 1 # A!Total
    /\ A!Speaker(A!PlansFrom + 2) = "Trader" /\ A!PlansFrom + 2 # A!Total
    /\ \A r \in Nat : r < MaxRiskRounds =>
          /\ A!Speaker(A!RiskFrom + 3 * r + 1) = "Risky"
          /\ A!Speaker(A!RiskFrom + 3 * r + 2) = "Safe"
          /\ A!Speaker(A!RiskFrom + 3 * r + 3) = "Neutral"
          /\ A!RiskFrom + 3 * r + 1 # A!Total /\ A!RiskFrom + 3 * r + 2 # A!Total
          /\ A!RiskFrom + 3 * r + 3 # A!Total
    /\ A!Speaker(A!Total) = "Judge"
<1>. DEFINE N == Len(Selected)
            D == MaxDebateRounds
            R == MaxRiskRounds
<1>1. N \in Nat /\ D \in Nat /\ R \in Nat /\ N > 0 /\ D > 0 /\ R > 0
  BY Config
<1>2. /\ A!DebateFrom = N /\ A!PlansFrom = N + 2 * D /\ A!RiskFrom = N + 2 * D + 2
      /\ A!Total = N + 2 * D + 3 * R + 3
  BY <1>1 DEF A!DebateFrom, A!PlansFrom, A!RiskFrom, A!Total
<1>. HIDE DEF N, D, R
<1>3. ASSUME NEW k \in 1..N
      PROVE  A!Speaker(k) = Selected[k] /\ k # A!Total
  <2>1. k <= N /\ ~ (N < k) /\ k # A!Total /\ k # N + 2 * D + 1 /\ k # N + 2 * D + 2
        /\ ~ (N + 2 * D + 2 < k)
    BY <1>1, <1>2
  <2>. QED
    BY <1>2, <2>1 DEF A!Speaker
<1>4. ASSUME NEW b \in Nat, b < D
      PROVE  /\ A!Speaker(N + 2 * b + 1) = "Bull"
             /\ A!Speaker(N + 2 * b + 2) = "Bear"
             /\ N + 2 * b + 1 # A!Total /\ N + 2 * b + 2 # A!Total
  <2>1. ((N + 2 * b + 1) - N) % 2 = 1 /\ ((N + 2 * b + 2) - N) % 2 # 1
    BY <1>1, <1>4
  <2>2. /\ N < N + 2 * b + 1 /\ N + 2 * b + 1 <= N + 2 * D /\ N + 2 * b + 1 \in Nat
        /\ N < N + 2 * b + 2 /\ N + 2 * b + 2 <= N + 2 * D /\ N + 2 * b + 2 \in Nat
    BY <1>1, <1>4
  <2>. QED
    BY <1>1, <1>2, <1>4, <2>1, <2>2 DEF A!Speaker
<1>5. /\ A!Speaker(A!PlansFrom + 1) = "Research Manager" /\ A!PlansFrom + 1 # A!Total
      /\ A!Speaker(A!PlansFrom + 2) = "Trader" /\ A!PlansFrom + 2 # A!Total
  BY <1>1, <1>2 DEF A!Speaker
<1>6. ASSUME NEW r \in Nat, r < R
      PROVE  /\ A!Speaker(A!RiskFrom + 3 * r + 1) = "Risky"
             /\ A!Speaker(A!RiskFrom + 3 * r + 2) = "Safe"
             /\ A!Speaker(A!RiskFrom + 3 * r + 3) = "Neutral"
             /\ A!RiskFrom + 3 * r + 1 # A!Total /\ A!RiskFrom + 3 * r + 2 # A!Total
             /\ A!RiskFrom + 3 * r + 3 # A!Total
  <2>. DEFINE F == A!RiskFrom
  <2>1. F \in Nat /\ F = N + 2 * D + 2 /\ A!Total = F + 3 * R + 1 /\ A!PlansFrom + 2 = F
    BY <1>1, <1>2
  <2>2. /\ ((F + 3 * r + 1) - F) % 3 = 1 /\ ((F + 3 * r + 2) - F) % 3 = 2
        /\ ((F + 3 * r + 3) - F) % 3 = 0
    BY <1>6, <2>1
  <2>3. \A j \in 1..3 : F < F + 3 * r + j /\ F + 3 * r + j < A!Total /\ F + 3 * r + j \in Nat
    BY <1>1, <1>6, <2>1
  <2>4. ASSUME NEW k \in Nat, F < k, k < A!Total
        PROVE  /\ (k - F) % 3 = 1 => A!Speaker(k) = "Risky"
               /\ (k - F) % 3 = 2 => A!Speaker(k) = "Safe"
               /\ (k - F) % 3 = 0 => A!Speaker(k) = "Neutral"
    <3>1. /\ ~ (k <= A!DebateFrom) /\ ~ (k > A!DebateFrom /\ k <= A!PlansFrom)
          /\ k # A!PlansFrom + 1 /\ k # A!PlansFrom + 2
          /\ k > A!RiskFrom /\ k < A!Total
      BY <1>1, <1>2, <2>1, <2>4
    <3>. QED
      BY <3>1 DEF A!Speaker
  <2>. QED
    BY <2>2, <2>3, <2>4
<1>7. A!Speaker(A!Total) = "Judge"
  BY <1>1, <1>2 DEF A!Speaker
<1>. QED
  BY <1>3, <1>4, <1>5, <1>6, <1>7 DEF N, D, R

\* Every step of the graph is one speech, an abort or a stutter.
LEMMA RefinementStep ==
    ASSUME StateOK, PhaseInv, [Next]_vars
    PROVE  [A!Next]_<<SpokenSoFar, LastSpeaker, Outcome>>
<1>1. /\ bullSaid \in Nat /\ bearSaid \in Nat
      /\ riskSaid \in [RiskSpeakers -> Nat] /\ pos \in 1..(Len(Selected) + 1)
  BY Counters
<1>2. /\ riskSaid["Risky"] \in Nat /\ riskSaid["Safe"] \in Nat /\ riskSaid["Neutral"] \in Nat
  BY <1>1 DEF RiskSpeakers
<1>3. /\ A!DebateFrom = Len(Selected)
      /\ A!PlansFrom = Len(Selected) + 2 * MaxDebateRounds
      /\ A!RiskFrom = Len(Selected) + 2 * MaxDebateRounds + 2
      /\ A!Total = Len(Selected) + 2 * MaxDebateRounds + 3 * MaxRiskRounds + 3
  BY Config DEF A!DebateFrom, A!PlansFrom, A!RiskFrom, A!Total
\* The two ways a step shows in the agenda.
<1>4. ASSUME UNCHANGED <<pos, debate, risk, traderPlan, verdict, error>>
      PROVE  UNCHANGED <<SpokenSoFar, LastSpeaker, Outcome>>
  BY <1>4 DEF SpokenSoFar, LastSpeaker, Outcome, DebateCount, RiskCount
<1>5. ASSUME UNCHANGED <<pos, debate, risk, traderPlan, verdict>>,
             error = "none", error' # "none", decision = "none"
      PROVE  A!Next
  <2>1. UNCHANGED <<SpokenSoFar, LastSpeaker>>
    BY <1>5 DEF SpokenSoFar, LastSpeaker, DebateCount, RiskCount
  <2>2. Outcome = "running" /\ Outcome' = "aborted"
    BY <1>5 DEF Outcome
  <2>. QED
    BY <2>1, <2>2 DEF A!Next, A!Abort
<1>6. ASSUME NEW k \in Nat, SpokenSoFar = k, SpokenSoFar' = k + 1,
             LastSpeaker' = A!Speaker(k + 1), k + 1 # A!Total,
             error = "none", error' = "none", decision = "none", decision' = "none"
      PROVE  A!Next
  <2>1. Outcome = "running" /\ Outcome' = "running"
    BY <1>6 DEF Outcome
  <2>. QED
    BY <1>6, <2>1 DEF A!Next, A!Speak
<1>7. error = "none" <=> node # "failed"
  BY DEF PhaseInv, EndPhase
<1>8. node # "end" => decision = "none"
  BY DEF PhaseInv, EndPhase
<1>9. CASE UNCHANGED vars
  BY <1>4, <1>9 DEF vars, setup
<1>10. CASE Start
  BY <1>4, <1>5, <1>7, <1>8, <1>10 DEF Start, Fail, Goto
<1>11. CASE Analyst
  BY <1>4, <1>11, AnalystFrame
<1>12. CASE Tools
  BY <1>4, <1>12 DEF Tools, Goto
<1>13. CASE MsgClear
  <2>1. node = "clear" /\ pos' = pos + 1 /\ UNCHANGED <<error, debate, risk, traderPlan, verdict>>
    BY <1>13 DEF MsgClear, Goto, Run
  <2>2. /\ pos \in 1..Len(Selected) /\ bullSaid = 0 /\ bearSaid = 0 /\ currentResponse = "none"
        /\ investmentPlan = "none" /\ traderPlan = "none" /\ latestSpeaker = "none"
        /\ riskSaid["Risky"] = 0 /\ riskSaid["Safe"] = 0 /\ riskSaid["Neutral"] = 0
    BY <2>1 DEF PhaseInv, AnalystPhase, PlanPhase, RiskPhase, AnalystNodes, RiskSpeakers
  <2>3. DebateCount = 0 /\ RiskCount = 0 /\ DebateCount' = 0 /\ RiskCount' = 0
    BY <2>1, <2>2 DEF DebateCount, RiskCount
  <2>4. decision = "none" /\ error = "none"
    BY <2>1, <1>7, <1>8
  <2>5. SpokenSoFar = (pos - 1) /\ SpokenSoFar' = pos /\ pos - 1 \in Nat /\ pos' > 1
        /\ pos' - 1 = pos /\ (pos - 1) + 1 = pos
    <3>1. /\ SpokenSoFar = (pos - 1) + 0 + 0 + 0 + 0 + 0
          /\ SpokenSoFar' = ((pos + 1) - 1) + 0 + 0 + 0 + 0 + 0
      BY <2>1, <2>2, <2>3, <2>4 DEF SpokenSoFar
    <3>2. pos' = pos + 1
      BY <2>1
    <3>. QED
      BY <2>2, <3>1, <3>2, Config
  <2>6. LastSpeaker' = Selected[pos]
    BY <2>1, <2>2, <2>5 DEF LastSpeaker
  <2>7. A!Speaker(pos) = Selected[pos] /\ pos # A!Total
    BY <2>2, SpeakerAt
  <2>. QED
    BY <1>6, <2>1, <2>4, <2>5, <2>6, <2>7
<1>14. CASE BullResearcher
  <2>1. /\ node = "Bull Researcher" /\ bullSaid' = bullSaid + 1 /\ currentResponse' = "Bull"
        /\ UNCHANGED <<pos, talk, bearSaid, investmentPlan, risk, traderPlan, verdict>>
    BY <1>14 DEF BullResearcher, Run
  <2>2. bullSaid = bearSaid /\ bullSaid < MaxDebateRounds /\ pos = Len(Selected) + 1
    BY <2>1 DEF PhaseInv, DebatePhase, DebateNodes
  <2>3. /\ investmentPlan = "none" /\ traderPlan = "none" /\ latestSpeaker = "none"
        /\ riskSaid["Risky"] = 0 /\ riskSaid["Safe"] = 0 /\ riskSaid["Neutral"] = 0
    BY <2>1 DEF PhaseInv, PlanPhase, RiskPhase, DebateNodes, RiskSpeakers
  <2>4. decision = "none" /\ error = "none" /\ error' = "none"
    <3>1. node = "Bull Researcher" => node' # "failed"
      <4>1. DebateCount + 1 \in Nat /\ DebateCount + 1 < 2 * MaxDebateRounds
        BY <1>1, <2>2, Config DEF DebateCount
      <4>. QED
        BY <1>14, <4>1, Routing DEF BullResearcher, Route, Goto
    <3>2. error' = "none" <=> node' # "failed"
      BY PhaseStep DEF PhaseInv, EndPhase
    <3>. QED
      BY <2>1, <3>1, <3>2, <1>7, <1>8
  <2>5. RiskCount = 0 /\ RiskCount' = 0 /\ DebateCount = bullSaid + bearSaid
        /\ DebateCount' = bullSaid + 1 + bearSaid
    <3>1. riskSaid' = riskSaid /\ bearSaid' = bearSaid /\ bullSaid' = bullSaid + 1
      BY <2>1
    <3>. QED
      BY <2>3, <3>1 DEF DebateCount, RiskCount
  <2>6. /\ SpokenSoFar = (pos - 1) + (bullSaid + bearSaid) + 0 + 0 + 0 + 0
        /\ SpokenSoFar' = (pos - 1) + (bullSaid + 1 + bearSaid) + 0 + 0 + 0 + 0
    BY <2>1, <2>3, <2>4, <2>5 DEF SpokenSoFar
  <2>7. /\ SpokenSoFar = Len(Selected) + 2 * bullSaid
        /\ SpokenSoFar' = (Len(Selected) + 2 * bullSaid) + 1
        /\ Len(Selected) + 2 * bullSaid \in Nat
    BY <1>1, <2>2, <2>6, Config
  <2>8. LastSpeaker' = "Bull"
    BY <2>1, <2>3 DEF LastSpeaker
  <2>9. /\ A!Speaker((Len(Selected) + 2 * bullSaid) + 1) = "Bull"
        /\ (Len(Selected) + 2 * bullSaid) + 1 # A!Total
    BY <1>1, <2>2, SpeakerAt
  <2>10. decision' = "none"
    BY <2>1, <2>4
  <2>. QED
    BY <1>6, <2>4, <2>7, <2>8, <2>9, <2>10
<1>15. CASE BearResearcher
  <2>1. /\ node = "Bear Researcher" /\ bearSaid' = bearSaid + 1 /\ currentResponse' = "Bear"
        /\ UNCHANGED <<pos, talk, bullSaid, investmentPlan, risk, traderPlan, verdict>>
    BY <1>15 DEF BearResearcher, Run
  <2>2. bullSaid = bearSaid + 1 /\ bullSaid <= MaxDebateRounds /\ pos = Len(Selected) + 1
    BY <2>1 DEF PhaseInv, DebatePhase, DebateNodes
  <2>3. /\ investmentPlan = "none" /\ traderPlan = "none" /\ latestSpeaker = "none"
        /\ riskSaid["Risky"] = 0 /\ riskSaid["Safe"] = 0 /\ riskSaid["Neutral"] = 0
    BY <2>1 DEF PhaseInv, PlanPhase, RiskPhase, DebateNodes, RiskSpeakers
  <2>4. decision = "none" /\ error = "none" /\ error' = "none"
    <3>1. node' # "failed"
      <4>1. DebateCount + 1 \in Nat
        BY <1>1 DEF DebateCount
      <4>2. should_continue_debate(DebateCount + 1, "Bear")
              \in {"Bull Researcher", "Research Manager"}
        <5>1. DebateCount + 1 >= 2 * MaxDebateRounds \/ DebateCount + 1 < 2 * MaxDebateRounds
          BY <4>1, Config
        <5>. QED
          BY <4>1, <5>1, Routing
      <4>. QED
        BY <1>15, <4>2 DEF BearResearcher, Route, Goto
    <3>2. error' = "none" <=> node' # "failed"
      BY PhaseStep DEF PhaseInv, EndPhase
    <3>. QED
      BY <2>1, <3>1, <3>2, <1>7, <1>8
  <2>5. RiskCount = 0 /\ RiskCount' = 0 /\ DebateCount = bullSaid + bearSaid
        /\ DebateCount' = bullSaid + (bearSaid + 1)
    <3>1. riskSaid' = riskSaid /\ bullSaid' = bullSaid /\ bearSaid' = bearSaid + 1
      BY <2>1
    <3>. QED
      BY <2>3, <3>1 DEF DebateCount, RiskCount
  <2>6. /\ SpokenSoFar = (pos - 1) + (bullSaid + bearSaid) + 0 + 0 + 0 + 0
        /\ SpokenSoFar' = (pos - 1) + (bullSaid + (bearSaid + 1)) + 0 + 0 + 0 + 0
    BY <2>1, <2>3, <2>4, <2>5 DEF SpokenSoFar
  <2>7. /\ SpokenSoFar = Len(Selected) + 2 * bearSaid + 1
        /\ SpokenSoFar' = (Len(Selected) + 2 * bearSaid + 1) + 1
        /\ Len(Selected) + 2 * bearSaid + 1 \in Nat
        /\ (Len(Selected) + 2 * bearSaid + 1) + 1 = Len(Selected) + 2 * bearSaid + 2
    BY <1>1, <2>2, <2>6, Config
  <2>8. LastSpeaker' = "Bear"
    BY <2>1, <2>3 DEF LastSpeaker
  <2>9. /\ A!Speaker(Len(Selected) + 2 * bearSaid + 2) = "Bear"
        /\ Len(Selected) + 2 * bearSaid + 2 # A!Total
    <3>1. bearSaid < MaxDebateRounds
      BY <1>1, <2>2, Config
    <3>. QED
      BY <1>1, <3>1, SpeakerAt
  <2>10. decision' = "none"
    BY <2>1, <2>4
  <2>. QED
    BY <1>6, <2>4, <2>7, <2>8, <2>9, <2>10
<1>16. CASE ResearchManager
  <2>1. /\ node = "Research Manager" /\ investmentPlan' = "Research Manager"
        /\ currentResponse' = "Research Manager"
        /\ UNCHANGED <<pos, bullSaid, bearSaid, risk, traderPlan, verdict, error>>
    BY <1>16 DEF ResearchManager, Run, Goto
  <2>2. bullSaid = MaxDebateRounds /\ bearSaid = MaxDebateRounds /\ pos = Len(Selected) + 1
    BY <2>1 DEF PhaseInv, DebatePhase, AfterDebate
  <2>3. /\ investmentPlan = "none" /\ traderPlan = "none" /\ latestSpeaker = "none"
        /\ riskSaid["Risky"] = 0 /\ riskSaid["Safe"] = 0 /\ riskSaid["Neutral"] = 0
    BY <2>1 DEF PhaseInv, PlanPhase, RiskPhase, RiskSpeakers
  <2>4. decision = "none" /\ error = "none" /\ error' = "none" /\ decision' = "none"
    BY <2>1, <1>7, <1>8
  <2>5. RiskCount = 0 /\ RiskCount' = 0 /\ DebateCount = bullSaid + bearSaid
        /\ DebateCount' = bullSaid + bearSaid
    <3>1. riskSaid' = riskSaid /\ bullSaid' = bullSaid /\ bearSaid' = bearSaid
      BY <2>1
    <3>. QED
      BY <2>3, <3>1 DEF DebateCount, RiskCount
  <2>6. /\ SpokenSoFar = (pos - 1) + (bullSaid + bearSaid) + 0 + 0 + 0 + 0
        /\ SpokenSoFar' = (pos - 1) + (bullSaid + bearSaid) + 0 + 1 + 0 + 0
    BY <2>1, <2>3, <2>4, <2>5 DEF SpokenSoFar
  <2>7. SpokenSoFar = A!PlansFrom /\ SpokenSoFar' = A!PlansFrom + 1 /\ A!PlansFrom \in Nat
    BY <1>3, <2>2, <2>6, Config
  <2>8. LastSpeaker' = "Research Manager"
    BY <2>1, <2>3 DEF LastSpeaker
  <2>. QED
    BY <1>6, <2>4, <2>7, <2>8, SpeakerAt
<1>17. CASE Trader
  <2>1. /\ node = "Trader" /\ traderPlan' = "Trader"
        /\ UNCHANGED <<pos, debate, risk, verdict, error>>
    BY <1>17 DEF Trader, Run, Goto
  <2>2. bullSaid = MaxDebateRounds /\ bearSaid = MaxDebateRounds /\ pos = Len(Selected) + 1
    BY <2>1 DEF PhaseInv, DebatePhase, AfterDebate
  <2>3. /\ investmentPlan # "none" /\ traderPlan = "none" /\ latestSpeaker = "none"
        /\ riskSaid["Risky"] = 0 /\ riskSaid["Safe"] = 0 /\ riskSaid["Neutral"] = 0
    BY <2>1 DEF PhaseInv, PlanPhase, RiskPhase, RiskSpeakers
  <2>4. decision = "none" /\ error = "none" /\ error' = "none" /\ decision' = "none"
    BY <2>1, <1>7, <1>8
  <2>5. RiskCount = 0 /\ RiskCount' = 0 /\ DebateCount = bullSaid + bearSaid
        /\ DebateCount' = bullSaid + bearSaid
    <3>1. riskSaid' = riskSaid /\ bullSaid' = bullSaid /\ bearSaid' = bearSaid
      BY <2>1
    <3>. QED
      BY <2>3, <3>1 DEF DebateCount, RiskCount
  <2>6. /\ SpokenSoFar = (pos - 1) + (bullSaid + bearSaid) + 0 + 1 + 0 + 0
        /\ SpokenSoFar' = (pos - 1) + (bullSaid + bearSaid) + 0 + 1 + 1 + 0
    BY <2>1, <2>3, <2>4, <2>5 DEF SpokenSoFar
  <2>7. /\ SpokenSoFar = A!PlansFrom + 1 /\ SpokenSoFar' = (A!PlansFrom + 1) + 1
        /\ A!PlansFrom + 1 \in Nat /\ (A!PlansFrom + 1) + 1 = A!PlansFrom + 2
    BY <1>3, <2>2, <2>6, Config
  <2>8. LastSpeaker' = "Trader"
    BY <2>1, <2>3 DEF LastSpeaker
  <2>. QED
    BY <1>6, <2>4, <2>7, <2>8, SpeakerAt
\* The three risk analysts, with what their turns have in common.
<1>18. ASSUME node \in RiskNodes
       PROVE  /\ decision = "none" /\ error = "none"
              /\ investmentPlan # "none" /\ traderPlan # "none"
              /\ bullSaid = MaxDebateRounds /\ bearSaid = MaxDebateRounds
              /\ pos = Len(Selected) + 1
              /\ SpokenSoFar = A!RiskFrom + RiskCount
  <2>1. /\ investmentPlan # "none" /\ traderPlan # "none"
        /\ bullSaid = MaxDebateRounds /\ bearSaid = MaxDebateRounds /\ pos = Len(Selected) + 1
    BY <1>18 DEF PhaseInv, DebatePhase, PlanPhase, AfterDebate
  <2>2. decision = "none" /\ error = "none"
    BY <1>18, <1>7, <1>8 DEF RiskNodes
  <2>3. SpokenSoFar = (pos - 1) + (bullSaid + bearSaid) + RiskCount + 1 + 1 + 0
    BY <2>1, <2>2 DEF SpokenSoFar, DebateCount
  <2>4. RiskCount \in Nat
    BY <1>2 DEF RiskCount
  <2>. QED
    BY <1>3, <2>1, <2>2, <2>3, <2>4, Config
<1>19. ASSUME NEW s \in RiskSpeakers, NEW declared, Argues(s, declared), node \in RiskNodes,
              A!Speaker((A!RiskFrom + RiskCount) + 1) = s,
              (A!RiskFrom + RiskCount) + 1 # A!Total
       PROVE  A!Next
  <2>1. /\ UNCHANGED <<pos, debate, traderPlan, verdict>> /\ latestSpeaker' = s
        /\ riskSaid' = [riskSaid EXCEPT ![s] = @ + 1]
    BY <1>19 DEF Argues
  <2>2. RiskCount' = RiskCount + 1 /\ RiskCount \in Nat
    <3>1. /\ s \in {"Risky", "Safe", "Neutral"}
          /\ \A t \in {"Risky", "Safe", "Neutral"} :
                riskSaid'[t] = IF t = s THEN riskSaid[t] + 1 ELSE riskSaid[t]
      BY <1>1, <2>1 DEF RiskSpeakers
    <3>. QED
      BY <1>2, <3>1 DEF RiskCount
  <2>3. error' = "none"
    <3>1. error' \in {error, "route"}
      BY <1>19 DEF Argues, Route, Goto, Fail
    <3>2. error' # "route"
      BY PhaseStep DEF PhaseInv, EndPhase
    <3>. QED
      BY <1>18, <1>19, <3>1, <3>2
  <2>4. SpokenSoFar' = (A!RiskFrom + RiskCount) + 1 /\ A!RiskFrom + RiskCount \in Nat
    <3>1. SpokenSoFar' = (pos - 1) + (bullSaid + bearSaid) + (RiskCount + 1) + 1 + 1 + 0
      BY <1>18, <1>19, <2>1, <2>2 DEF SpokenSoFar, DebateCount
    <3>. QED
      BY <1>3, <1>18, <1>19, <2>2, <3>1, Config
  <2>5. LastSpeaker' = s /\ decision' = "none"
    BY <1>18, <1>19, <2>1 DEF LastSpeaker, RiskSpeakers
  <2>. QED
    BY <1>6, <1>18, <1>19, <2>3, <2>4, <2>5
<1>20. CASE RiskyAnalyst
  <2>1. node = "Risky Analyst" /\ Argues("Risky", {"Safe Analyst", "Risk Judge"})
    BY <1>20 DEF RiskyAnalyst, Run
  <2>2. /\ riskSaid["Safe"] = riskSaid["Risky"] /\ riskSaid["Neutral"] = riskSaid["Risky"]
        /\ riskSaid["Risky"] < MaxRiskRounds
    BY <2>1 DEF PhaseInv, RiskPhase
  <2>3. (A!RiskFrom + RiskCount) + 1 = A!RiskFrom + 3 * riskSaid["Risky"] + 1
    BY <1>2, <1>3, <2>2, Config DEF RiskCount
  <2>. QED
    BY <1>2, <1>19, <2>1, <2>2, <2>3, SpeakerAt DEF RiskNodes, RiskSpeakers
<1>21. CASE SafeAnalyst
  <2>1. node = "Safe Analyst" /\ Argues("Safe", {"Neutral Analyst", "Risk Judge"})
    BY <1>21 DEF SafeAnalyst, Run
  <2>2. /\ riskSaid["Risky"] = riskSaid["Safe"] + 1 /\ riskSaid["Neutral"] = riskSaid["Safe"]
        /\ riskSaid["Risky"] <= MaxRiskRounds
    BY <2>1 DEF PhaseInv, RiskPhase
  <2>3. /\ (A!RiskFrom + RiskCount) + 1 = A!RiskFrom + 3 * riskSaid["Safe"] + 2
        /\ riskSaid["Safe"] < MaxRiskRounds
    <3>1. RiskCount = 3 * riskSaid["Safe"] + 1
      BY <1>2, <2>2 DEF RiskCount
    <3>2. A!RiskFrom \in Nat
      BY <1>3, Config
    <3>3. riskSaid["Safe"] < MaxRiskRounds
      BY <1>2, <2>2, Config
    <3>4. riskSaid["Safe"] \in Nat
      BY <1>2
    <3>5. \A m, c, r \in Nat :
             c = 3 * r + 1 => (m + c) + 1 = m + 3 * r + 2
      OBVIOUS
    <3>6. RiskCount \in Nat
      BY <3>1, <3>4
    <3>. QED
      BY <3>1, <3>2, <3>3, <3>4, <3>5, <3>6
  <2>. QED
    BY <1>2, <1>19, <2>1, <2>2, <2>3, SpeakerAt DEF RiskNodes, RiskSpeakers
<1>22. CASE NeutralAnalyst
  <2>1. node = "Neutral Analyst" /\ Argues("Neutral", {"Risky Analyst", "Risk Judge"})
    BY <1>22 DEF NeutralAnalyst, Run
  <2>2. /\ riskSaid["Risky"] = riskSaid["Neutral"] + 1
        /\ riskSaid["Safe"] = riskSaid["Neutral"] + 1
        /\ riskSaid["Risky"] <= MaxRiskRounds
    BY <2>1 DEF PhaseInv, RiskPhase
  <2>3. /\ (A!RiskFrom + RiskCount) + 1 = A!RiskFrom + 3 * riskSaid["Neutral"] + 3
        /\ riskSaid["Neutral"] < MaxRiskRounds
    <3>1. RiskCount = 3 * riskSaid["Neutral"] + 2
      BY <1>2, <2>2 DEF RiskCount
    <3>2. A!RiskFrom \in Nat
      BY <1>3, Config
    <3>. QED
      BY <1>2, <2>2, <3>1, <3>2, Config
  <2>. QED
    BY <1>2, <1>19, <2>1, <2>2, <2>3, SpeakerAt DEF RiskNodes, RiskSpeakers
<1>23. CASE JudgeRetries
  <2>1. UNCHANGED <<SpokenSoFar, LastSpeaker, Outcome>>
    BY <1>23 DEF JudgeRetries, SpokenSoFar, LastSpeaker, Outcome, DebateCount, RiskCount
  <2>. QED
    BY <2>1
<1>24. CASE RiskJudge
  <2>1. /\ node = "Risk Judge" /\ latestSpeaker' = "Judge" /\ decision' # "none"
        /\ UNCHANGED <<pos, debate, riskSaid, traderPlan, error>>
    BY <1>24 DEF RiskJudge, Run, Goto
  <2>2. /\ investmentPlan # "none" /\ traderPlan # "none"
        /\ bullSaid = MaxDebateRounds /\ bearSaid = MaxDebateRounds /\ pos = Len(Selected) + 1
    BY <2>1 DEF PhaseInv, DebatePhase, PlanPhase, AfterDebate
  <2>3. /\ riskSaid["Risky"] = MaxRiskRounds /\ riskSaid["Safe"] = MaxRiskRounds
        /\ riskSaid["Neutral"] = MaxRiskRounds
    BY <2>1 DEF PhaseInv, RiskPhase, RiskSpeakers
  <2>4. decision = "none" /\ error = "none"
    BY <2>1, <1>7, <1>8
  <2>5. DebateCount = bullSaid + bearSaid /\ DebateCount' = bullSaid + bearSaid
        /\ RiskCount' = RiskCount
        /\ RiskCount = riskSaid["Risky"] + riskSaid["Safe"] + riskSaid["Neutral"]
    BY <2>1 DEF DebateCount, RiskCount
  <2>6. /\ SpokenSoFar = (pos - 1) + (bullSaid + bearSaid) + RiskCount + 1 + 1 + 0
        /\ SpokenSoFar' = (pos - 1) + (bullSaid + bearSaid) + RiskCount + 1 + 1 + 1
    BY <2>1, <2>2, <2>4, <2>5 DEF SpokenSoFar
  <2>7. SpokenSoFar + 1 = A!Total /\ SpokenSoFar' = SpokenSoFar + 1
    BY <1>2, <1>3, <2>2, <2>3, <2>5, <2>6, Config
  <2>8. LastSpeaker' = "Judge"
    BY <2>1 DEF LastSpeaker
  <2>9. Outcome = "running" /\ Outcome' = "decided"
    BY <2>1, <2>4 DEF Outcome
  <2>. QED
    BY <2>7, <2>8, <2>9, SpeakerAt DEF A!Next, A!Speak
<1>25. CASE CallRaises
  <2>1. error = "none" /\ decision = "none"
    BY <1>25, <1>7, <1>8 DEF CallRaises, Unguarded
  <2>. QED
    BY <1>5, <1>25, <2>1 DEF CallRaises, Fail
<1>26. CASE OutOfSteps
  <2>1. error = "none" /\ decision = "none"
    BY <1>26, <1>7, <1>8 DEF OutOfSteps
  <2>. QED
    BY <1>5, <1>26, <2>1 DEF OutOfSteps, Fail
<1>. QED
  BY <1>9, <1>10, <1>11, <1>12, <1>13, <1>14, <1>15, <1>16, <1>17, <1>20, <1>21, <1>22,
     <1>23, <1>24, <1>25, <1>26 DEF Next, RunNode

\* The graph implements Agenda: whatever the tool loops do, the agents speak
\* in the published order, each its configured number of times.
THEOREM ImplementsAgenda == Spec => KeepsAgenda
<1>1. StateOK /\ PhaseInv /\ [Next]_vars => [A!Next]_<<SpokenSoFar, LastSpeaker, Outcome>>
  BY RefinementStep
<1>. QED
  BY <1>1, Invariance, RefinementInit, PTL DEF Spec, KeepsAgenda, A!Spec

-----------------------------------------------------------------------------
(* The tool loops                                                          *)

LoopsOK == HistoryInv /\ LoopInv

\* Where in the agenda an analyst's node stands.
LEMMA AtWork ==
    ASSUME StateOK, PhaseInv, node \in {"start", "analyst", "tools", "clear"}
    PROVE  pos \in 1..Len(Selected) /\ pos \in Nat /\ calls[pos] \in Nat /\ steps \in Nat
<1>1. pos \in 1..Len(Selected)
  BY DEF PhaseInv, AnalystPhase, AnalystNodes
<1>. QED
  BY <1>1, Counters, Config

\* Market, social and news count every visit.
LEMMA CountingVisit ==
    ASSUME StateOK, pos \in 1..Len(Selected), Len(messages) >= 1,
           Analyst, Selected[pos] # "fundamentals"
    PROVE  /\ Len(messages') >= 1 /\ pos' = pos /\ steps' = steps + 1
           /\ calls' = [calls EXCEPT ![pos] = calls[pos] + 1]
           /\ node' = "tools" => calls[pos] + 1 < 3
<1>0. messages \in Seq([kind : MessageKinds, by : 0..(Len(Selected) + 1)])
  BY DEF StateOK, Histories
<1>1. \E new \in Histories, text \in Texts :
          Returns(new, text, calls[pos] + 1)
  <2>1. \A m \in {"ask", "answer"} : <<Message(m)>> \in Histories
    BY HistoryType DEF MessageKinds
  <2>2. <<Message("ask"), Message("result"), Message("answer")>> \in Histories
    <3>1. pos \in 0..(Len(Selected) + 1)
      BY Config
    <3>2. \A m \in MessageKinds :
              Message(m) \in [kind : MessageKinds, by : 0..(Len(Selected) + 1)]
      BY <3>1 DEF Message
    <3>. QED
      BY <3>2 DEF Histories, MessageKinds
  <2>3. CASE Market
    <3>1. GoogleAnswer => \E m \in {"ask", "answer"}, text \in Texts :
              Returns(<<Message(m)>>, text, calls[pos] + 1)
      BY DEF GoogleAnswer
    <3>. QED
      BY <2>1, <2>2, <2>3, <3>1 DEF Market, Texts
  <2>4. CASE Social
    <3>1. GoogleAnswer => \E m \in {"ask", "answer"}, text \in Texts :
              Returns(<<Message(m)>>, text, calls[pos] + 1)
      BY DEF GoogleAnswer
    <3>. QED
      BY <2>1, <2>4, <3>1 DEF Social, Texts
  <2>5. CASE News
    BY <2>1, <2>5 DEF News
  <2>. QED
    BY <2>3, <2>4, <2>5 DEF Analyst
<1>2. PICK new \in Histories, text \in Texts :
          Returns(new, text, calls[pos] + 1)
  BY <1>1
<1>3. messages' = messages \o new /\ pos' = pos
      /\ calls' = [calls EXCEPT ![pos] = calls[pos] + 1]
  BY <1>2 DEF Returns
<1>4. Len(messages') >= 1
  BY <1>0, <1>2, <1>3 DEF Histories
<1>5. node' = "tools" => calls[pos] + 1 < 3
  BY <1>2 DEF Returns, Goto, should_continue, MaxToolCalls
<1>6. steps' = steps + 1
  BY DEF Analyst, Run
<1>. QED
  BY <1>3, <1>4, <1>5, <1>6

\* Fundamentals goes to its tool only while the history holds no result.
LEMMA FundamentalsVisit ==
    ASSUME StateOK, pos \in 1..Len(Selected), Len(messages) >= 1,
           messages[Len(messages)].kind # "ask", calls[pos] = 0,
           Analyst, Selected[pos] = "fundamentals"
    PROVE  /\ Len(messages') >= 1 /\ pos' = pos /\ steps' = steps + 1
           /\ \A i \in 1..Len(Selected) : i # pos => calls'[i] = calls[i]
           /\ node' = "tools" =>
                 /\ calls' = calls
                 /\ ~ \E i \in 1..Len(messages) : messages[i].kind = "result"
<1>0. /\ messages \in Seq([kind : MessageKinds, by : 0..(Len(Selected) + 1)])
      /\ calls \in [1..Len(Selected) -> Nat]
  BY DEF StateOK, Histories
<1>1. steps' = steps + 1 /\ Fundamentals
  BY DEF Analyst, Run
<1>2. \A text, count : Returns(<<>>, text, count) =>
          /\ Len(messages') >= 1 /\ pos' = pos /\ node' = "clear"
          /\ \A i \in 1..Len(Selected) : i # pos => calls'[i] = calls[i]
  <2>1. messages \o <<>> = messages
    BY <1>0
  <2>. QED
    BY <1>0, <2>1 DEF Returns, Goto, should_continue
<1>3. \A text, count : Returns(<<Message("answer")>>, text, count) =>
          /\ Len(messages') >= 1 /\ pos' = pos /\ node' = "clear"
          /\ \A i \in 1..Len(Selected) : i # pos => calls'[i] = calls[i]
  <2>1. /\ Len(messages \o <<Message("answer")>>) = Len(messages) + 1
        /\ (messages \o <<Message("answer")>>)[Len(messages) + 1] = Message("answer")
    BY <1>0
  <2>2. Message("answer").kind # "ask"
    BY DEF Message
  <2>. QED
    BY <1>0, <2>1, <2>2 DEF Returns, Goto, should_continue
<1>4. FundamentalsAsks =>
          /\ Len(messages') >= 1 /\ pos' = pos /\ calls' = calls /\ Results = 0
  BY <1>0 DEF FundamentalsAsks
<1>5. Results = 0 => ~ \E i \in 1..Len(messages) : messages[i].kind = "result"
  <2>1. IsFiniteSet({i \in 1..Len(messages) : messages[i].kind = "result"})
    <3>1. Len(messages) \in Nat
      BY <1>0
    <3>2. IsFiniteSet(1..Len(messages))
      BY <3>1, FS_Interval
    <3>. QED
      BY <3>2, FS_Subset
  <2>2. Results = 0 => {i \in 1..Len(messages) : messages[i].kind = "result"} = {}
    BY <2>1, FS_EmptySet DEF Results
  <2>3. ASSUME NEW i \in 1..Len(messages), messages[i].kind = "result"
        PROVE  {j \in 1..Len(messages) : messages[j].kind = "result"} # {}
    BY <2>3, Zenon
  <2>. QED
    BY <2>2, <2>3, Zenon
<1>6. ~ FundamentalsFallsBack
  BY DEF FundamentalsFallsBack, ToolCount, MaxToolCalls
<1>. QED
  BY <1>1, <1>2, <1>3, <1>4, <1>5, <1>6 DEF Fundamentals, FundamentalsReports

\* Every step keeps what the tool loops rely on.
LEMMA HistoryStep ==
    ASSUME StateOK, PhaseInv, LoopsOK, [Next]_vars
    PROVE  HistoryInv'
<1>1. Len(messages) >= 1 /\ messages \in Histories /\ Len(messages) \in Nat
  BY Counters DEF LoopsOK, HistoryInv, Histories
<1>2. CASE UNCHANGED vars
  <2>1. /\ node' = node /\ pos' = pos /\ steps' = steps
        /\ messages' = messages /\ calls' = calls
    BY <1>2 DEF vars, setup
  <2>. QED
    BY <2>1 DEF LoopsOK, HistoryInv, RequestsAnswered
<1>3. ASSUME Len(messages') >= 1, node' \notin {"start", "analyst", "tools"}
      PROVE  HistoryInv'
  BY <1>3 DEF HistoryInv, RequestsAnswered
<1>4. CASE Start
  <2>1. /\ node = "start" /\ node' \in {"failed", "analyst"}
        /\ pos' = pos /\ steps' = steps /\ messages' = messages /\ calls' = calls
    BY <1>4 DEF Start, Goto, Fail
  <2>2. pos = 1 /\ steps = 0 /\ messages = <<Human>>
    BY <2>1 DEF LoopsOK, HistoryInv, LoopInv
  <2>3. steps <= 6 * (pos - 1) /\ messages[Len(messages)].kind # "ask"
    BY <2>2 DEF Human
  <2>4. Selected[pos] = "fundamentals" => calls[pos] = 0
    BY <2>1 DEF LoopsOK, HistoryInv
  <2>. QED
    BY <1>1, <2>1, <2>3, <2>4 DEF HistoryInv, RequestsAnswered
<1>5. CASE Analyst
  <2>1. node = "analyst" /\ node' \in {"tools", "clear"}
    BY <1>5, AnalystFrame
  <2>2. pos \in 1..Len(Selected)
    BY <2>1, AtWork
  <2>3. messages[Len(messages)].kind # "ask"
    BY <2>1 DEF LoopsOK, HistoryInv, RequestsAnswered
  <2>4. CASE Selected[pos] = "fundamentals"
    <3>1. calls[pos] = 0
      BY <2>1, <2>4 DEF LoopsOK, HistoryInv
    <3>2. Len(messages') >= 1 /\ pos' = pos /\ (node' = "tools" => calls' = calls)
      BY <1>1, <1>5, <2>2, <2>3, <2>4, <3>1, FundamentalsVisit
    <3>. QED
      BY <2>1, <3>1, <3>2 DEF HistoryInv, RequestsAnswered
  <2>5. CASE Selected[pos] # "fundamentals"
    <3>1. Len(messages') >= 1 /\ pos' = pos
      BY <1>1, <1>5, <2>2, <2>5, CountingVisit
    <3>. QED
      BY <2>1, <2>5, <3>1 DEF HistoryInv, RequestsAnswered
  <2>. QED
    BY <2>4, <2>5
<1>6. CASE Tools
  <2>1. /\ node = "tools" /\ node' = "analyst" /\ pos' = pos /\ calls' = calls
        /\ messages' = Append(messages, Message("result"))
    BY <1>6 DEF Tools, Run, Goto
  <2>2. /\ Len(messages') = Len(messages) + 1
        /\ messages'[Len(messages) + 1] = Message("result")
    BY <1>1, <2>1 DEF Histories
  <2>3. /\ Message("result").kind = "result"
        /\ Len(messages) + 1 \in 1..Len(messages') /\ Len(messages') >= 1
    BY <1>1, <2>2 DEF Message
  <2>4. \E i \in 1..Len(messages') : messages'[i].kind = "result"
    BY <2>2, <2>3
  <2>5. Selected[pos] = "fundamentals" => calls[pos] = 0
    BY <2>1 DEF LoopsOK, HistoryInv
  <2>. QED
    BY <2>1, <2>2, <2>3, <2>4, <2>5 DEF HistoryInv, RequestsAnswered
<1>7. CASE MsgClear
  <2>1. /\ node = "clear" /\ pos' = pos + 1 /\ calls' = calls /\ steps' = steps + 1
        /\ messages' = <<Human>>
        /\ node' = IF pos < Len(Selected) THEN "analyst" ELSE "Bull Researcher"
    BY <1>7 DEF MsgClear, Run, Goto
  <2>2. /\ steps <= 6 * (pos - 1) + 5
        /\ \A i \in 1..Len(Selected) : i > pos => calls[i] = 0
    BY <2>1 DEF LoopsOK, LoopInv, AnalystNodes
  <2>3. pos \in Nat /\ pos >= 1 /\ steps \in Nat
    <3>1. pos \in 1..Len(Selected) /\ steps \in Nat
      BY <2>1, AtWork
    <3>. QED
      BY <3>1, Config
  <2>4. steps' <= 6 * (pos' - 1)
    <3>1. steps + 1 <= 6 * ((pos + 1) - 1)
      BY <2>2, <2>3
    <3>. QED
      BY <2>1, <3>1
  <2>5. pos < Len(Selected) => calls[pos + 1] = 0
    BY <2>2, <2>3, Config
  <2>6. Len(messages') >= 1 /\ messages'[Len(messages')].kind # "ask"
    <3>1. Len(<<Human>>) = 1 /\ <<Human>>[1].kind # "ask"
      BY DEF Human
    <3>2. messages' = <<Human>>
      BY <2>1
    <3>. QED
      BY <3>1, <3>2
  <2>. QED
    BY <2>1, <2>4, <2>5, <2>6 DEF HistoryInv, RequestsAnswered
<1>8. CASE BullResearcher
  BY <1>1, <1>3, <1>8, Routing DEF BullResearcher, Route, Goto, Fail, talk
<1>9. CASE BearResearcher
  BY <1>1, <1>3, <1>9 DEF BearResearcher, Route, Goto, Fail, talk
<1>10. CASE ResearchManager
  BY <1>1, <1>3, <1>10 DEF ResearchManager, Goto, talk
<1>11. CASE Trader
  <2>1. messages' = Append(messages, Message("answer")) /\ node' = "Risky Analyst"
    BY <1>11 DEF Trader, Goto
  <2>2. Len(Append(messages, Message("answer"))) = Len(messages) + 1
    BY <1>1 DEF Histories
  <2>3. Len(messages') >= 1
    <3>1. Len(messages) + 1 >= 1
      BY <1>1
    <3>2. Len(Append(messages, Message("answer"))) >= 1
      BY <2>2, <3>1, Zenon
    <3>. QED
      BY <2>1, <3>2, Zenon
  <2>. QED
    BY <1>3, <2>1, <2>3
<1>12. CASE RiskyAnalyst
  BY <1>1, <1>3, <1>12 DEF RiskyAnalyst, Argues, Route, Goto, Fail, talk
<1>13. CASE SafeAnalyst
  BY <1>1, <1>3, <1>13 DEF SafeAnalyst, Argues, Route, Goto, Fail, talk
<1>14. CASE NeutralAnalyst
  BY <1>1, <1>3, <1>14 DEF NeutralAnalyst, Argues, Route, Goto, Fail, talk
<1>15. CASE JudgeRetries
  BY <1>1, <1>3, <1>15 DEF JudgeRetries, talk
<1>16. CASE RiskJudge
  BY <1>1, <1>3, <1>16 DEF RiskJudge, Goto, talk
<1>17. CASE CallRaises
  BY <1>1, <1>3, <1>17 DEF CallRaises, Fail, talk
<1>18. CASE OutOfSteps
  BY <1>1, <1>3, <1>18 DEF OutOfSteps, Fail, talk
<1>. QED
  BY <1>2, <1>4, <1>5, <1>6, <1>7, <1>8, <1>9, <1>10, <1>11, <1>12, <1>13,
     <1>14, <1>15, <1>16, <1>17, <1>18 DEF Next, RunNode

\* The steps the analysts may have used, and one for each later speech.
Written(plan) == IF plan # "none" THEN 1 ELSE 0
Plans == Written(investmentPlan) + Written(traderPlan)
Spent == 6 * Len(Selected) + DebateCount + RiskCount + Plans

LaterNodes == DebateNodes \cup RiskNodes \cup {"Research Manager", "Trader", "Risk Judge"}

\* The speeches as numbers.
LEMMA SpeechCounts ==
    ASSUME StateOK
    PROVE  /\ bullSaid \in Nat /\ bearSaid \in Nat
           /\ riskSaid["Risky"] \in Nat /\ riskSaid["Safe"] \in Nat
           /\ riskSaid["Neutral"] \in Nat
           /\ DebateCount \in Nat /\ RiskCount \in Nat
<1>1. bullSaid \in Nat /\ bearSaid \in Nat
  BY Counters
<1>2. riskSaid["Risky"] \in Nat /\ riskSaid["Safe"] \in Nat /\ riskSaid["Neutral"] \in Nat
  BY Counters DEF RiskSpeakers
<1>. QED
  BY <1>1, <1>2 DEF DebateCount, RiskCount

\* One speech, or one plan, more.
LEMMA OneMore ==
    ASSUME StateOK,
           \/ DebateCount' = DebateCount + 1 /\ RiskCount' = RiskCount /\ Plans' = Plans
           \/ DebateCount' = DebateCount /\ RiskCount' = RiskCount + 1 /\ Plans' = Plans
           \/ DebateCount' = DebateCount /\ RiskCount' = RiskCount /\ Plans' = Plans + 1
    PROVE  Spent' = Spent + 1
<1>1. DebateCount \in Nat /\ RiskCount \in Nat /\ Len(Selected) \in Nat
  BY SpeechCounts, Config
<1>2. Plans \in Nat
  BY DEF Plans, Written
<1>3. \A n, d, k, p \in Nat :
          /\ 6 * n + (d + 1) + k + p = (6 * n + d + k + p) + 1
          /\ 6 * n + d + (k + 1) + p = (6 * n + d + k + p) + 1
          /\ 6 * n + d + k + (p + 1) = (6 * n + d + k + p) + 1
  OBVIOUS
<1>4. Spent' = 6 * Len(Selected) + DebateCount' + RiskCount' + Plans'
  BY DEF Spent
<1>. QED
  BY <1>1, <1>2, <1>3, <1>4 DEF Spent

\* The bound of LoopInv after the analysts.
LEMMA SpentBound ==
    ASSUME StateOK
    PROVE  /\ Spent \in Nat /\ steps \in Nat /\ bullSaid \in Nat /\ bearSaid \in Nat
           /\ LoopInv /\ node \in LaterNodes => steps <= Spent
           /\ node \in LaterNodes /\ steps <= Spent => LoopInv
           /\ node \in {"end", "failed"} => LoopInv
<1>1. /\ steps \in Nat /\ bullSaid \in Nat /\ bearSaid \in Nat
      /\ riskSaid \in [RiskSpeakers -> Nat] /\ Len(Selected) \in Nat
  BY Counters, Config
<1>2. DebateCount \in Nat /\ RiskCount \in Nat
  BY SpeechCounts
<1>0. /\ Written(investmentPlan) \in Nat /\ Written(traderPlan) \in Nat
      /\ Written(investmentPlan) = IF investmentPlan # "none" THEN 1 ELSE 0
      /\ Written(traderPlan) = IF traderPlan # "none" THEN 1 ELSE 0
  BY DEF Written
<1>3. Spent \in Nat
  BY <1>0, <1>1, <1>2 DEF Spent, Plans
<1>7. Spent = 6 * Len(Selected) + DebateCount + RiskCount
                + (IF investmentPlan # "none" THEN 1 ELSE 0)
                + (IF traderPlan # "none" THEN 1 ELSE 0)
  <2>1. Spent = 6 * Len(Selected) + DebateCount + RiskCount
                  + Written(investmentPlan) + Written(traderPlan)
    BY <1>0, <1>1, <1>2 DEF Spent, Plans
  <2>. QED
    BY <1>0, <2>1
<1>4. LoopInv /\ node \in LaterNodes => steps <= Spent
  BY <1>7 DEF LoopInv, LaterNodes, DebateNodes, RiskNodes, AnalystNodes
<1>5. node \in LaterNodes /\ steps <= Spent => LoopInv
  BY <1>7 DEF LoopInv, LaterNodes, DebateNodes, RiskNodes, AnalystNodes
<1>6. node \in {"end", "failed"} => LoopInv
  BY DEF LoopInv, AnalystNodes
<1>. QED
  BY <1>1, <1>3, <1>4, <1>5, <1>6

\* A step of the debates, the plans or the judge costs one and is one speech.
LEMMA SpeechStep ==
    ASSUME StateOK, StateOK', LoopInv, node \in LaterNodes,
           steps' = steps + 1, Spent' = Spent + 1,
           node' \in LaterNodes \cup {"end", "failed"}
    PROVE  LoopInv'
<1>1. steps <= Spent /\ Spent \in Nat /\ steps \in Nat
  BY SpentBound
<1>2. steps' <= Spent'
  BY <1>1
<1>3. (node \in LaterNodes /\ steps <= Spent => LoopInv)'
  BY SpentBound, PTL
<1>4. (node \in {"end", "failed"} => LoopInv)'
  BY SpentBound, PTL
<1>. QED
  BY <1>2, <1>3, <1>4

\* The counters bound the steps of an analyst's loop.
LEMMA LoopStep ==
    ASSUME StateOK, StateOK', PhaseInv, LoopsOK, [Next]_vars
    PROVE  LoopInv'
<1>1. LoopInv /\ HistoryInv /\ Len(messages) >= 1
  BY DEF LoopsOK, HistoryInv
<1>2. CASE UNCHANGED vars
  <2>1. /\ node' = node /\ pos' = pos /\ steps' = steps /\ calls' = calls
        /\ DebateCount' = DebateCount /\ RiskCount' = RiskCount
        /\ investmentPlan' = investmentPlan /\ traderPlan' = traderPlan
    BY <1>2 DEF vars, setup, DebateCount, RiskCount
  <2>. QED
    BY <1>1, <2>1 DEF LoopInv
<1>3. ASSUME node' \in {"end", "failed"} PROVE LoopInv'
  <2>1. (node \in {"end", "failed"} => LoopInv)'
    BY SpentBound, PTL
  <2>. QED
    BY <1>3, <2>1
<1>4. CASE Start
  <2>1. /\ node = "start" /\ node' \in {"failed", "analyst"}
        /\ pos' = pos /\ steps' = steps /\ calls' = calls
    BY <1>4 DEF Start, Goto, Fail
  <2>2. pos = 1 /\ steps = 0 /\ calls[1] = 0
        /\ \A i \in 1..Len(Selected) : i > 1 => calls[i] = 0
    BY <1>1, <2>1 DEF LoopInv
  <2>3. CASE node' = "analyst"
    BY <2>1, <2>2, <2>3 DEF LoopInv, AnalystNodes
  <2>. QED
    BY <1>3, <2>1, <2>3
<1>5. CASE Analyst
  <2>1. node = "analyst" /\ node' \in {"tools", "clear"}
    BY <1>5, AnalystFrame
  <2>2. pos \in 1..Len(Selected) /\ pos \in Nat /\ calls[pos] \in Nat /\ steps \in Nat
    BY <2>1, AtWork
  <2>3. /\ calls[pos] <= 2 /\ \A i \in 1..Len(Selected) : i > pos => calls[i] = 0
        /\ steps <= 6 * (pos - 1) +
               (IF Selected[pos] = "fundamentals" THEN 2 ELSE 2 * calls[pos])
    BY <1>1, <2>1 DEF LoopInv, AnalystNodes
  <2>4. CASE Selected[pos] = "fundamentals"
    <3>1. calls[pos] = 0 /\ messages[Len(messages)].kind # "ask"
      BY <1>1, <2>1, <2>4 DEF HistoryInv, RequestsAnswered
    <3>2. /\ pos' = pos /\ steps' = steps + 1
          /\ \A i \in 1..Len(Selected) : i # pos => calls'[i] = calls[i]
          /\ node' = "tools" =>
                /\ calls' = calls
                /\ ~ \E i \in 1..Len(messages) : messages[i].kind = "result"
      BY <1>1, <1>5, <2>2, <2>4, <3>1, FundamentalsVisit
    <3>3. node' = "tools" => steps <= 6 * (pos - 1) /\ calls'[pos] = 0
      BY <1>1, <2>1, <2>4, <3>1, <3>2 DEF HistoryInv
    <3>4. node' = "tools" => steps' <= 6 * (pos - 1) + 1
      BY <2>2, <3>2, <3>3
    <3>5. steps' <= 6 * (pos - 1) + 5
      BY <2>2, <2>3, <2>4, <3>2
    <3>6. \A i \in 1..Len(Selected) : i > pos => calls'[i] = 0
      BY <2>2, <2>3, <3>2
    <3>. QED
      BY <2>1, <2>4, <3>2, <3>3, <3>4, <3>5, <3>6 DEF LoopInv, AnalystNodes
  <2>5. CASE Selected[pos] # "fundamentals"
    <3>1. /\ pos' = pos /\ steps' = steps + 1
          /\ calls' = [calls EXCEPT ![pos] = calls[pos] + 1]
          /\ node' = "tools" => calls[pos] + 1 < 3
      BY <1>1, <1>5, <2>2, <2>5, CountingVisit
    <3>2. /\ calls'[pos] = calls[pos] + 1
          /\ \A i \in 1..Len(Selected) : i > pos => calls'[i] = 0
      <4>1. calls \in [1..Len(Selected) -> Nat]
        BY Counters
      <4>. QED
        BY <2>2, <2>3, <3>1, <4>1
    <3>3. node' = "tools" => calls'[pos] <= 2
      BY <2>2, <3>1, <3>2
    <3>4. steps' <= 6 * (pos - 1) + 2 * calls'[pos] - 1
      <4>1. steps <= 6 * (pos - 1) + 2 * calls[pos]
        BY <2>3, <2>5
      <4>2. steps + 1 <= 6 * (pos - 1) + 2 * (calls[pos] + 1) - 1
        BY <2>2, <4>1
      <4>. QED
        BY <3>1, <3>2, <4>2
    <3>5. steps' <= 6 * (pos - 1) + 5
      <4>1. calls'[pos] \in Nat /\ steps' \in Nat
        BY <2>2, <3>1, <3>2
      <4>2. calls'[pos] <= 3
        BY <2>2, <2>3, <3>2
      <4>3. \A p, c, n \in Nat : n <= 6 * (p - 1) + 2 * c - 1 /\ c <= 3 => n <= 6 * (p - 1) + 5
        OBVIOUS
      <4>. QED
        BY <2>2, <3>4, <4>1, <4>2, <4>3
    <3>6. 6 * (pos - 1) + 2 * calls'[pos] - 1 = 6 * (pos - 1) + (2 * calls'[pos] - 1)
      BY <2>2, <3>2
    <3>. QED
      BY <2>1, <2>5, <3>1, <3>2, <3>3, <3>4, <3>5, <3>6 DEF LoopInv, AnalystNodes
  <2>. QED
    BY <2>4, <2>5
<1>6. CASE Tools
  <2>1. /\ node = "tools" /\ node' = "analyst" /\ steps' = steps + 1
        /\ pos' = pos /\ calls' = calls
    BY <1>6 DEF Tools, Run, Goto
  <2>2. pos \in 1..Len(Selected) /\ pos \in Nat /\ calls[pos] \in Nat /\ steps \in Nat
    BY <2>1, AtWork
  <2>3. /\ calls[pos] <= 2 /\ \A i \in 1..Len(Selected) : i > pos => calls[i] = 0
        /\ steps <= 6 * (pos - 1) +
               (IF Selected[pos] = "fundamentals" THEN 1 ELSE 2 * calls[pos] - 1)
    BY <1>1, <2>1 DEF LoopInv, AnalystNodes
  <2>4. steps + 1 <= 6 * (pos - 1) +
               (IF Selected[pos] = "fundamentals" THEN 2 ELSE 2 * calls[pos])
    BY <2>2, <2>3
  <2>. QED
    BY <2>1, <2>3, <2>4 DEF LoopInv, AnalystNodes
<1>7. CASE MsgClear
  <2>1. /\ node = "clear" /\ pos' = pos + 1 /\ calls' = calls /\ steps' = steps + 1
        /\ node' = (IF pos < Len(Selected) THEN "analyst" ELSE "Bull Researcher")
        /\ bullSaid' = bullSaid /\ bearSaid' = bearSaid /\ riskSaid' = riskSaid
        /\ investmentPlan' = investmentPlan /\ traderPlan' = traderPlan
    BY <1>7 DEF MsgClear, Run, Goto
  <2>2. pos \in 1..Len(Selected) /\ pos \in Nat /\ steps \in Nat
    BY <2>1, AtWork
  <2>3. /\ steps <= 6 * (pos - 1) + 5
        /\ \A i \in 1..Len(Selected) : i > pos => calls[i] = 0
    BY <1>1, <2>1 DEF LoopInv, AnalystNodes
  <2>4. steps' <= 6 * pos /\ pos = (pos + 1) - 1 /\ steps' \in Nat
    <3>1. steps' = steps + 1 /\ steps <= 6 * (pos - 1) + 5
      BY <2>1, <2>3
    <3>. QED
      BY <2>2, <3>1
  <2>5. CASE pos < Len(Selected)
    <3>1. pos + 1 \in 1..Len(Selected) /\ calls[pos + 1] = 0
      BY <2>2, <2>3, <2>5, Config
    <3>2. \A i \in 1..Len(Selected) : i > pos + 1 => calls[i] = 0
      BY <2>2, <2>3
    <3>3. /\ steps' <= 6 * ((pos + 1) - 1) + 2
          /\ steps' <= 6 * ((pos + 1) - 1) + 2 * 0
      BY <2>2, <2>4
    <3>4. node' = "analyst" /\ pos' = pos + 1 /\ calls' = calls
      BY <2>1, <2>5
    <3>. QED
      BY <3>1, <3>2, <3>3, <3>4 DEF LoopInv, AnalystNodes
  <2>6. CASE ~ (pos < Len(Selected))
    <3>0. node' = "Bull Researcher"
      BY <2>1, <2>6
    <3>1. pos = Len(Selected)
      BY <2>2, <2>6, Config
    <3>2. /\ DebateCount = 0 /\ RiskCount = 0 /\ investmentPlan = "none" /\ traderPlan = "none"
      <4>0. node = "clear"
        BY <2>1
      <4>1. bullSaid = 0 /\ bearSaid = 0
        BY <4>0 DEF PhaseInv, AnalystPhase, AnalystNodes
      <4>2. investmentPlan = "none" /\ traderPlan = "none"
        BY <4>0 DEF PhaseInv, PlanPhase, AnalystNodes
      <4>3. riskSaid["Risky"] = 0 /\ riskSaid["Safe"] = 0 /\ riskSaid["Neutral"] = 0
        BY <4>0 DEF PhaseInv, RiskPhase, AnalystNodes, RiskSpeakers
      <4>. QED
        BY <4>1, <4>2, <4>3 DEF DebateCount, RiskCount
    <3>3. Spent' = 6 * Len(Selected)
      <4>1. /\ DebateCount' = 0 /\ RiskCount' = 0
            /\ investmentPlan' = "none" /\ traderPlan' = "none"
        BY <2>1, <3>2 DEF DebateCount, RiskCount
      <4>. QED
        BY <4>1, Config DEF Spent, Plans, Written
    <3>4. steps' <= Spent'
      BY <2>4, <3>1, <3>3
    <3>5. (node \in LaterNodes /\ steps <= Spent => LoopInv)'
      BY SpentBound, PTL
    <3>. QED
      BY <3>0, <3>4, <3>5 DEF LaterNodes, DebateNodes
  <2>. QED
    BY <2>5, <2>6
<1>9. CASE BullResearcher
  <2>1. /\ node = "Bull Researcher" /\ steps' = steps + 1 /\ bullSaid' = bullSaid + 1
        /\ node' \in {"Bear Researcher", "Research Manager", "failed"}
        /\ bearSaid' = bearSaid /\ riskSaid' = riskSaid
        /\ investmentPlan' = investmentPlan /\ traderPlan' = traderPlan
    BY <1>9 DEF BullResearcher, Run, Route, Goto, Fail
  <2>2. DebateCount' = DebateCount + 1
    <3>1. bullSaid' = bullSaid + 1 /\ bearSaid' = bearSaid
      BY <2>1
    <3>. QED
      BY <3>1, SpeechCounts DEF DebateCount
  <2>3. Spent' = Spent + 1
    <3>1. RiskCount' = RiskCount /\ Plans' = Plans
      BY <2>1 DEF RiskCount, Plans
    <3>. QED
      BY <2>2, <3>1, OneMore
  <2>. QED
    BY <1>1, <2>1, <2>3, SpeechStep DEF LaterNodes, DebateNodes, RiskNodes
<1>10. CASE BearResearcher
  <2>1. /\ node = "Bear Researcher" /\ steps' = steps + 1 /\ bearSaid' = bearSaid + 1
        /\ node' \in {"Bull Researcher", "Research Manager", "failed"}
        /\ bullSaid' = bullSaid /\ riskSaid' = riskSaid
        /\ investmentPlan' = investmentPlan /\ traderPlan' = traderPlan
    BY <1>10 DEF BearResearcher, Run, Route, Goto, Fail
  <2>2. DebateCount' = DebateCount + 1
    <3>1. bearSaid' = bearSaid + 1 /\ bullSaid' = bullSaid
      BY <2>1
    <3>. QED
      BY <3>1, SpeechCounts DEF DebateCount
  <2>3. Spent' = Spent + 1
    <3>1. RiskCount' = RiskCount /\ Plans' = Plans
      BY <2>1 DEF RiskCount, Plans
    <3>. QED
      BY <2>2, <3>1, OneMore
  <2>. QED
    BY <1>1, <2>1, <2>3, SpeechStep DEF LaterNodes, DebateNodes, RiskNodes
<1>11. CASE ResearchManager
  <2>1. /\ node = "Research Manager" /\ node' = "Trader" /\ steps' = steps + 1
        /\ investmentPlan' = "Research Manager"
        /\ bullSaid' = bullSaid /\ bearSaid' = bearSaid /\ riskSaid' = riskSaid
        /\ traderPlan' = traderPlan
    BY <1>11 DEF ResearchManager, Run, Goto
  <2>2. investmentPlan = "none"
    BY <2>1 DEF PhaseInv, PlanPhase
  <2>3. Spent' = Spent + 1
    <3>1. DebateCount' = DebateCount /\ RiskCount' = RiskCount
      BY <2>1 DEF DebateCount, RiskCount
    <3>2. Written(investmentPlan') = 1 /\ Written(investmentPlan) = 0 /\ traderPlan' = traderPlan
      BY <2>1, <2>2 DEF Written
    <3>3. Written(traderPlan) \in Nat
      BY DEF Written
    <3>4. Plans' = Plans + 1
      BY <3>2, <3>3 DEF Plans
    <3>. QED
      BY <3>1, <3>4, OneMore
  <2>. QED
    BY <1>1, <2>1, <2>3, SpeechStep DEF LaterNodes
<1>12. CASE Trader
  <2>1. /\ node = "Trader" /\ node' = "Risky Analyst" /\ steps' = steps + 1
        /\ traderPlan' = "Trader" /\ investmentPlan' = investmentPlan
        /\ bullSaid' = bullSaid /\ bearSaid' = bearSaid /\ riskSaid' = riskSaid
    BY <1>12 DEF Trader, Run, Goto
  <2>2. traderPlan = "none"
    BY <2>1 DEF PhaseInv, PlanPhase
  <2>3. Spent' = Spent + 1
    <3>1. DebateCount' = DebateCount /\ RiskCount' = RiskCount
      BY <2>1 DEF DebateCount, RiskCount
    <3>2. Written(traderPlan') = 1 /\ Written(traderPlan) = 0 /\ investmentPlan' = investmentPlan
      BY <2>1, <2>2 DEF Written
    <3>3. Written(investmentPlan) \in Nat
      BY DEF Written
    <3>4. Plans' = Plans + 1
      BY <3>2, <3>3 DEF Plans
    <3>. QED
      BY <3>1, <3>4, OneMore
  <2>. QED
    BY <1>1, <2>1, <2>3, SpeechStep DEF LaterNodes, RiskNodes
<1>13. CASE RiskyAnalyst
  <2>1. /\ node = "Risky Analyst" /\ steps' = steps + 1
        /\ riskSaid' = [riskSaid EXCEPT !["Risky"] = @ + 1]
        /\ node' \in {"Safe Analyst", "Risk Judge", "failed"}
        /\ bullSaid' = bullSaid /\ bearSaid' = bearSaid
        /\ investmentPlan' = investmentPlan /\ traderPlan' = traderPlan
    BY <1>13 DEF RiskyAnalyst, Argues, Run, Route, Goto, Fail
  <2>2. RiskCount' = RiskCount + 1
    <3>1. riskSaid \in [RiskSpeakers -> Nat] /\ riskSaid' = [riskSaid EXCEPT !["Risky"] = @ + 1]
      BY <2>1, Counters
    <3>2. /\ riskSaid'["Risky"] = riskSaid["Risky"] + 1
          /\ riskSaid'["Safe"] = riskSaid["Safe"]
          /\ riskSaid'["Neutral"] = riskSaid["Neutral"]
      BY <3>1 DEF RiskSpeakers
    <3>. QED
      BY <3>2, SpeechCounts DEF RiskCount
  <2>3. Spent' = Spent + 1
    <3>1. DebateCount' = DebateCount /\ Plans' = Plans
      BY <2>1 DEF DebateCount, Plans
    <3>. QED
      BY <2>2, <3>1, OneMore
  <2>. QED
    BY <1>1, <2>1, <2>3, SpeechStep DEF LaterNodes, RiskNodes
<1>14. CASE SafeAnalyst
  <2>1. /\ node = "Safe Analyst" /\ steps' = steps + 1
        /\ riskSaid' = [riskSaid EXCEPT !["Safe"] = @ + 1]
        /\ node' \in {"Neutral Analyst", "Risk Judge", "failed"}
        /\ bullSaid' = bullSaid /\ bearSaid' = bearSaid
        /\ investmentPlan' = investmentPlan /\ traderPlan' = traderPlan
    BY <1>14 DEF SafeAnalyst, Argues, Run, Route, Goto, Fail
  <2>2. RiskCount' = RiskCount + 1
    <3>1. riskSaid \in [RiskSpeakers -> Nat] /\ riskSaid' = [riskSaid EXCEPT !["Safe"] = @ + 1]
      BY <2>1, Counters
    <3>2. /\ riskSaid'["Safe"] = riskSaid["Safe"] + 1
          /\ riskSaid'["Risky"] = riskSaid["Risky"]
          /\ riskSaid'["Neutral"] = riskSaid["Neutral"]
      BY <3>1 DEF RiskSpeakers
    <3>. QED
      BY <3>2, SpeechCounts DEF RiskCount
  <2>3. Spent' = Spent + 1
    <3>1. DebateCount' = DebateCount /\ Plans' = Plans
      BY <2>1 DEF DebateCount, Plans
    <3>. QED
      BY <2>2, <3>1, OneMore
  <2>. QED
    BY <1>1, <2>1, <2>3, SpeechStep DEF LaterNodes, RiskNodes
<1>15. CASE NeutralAnalyst
  <2>1. /\ node = "Neutral Analyst" /\ steps' = steps + 1
        /\ riskSaid' = [riskSaid EXCEPT !["Neutral"] = @ + 1]
        /\ node' \in {"Risky Analyst", "Risk Judge", "failed"}
        /\ bullSaid' = bullSaid /\ bearSaid' = bearSaid
        /\ investmentPlan' = investmentPlan /\ traderPlan' = traderPlan
    BY <1>15 DEF NeutralAnalyst, Argues, Run, Route, Goto, Fail
  <2>2. RiskCount' = RiskCount + 1
    <3>1. riskSaid \in [RiskSpeakers -> Nat] /\ riskSaid' = [riskSaid EXCEPT !["Neutral"] = @ + 1]
      BY <2>1, Counters
    <3>2. /\ riskSaid'["Neutral"] = riskSaid["Neutral"] + 1
          /\ riskSaid'["Risky"] = riskSaid["Risky"]
          /\ riskSaid'["Safe"] = riskSaid["Safe"]
      BY <3>1 DEF RiskSpeakers
    <3>. QED
      BY <3>2, SpeechCounts DEF RiskCount
  <2>3. Spent' = Spent + 1
    <3>1. DebateCount' = DebateCount /\ Plans' = Plans
      BY <2>1 DEF DebateCount, Plans
    <3>. QED
      BY <2>2, <3>1, OneMore
  <2>. QED
    BY <1>1, <2>1, <2>3, SpeechStep DEF LaterNodes, RiskNodes
<1>16. CASE JudgeRetries
  <2>1. /\ node' = node /\ pos' = pos /\ steps' = steps /\ calls' = calls
        /\ DebateCount' = DebateCount /\ RiskCount' = RiskCount
        /\ investmentPlan' = investmentPlan /\ traderPlan' = traderPlan
    BY <1>16 DEF JudgeRetries, DebateCount, RiskCount
  <2>. QED
    BY <1>1, <2>1 DEF LoopInv
<1>17. CASE RiskJudge
  BY <1>3, <1>17 DEF RiskJudge, Goto
<1>18. CASE CallRaises
  BY <1>3, <1>18 DEF CallRaises, Fail
<1>19. CASE OutOfSteps
  BY <1>3, <1>19 DEF OutOfSteps, Fail
<1>. QED
  BY <1>2, <1>4, <1>5, <1>6, <1>7, <1>9, <1>10, <1>11, <1>12, <1>13, <1>14,
     <1>15, <1>16, <1>17, <1>18, <1>19 DEF Next, RunNode

LEMMA LoopsInit == Init => LoopsOK
<1> SUFFICES ASSUME Init PROVE LoopsOK
  OBVIOUS
<1>1. /\ node = "start" /\ pos = 1 /\ steps = 0 /\ messages = <<Human>>
      /\ calls = [i \in 1..Len(Selected) |-> 0] /\ 1 \in 1..Len(Selected)
  BY Config DEF Init
<1>2. HistoryInv
  BY <1>1 DEF HistoryInv, RequestsAnswered
<1>3. LoopInv
  BY <1>1 DEF LoopInv, AnalystNodes
<1>. QED
  BY <1>2, <1>3 DEF LoopsOK

\* Before it ends, a run has used fewer than StepBound steps.
LEMMA WithinBound ==
    ASSUME StateOK, PhaseInv, LoopsOK, node \notin {"end", "failed"}
    PROVE  steps < StepBound
<1>1. steps \in Nat /\ Len(Selected) \in Nat \ {0} /\ MaxDebateRounds \in Nat \ {0}
      /\ MaxRiskRounds \in Nat \ {0} /\ bullSaid \in Nat /\ bearSaid \in Nat
      /\ riskSaid \in [RiskSpeakers -> Nat]
  BY Counters, Config
<1>2. CASE node \in {"start", "analyst", "tools", "clear"}
  <2>1. pos \in 1..Len(Selected) /\ pos \in Nat /\ calls[pos] \in Nat
    BY <1>2, AtWork
  <2>2. steps <= 6 * (pos - 1) + 5
    BY <1>1, <1>2, <2>1 DEF LoopsOK, LoopInv, AnalystNodes
  <2>3. 6 * (pos - 1) + 5 < 6 * Len(Selected)
    BY <1>1, <2>1
  <2>4. 6 * Len(Selected) <= StepBound /\ StepBound \in Nat
    BY <1>1 DEF StepBound
  <2>. QED
    BY <1>1, <2>1, <2>2, <2>3, <2>4
<1>3. CASE node \in LaterNodes
  <2>1. steps <= Spent
    BY <1>3, SpentBound DEF LoopsOK
  <2>2. bullSaid <= MaxDebateRounds /\ bearSaid <= MaxDebateRounds
    <3>1. \/ bullSaid = bearSaid /\ bullSaid < MaxDebateRounds
          \/ bullSaid = bearSaid + 1 /\ bullSaid <= MaxDebateRounds
          \/ bullSaid = MaxDebateRounds /\ bearSaid = MaxDebateRounds
      BY <1>3 DEF PhaseInv, DebatePhase, LaterNodes, DebateNodes, RiskNodes, AfterDebate
    <3>. QED
      BY <1>1, <3>1
  <2>3. riskSaid["Risky"] \in Nat /\ riskSaid["Safe"] \in Nat /\ riskSaid["Neutral"] \in Nat
    BY <1>1 DEF RiskSpeakers
  <2>8. /\ riskSaid["Risky"] <= MaxRiskRounds /\ riskSaid["Safe"] <= MaxRiskRounds
        /\ riskSaid["Neutral"] <= MaxRiskRounds
    <3>1. \/ riskSaid["Risky"] = 0 /\ riskSaid["Safe"] = 0 /\ riskSaid["Neutral"] = 0
          \/ /\ riskSaid["Safe"] = riskSaid["Risky"] /\ riskSaid["Neutral"] = riskSaid["Risky"]
             /\ riskSaid["Risky"] < MaxRiskRounds
          \/ /\ riskSaid["Risky"] = riskSaid["Safe"] + 1
             /\ riskSaid["Neutral"] = riskSaid["Safe"] /\ riskSaid["Risky"] <= MaxRiskRounds
          \/ /\ riskSaid["Risky"] = riskSaid["Neutral"] + 1
             /\ riskSaid["Safe"] = riskSaid["Neutral"] + 1 /\ riskSaid["Risky"] <= MaxRiskRounds
          \/ /\ riskSaid["Risky"] = MaxRiskRounds /\ riskSaid["Safe"] = MaxRiskRounds
             /\ riskSaid["Neutral"] = MaxRiskRounds
      BY <1>3 DEF PhaseInv, RiskPhase, LaterNodes, DebateNodes, RiskNodes, RiskSpeakers
    <3>. QED
      BY <1>1, <2>3, <3>1
  <2>4. DebateCount <= 2 * MaxDebateRounds
    <3>1. MaxDebateRounds \in Nat
      BY Config
    <3>. QED
      BY <2>2, <3>1, SpeechCounts DEF DebateCount
  <2>5. RiskCount <= 3 * MaxRiskRounds
    <3>1. MaxRiskRounds \in Nat
      BY Config
    <3>. QED
      BY <2>3, <2>8, <3>1 DEF RiskCount
  <2>9. Plans \in Nat /\ Plans <= 2
    BY DEF Plans, Written
  <2>10. \A n, d, k, p, m, l \in Nat :
             d <= 2 * m /\ k <= 3 * l /\ p <= 2
                 => 6 * n + d + k + p < 6 * n + 2 * m + 3 * l + 3
    OBVIOUS
  <2>6. Spent < StepBound
    <3>1. MaxDebateRounds \in Nat /\ MaxRiskRounds \in Nat /\ Len(Selected) \in Nat
      BY Config
    <3>. QED
      BY <2>4, <2>5, <2>9, <2>10, <3>1, SpeechCounts DEF Spent, StepBound
  <2>7. Spent \in Nat /\ StepBound \in Nat
    BY <1>1, SpentBound DEF StepBound
  <2>. QED
    BY <1>1, <2>1, <2>6, <2>7
<1>. QED
  BY <1>2, <1>3 DEF StateOK, Nodes, AnalystNodes, AfterDebate, LaterNodes

LEMMA BoundStep ==
    ASSUME SetupOK, StateOK, PhaseInv, LoopsOK, NeverOutOfSteps, [Next]_vars
    PROVE  NeverOutOfSteps'
<1>1. OutOfSteps => recursionLimit < StepBound
  <2>1. OutOfSteps => steps >= recursionLimit /\ node \notin {"end", "failed"}
    BY DEF OutOfSteps
  <2>2. steps \in Nat /\ recursionLimit \in Nat /\ StepBound \in Nat
    BY Counters, Config DEF StepBound, SetupOK
  <2>. QED
    BY <2>1, <2>2, WithinBound
<1>2. recursionLimit \in Nat /\ StepBound \in Nat /\ UNCHANGED recursionLimit
  BY Config DEF StepBound, SetupOK, Next, vars, setup
<1>3. CASE OutOfSteps
  <2>1. ~ (recursionLimit >= StepBound)
    BY <1>1, <1>2, <1>3
  <2>. QED
    BY <1>2, <2>1 DEF NeverOutOfSteps, StepBound
<1>4. ASSUME error' \in {error, "route", "llm", "stream"} PROVE NeverOutOfSteps'
  BY <1>2, <1>4 DEF NeverOutOfSteps, StepBound
<1>5. Analyst => error' = error
  BY AnalystFrame
<1>. QED
  BY <1>3, <1>4, <1>5 DEF Next, RunNode, vars, setup, Start, Tools, MsgClear,
     BullResearcher, BearResearcher, ResearchManager, Trader, RiskyAnalyst, SafeAnalyst, NeutralAnalyst, Argues,
     JudgeRetries, RiskJudge, CallRaises, Route, Goto, Fail

\* The inductive invariant of the tool loops.
LEMMA LoopInvariance == Spec => [](SetupOK /\ StateOK /\ PhaseInv /\ LoopsOK /\ NeverOutOfSteps)
<1>1. Init => NeverOutOfSteps
  BY DEF Init, NeverOutOfSteps
<1>2. SetupOK /\ StateOK /\ PhaseInv /\ LoopsOK /\ NeverOutOfSteps /\ [Next]_vars
        => (StateOK /\ PhaseInv /\ LoopsOK /\ NeverOutOfSteps)'
  BY TypeStep, PhaseStep, HistoryStep, LoopStep, BoundStep DEF LoopsOK
<1>. QED
  BY <1>1, <1>2, InitInv, LoopsInit, SetupFixed, PTL DEF Spec

\* Whatever the models answer, a recursion limit of StepBound is enough: the
\* counters of conditional_logic.py end every tool loop.
THEOREM StepsAreBounded == Spec => []NeverOutOfSteps
BY LoopInvariance, PTL

\* Whatever the models answer, no analyst's model is called with a request
\* for tools that nobody has answered.
THEOREM RequestsAreAnswered == Spec => []RequestsAnswered
<1>1. LoopsOK => RequestsAnswered
  BY DEF LoopsOK, HistoryInv
<1>. QED
  BY <1>1, LoopInvariance, PTL

-----------------------------------------------------------------------------
(* What the analysts see and leave behind.                                 *)

\* The results in the history are the working analyst's own, and the analysts
\* to come, a fundamentals analyst at work included, have no report yet.
EvidenceInv ==
    /\ node \in AnalystNodes \cup {"start"} =>
          /\ \A i \in 1..Len(messages) : messages[i].kind = "result" => messages[i].by = pos
          /\ \A i \in 1..Len(Selected) : i > pos => report[i] = "empty"
    /\ node \in {"start", "analyst", "tools"} /\ Selected[pos] = "fundamentals" =>
          report[pos] = "empty"
    /\ NewsNeverLoops /\ FundamentalsServed

\* The working analyst's messages after the history.
LEMMA OwnMessages ==
    ASSUME messages \in Histories, NEW new \in Histories,
           \A j \in 1..Len(new) : new[j].by = pos,
           \A i \in 1..Len(messages) : messages[i].kind = "result" => messages[i].by = pos
    PROVE  \A i \in 1..Len(messages \o new) :
              (messages \o new)[i].kind = "result" => (messages \o new)[i].by = pos
<1>1. /\ Len(messages) \in Nat /\ Len(new) \in Nat
      /\ Len(messages \o new) = Len(messages) + Len(new)
      /\ \A i \in 1..(Len(messages) + Len(new)) :
            (messages \o new)[i] = IF i <= Len(messages) THEN messages[i]
                                   ELSE new[i - Len(messages)]
  BY DEF Histories
<1>. QED
  BY <1>1

\* An answer, the working analyst's last word, sends it on to the clearing.
LEMMA AnswerClears ==
    ASSUME messages \in Histories, pos \in 1..Len(Selected), NEW text \in Texts, NEW count,
           Returns(<<Message("answer")>>, text, count)
    PROVE  node' = "clear" /\ messages'[Len(messages')].kind # "ask"
<1>1. /\ Len(messages \o <<Message("answer")>>) = Len(messages) + 1
      /\ (messages \o <<Message("answer")>>)[Len(messages) + 1] = Message("answer")
  BY DEF Histories
<1>2. Message("answer").kind # "ask"
  BY DEF Message
<1>. QED
  BY <1>1, <1>2 DEF Returns, Goto, should_continue

\* The kinds of return an analyst's node makes.
LEMMA AnalystReturns ==
    ASSUME StateOK, pos \in 1..Len(Selected), Analyst
    PROVE  \/ FundamentalsAsks /\ Selected[pos] = "fundamentals"
           \/ \E new \in {<<>>, <<Message("ask")>>, <<Message("answer")>>,
                          <<Message("ask"), Message("result"), Message("answer")>>},
                 text \in Texts, count \in Nat :
                 /\ Returns(new, text, count)
                 /\ Selected[pos] = "news" => new = <<Message("answer")>>
                 /\ Selected[pos] = "fundamentals" =>
                       \/ new \in {<<>>, <<Message("answer")>>}
                       \/ FundamentalsFallsBack
<1>0. calls[pos] \in Nat /\ calls[pos] + 1 \in Nat
  BY Counters
<1>1. Results \in Nat /\ ToolCount \in Nat
  <2>1. Len(messages) \in Nat
    BY Counters DEF Histories
  <2>2. IsFiniteSet(1..Len(messages))
    BY <2>1, FS_Interval
  <2>3. IsFiniteSet({i \in 1..Len(messages) : messages[i].kind = "result"})
    BY <2>2, FS_Subset
  <2>. QED
    BY <1>0, <2>3, FS_CardinalityType DEF Results, ToolCount
<1>. DEFINE P == \E new \in {<<>>, <<Message("ask")>>, <<Message("answer")>>,
                          <<Message("ask"), Message("result"), Message("answer")>>},
                 text \in Texts, count \in Nat :
                 /\ Returns(new, text, count)
                 /\ Selected[pos] = "news" => new = <<Message("answer")>>
                 /\ Selected[pos] = "fundamentals" =>
                       \/ new \in {<<>>, <<Message("answer")>>}
                       \/ FundamentalsFallsBack
<1>2. ASSUME GoogleAnswer, Selected[pos] \in {"market", "social"} PROVE P
  BY <1>0, <1>2, Zenon DEF GoogleAnswer
<1>3. CASE Selected[pos] = "market" /\ Market
  BY <1>0, <1>2, <1>3 DEF Market, Texts
<1>4. CASE Selected[pos] = "social" /\ Social
  BY <1>0, <1>2, <1>4 DEF Social, Texts
<1>5. CASE Selected[pos] = "news" /\ News
  BY <1>0, <1>5 DEF News
<1>6. CASE Selected[pos] = "fundamentals" /\ Fundamentals
  BY <1>0, <1>1, <1>6 DEF Fundamentals, FundamentalsFallsBack, FundamentalsReports, Texts
<1>. QED
  BY <1>3, <1>4, <1>5, <1>6 DEF Analyst

\* An analyst's visit keeps the history its own, the news analyst is done
\* after it, and fundamentals goes on only with its request served.
LEMMA EvidenceVisit ==
    ASSUME StateOK, PhaseInv, HistoryInv, EvidenceInv, Analyst
    PROVE  EvidenceInv'
<1>1. /\ node = "analyst" /\ node' \in {"tools", "clear"} /\ pos' = pos
      /\ pos \in 1..Len(Selected) /\ pos \in Nat
  BY AnalystFrame, AtWork
<1>2. /\ messages \in Histories /\ Len(messages) >= 1 /\ Len(messages) \in Nat
      /\ messages[Len(messages)].kind # "ask"
      /\ \A i \in 1..Len(messages) : messages[i].kind = "result" => messages[i].by = pos
      /\ \A i \in 1..Len(Selected) : i > pos => report[i] = "empty"
  BY <1>1, Counters DEF HistoryInv, RequestsAnswered, EvidenceInv, AnalystNodes, Histories
<1>3. Selected[pos] = "fundamentals" => report[pos] = "empty" /\ calls[pos] = 0
  BY <1>1 DEF HistoryInv, EvidenceInv
<1>. DEFINE Own == \A i \in 1..Len(messages') :
                      messages'[i].kind = "result" => messages'[i].by = pos
<1>4. ASSUME FundamentalsAsks, Selected[pos] = "fundamentals"
      PROVE  Own /\ report' = report /\ node' = "tools"
  <2>1. messages' = messages \o <<Message("ask")>>
    BY <1>2, <1>4 DEF FundamentalsAsks, Histories
  <2>2. <<Message("ask")>> \in Histories /\ <<Message("ask")>>[1].by = pos
    BY HistoryType DEF MessageKinds, Message
  <2>3. Own
    BY <1>2, <2>1, <2>2, OwnMessages
  <2>4. node' = "tools"
    BY <1>3, <1>4 DEF FundamentalsAsks, Goto, should_continue, MaxToolCalls, Message
  <2>. QED
    BY <1>4, <2>3, <2>4 DEF FundamentalsAsks
<1>5. ASSUME NEW new \in {<<>>, <<Message("ask")>>, <<Message("answer")>>,
                          <<Message("ask"), Message("result"), Message("answer")>>},
             NEW text \in Texts, NEW count \in Nat, Returns(new, text, count),
             Selected[pos] = "news" => new = <<Message("answer")>>,
             Selected[pos] = "fundamentals" =>
                \/ new \in {<<>>, <<Message("answer")>>}
                \/ FundamentalsFallsBack
      PROVE  /\ Own /\ \A i \in 1..Len(Selected) : i > pos => report'[i] = "empty"
             /\ Selected[pos] = "news" => node' = "clear"
             /\ Selected[pos] = "fundamentals" =>
                   node' = "clear" /\ messages'[Len(messages')].kind # "ask"
  <2>1. messages' = messages \o new /\ report' = [report EXCEPT ![pos] = text]
    BY <1>5 DEF Returns
  <2>2. /\ \A m \in MessageKinds : <<Message(m)>> \in Histories
        /\ <<Message("ask"), Message("result"), Message("answer")>> \in Histories
        /\ <<>> \in Histories
    <3>1. pos \in 0..(Len(Selected) + 1)
      BY <1>1, Config
    <3>2. \A m \in MessageKinds :
              Message(m) \in [kind : MessageKinds, by : 0..(Len(Selected) + 1)]
      BY <3>1 DEF Message
    <3>. QED
      BY <3>2 DEF Histories, MessageKinds
  <2>3. new \in Histories /\ \A j \in 1..Len(new) : new[j].by = pos
    <3>1. \A m \in {"ask", "answer"} :
              \A j \in 1..Len(<<Message(m)>>) : <<Message(m)>>[j].by = pos
      BY DEF Message
    <3>2. \A j \in 1..Len(<<Message("ask"), Message("result"), Message("answer")>>) :
              <<Message("ask"), Message("result"), Message("answer")>>[j].by = pos
      <4>1. 1..3 = {1, 2, 3}
        OBVIOUS
      <4>. QED
        BY <4>1 DEF Message
    <3>3. new \in Histories
      BY <1>5, <2>2, Zenon DEF MessageKinds
    <3>4. CASE new = <<>>
      BY <3>3, <3>4
    <3>. QED
      BY <1>5, <3>1, <3>2, <3>3, <3>4, Zenon
  <2>4. Own
    BY <1>2, <2>1, <2>3, OwnMessages
  <2>5. \A i \in 1..Len(Selected) : i > pos => report'[i] = "empty"
    <3>1. report \in [1..Len(Selected) -> Texts]
      BY DEF StateOK
    <3>2. \A i \in 1..Len(Selected) : i > pos => i # pos
      BY <1>1
    <3>. QED
      BY <1>2, <2>1, <3>1, <3>2
  <2>6. Selected[pos] = "news" => node' = "clear"
    BY <1>1, <1>2, <1>5, AnswerClears
  <2>7. ~ FundamentalsFallsBack \/ Selected[pos] # "fundamentals"
    BY <1>3, <1>5 DEF FundamentalsFallsBack, ToolCount, MaxToolCalls
  <2>8. CASE new = <<>>
    <3>1. messages' = messages
      BY <1>2, <2>1, <2>8 DEF Histories
    <3>2. node' = "clear"
      BY <1>2, <1>5, <3>1 DEF Returns, Goto, should_continue
    <3>. QED
      BY <1>2, <2>4, <2>5, <3>1, <3>2
  <2>9. CASE new = <<Message("answer")>>
    BY <1>1, <1>2, <1>5, <2>4, <2>5, <2>9, AnswerClears
  <2>. QED
    BY <1>5, <2>4, <2>5, <2>6, <2>7, <2>8, <2>9
<1>. QED
  BY <1>1, <1>2, <1>3, <1>4, <1>5, AnalystReturns
     DEF EvidenceInv, NewsNeverLoops, FundamentalsServed, AnalystNodes

LEMMA EvidenceStep ==
    ASSUME StateOK, PhaseInv, HistoryInv, EvidenceInv, [Next]_vars
    PROVE  EvidenceInv'
<1>. USE DEF AnalystNodes
<1>1. CASE Analyst
  BY <1>1, EvidenceVisit
<1>2. CASE Start
  <2>1. /\ node = "start" /\ node' \in {"analyst", "failed"}
        /\ UNCHANGED <<pos, messages, report>>
    BY <1>2 DEF Start, Goto, Fail
  <2>. QED
    BY <2>1 DEF EvidenceInv, NewsNeverLoops, FundamentalsServed
<1>3. CASE Tools
  <2>1. /\ node = "tools" /\ node' = "analyst" /\ UNCHANGED <<pos, report>>
        /\ messages' = Append(messages, Message("result"))
    BY <1>3 DEF Tools, Run, Goto
  <2>2. messages \in Histories /\ <<Message("result")>> \in Histories
        /\ messages' = messages \o <<Message("result")>>
    <3>1. messages \in Histories /\ <<Message("result")>> \in Histories
      BY Counters, HistoryType DEF MessageKinds
    <3>. QED
      BY <2>1, <3>1 DEF Histories
  <2>3. <<Message("result")>>[1].by = pos
    BY DEF Message
  <2>4. \A i \in 1..Len(messages) : messages[i].kind = "result" => messages[i].by = pos
    BY <2>1 DEF EvidenceInv
  <2>5. \A i \in 1..Len(messages') : messages'[i].kind = "result" => messages'[i].by = pos
    BY <2>2, <2>3, <2>4, OwnMessages
  <2>. QED
    BY <2>1, <2>5 DEF EvidenceInv, NewsNeverLoops, FundamentalsServed
<1>4. CASE MsgClear
  <2>1. /\ node = "clear" /\ node' \in {"analyst", "Bull Researcher"}
        /\ node' = "analyst" => pos < Len(Selected)
        /\ pos' = pos + 1 /\ messages' = <<Human>> /\ report' = report
    BY <1>4 DEF MsgClear, Run, Goto
  <2>2. /\ pos \in 1..Len(Selected) /\ pos \in Nat /\ Len(Selected) \in Nat
        /\ \A i \in 1..Len(Selected) : i > pos => report[i] = "empty"
    BY <2>1, AtWork, Config DEF EvidenceInv
  <2>3. \A i \in 1..Len(messages') : messages'[i].kind # "result"
    <3>1. Len(<<Human>>) = 1 /\ <<Human>>[1].kind # "result"
      BY DEF Human
    <3>2. \A i \in 1..1 : i = 1
      OBVIOUS
    <3>3. Len(messages') = 1 /\ messages'[1].kind # "result"
      BY <2>1, <3>1
    <3>. QED
      BY <3>2, <3>3, Zenon
  <2>4. /\ \A i \in 1..Len(Selected) : i > pos' => report'[i] = "empty"
        /\ node' = "analyst" => report'[pos'] = "empty"
    <3>1. \A i \in 1..Len(Selected) : i > pos + 1 => i > pos
      BY <2>2
    <3>2. node' = "analyst" => pos + 1 \in 1..Len(Selected) /\ pos + 1 > pos
      BY <2>1, <2>2
    <3>. QED
      BY <2>1, <2>2, <3>1, <3>2, Zenon
  <2>. QED
    BY <2>1, <2>3, <2>4 DEF EvidenceInv, NewsNeverLoops, FundamentalsServed
<1>5. ASSUME node' \notin AnalystNodes \cup {"start"} PROVE EvidenceInv'
  BY <1>5 DEF EvidenceInv, NewsNeverLoops, FundamentalsServed
<1>6. CASE BullResearcher \/ BearResearcher
  BY <1>5, <1>6 DEF BullResearcher, BearResearcher, Route, Goto, Fail
<1>7. CASE ResearchManager \/ Trader \/ RiskJudge
  BY <1>5, <1>7 DEF ResearchManager, Trader, RiskJudge, Goto
<1>8. CASE RiskyAnalyst \/ SafeAnalyst \/ NeutralAnalyst
  BY <1>5, <1>8 DEF RiskyAnalyst, SafeAnalyst, NeutralAnalyst, Argues, Route, Goto, Fail
<1>9. CASE JudgeRetries
  BY <1>5, <1>9 DEF JudgeRetries
<1>10. CASE CallRaises \/ OutOfSteps
  BY <1>5, <1>10 DEF CallRaises, OutOfSteps, Fail
<1>11. CASE UNCHANGED vars
  BY <1>11 DEF vars, setup, EvidenceInv, NewsNeverLoops, FundamentalsServed
<1>. QED
  BY <1>1, <1>2, <1>3, <1>4, <1>6, <1>7, <1>8, <1>9, <1>10, <1>11 DEF Next, RunNode

LEMMA EvidenceInvariance == Spec => []EvidenceInv
<1>1. Init => EvidenceInv
  <2>1. Init => /\ node = "start" /\ messages = <<Human>>
                /\ \A i \in 1..Len(Selected) : report[i] = "empty"
                /\ pos = 1 /\ 1 \in 1..Len(Selected)
    BY Config DEF Init
  <2>2. Len(<<Human>>) = 1 /\ <<Human>>[1].kind # "result" /\ \A i \in 1..1 : i = 1
    BY DEF Human
  <2>3. Init => \A i \in 1..Len(messages) : messages[i].kind # "result"
    BY <2>1, <2>2, Zenon
  <2>. QED
    BY <2>1, <2>3 DEF EvidenceInv, NewsNeverLoops, FundamentalsServed
<1>2. StateOK /\ PhaseInv /\ HistoryInv /\ EvidenceInv /\ [Next]_vars => EvidenceInv'
  BY EvidenceStep
<1>3. LoopsOK => HistoryInv
  BY DEF LoopsOK
<1>. QED
  BY <1>1, <1>2, <1>3, LoopInvariance, PTL DEF Spec

\* However many analysts run before it and whatever tools they used, an
\* analyst's model is only shown results of that analyst's own requests.
THEOREM EvidenceIsOwn == Spec => []OwnEvidence
<1>1. EvidenceInv => OwnEvidence
  BY DEF EvidenceInv, OwnEvidence, AnalystNodes
<1>. QED
  BY <1>1, EvidenceInvariance, PTL

\* The news analyst never reaches the tool node, whatever its model asks for.
THEOREM NewsVisitsOnce == Spec => []NewsNeverLoops
<1>1. EvidenceInv => NewsNeverLoops
  BY DEF EvidenceInv
<1>. QED
  BY <1>1, EvidenceInvariance, PTL

\* The run never leaves the fundamentals analyst with its request pending:
\* the one tool round its counter allows is always run.
THEOREM FundamentalsIsServed == Spec => []FundamentalsServed
<1>1. EvidenceInv => FundamentalsServed
  BY DEF EvidenceInv
<1>. QED
  BY <1>1, EvidenceInvariance, PTL
=============================================================================
