------------------------------- MODULE Agenda -------------------------------
(***************************************************************************)
(* What one analysis promises: every agent speaks in the published order,  *)
(* the selected analysts once each, the two researchers in turn for the    *)
(* configured rounds, then manager and trader, the three risk analysts in  *)
(* rotation for their rounds, and the judge.  AgentGraph implements it.    *)
(***************************************************************************)
EXTENDS Naturals, Sequences

CONSTANTS
    Selected,          \* selected_analysts, in order
    MaxDebateRounds,   \* config max_debate_rounds
    MaxRiskRounds      \* config max_risk_discuss_rounds

VARIABLES
    spoken,    \* how many agents have had their say
    speaker,   \* the last of them
    outcome    \* "running", "decided" or "aborted"

DebateFrom == Len(Selected)
PlansFrom  == DebateFrom + 2 * MaxDebateRounds
RiskFrom   == PlansFrom + 2
Total      == RiskFrom + 3 * MaxRiskRounds + 1

\* Who is k-th to speak.
Speaker(k) ==
    CASE k <= DebateFrom -> Selected[k]
      [] k > DebateFrom /\ k <= PlansFrom ->
            IF (k - DebateFrom) % 2 = 1 THEN "Bull" ELSE "Bear"
      [] k = PlansFrom + 1 -> "Research Manager"
      [] k = PlansFrom + 2 -> "Trader"
      [] k > RiskFrom /\ k < Total ->
            CASE (k - RiskFrom) % 3 = 1 -> "Risky"
              [] (k - RiskFrom) % 3 = 2 -> "Safe"
              [] OTHER -> "Neutral"
      [] OTHER -> "Judge"

Init == spoken = 0 /\ speaker = "none" /\ outcome = "running"

Speak ==
    /\ outcome = "running"
    /\ spoken' = spoken + 1
    /\ speaker' = Speaker(spoken + 1)
    /\ outcome' = IF spoken + 1 = Total THEN "decided" ELSE "running"

\* An exception in any node ends the run.
Abort ==
    /\ outcome = "running" /\ outcome' = "aborted"
    /\ UNCHANGED <<spoken, speaker>>

Next == Speak \/ Abort
Spec == Init /\ [][Next]_<<spoken, speaker, outcome>>
=============================================================================
