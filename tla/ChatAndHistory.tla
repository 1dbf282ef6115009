--------------------------- MODULE ChatAndHistory ---------------------------
(***************************************************************************)
(* What surrounds sending a chat message: the rolling summary              *)
(* (RollingSummary), the recall and the prompt (ChatContext), and the      *)
(* history of risk results (RiskHistory). The three share no variable: the *)
(* recall reads a summary and a risk result as they are at that moment,    *)
(* which ChatContext takes from small sets. Their steps interleave.        *)
(***************************************************************************)
EXTENDS RollingSummary, ChatContext, RiskHistory

vars == <<summaryVars, recallVars, historyVars>>

Init == SummaryInit /\ RecallInit /\ HistoryInit

Next ==
    \/ SummaryNext /\ UNCHANGED <<recallVars, historyVars>>
    \/ RecallNext /\ UNCHANGED <<summaryVars, historyVars>>
    \/ HistoryNext /\ UNCHANGED <<summaryVars, recallVars>>

Spec == Init /\ [][Next]_vars

\* Every part keeps its messages, memories and rows in shape.
AllTypesOK == SummaryTypeOK /\ RecallTypeOK /\ HistoryTypeOK

=============================================================================
