-------------------------- MODULE MCChatAndHistory --------------------------
(***************************************************************************)
(* A small instance of ChatAndHistory for TLC. The three parts share no    *)
(* variable, so a behaviour takes one of them: part says which of them     *)
(* moves, the others stay at a state they may begin in.                    *)
(*                                                                         *)
(* The code summarises a session beyond 24 messages, keeps 12 and cuts     *)
(* lines at 80 characters: here it is 2, 1 and lines 1 or 2 wide. A recall *)
(* meets two items that may carry the same text and a third that is        *)
(* somebody else's or small; a question may open the session, and may be   *)
(* wider than the budget. History holds results of two projects, two rule  *)
(* versions, and payloads that are whole, without dimensions or lost.      *)
(***************************************************************************)
EXTENDS ChatAndHistory, TLC

CONSTANTS r1, r2, s1, s2

VARIABLE part   \* which of the three moves

\* Short messages and long ones, of two full lines.
MCCuts == {<<1>>, <<2, 2>>}

-----------------------------------------------------------------------------

Memo(text, authority, own, local, width) ==
    [text |-> text, authority |-> authority, own |-> own, local |-> local, width |-> width]
Strong  == Memo(1, 3, TRUE, FALSE, 2)
Weak    == Memo(1, 1, TRUE, FALSE, 2)
AtHome  == Memo(2, 2, TRUE, TRUE, 3)
Foreign == Memo(3, 3, FALSE, FALSE, 1)
Small   == Memo(3, 1, TRUE, FALSE, 1)
MCCatalogues == {<<Strong, Weak, Small>>, <<Weak, Weak, Foreign>>, <<Weak, AtHome, Small>>}
Risk(hits, suggestions, dimensions) ==
    [hits |-> hits, suggestions |-> suggestions, dimensions |-> dimensions]

MCRiskItems == {Risk(0, 0, 0), Risk(2, 1, 0)}
MCRiskCaps == Risk(1, 1, 1)
MCConversations == {<<>>, <<1, 4>>, <<5, 2>>}

-----------------------------------------------------------------------------

ResultOf(project, version, level, hits, payload) ==
    [project |-> project, version |-> version, level |-> level, hits |-> hits,
     payload |-> payload]

MCResults ==
    {ResultOf("p1", "v1", "low", {"h1"}, "whole"),
     ResultOf("p1", "v2", "high", {"h1", "h2"}, "bare"),
     ResultOf("p2", "v1", "high", {"h1"}, "lost")}

-----------------------------------------------------------------------------

\* Neither refreshers nor savers are told apart.
Symmetry == Permutations({r1, r2}) \cup Permutations({s1, s2})

\* Where ChatContext stays while another part moves.
ContextRests ==
    /\ item = <<Strong, Weak, Small>>
    /\ status = [m \in DOMAIN item |-> "active"]

MCInit ==
    /\ part \in {"summary", "recall", "history"}
    /\ Init
    /\ part # "recall" => ContextRests

MCNext ==
    /\ UNCHANGED part
    /\ \/ part = "summary" /\ SummaryNext /\ UNCHANGED <<recallVars, historyVars>>
       \/ part = "recall" /\ RecallNext /\ UNCHANGED <<summaryVars, historyVars>>
       \/ part = "history" /\ HistoryNext /\ UNCHANGED <<summaryVars, recallVars>>

MCSpec == MCInit /\ [][MCNext]_<<part, vars>>

=============================================================================
