----------------------------- MODULE MCChatSend -----------------------------
(***************************************************************************)
(* Small instances of ChatSend for TLC.                                    *)
(***************************************************************************)
EXTENDS ChatSend, TLC

CONSTANTS c1, c2, c3, p1, p2, k1, k2, t1, t2, a1, a2, e1, e2, e3

OneProcess   == [c \in Callers |-> p1]
TwoProcesses == [c \in Callers |-> IF c = c1 THEN p1 ELSE p2]

Alike == Permutations(Entries) \cup Permutations(Answers)
AlikeThreads == Alike \cup Permutations(Callers)

=============================================================================
