---------------------------- MODULE ChatExchange ----------------------------
(***************************************************************************)
(* What a chat session promises the callers of ChatService.send_message:   *)
(* an idempotency key names one question, the question gets at most one    *)
(* answer, and whoever sends the question under that key, however often    *)
(* and to whichever process, is told that answer or an error.              *)
(***************************************************************************)
CONSTANTS Keys, Texts, Answers, None

VARIABLES
    question,  \* the text a key was first used with
    answer,    \* the answer the question got
    telling    \* what calls are returning: key, text they sent, answer

vars == <<question, answer, telling>>

Init ==
    /\ question = [k \in Keys |-> None]
    /\ answer = [k \in Keys |-> None]
    /\ telling = {}

Ask(k, t) ==
    /\ question[k] = None
    /\ question' = [question EXCEPT ![k] = t]
    /\ UNCHANGED <<answer, telling>>

Reply(k, a) ==
    /\ question[k] # None /\ answer[k] = None
    /\ answer' = [answer EXCEPT ![k] = a]
    /\ UNCHANGED <<question, telling>>

\* A call is told the answer to the very text it sent.
Tell(k) ==
    /\ answer[k] # None
    /\ telling' = telling \cup
            {[key |-> k, text |-> question[k], answer |-> answer[k]]}
    /\ UNCHANGED <<question, answer>>

\* Calls are over.
Told ==
    /\ telling' \in SUBSET telling
    /\ UNCHANGED <<question, answer>>

Next ==
    \/ \E k \in Keys :
        \/ \E t \in Texts : Ask(k, t)
        \/ \E a \in Answers : Reply(k, a)
        \/ Tell(k)
    \/ Told

Spec == Init /\ [][Next]_vars

=============================================================================
