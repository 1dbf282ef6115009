---------------------------- MODULE MCContracts ----------------------------
(***************************************************************************)
(* A small instance of Contracts for TLC. The four parts share no          *)
(* variable, so a behaviour takes one of them: part says which of them     *)
(* moves, the others stay at a state they may begin in.                    *)
(*                                                                         *)
(* Two processes analyse a project of one attachment with a severe problem *)
(* in it, which one allow list permits and the other does not. Questions   *)
(* are about three contracts. Two people decide about and ask for three    *)
(* files, one of which is registered with an address that is not redacted. *)
(* Ledgers of up to three contracts are asked for around every boundary of *)
(* the look-ahead windows.                                                 *)
(***************************************************************************)
EXTENDS Contracts, TLC

CONSTANTS w1, w2, a1, h1, h2, c1, c2, c3, m1, m2, p1, p2

VARIABLE part   \* which of the four moves

At(host) == [blank |-> FALSE, https |-> TRUE, host |-> host, fetchable |-> TRUE,
             public |-> TRUE]
MCUrl == [a \in Attachments |-> At(h1)]
MCAllowLists == {{h1}, {h2}}
MCSeverity == [a \in Attachments |-> 80]

-----------------------------------------------------------------------------

Text(hits, behind, size, sensitive, mark) ==
    [hits |-> hits, behind |-> behind, size |-> size, sensitive |-> sensitive,
     mark |-> mark]
Penalty == Text(1, TRUE, 3, FALSE, m1)
Payment == Text(2, FALSE, 1, FALSE, m2)
Account == Text(1, TRUE, 1, TRUE, m1)
Preface == Text(0, FALSE, 1, FALSE, m2)

\* No document; two of which more match than are sent; one of which the gate
\* drops a part, beside one that cannot be read; one that matches nothing; two
\* short ones, which do not fit after those of another contract.
MCDocuments ==
    {<<>>,
     <<<<Penalty, Preface>>, <<Payment, Penalty>>>>,
     <<<<Account, Payment>>, Unreadable>>,
     <<<<Preface>>>>,
     <<<<Payment>>, <<Payment>>>>}

MCOrder == <<c1, c2, c3>>

-----------------------------------------------------------------------------

Registered(key, plain) == [key |-> key, fit |-> TRUE, plain |-> plain]

MCAssets == <<Registered("k1", FALSE), Registered("k2", FALSE), Registered("k3", TRUE)>>

-----------------------------------------------------------------------------

Signed(ref, org, approval, execution, end) ==
    [ref |-> ref, org |-> org, link |-> "project_linked", approval |-> approval,
     execution |-> execution, start |-> 0, end |-> end, amount |-> 2, signed |-> TRUE]

\* Running out, overdue, unapproved, rejected, closed, an empty draft, dates the
\* wrong way round, an end that cannot be read; two have the same reference.
Kinds ==
    {Signed(1, 1, "2", "1", 95),
     Signed(1, 2, "2", "0", 50),
     Signed(2, 1, "1", "1", 200),
     Signed(3, 2, "3", "2", 200),
     Signed(4, 0, "2", "8", 10),
     [Signed(5, 1, "0", "4", -1) EXCEPT !.amount = 0, !.signed = FALSE, !.link = "orphaned"],
     [Signed(6, 2, "2", "1", 30) EXCEPT !.start = 40, !.link = "standalone"],
     [Signed(7, 0, "2", "2", -2) EXCEPT !.start = -1]}
Few == {Signed(1, 2, "2", "0", 50), Signed(2, 1, "1", "1", 200), Signed(4, 0, "2", "8", 10)}
MCTables ==
    UNION {[1 .. n -> Kinds] : n \in 0 .. 2}
    \cup {<<first, second, third>> : first \in Few, second \in Kinds, third \in Few}

MCDays == {0, 4, 5, 6, 20, 30, 31, 35, 36, 50, 51, 65, 66, 95, 96}

-----------------------------------------------------------------------------

\* Neither processes nor people are told apart.
Symmetry == Permutations({w1, w2}) \cup Permutations({p1, p2})

\* Where a part with a choice of beginnings stays while another moves.
ChatRests == docs = [c \in {c1, c2, c3} |-> <<>>] /\ provider = TRUE
LedgerRests == contracts = <<>> /\ day = 0
DocumentsRest == allowed = [w \in Workers |-> {h1}]

\* Of the third contract only short documents are asked about, and without a
\* provider it makes no difference what there is.
ThirdIsShort ==
    /\ docs[c3] \in {<<>>, <<<<Payment>>, <<Payment>>>>}
    /\ provider \/ \A c \in {c1, c2, c3} : docs[c] = <<<<Payment>>, <<Payment>>>>

MCInit ==
    /\ part \in {"documents", "question", "authorization", "ledger"}
    /\ part = "question" \/ ChatRests
    /\ part = "ledger" \/ LedgerRests
    /\ Init
    /\ part = "question" => ThirdIsShort
    /\ part # "documents" => DocumentsRest

MCNext ==
    /\ UNCHANGED part
    /\ \/ /\ part = "documents" /\ DocumentsNext
          /\ UNCHANGED <<chatVars, authorizationVars, ledgerVars>>
       \/ /\ part = "question" /\ ChatNext
          /\ UNCHANGED <<documentsVars, authorizationVars, ledgerVars>>
       \/ /\ part = "authorization" /\ AuthorizationNext
          /\ UNCHANGED <<documentsVars, chatVars, ledgerVars>>
       \/ /\ part = "ledger" /\ LedgerNext
          /\ UNCHANGED <<documentsVars, chatVars, authorizationVars>>

MCSpec == MCInit /\ [][MCNext]_<<part, vars>>

=============================================================================
