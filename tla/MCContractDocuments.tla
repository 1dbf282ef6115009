------------------------ MODULE MCContractDocuments ------------------------
(***************************************************************************)
(* Small instances of ContractDocuments for TLC.                           *)
(***************************************************************************)
EXTENDS ContractDocuments

CONSTANTS w1, w2, a1, a2, h1, h2

At(host) == [blank |-> FALSE, https |-> TRUE, host |-> host, fetchable |-> TRUE,
             public |-> TRUE]
Urls == [a \in Attachments |-> IF a = a1 THEN At(h1) ELSE At(h2)]

\* Each address is on one list and not on the other.
Lists == {{h1}, {h2}}

\* A severe problem in one document, nothing in the other.
Texts == [a \in Attachments |-> IF a = a1 THEN 80 ELSE 0]

=============================================================================
