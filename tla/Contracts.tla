------------------------------ MODULE Contracts ------------------------------
(***************************************************************************)
(* The contract side of the application, whole: fetching and analysing     *)
(* attachments (ContractDocuments), questions about contracts              *)
(* (ContractChat), authorizing attachments (AttachmentAuthorization) and   *)
(* the ledger (ContractLedger). The four share no variable: what one       *)
(* stores, another reads only through the registry and discovery, which    *)
(* are outside the repository. Their steps interleave.                     *)
(***************************************************************************)
EXTENDS ContractDocuments, ContractChat, AttachmentAuthorization, ContractLedger

vars == <<documentsVars, chatVars, authorizationVars, ledgerVars>>

Init == DocumentsInit /\ ChatInit /\ AuthorizationInit /\ LedgerInit

Next ==
    \/ DocumentsNext /\ UNCHANGED <<chatVars, authorizationVars, ledgerVars>>
    \/ ChatNext /\ UNCHANGED <<documentsVars, authorizationVars, ledgerVars>>
    \/ AuthorizationNext /\ UNCHANGED <<documentsVars, chatVars, ledgerVars>>
    \/ LedgerNext /\ UNCHANGED <<documentsVars, chatVars, authorizationVars>>

Spec == Init /\ [][Next]_vars

\* Every part keeps its tables, runs, requests and calls in shape.
AllTypesOK == DocumentsTypeOK /\ ChatTypeOK /\ AuthorizationTypeOK /\ LedgerTypeOK

=============================================================================
