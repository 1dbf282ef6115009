------------------------ MODULE MCContractAnnotations ------------------------
(***************************************************************************)
(* Small instances of ContractAnnotations for TLC.                         *)
(***************************************************************************)
EXTENDS ContractAnnotations

CONSTANTS x, y, g1, g2, whole, draft, ann, nobody

OnlyThePage == {}
AboutX      == {x} \X Rules

=============================================================================
