---------------------------- MODULE MCContractChat ----------------------------
(***************************************************************************)
(* A small instance of ContractChat for TLC: one contract with two         *)
(* articles, both about the topic, and a body with room for the first.     *)
(***************************************************************************)
EXTENDS ContractChat

CONSTANTS c1, m1, m2

Article(mark) ==
    [hits |-> 1, behind |-> TRUE, size |-> 1, sensitive |-> FALSE, mark |-> mark]

OneContract == <<c1>>
TwoArticles == {<<<<Article(m1), Article(m2)>>>>}

=============================================================================
