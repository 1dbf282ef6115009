--------------------------- MODULE ContractLedger ---------------------------
(***************************************************************************)
(* The contract ledger: the rules on registered metadata                   *)
(* (app/contracts/rules.py), the portfolio of all contracts                *)
(* (app/contracts/portfolio.py) and the worklist made from it              *)
(* (app/contracts/ledger.py, the ledger routes of app/contracts/api.py).   *)
(*                                                                         *)
(* Nothing is kept: a request scores what discovery, which is outside the  *)
(* repository, returns, on the day it is asked. The contracts stay and the *)
(* days go by. Dates are day numbers, what reasons and evidence say is     *)
(* left out; annotations are laid over the rows by ContractAnnotations.    *)
(***************************************************************************)
EXTENDS Integers, Sequences, FiniteSets, SequencesExt, FiniteSetsExt, Functions, Listing

CONSTANTS
    Tables,    \* what discovery may return: sequences of Contract
    Budgets,   \* project budgets, 0 for not filled in
    Days,      \* the days on which the ledger is asked for
    MaxItems   \* max_items, 200

VARIABLES
    contracts,   \* the contracts discovered
    day          \* today

ledgerVars == <<contracts, day>>

Blank      == -1    \* no date
Unparsable == -2    \* a date _coerce_date cannot read
Links == {"project_linked", "orphaned", "standalone", "link_unverified"}
\* Refs are ordered; two contracts may share one (a code cut at 40 characters).
\* An amount that is missing, unreadable or not positive is 0.
Contract == [ref : Nat, org : Nat, link : Links, approval : {"", "0", "1", "2", "3"},
             execution : {"", "0", "1", "2", "4", "8", "9"},
             start : Int, end : Int, amount : Nat, signed : BOOLEAN]
ASSUME LedgerAssumption ==
    /\ Tables \subseteq Seq(Contract)
    /\ Budgets \subseteq Nat /\ Days \subseteq Nat /\ MaxItems \in Nat \ {0}

Dated(d) == d >= 0

LedgerTypeOK == contracts \in Seq(Contract) /\ day \in Days

LedgerInit == contracts \in Tables /\ day \in Days

\* Some days later.
Wait(later) ==
    /\ later > day
    /\ day' = later
    /\ UNCHANGED contracts

LedgerNext == \E later \in Days : Wait(later)

LedgerSpec == LedgerInit /\ [][LedgerNext]_ledgerVars

-----------------------------------------------------------------------------
(* Rules on one contract.                                                  *)

Open(c) == c.execution \in {"0", "1", "2"}

Overdue(c) == Dated(c.end) /\ c.end < day /\ Open(c)

\* EXPIRY_LOOKAHEAD_TIERS, the most urgent first
Tiers == <<[days |-> 30, severity |-> 65], [days |-> 60, severity |-> 50],
           [days |-> 90, severity |-> 35]>>

\* Mutant: what ends today is neither overdue nor still to come.
AfterToday(c) == {t \in ToSet(Tiers) : c.end > day /\ c.end - day <= t.days}

\* Exclusive with the overdue rule, which begins the day after.
WithinTiers(c) == {t \in ToSet(Tiers) : c.end >= day /\ c.end - day <= t.days}

Rules == <<"contract_expired_not_closed", "contract_expiring_soon", "executing_without_approval",
           "rejected_but_not_closed", "date_range_inverted", "missing_total_amount",
           "missing_sign_date", "missing_end_date", "still_draft">>

Fires(rule, c) ==
    \/ rule = "contract_expired_not_closed" /\ Overdue(c)
    \/ rule = "contract_expiring_soon" /\ Open(c) /\ Dated(c.end) /\ WithinTiers(c) # {}
    \/ rule = "executing_without_approval" /\ c.execution = "1" /\ c.approval \notin {"", "2"}
    \/ rule = "rejected_but_not_closed" /\ c.approval = "3" /\ c.execution \notin {"", "8", "9"}
    \/ rule = "date_range_inverted" /\ Dated(c.start) /\ Dated(c.end) /\ c.end < c.start
    \/ rule = "missing_total_amount" /\ c.amount = 0
    \/ rule = "missing_sign_date" /\ ~c.signed
    \/ rule = "missing_end_date" /\ c.end = Blank
    \/ rule = "still_draft" /\ c.execution = "4"

\* The first tier that holds the days left.
Urgency(c) == (CHOOSE t \in WithinTiers(c) : \A u \in WithinTiers(c) : t.days <= u.days).severity

Fixed == [contract_expired_not_closed |-> 80, executing_without_approval |-> 85,
          rejected_but_not_closed |-> 75, date_range_inverted |-> 70, missing_total_amount |-> 50,
          missing_sign_date |-> 45, missing_end_date |-> 40, still_draft |-> 35]

Findings(c) ==
    {[rule |-> rule, severity |-> IF rule = "contract_expiring_soon" THEN Urgency(c)
                                  ELSE Fixed[rule]] : rule \in {r \in ToSet(Rules) : Fires(r, c)}}

Worst(findings) == Max({0} \cup {f.severity : f \in findings})
Score(c) == Worst(Findings(c))

\* _risk_level, by rank
RiskLevel(score) == Cardinality({floor \in {26, 51, 76} : score >= floor})

-----------------------------------------------------------------------------
(* A project's contracts together, with its budget.                        *)

BudgetFindings(cs, budget) ==
    {f \in {[rule |-> "contract_total_exceeds_budget", severity |-> 80]} :
        budget > 0 /\ SumFunction([n \in DOMAIN cs |-> cs[n].amount]) > budget}

\* evaluate_contract_metadata
Assessment(cs, budget) ==
    (UNION {Findings(cs[n]) : n \in DOMAIN cs}) \cup BudgetFindings(cs, budget)

AllRules == Append(Rules, "contract_total_exceeds_budget")

\* The contracts read before one that meets the rule this severely, all if none does.
ContractsBefore(cs, rule, severity) ==
    Cardinality({n \in DOMAIN cs : \A m \in 1 .. n :
        [rule |-> rule, severity |-> severity] \notin Findings(cs[m])})

\* _top_findings: every rule once, the worst first, of equals the one met first
\* (the sort is stable, the budget is looked at last), three of them.
TopFindings(cs, budget) ==
    LET findings == Assessment(cs, budget)
        worst(k) == Worst({f \in findings : f.rule = AllRules[k]})
        first(k) == ContractsBefore(cs, AllRules[k], worst(k))
        found == {k \in DOMAIN AllRules : worst(k) > 0}
        all == Listed([k \in found |-> [rule |-> AllRules[k], severity |-> worst(k)]],
                      {p \in found \X found :
                          \/ worst(p[1]) > worst(p[2])
                          \/ worst(p[1]) = worst(p[2]) /\ first(p[1]) < first(p[2])
                          \/ worst(p[1]) = worst(p[2]) /\ first(p[1]) = first(p[2]) /\ p[1] < p[2]})
    IN  SubSeq(all, 1, IF Len(all) < 3 THEN Len(all) ELSE 3)

-----------------------------------------------------------------------------
(* The portfolio and the worklist.                                         *)

\* Rows are known by the position of their contract.
RowBefore(m, n) ==
    LET a == contracts[m]
        b == contracts[n]
    IN  \/ Score(a) > Score(b)
        \/ Score(a) = Score(b) /\ (a.ref < b.ref \/ (a.ref = b.ref /\ m < n))

InOrder(numbers) ==
    Listed([n \in numbers |-> n], {p \in numbers \X numbers : RowBefore(p[1], p[2])})

\* Mutant: cut first, then sorted.
FirstFound == LET n == IF Len(contracts) < MaxItems THEN Len(contracts) ELSE MaxItems
              IN  InOrder(1 .. n)

\* build_contract_portfolio: sorted, then cut.
Rows == LET all == InOrder(DOMAIN contracts)
        IN  SubSeq(all, 1, IF Len(all) < MaxItems THEN Len(all) ELSE MaxItems)

LedgerTruncated == Len(contracts) > MaxItems

\* tier_for_score, by rank like RiskLevel; nothing found is for the record.
Tier(n) ==
    IF Findings(contracts[n]) = {} THEN 0
    ELSE Cardinality({floor \in {26, 51, 76} : Score(contracts[n]) >= floor})

\* _org_by_contract_ref: the last contract of a reference speaks for all of them.
OrgOf(n) ==
    LET last == Max({m \in DOMAIN contracts : contracts[m].ref = contracts[n].ref})
    IN  IF contracts[last].org # 0 THEN contracts[last].org ELSE contracts[n].org

\* build_contract_ledger: per tier and per organisation, of the rows kept.
ByTier == LET kept == ToSet(Rows)
          IN  [t \in 0 .. 3 |-> Cardinality({n \in kept : Tier(n) = t})]
ByOrganisation ==
    LET kept == ToSet(Rows)
    IN  [o \in {OrgOf(n) : n \in kept} |->
            LET of == {n \in kept : OrgOf(n) = o}
            IN  [contracts |-> Cardinality(of),
                 act_now   |-> Cardinality({n \in of : Tier(n) = 3}),
                 worst     |-> Max({Score(contracts[n]) : n \in of})]]
BusierThan(a, b, o, p) ==
    \/ a.act_now > b.act_now
    \/ a.act_now = b.act_now /\ a.worst > b.worst
    \/ a.act_now = b.act_now /\ a.worst = b.worst /\ o < p
OrganisationsInOrder ==
    LET by == ByOrganisation
        found == DOMAIN by
    IN  Listed([o \in found |-> o],
               {p \in found \X found : BusierThan(by[p[1]], by[p[2]], p[1], p[2])})

-----------------------------------------------------------------------------

\* No contract gets better by waiting: while nobody edits it, its score on a later
\* day is no lower, across every boundary between the look-ahead windows and from
\* the last day of the contract to the day after (_evaluate_contract).
WaitingNeverHelps ==
    [][contracts' = contracts =>
        \A n \in DOMAIN contracts : Score(contracts[n])' >= Score(contracts[n])]_ledgerVars

\* What is cut from a long ledger is never worse than what stays, the cut is told,
\* the organisation with the most to do comes first, and the counts by tier and by
\* organisation both count the rows that stay. (contract_total and findings_total
\* count the cut contracts as well, portfolio.py:74, 77: they are not compared.) The
\* thresholds stand in two files, and the tier of a row is the level of its score;
\* the project path, which scores all contracts of a project at once, never rates
\* them lower than the ledger does one by one, and its summary leads with the finding
\* that made the score (build_contract_portfolio, build_contract_ledger,
\* tier_for_score, _risk_level, _top_findings).
WorstFirst ==
    /\ LET kept == ToSet(Rows)
       IN  \A n \in kept, m \in (DOMAIN contracts) \ kept :
               Score(contracts[n]) >= Score(contracts[m])
    /\ LedgerTruncated = (Len(Rows) < Len(contracts))
    /\ SumFunction(ByTier) = Len(Rows)
    /\ LET order == OrganisationsInOrder
           by == ByOrganisation
       IN  /\ SumFunction([k \in DOMAIN order |-> by[order[k]].contracts]) = Len(Rows)
           /\ ByTier[3] > 0 => by[Head(order)].act_now > 0
    /\ \A n \in DOMAIN contracts : Tier(n) = RiskLevel(Score(contracts[n]))
    /\ \A budget \in Budgets :
            LET found == Assessment(contracts, budget)
            IN  /\ \A n \in DOMAIN contracts : Score(contracts[n]) <= Worst(found)
                /\ found # {} => Head(TopFindings(contracts, budget)).severity = Worst(found)

=============================================================================
