---------------------------- MODULE RiskHistory ----------------------------
(***************************************************************************)
(* The history of project risk results (app/risk/storage.py) and the       *)
(* comparison of two of them (app/risk/diff.py).                           *)
(*                                                                         *)
(* A row is stamped with the wall clock before SQLite numbers it, and      *)
(* several processes save: the order of created_at and the order of id may *)
(* differ. Some readers take the newest row by one, some by the other. The *)
(* dashboard makes six reads of one table on a connection that holds no    *)
(* transaction, so rows may be added between them.                         *)
(*                                                                         *)
(* Names, explanations and evidence are left out; the clock does not go    *)
(* back; rows are never changed or deleted.                                *)
(***************************************************************************)
EXTENDS Naturals, Sequences, FiniteSets, SequencesExt, FiniteSetsExt

CONSTANTS
    Projects,
    Savers,       \* processes and threads that evaluate
    Versions,     \* rule versions
    Levels,
    Hits,         \* reasons, by which a hit is known
    Results,      \* the results an evaluation may have, a set of Result
    RecentLimit,  \* recent_limit
    MaxRows,      \* bound: rows
    MaxTime       \* bound: the clock

None == [step |-> "none"]

VARIABLES
    rows,    \* risk_history, by id
    clock,   \* beijing_now_text
    saver,   \* the row each saver has stamped and not yet inserted, or None
    board,   \* the dashboard request
    raced    \* ghost: projects of which a row overtook another

historyVars == <<rows, clock, saver, board, raced>>

\* A payload is whole, without dimensions, or does not decode: rows of earlier
\* versions of the program.
Result == [project : Projects, level : Levels, version : Versions, hits : SUBSET Hits,
           payload : {"whole", "bare", "lost"}]
Row == [of : Result, at : Nat]
Ids == 1 .. Len(rows)
RowsOf(p) == {i \in Ids : rows[i].of.project = p}
Evaluated == {p \in Projects : RowsOf(p) # {}}

\* moved is a ghost: the projects saved since the first read.
Boards == [step : {"counted", "levels", "recent", "latest", "done"}, version : Versions,
          counted : Nat, levels : [Levels -> Nat], recent : Seq(Nat),
          latest : SUBSET Nat, stale : SUBSET Projects, moved : SUBSET Projects]
ASSUME RiskAssumption ==
    /\ Results \subseteq Result /\ IsFiniteSet(Levels)
    /\ RecentLimit \in Nat \ {0} /\ MaxRows \in Nat

HistoryTypeOK ==
    /\ rows \in Seq(Row)
    /\ clock \in Nat
    /\ saver \in [Savers -> Row \cup {None}]
    /\ board = None \/ board \in Boards
    /\ raced \subseteq Projects

HistoryInit ==
    /\ rows = <<>>
    /\ clock = 1
    /\ saver = [s \in Savers |-> None]
    /\ board = None
    /\ raced = {}

Tick ==
    /\ clock < MaxTime
    /\ clock' = clock + 1
    /\ UNCHANGED <<rows, saver, board, raced>>

-----------------------------------------------------------------------------
(* Saving a result: the stamp is taken while the statement is built.       *)

Stamp(s, result) ==
    /\ saver[s] = None
    /\ Len(rows) + Cardinality({t \in Savers : saver[t] # None}) < MaxRows
    /\ saver' = [saver EXCEPT ![s] = [of |-> result, at |-> clock]]
    /\ UNCHANGED <<rows, clock, board, raced>>

Insert(s) ==
    /\ saver[s] # None
    /\ rows' = Append(rows, saver[s])
    /\ saver' = [saver EXCEPT ![s] = None]
    /\ LET p == saver[s].of.project
       IN  /\ board' = IF board = None THEN None ELSE [board EXCEPT !.moved = @ \cup {p}]
           /\ raced' = raced \cup {q \in {p} : \E t \in Savers \ {s} :
                                                 saver[t] # None /\ saver[t].of.project = p}
    /\ UNCHANGED clock

\* The process dies, or the statement fails.
SaveFails(s) ==
    /\ saver[s] # None
    /\ saver' = [saver EXCEPT ![s] = None]
    /\ UNCHANGED <<rows, clock, board, raced>>

-----------------------------------------------------------------------------
(* Which row is the newest.                                                *)

\* Mutant: of the same second, the first one.
FirstOfSecond(i, j) == rows[i].at > rows[j].at \/ (rows[i].at = rows[j].at /\ i < j)

\* ORDER BY created_at DESC, id DESC
After(i, j) ==
    rows[i].at > rows[j].at \/ (rows[i].at = rows[j].at /\ i > j)

\* get_latest, latest_by_project
NewestByTime(p) == CHOOSE i \in RowsOf(p) : \A j \in RowsOf(p) \ {i} : After(i, j)

\* latest_rule_versions and the dashboard: MAX(id)
NewestById(p) == Max(RowsOf(p))

\* The n-th of some rows has n - 1 of the others before it.
IdsInOrder(ids, Before(_, _)) ==
    [n \in 1 .. Cardinality(ids) |->
        CHOOSE i \in ids : Cardinality({j \in ids \ {i} : Before(j, i)}) = n - 1]

ListHistory(ids, limit) ==
    LET all == IdsInOrder(ids, After)
    IN  SubSeq(all, 1, IF Len(all) < limit THEN Len(all) ELSE limit)

\* risk_summary: the latest result and the points of the chart, oldest first.
RiskSummary(p, limit) ==
    LET history == ListHistory(RowsOf(p), limit)
    IN  [latest |-> Head(history),
         points |-> IdsInOrder(ToSet(history), LAMBDA i, j : After(j, i))]

-----------------------------------------------------------------------------
(* dashboard_summary, scoped to a rule version.                            *)

InScope(version) == {i \in Ids : rows[i].of.version = version}

\* Only here to give the record its fields.
Blank(version) ==
    [step |-> "counted", version |-> version, counted |-> 0, levels |-> [l \in Levels |-> 0],
     recent |-> <<>>, latest |-> {}, stale |-> {}, moved |-> {}]

CountRows(version) ==
    /\ board.step \in {"none", "done"}
    /\ board' = [Blank(version) EXCEPT !.counted = Cardinality(InScope(version))]
    /\ UNCHANGED <<rows, clock, saver, raced>>

CountLevels ==
    /\ board.step = "counted"
    /\ board' = [board EXCEPT !.step = "levels",
                    !.levels = [l \in Levels |->
                        Cardinality({i \in InScope(board.version) : rows[i].of.level = l})]]
    /\ UNCHANGED <<rows, clock, saver, raced>>

ReadRecent ==
    /\ board.step = "levels"
    /\ board' = [board EXCEPT !.step = "recent", !.recent = ListHistory(Ids, RecentLimit)]
    /\ UNCHANGED <<rows, clock, saver, raced>>

\* Mutant: the newest row of the version, superseded or not.
LatestInScope(version) ==
    {i \in InScope(version) :
        \A j \in InScope(version) : rows[j].of.project = rows[i].of.project => j <= i}

\* The newest row of every project, and of those the rows of the version.
LatestRows(version) == {NewestById(p) : p \in Evaluated} \cap InScope(version)

ReadNewest ==
    /\ board.step = "recent"
    /\ board' = [board EXCEPT !.step = "latest", !.latest = LatestRows(board.version)]
    /\ UNCHANGED <<rows, clock, saver, raced>>

CountStale ==
    /\ board.step = "latest"
    /\ board' = [board EXCEPT !.step = "done",
                    !.stale = {p \in Evaluated : rows[NewestById(p)].of.version # board.version}]
    /\ UNCHANGED <<rows, clock, saver, raced>>

-----------------------------------------------------------------------------
(* evaluation_payload and compare_evaluations. A payload that was never    *)
(* stored or does not decode is replaced by the columns of its row, which  *)
(* have no hits and no dimensions.                                         *)

HitsIn(i) == IF rows[i].of.payload = "lost" THEN {} ELSE rows[i].of.hits
HasDimensions(i) == rows[i].of.payload = "whole"

\* Mutant: the absence of dimensions is told when neither side has any.
BothMissing(i, j) == ~HasDimensions(i) /\ ~HasDimensions(j)

DimensionsMissing(i, j) == ~HasDimensions(i) \/ ~HasDimensions(j)

Signals(i, j) ==
    {signal \in {"version_changed", "same_evaluation", "missing_dimensions"} :
        \/ signal = "version_changed" /\ rows[i].of.version # rows[j].of.version
        \/ signal = "same_evaluation" /\ i = j
        \/ signal = "missing_dimensions" /\ DimensionsMissing(i, j)}

\* Which two, and in which order, is the caller's choice.
Compare(i, j) ==
    [comparable |-> rows[i].of.version = rows[j].of.version,
     signals    |-> Signals(i, j),
     new        |-> HitsIn(j) \ HitsIn(i),
     resolved   |-> HitsIn(i) \ HitsIn(j),
     unchanged  |-> Cardinality(HitsIn(i) \cap HitsIn(j))]

-----------------------------------------------------------------------------

HistoryNext ==
    \/ Tick
    \/ \E s \in Savers : (\E result \in Results : Stamp(s, result)) \/ Insert(s) \/ SaveFails(s)
    \/ \E version \in Versions : CountRows(version)
    \/ CountLevels \/ ReadRecent \/ ReadNewest \/ CountStale

HistorySpec == HistoryInit /\ [][HistoryNext]_historyVars
-----------------------------------------------------------------------------

\* Four readers choose a newest row in their own way: by time, by number, as the
\* head of the history and as the end of the chart. Unless two saves of one
\* project overtook each other they mean the same row (get_latest,
\* latest_rule_versions, risk_summary).
ReadersAgree ==
    \A p \in Evaluated, limit \in 1 .. MaxRows :
        LET summary == RiskSummary(p, limit)
        IN  /\ summary.latest = NewestByTime(p)
            /\ Last(summary.points) = NewestByTime(p)
            /\ p \notin raced => NewestById(p) = NewestByTime(p)

\* The dashboard's reads are not one snapshot. A project that was evaluated
\* before and is left alone meanwhile is still in exactly one of the two counts,
\* current or stale; and when nothing was saved meanwhile the numbers add up
\* (dashboard_summary).
DashboardAddsUp ==
    board.step = "done" =>
        /\ \A p \in Evaluated \ board.moved :
                (RowsOf(p) \cap board.latest = {}) = (p \in board.stale)
        /\ board.moved = {} =>
                /\ board.counted = SumFunction(board.levels)
                /\ Cardinality(board.latest) + Cardinality(board.stale) = Cardinality(Evaluated)

\* A comparison says nothing is new or resolved that is not, unless it says that
\* a side could not be read whole: a payload that is gone has no hits, and every
\* rule would look resolved (evaluation_payload, compare_evaluations).
DiffTellsWhatIsMissing ==
    \A i, j \in Ids :
        LET d == Compare(i, j)
        IN  /\ "missing_dimensions" \notin d.signals =>
                    /\ d.new = rows[j].of.hits \ rows[i].of.hits
                    /\ d.resolved = rows[i].of.hits \ rows[j].of.hits
            /\ d.comparable = ("version_changed" \notin d.signals)
            /\ i = j => d.new \cup d.resolved = {}

=============================================================================
