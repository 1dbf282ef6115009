------------------------- MODULE ContractAnnotations -------------------------
(***************************************************************************)
(* Acknowledging contract findings: ContractAnnotationStore with its       *)
(* history (app/contracts/annotations.py), the ledger that lays the        *)
(* annotations over risk scores (apply_annotations, app/contracts/api.py), *)
(* and the panel of the ledger page that edits them                        *)
(* (app/static/js/contract-ledger.js).                                     *)
(*                                                                         *)
(* The risk scores are recomputed from the source system on every load and *)
(* change on their own. A page keeps the rows it loaded until it loads     *)
(* again; a save of its panel is a request and, later, a response, between *)
(* which the operator may close the panel or open another row.             *)
(*                                                                         *)
(* An owner stands for the owner and the note, which are treated alike.    *)
(***************************************************************************)
EXTENDS Naturals, Sequences, FiniteSets

CONSTANTS
    Contracts,   \* contract references
    Rules,       \* rule names an annotation can be about, Whole among them
    Whole,       \* WHOLE_CONTRACT
    Owners,      \* what the owner field can hold, Nobody among them
    Nobody,      \* the empty owner
    Scores,      \* risk scores
    Pages,       \* browser pages that show the ledger
    None,        \* no row, score, panel, request; an argument left out
    MaxWrites,   \* bound: annotation writes
    Findings     \* the findings that clients other than the page write about

States == {"open", "acknowledged", "accepted"}
Pinned == Scores \cup {None}
Annotation == [state : States, owner : Owners, score : Pinned]

ASSUME AnnotationAssumption ==
    /\ Whole \in Rules /\ Nobody \in Owners
    /\ Scores \subseteq Nat
    /\ None \notin Contracts \cup Scores \cup Owners
    /\ None \notin States /\ None \notin Annotation
    /\ MaxWrites \in Nat
    /\ Findings \subseteq Contracts \X Rules

VARIABLES
    score,       \* the risk score of each contract, in the source system
    annotation,  \* contract_annotations, by contract and rule
    history,     \* contract_annotation_history, by contract and rule
    rows,        \* the ledger rows a page has loaded
    panel,       \* annotationTarget: the row its panel is editing
    form,        \* what the controls of the panel hold
    saving       \* its request under way

store == <<score, annotation, history>>
page  == <<rows, panel, form, saving>>
vars  == <<score, annotation, history, rows, panel, form, saving>>

Row == [score : Scores, annotation : Annotation \cup {None}, stale : BOOLEAN]
Form == [state : States, owner : Owners]
Request == [contract : Contracts, state : States, owner : Owners, score : Scores,
            shown : Annotation \cup {None}, touched : SUBSET {"state", "owner"},
            reply : Annotation \cup {None}]

TypeOK ==
    /\ score \in [Contracts -> Scores]
    /\ annotation \in [Contracts -> [Rules -> Annotation \cup {None}]]
    /\ history \in [Contracts -> [Rules -> Seq(Annotation)]]
    /\ rows \in [Pages -> [Contracts -> Row] \cup {None}]
    /\ panel \in [Pages -> Contracts \cup {None}]
    /\ form \in [Pages -> Form \cup {None}]
    /\ saving \in [Pages -> Request \cup {None}]

Init ==
    /\ score \in [Contracts -> Scores]
    /\ annotation = [c \in Contracts |-> [r \in Rules |-> None]]
    /\ history = [c \in Contracts |-> [r \in Rules |-> <<>>]]
    /\ rows = [p \in Pages |-> None]
    /\ panel = [p \in Pages |-> None]
    /\ form = [p \in Pages |-> None]
    /\ saving = [p \in Pages |-> None]

-----------------------------------------------------------------------------
(* The store.                                                              *)

\* Annotation.is_stale_for
Stale(a, s) ==
    /\ a.state # "open" /\ a.score # None
    /\ s > a.score

\* Mutant: reopening a row leaves the score it was accepted at.
PinKept(old, state, s) == IF state = None THEN old.score ELSE s

\* A score is pinned by every state that is given, and cleared by "open".
Pin(old, state, s) ==
    IF state = None THEN old.score ELSE IF state = "open" THEN None ELSE s

\* What a missing row is taken for.
Blank == [state |-> "open", owner |-> Nobody, score |-> None]
Current(c, r) == IF annotation[c][r] = None THEN Blank ELSE annotation[c][r]

Given(argument, old) == IF argument = None THEN old ELSE argument

Updated(old, state, owner, s) ==
    [state |-> Given(state, old.state), owner |-> Given(owner, old.owner),
     score |-> Pin(old, state, s)]

\* Mutant: only changes are recorded.
OnlyChanges(c, r, a) ==
    IF a = Current(c, r) THEN history[c][r] ELSE Append(history[c][r], a)

Recorded(c, r, a) == Append(history[c][r], a)

Writes == UNION {{<<c, r, i>> : i \in DOMAIN history[c][r]} :
                     c \in Contracts, r \in Rules}

\* set_annotation; None leaves a field as it is.
SetAnnotation(c, r, state, owner, s) ==
    LET a == Updated(Current(c, r), state, owner, s)
    IN  /\ Cardinality(Writes) < MaxWrites
        /\ annotation' = [annotation EXCEPT ![c][r] = a]
        /\ history' = [history EXCEPT ![c][r] = Recorded(c, r, a)]
        /\ UNCHANGED score

\* Another client of POST /annotations, which may leave anything out.
ClientSets(c, r, state, owner, s) ==
    /\ <<c, r>> \in Findings
    /\ SetAnnotation(c, r, state, owner, s)
    /\ UNCHANGED page

\* The source system changes, and the rules score the contract anew.
ScoreChanges(c, s) ==
    /\ score[c] # s
    /\ score' = [score EXCEPT ![c] = s]
    /\ UNCHANGED <<annotation, history, page>>

-----------------------------------------------------------------------------
(* The ledger page.                                                        *)

\* apply_annotations: a row shows the annotation of the whole contract.
LedgerRow(c) ==
    [score |-> score[c], annotation |-> annotation[c][Whole],
     stale |-> annotation[c][Whole] # None /\ Stale(annotation[c][Whole], score[c])]

\* GET /ledger. The open panel covers the page.
LoadLedger(p) ==
    /\ panel[p] = None
    /\ rows' = [rows EXCEPT ![p] = [c \in Contracts |-> LedgerRow(c)]]
    /\ UNCHANGED <<store, panel, form, saving>>

\* Mutant: a row without annotation leaves the state control empty.
FormWithoutDefault(row) ==
    IF row.annotation = None
    THEN [state |-> None, owner |-> Nobody]
    ELSE [state |-> row.annotation.state, owner |-> row.annotation.owner]

FormOf(row) ==
    IF row.annotation = None
    THEN [state |-> "open", owner |-> Nobody]
    ELSE [state |-> row.annotation.state, owner |-> row.annotation.owner]

\* renderAnnotationPanel: the detail of a row opens over the table.
OpenPanel(p, c) ==
    /\ rows[p] # None /\ panel[p] = None
    /\ panel' = [panel EXCEPT ![p] = c]
    /\ form' = [form EXCEPT ![p] = FormOf(rows[p][c])]
    /\ UNCHANGED <<store, rows, saving>>

\* closeContractDetail
ClosePanel(p) ==
    /\ panel[p] # None
    /\ panel' = [panel EXCEPT ![p] = None]
    /\ form' = [form EXCEPT ![p] = None]
    /\ UNCHANGED <<store, rows, saving>>

ChooseState(p, state) ==
    /\ panel[p] # None /\ form[p].state # state
    /\ form' = [form EXCEPT ![p].state = state]
    /\ UNCHANGED <<store, rows, panel, saving>>

TypeOwner(p, owner) ==
    /\ panel[p] # None /\ form[p].owner # owner
    /\ form' = [form EXCEPT ![p].owner = owner]
    /\ UNCHANGED <<store, rows, panel, saving>>

\* saveAnnotation up to its await: all three fields are sent, changed or not.
\* The button stays disabled until the save is over. What the page shows for the
\* row, and which controls differ from it, is remembered for the properties.
Touched(p) ==
    LET filled == FormOf(rows[p][panel[p]])
    IN  {f \in {"state", "owner"} : form[p][f] # filled[f]}

Save(p) ==
    /\ panel[p] # None /\ saving[p] = None
    /\ saving' = [saving EXCEPT ![p] =
            [contract |-> panel[p], state |-> form[p].state, owner |-> form[p].owner,
             score |-> rows[p][panel[p]].score,
             shown |-> rows[p][panel[p]].annotation, touched |-> Touched(p),
             reply |-> None]]
    /\ UNCHANGED <<store, rows, panel, form>>

\* Mutant: the score is the one of the row the panel shows by now.
ScoreOnScreen(p) ==
    IF panel[p] = None THEN saving[p].score ELSE rows[p][panel[p]].score

ScoreSent(p) == saving[p].score

\* POST /annotations for the page; the reply is computed without a score and
\* is therefore never stale.
ServerSaves(p) ==
    /\ saving[p] # None /\ saving[p].reply = None
    /\ LET q == saving[p]
       IN  /\ SetAnnotation(q.contract, Whole, q.state, q.owner, ScoreSent(p))
           /\ saving' = [saving EXCEPT ![p].reply =
                Updated(Current(q.contract, Whole), q.state, q.owner, ScoreSent(p))]
    /\ UNCHANGED <<rows, panel, form>>

\* applyAnnotationToRow
WithReply(row, reply) == [row EXCEPT !.annotation = reply, !.stale = FALSE]

\* The rest of saveAnnotation: the row the panel is on by now takes the reply.
\* A closed panel makes it fail, and the catch clause reports a failed save.
SaveReturns(p) ==
    /\ saving[p] # None /\ saving[p].reply # None
    /\ saving' = [saving EXCEPT ![p] = None]
    /\ IF panel[p] = None THEN UNCHANGED <<rows, form>>
       ELSE /\ rows' = [rows EXCEPT ![p][panel[p]] = WithReply(@, saving[p].reply)]
            /\ form' = [form EXCEPT ![p] = FormOf(rows'[p][panel[p]])]
    /\ UNCHANGED <<store, panel>>

\* The request fails before it reached the store, or its reply is lost.
SaveFails(p) ==
    /\ saving[p] # None
    /\ saving' = [saving EXCEPT ![p] = None]
    /\ UNCHANGED <<store, rows, panel, form>>

-----------------------------------------------------------------------------

Next ==
    \/ \E c \in Contracts :
        \/ \E s \in Scores : ScoreChanges(c, s)
        \/ \E r \in Rules, state \in States \cup {None}, owner \in Owners \cup {None},
              s \in Pinned : ClientSets(c, r, state, owner, s)
    \/ \E p \in Pages :
        \/ LoadLedger(p) \/ ClosePanel(p) \/ Save(p)
        \/ ServerSaves(p) \/ SaveReturns(p) \/ SaveFails(p)
        \/ \E c \in Contracts : OpenPanel(p, c)
        \/ \E state \in States : ChooseState(p, state)
        \/ \E owner \in Owners : TypeOwner(p, owner)

Spec == Init /\ [][Next]_vars
-----------------------------------------------------------------------------
(* Properties.                                                             *)

\* Whoever writes, with whatever left out, the newest history entry of a
\* finding is its annotation: the trail tells who accepted what is in force.
TrailTellsWhatHolds ==
    \A c \in Contracts, r \in Rules :
        IF history[c][r] = <<>> THEN annotation[c][r] = None
        ELSE annotation[c][r] = history[c][r][Len(history[c][r])]

\* Through reopening, partial updates and owner changes, a pinned score always
\* belongs to a dismissal: one left on an open row would call the next
\* dismissal stale, or cover a risk nobody looked at.
OnlyDismissalsPin ==
    \A c \in Contracts, r \in Rules :
        annotation[c][r] # None /\ annotation[c][r].state = "open"
        => annotation[c][r].score = None

\* A row leaves the worklist at the score the operator had on screen for that
\* contract: whatever pages show and whichever panel is open when the request
\* is carried out, the page never dismisses a contract above the score its
\* request was made with, so that a later rise brings the row back.
DismissedAsSeen ==
    [][\A p \in Pages :
        ServerSaves(p) =>
            LET c == saving[p].contract
            IN  Stale(saving[p], score[c])
                    => LedgerRow(c)'.stale]_vars

\* "`None` means "leave as it is", which is what lets the UI set an owner
\* without touching the acknowledgement": when a row's acknowledgement is stale
\* and nothing but the owner was edited in its panel, and nobody wrote about the
\* row since it was loaded, the save leaves state and score of the
\* acknowledgement alone, and the row is still to be judged.
OwnerLeavesAcknowledgement ==
    [][\A p \in Pages :
        ServerSaves(p) /\ saving[p].touched = {"owner"} =>
            LET c   == saving[p].contract
                old == annotation[c][Whole]
                new == annotation'[c][Whole]
            IN  old # None /\ old = saving[p].shown /\ Stale(old, saving[p].score)
                => new.state = old.state /\ new.score = old.score]_vars

\* "Update the loaded row in place": an annotation a page shows for a contract
\* is, or was, an annotation of that contract.
RowShowsItsOwnAnnotation ==
    \A p \in Pages : rows[p] # None =>
        \A c \in Contracts :
            \/ rows[p][c].annotation = None
            \/ \E i \in DOMAIN history[c][Whole] :
                  rows[p][c].annotation = history[c][Whole][i]

=============================================================================
