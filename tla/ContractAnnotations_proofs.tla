---------------------- MODULE ContractAnnotations_proofs ----------------------
(***************************************************************************)
(* What holds of ContractAnnotations for every set of contracts, rules,    *)
(* owners, scores and pages and any number of writes.                      *)
(***************************************************************************)
EXTENDS ContractAnnotations, SequenceTheorems, TLAPS

\* An open panel has a loaded ledger behind it and its controls filled in.
PanelReady ==
    \A p \in Pages : panel[p] # None =>
        rows[p] \in [Contracts -> Row] /\ form[p] \in Form

IInv == TypeOK /\ PanelReady /\ TrailTellsWhatHolds /\ OnlyDismissalsPin

-----------------------------------------------------------------------------
(* What set_annotation computes.                                           *)

LEMMA CurrentType ==
    ASSUME TypeOK, NEW c \in Contracts, NEW r \in Rules
    PROVE  Current(c, r) \in Annotation
BY AnnotationAssumption
   DEF TypeOK, Current, Blank, Annotation, States, Pinned

LEMMA UpdatedType ==
    ASSUME NEW old \in Annotation,
           NEW state \in States \cup {None}, NEW owner \in Owners \cup {None},
           NEW s \in Pinned
    PROVE  Updated(old, state, owner, s) \in Annotation
BY DEF Updated, Given, Pin, Annotation, Pinned

\* An open annotation has no score, if the one it came from had none.
LEMMA UpdatedPin ==
    ASSUME NEW old, old.state = "open" => old.score = None,
           NEW state, NEW owner, NEW s,
           Updated(old, state, owner, s).state = "open"
    PROVE  Updated(old, state, owner, s).score = None
BY DEF Updated, Given, Pin

\* set_annotation keeps the tables' part of the invariant.
LEMMA SetAnnotationKeeps ==
    ASSUME TypeOK, TrailTellsWhatHolds, OnlyDismissalsPin,
           NEW c \in Contracts, NEW r \in Rules,
           NEW state \in States \cup {None}, NEW owner \in Owners \cup {None},
           NEW s \in Pinned,
           SetAnnotation(c, r, state, owner, s)
    PROVE  /\ score' \in [Contracts -> Scores]
           /\ annotation' \in [Contracts -> [Rules -> Annotation \cup {None}]]
           /\ history' \in [Contracts -> [Rules -> Seq(Annotation)]]
           /\ TrailTellsWhatHolds'
           /\ OnlyDismissalsPin'
<1> DEFINE a == Updated(Current(c, r), state, owner, s)
<1>1. a \in Annotation
  BY CurrentType, UpdatedType
<1>2. /\ annotation' = [annotation EXCEPT ![c][r] = a]
      /\ history' = [history EXCEPT ![c][r] = Append(history[c][r], a)]
      /\ score' = score
  BY DEF SetAnnotation, Recorded
<1>3. Current(c, r).state = "open" => Current(c, r).score = None
  BY DEF OnlyDismissalsPin, Current, Blank
<1>4. a.state = "open" => a.score = None
  BY <1>3, UpdatedPin
<1> HIDE DEF a
<1>5. /\ annotation' \in [Contracts -> [Rules -> Annotation \cup {None}]]
      /\ score' \in [Contracts -> Scores]
  BY <1>1, <1>2 DEF TypeOK
<1>6. /\ history[c][r] \in Seq(Annotation)
      /\ Append(history[c][r], a) \in Seq(Annotation)
  BY <1>1 DEF TypeOK
<1>7. history' \in [Contracts -> [Rules -> Seq(Annotation)]]
  BY <1>2, <1>6 DEF TypeOK
<1>8. /\ annotation'[c][r] = a
      /\ history'[c][r] = Append(history[c][r], a)
      /\ \A d \in Contracts, q \in Rules :
            ~(d = c /\ q = r) => /\ annotation'[d][q] = annotation[d][q]
                                 /\ history'[d][q] = history[d][q]
  BY <1>2 DEF TypeOK
<1>9. TrailTellsWhatHolds'
  <2>1. /\ Append(history[c][r], a) # <<>>
        /\ Append(history[c][r], a)[Len(Append(history[c][r], a))] = a
    BY <1>1, <1>6
  <2> QED
    BY <2>1, <1>8 DEF TrailTellsWhatHolds
<1>10. OnlyDismissalsPin'
  BY <1>4, <1>8 DEF OnlyDismissalsPin
<1> QED
  BY <1>5, <1>7, <1>9, <1>10

\* Steps that leave the tables alone keep what is said of them alone.
LEMMA TablesUntouched ==
    ASSUME TrailTellsWhatHolds, OnlyDismissalsPin, UNCHANGED <<annotation, history>>
    PROVE  TrailTellsWhatHolds' /\ OnlyDismissalsPin'
BY DEF TrailTellsWhatHolds, OnlyDismissalsPin

\* The controls are filled from a row whatever the row has.
LEMMA FormType ==
    ASSUME NEW row \in Row
    PROVE  FormOf(row) \in Form
BY AnnotationAssumption DEF FormOf, Form, Row, Annotation, States

LEMMA LedgerRowType ==
    ASSUME TypeOK, NEW c \in Contracts
    PROVE  LedgerRow(c) \in Row
<1>1. score[c] \in Scores /\ annotation[c][Whole] \in Annotation \cup {None}
  BY AnnotationAssumption DEF TypeOK
<1> QED
  BY <1>1 DEF LedgerRow, Row, Stale

-----------------------------------------------------------------------------

LEMMA InitEstablishes == Init => IInv
<1> SUFFICES ASSUME Init PROVE IInv
  OBVIOUS
<1>1. TypeOK
  BY DEF Init, TypeOK
<1>2. PanelReady
  BY DEF Init, PanelReady
<1>3. TrailTellsWhatHolds /\ OnlyDismissalsPin
  BY DEF Init, TrailTellsWhatHolds, OnlyDismissalsPin
<1> QED
  BY <1>1, <1>2, <1>3 DEF IInv

LEMMA StepKeeps == IInv /\ [Next]_vars => IInv'
<1> SUFFICES ASSUME IInv, [Next]_vars PROVE IInv'
  OBVIOUS
<1> USE DEF IInv
<1>1. ASSUME NEW c \in Contracts, NEW s \in Scores, ScoreChanges(c, s)
      PROVE  IInv'
  <2>1. TrailTellsWhatHolds' /\ OnlyDismissalsPin'
    BY <1>1, TablesUntouched DEF ScoreChanges
  <2>2. TypeOK' /\ PanelReady'
    BY <1>1 DEF ScoreChanges, TypeOK, PanelReady, page
  <2> QED
    BY <2>1, <2>2
<1>2. ASSUME NEW c \in Contracts, NEW r \in Rules,
             NEW state \in States \cup {None}, NEW owner \in Owners \cup {None},
             NEW s \in Pinned, ClientSets(c, r, state, owner, s)
      PROVE  IInv'
  <2>1. SetAnnotation(c, r, state, owner, s) /\ UNCHANGED page
    BY <1>2 DEF ClientSets
  <2>2. TypeOK' /\ PanelReady'
    BY <2>1, SetAnnotationKeeps DEF TypeOK, PanelReady, page
  <2> QED
    BY <2>1, <2>2, SetAnnotationKeeps
<1>3. ASSUME NEW p \in Pages, LoadLedger(p)
      PROVE  IInv'
  <2>1. [c \in Contracts |-> LedgerRow(c)] \in [Contracts -> Row]
    BY LedgerRowType
  <2>2. TypeOK' /\ PanelReady'
    BY <1>3, <2>1 DEF LoadLedger, TypeOK, PanelReady, store
  <2> QED
    BY <1>3, <2>2, TablesUntouched DEF LoadLedger, store
<1>4. ASSUME NEW p \in Pages, NEW c \in Contracts, OpenPanel(p, c)
      PROVE  IInv'
  <2>1. rows[p] \in [Contracts -> Row] /\ rows[p][c] \in Row
    BY <1>4 DEF OpenPanel, TypeOK
  <2>2. FormOf(rows[p][c]) \in Form
    BY <2>1, FormType
  <2>3. TypeOK' /\ PanelReady'
    BY <1>4, <2>1, <2>2 DEF OpenPanel, TypeOK, PanelReady, store
  <2> QED
    BY <1>4, <2>3, TablesUntouched DEF OpenPanel, store
<1>5. ASSUME NEW p \in Pages, ClosePanel(p)
      PROVE  IInv'
  <2>1. TypeOK' /\ PanelReady'
    BY <1>5 DEF ClosePanel, TypeOK, PanelReady, store
  <2> QED
    BY <1>5, <2>1, TablesUntouched DEF ClosePanel, store
<1>6. ASSUME NEW p \in Pages, NEW state \in States, ChooseState(p, state)
      PROVE  IInv'
  <2>1. form[p] \in Form
    BY <1>6 DEF ChooseState, PanelReady
  <2>2. [form[p] EXCEPT !.state = state] \in Form
    BY <2>1 DEF Form
  <2>3. form' = [form EXCEPT ![p] = [form[p] EXCEPT !.state = state]]
    BY <1>6 DEF ChooseState
  <2>4. TypeOK' /\ PanelReady'
    BY <1>6, <2>2, <2>3 DEF ChooseState, TypeOK, PanelReady, store
  <2> QED
    BY <1>6, <2>4, TablesUntouched DEF ChooseState, store
<1>7. ASSUME NEW p \in Pages, NEW owner \in Owners, TypeOwner(p, owner)
      PROVE  IInv'
  <2>1. form[p] \in Form
    BY <1>7 DEF TypeOwner, PanelReady
  <2>2. [form[p] EXCEPT !.owner = owner] \in Form
    BY <2>1 DEF Form
  <2>3. form' = [form EXCEPT ![p] = [form[p] EXCEPT !.owner = owner]]
    BY <1>7 DEF TypeOwner
  <2>4. TypeOK' /\ PanelReady'
    BY <1>7, <2>2, <2>3 DEF TypeOwner, TypeOK, PanelReady, store
  <2> QED
    BY <1>7, <2>4, TablesUntouched DEF TypeOwner, store
<1>8. ASSUME NEW p \in Pages, Save(p)
      PROVE  IInv'
  <2>1. panel[p] \in Contracts /\ rows[p][panel[p]] \in Row /\ form[p] \in Form
    BY <1>8 DEF Save, PanelReady, TypeOK
  <2>2. [contract |-> panel[p], state |-> form[p].state, owner |-> form[p].owner,
         score |-> rows[p][panel[p]].score, shown |-> rows[p][panel[p]].annotation,
         touched |-> Touched(p),
         reply |-> None] \in Request
    BY <2>1 DEF Request, Row, Form, Touched
  <2>3. TypeOK' /\ PanelReady'
    BY <1>8, <2>2 DEF Save, TypeOK, PanelReady, store
  <2> QED
    BY <1>8, <2>3, TablesUntouched DEF Save, store
<1>9. ASSUME NEW p \in Pages, ServerSaves(p)
      PROVE  IInv'
  <2> DEFINE q == saving[p]
             a == Updated(Current(q.contract, Whole), q.state, q.owner, q.score)
  <2>1. q \in Request
    BY <1>9 DEF ServerSaves, TypeOK
  <2>2. /\ q.contract \in Contracts /\ q.state \in States \cup {None}
        /\ q.owner \in Owners \cup {None} /\ q.score \in Pinned
        /\ Whole \in Rules
    BY <2>1, AnnotationAssumption DEF Request, Pinned
  <2>3. /\ SetAnnotation(q.contract, Whole, q.state, q.owner, q.score)
        /\ saving' = [saving EXCEPT ![p] = [q EXCEPT !.reply = a]]
        /\ UNCHANGED <<rows, panel, form>>
    BY <1>9 DEF ServerSaves, ScoreSent
  <2>4. a \in Annotation
    BY <2>2, CurrentType, UpdatedType
  <2>5. [q EXCEPT !.reply = a] \in Request
    BY <2>1, <2>4 DEF Request
  <2>6. /\ score' \in [Contracts -> Scores]
        /\ annotation' \in [Contracts -> [Rules -> Annotation \cup {None}]]
        /\ history' \in [Contracts -> [Rules -> Seq(Annotation)]]
        /\ TrailTellsWhatHolds' /\ OnlyDismissalsPin'
    BY <2>2, <2>3, SetAnnotationKeeps
  <2> HIDE DEF q, a
  <2>7. saving' \in [Pages -> Request \cup {None}]
    BY <2>3, <2>5 DEF TypeOK
  <2> QED
    BY <2>3, <2>6, <2>7 DEF TypeOK, PanelReady
<1>10. ASSUME NEW p \in Pages, SaveReturns(p)
       PROVE  IInv'
  <2>1. saving' \in [Pages -> Request \cup {None}]
    BY <1>10 DEF SaveReturns, TypeOK
  <2>2. CASE panel[p] = None
    BY <1>10, <2>1, <2>2, TablesUntouched
       DEF SaveReturns, TypeOK, PanelReady, store
  <2>3. CASE panel[p] # None
    <3> DEFINE c == panel[p]
               row == WithReply(rows[p][c], saving[p].reply)
    <3>1. /\ c \in Contracts /\ rows[p] \in [Contracts -> Row]
          /\ rows[p][c] \in Row /\ saving[p].reply \in Annotation
      BY <1>10, <2>3 DEF SaveReturns, PanelReady, TypeOK, Request
    <3>2. row \in Row
      BY <3>1 DEF Row, WithReply
    <3>3. rows' = [rows EXCEPT ![p] = [rows[p] EXCEPT ![c] = row]]
      BY <1>10, <2>3, <3>1 DEF SaveReturns, TypeOK
    <3> HIDE DEF row
    <3>4. /\ rows' \in [Pages -> [Contracts -> Row] \cup {None}]
          /\ rows'[p] = [rows[p] EXCEPT ![c] = row] /\ rows'[p][c] = row
          /\ rows'[p] \in [Contracts -> Row]
          /\ \A o \in Pages : o # p => rows'[o] = rows[o]
      BY <3>1, <3>2, <3>3 DEF TypeOK
    <3>5. form' = [form EXCEPT ![p] = FormOf(row)] /\ FormOf(row) \in Form
      BY <1>10, <2>3, <3>2, <3>4, FormType DEF SaveReturns
    <3>6. UNCHANGED <<store, panel>>
      BY <1>10 DEF SaveReturns
    <3>7. TypeOK'
      BY <2>1, <3>4, <3>5, <3>6 DEF TypeOK, store
    <3>8. PanelReady'
      BY <3>4, <3>5, <3>6 DEF PanelReady, TypeOK
    <3> QED
      BY <3>6, <3>7, <3>8, TablesUntouched DEF store
  <2> QED
    BY <2>2, <2>3
<1>11. ASSUME NEW p \in Pages, SaveFails(p)
       PROVE  IInv'
  <2>1. TypeOK' /\ PanelReady'
    BY <1>11 DEF SaveFails, TypeOK, PanelReady, store
  <2> QED
    BY <1>11, <2>1, TablesUntouched DEF SaveFails, store
<1>12. CASE UNCHANGED vars
  <2>1. TypeOK' /\ PanelReady'
    BY <1>12 DEF vars, TypeOK, PanelReady
  <2> QED
    BY <1>12, <2>1, TablesUntouched DEF vars
<1> QED
  BY <1>1, <1>2, <1>3, <1>4, <1>5, <1>6, <1>7, <1>8, <1>9, <1>10, <1>11, <1>12
     DEF Next

LEMMA Invariance == Spec => []IInv
  BY InitEstablishes, StepKeeps, PTL DEF Spec

-----------------------------------------------------------------------------
(* The theorems.                                                           *)

\* Tables, pages and requests keep their shape, whatever the page is doing
\* when a reply arrives (set_annotation, saveAnnotation, closeContractDetail).
THEOREM TypeCorrect == Spec => []TypeOK
  BY Invariance, PTL DEF IInv

\* The newest entry of the trail is the annotation in force, for any number of
\* writers (set_annotation and _append_history share a transaction).
THEOREM TrailIsCurrent == Spec => []TrailTellsWhatHolds
  BY Invariance, PTL DEF IInv

\* Only a dismissal pins a score, whatever callers leave out (set_annotation).
THEOREM DismissalsPin == Spec => []OnlyDismissalsPin
  BY Invariance, PTL DEF IInv

\* What the page writes pins the score that was sent with it, whatever the annotation
\* was before.
LEMMA PinnedAsSent ==
    ASSUME NEW old \in Annotation, NEW state \in States, NEW owner \in Owners,
           NEW s \in Scores
    PROVE  LET a == Updated(old, state, owner, s)
           IN  a.state = state /\ (state # "open" => a.score = s)
  BY AnnotationAssumption DEF Updated, Given, Pin

\* Whatever the panel shows by then and whatever became of the annotation and of the
\* score since, a request of the page dismisses a contract at no higher score than the
\* operator saw: if it has risen the row is stale at once (saveAnnotation,
\* set_annotation, is_stale_for).
THEOREM DismissedOnSight == Spec => DismissedAsSeen
<1>1. ASSUME IInv, NEW p \in Pages, ServerSaves(p), Stale(saving[p], score[saving[p].contract])
      PROVE  LedgerRow(saving[p].contract)'.stale
  <2> DEFINE q == saving[p]
             c == q.contract
             a == Updated(Current(c, Whole), q.state, q.owner, q.score)
  <2>1. q \in Request /\ TypeOK
    BY <1>1 DEF ServerSaves, TypeOK, IInv
  <2>2. /\ c \in Contracts /\ q.state \in States /\ q.owner \in Owners /\ q.score \in Scores
        /\ Whole \in Rules
    BY <2>1, AnnotationAssumption DEF Request
  <2>3. Current(c, Whole) \in Annotation
    BY <2>1, <2>2, CurrentType
  <2>4. a \in Annotation
    <3>1. q.state \in States \cup {None} /\ q.owner \in Owners \cup {None} /\ q.score \in Pinned
      BY <2>2 DEF Pinned
    <3> QED BY <2>3, <3>1, UpdatedType
  <2>5. a.state = q.state /\ (q.state # "open" => a.score = q.score)
    BY <2>2, <2>3, PinnedAsSent
  <2>6. annotation'[c][Whole] = a /\ score' = score
    <3>1. annotation' = [annotation EXCEPT ![c][Whole] = a] /\ score' = score
      BY <1>1 DEF ServerSaves, ScoreSent, SetAnnotation
    <3>2. annotation \in [Contracts -> [Rules -> Annotation \cup {None}]]
      BY <2>1 DEF TypeOK
    <3> HIDE DEF a, c
    <3> QED BY <3>1, <3>2, <2>2
  <2>7. q.state # "open" /\ score[c] > q.score
    BY <1>1 DEF Stale
  <2>8. a # None /\ a.score # None
    BY <2>2, <2>4, <2>5, <2>7, AnnotationAssumption
  <2> HIDE DEF a
  <2>9. a.state # "open" /\ score[c] > a.score
    BY <2>5, <2>7
  <2>10. Stale(a, score[c])
    BY <2>8, <2>9 DEF Stale
  <2>11. saving'[p].contract = saving[p].contract
    <3>1. saving' = [saving EXCEPT ![p].reply =
                Updated(Current(q.contract, Whole), q.state, q.owner, ScoreSent(p))]
      BY <1>1 DEF ServerSaves
    <3>2. saving \in [Pages -> Request \cup {None}]
      BY <2>1 DEF TypeOK
    <3> QED BY <2>1, <3>1, <3>2 DEF Request
  <2>12. LedgerRow(saving[p].contract)'.stale =
            (annotation'[c][Whole] # None /\ Stale(annotation'[c][Whole], score'[c]))
    BY <2>11 DEF LedgerRow, Stale
  <2> QED BY <2>6, <2>8, <2>10, <2>12
<1>2. IInv /\ [Next]_vars =>
        [\A p \in Pages : ServerSaves(p) =>
            LET c == saving[p].contract IN Stale(saving[p], score[c]) => LedgerRow(c)'.stale]_vars
  BY <1>1
<1> QED
  BY <1>2, Invariance, PTL DEF Spec, DismissedAsSeen

=============================================================================
