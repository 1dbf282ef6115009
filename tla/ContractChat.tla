---------------------------- MODULE ContractChat ----------------------------
(***************************************************************************)
(* A question about selected contracts: the page that sends it             *)
(* (static/js/contract-chat.js), the route (app/contracts/api.py), and the *)
(* service that reads the documents, picks clauses, passes them through    *)
(* redaction and its gate, asks the model and checks what the answer       *)
(* refers to (chat_service.py, chat_pipeline.py, chat_llm.py,              *)
(* chat_verify.py).                                                        *)
(*                                                                         *)
(* A clause is what the pipeline makes of it: how often it has words of    *)
(* the topic asked about, whether it has words of the contract's findings, *)
(* how long it is, whether anything sensitive is left in it once it is     *)
(* redacted, and the article number an answer may refer to.                *)
(***************************************************************************)
EXTENDS Naturals, Sequences, FiniteSets, SequencesExt, Functions, Listing

CONSTANTS
    Order,        \* the contracts, in the order of the ledger
    Documents,    \* what the document provider may return for a contract
    Unreadable,   \* a document without usable text
    Marks,        \* article numbers
    Invented,     \* a reference to nothing
    Nothing,
    MaxRefs,      \* contract_refs[:20] of the route
    PerContract,  \* MAX_CLAUSES_PER_CONTRACT
    ClauseCap,    \* MAX_CLAUSE_CHARS
    TotalCap,     \* MAX_TOTAL_CLAUSE_CHARS
    BodyCap,      \* MAX_PAYLOAD_CHARS, less what findings take of it
    MaxQuestions  \* bound: questions of a page

Contracts == ToSet(Order)
Clause == [hits : Nat, behind : BOOLEAN, size : Nat \ {0}, sensitive : BOOLEAN,
           mark : Marks]

\* Rows that share a contract reference, which discovery does not exclude, are
\* one contract here.
ASSUME ChatAssumption ==
    /\ Order \in Seq(Contracts) /\ IsInjective(Order)
    /\ Documents \subseteq Seq(Seq(Clause) \cup {Unreadable})
    /\ MaxRefs \in Nat \ {0} /\ PerContract \in Nat \ {0}
    /\ ClauseCap \in Nat \ {0} /\ TotalCap \in Nat /\ ClauseCap <= TotalCap
    /\ BodyCap \in Nat /\ MaxQuestions \in Nat
    /\ {Invented, Nothing} \cap (Contracts \cup Marks) = {}

VARIABLES
    docs,     \* what the provider returns for each contract
    provider, \* whether the service has a document provider
    log,      \* the bubbles of the page
    sending,  \* contractChat.sending
    req       \* the request under way

library  == <<docs, provider>>
chatVars == <<docs, provider, log, sending, req>>

Stages == {"sent", "loading", "built", "answered", "verified"}
ChatSignals == {"unreadable", "some_dropped", "all_dropped", "truncated",
            "no_clauses", "no_topic", "fallback", "llm_unavailable", "llm_failed",
            "unverified"}
Reference == Contracts \cup Marks \cup {Invented, Nothing}

\* A clause as it is sent, under its number in its contract.
Fitted == [contract : Contracts, index : Nat, clause : Clause,
           size : 1 .. ClauseCap]

\* topical: whether the question is about a topic of TOPIC_TABLE. loaded:
\* contracts whose documents were provided. sent: the clauses the model got.
\* mention: what the answer refers to.
Request == [stage : Stages, topical : BOOLEAN, refs : Seq(Contracts),
            rows : Seq(Contracts), todo : Seq(Contracts),
            loaded : SUBSET Contracts, clauses : Seq(Fitted), sent : Seq(Fitted),
            mention : Reference, signals : SUBSET ChatSignals]

ChatTypeOK ==
    /\ docs \in [Contracts -> Documents]
    /\ provider \in BOOLEAN
    /\ log \in Seq({"question", "answer", "failure"})
    /\ sending \in BOOLEAN
    /\ req = Nothing \/ req \in Request

ChatInit ==
    /\ docs \in [Contracts -> Documents]
    /\ provider \in BOOLEAN
    /\ log = <<>>
    /\ sending = FALSE
    /\ req = Nothing

\* s[:k]
AtMost(k, s) == IF Len(s) > k THEN SubSeq(s, 1, k) ELSE s

-----------------------------------------------------------------------------
(* The page and the route.                                                 *)

\* The button is disabled while a question is under way.
Ready == ~sending

\* The question is echoed before the request. The route takes the first
\* contracts of the selection and says nothing of the others.
Send(topical, refs) ==
    /\ Ready /\ refs # <<>>
    /\ Cardinality({i \in DOMAIN log : log[i] = "question"}) < MaxQuestions
    /\ log' = Append(log, "question")
    /\ sending' = TRUE
    /\ req' = [stage |-> "sent", topical |-> topical,
               refs |-> AtMost(MaxRefs, refs),
               rows |-> <<>>, todo |-> <<>>, loaded |-> {}, clauses |-> <<>>,
               sent |-> <<>>, mention |-> Nothing, signals |-> {}]
    /\ UNCHANGED library

\* The reply, or an error at any point before it.
Ends(bubble) ==
    /\ log' = Append(log, bubble)
    /\ sending' = FALSE
    /\ req' = Nothing
    /\ UNCHANGED library

Reply == req # Nothing /\ req.stage = "verified" /\ Ends("answer")
Fails == req # Nothing /\ Ends("failure")

-----------------------------------------------------------------------------
(* The documents.                                                          *)

\* The ledger is built anew from the source, which may have changed since the
\* page was loaded: rows that are gone are left out.
Receive(ledger) ==
    /\ req # Nothing /\ req.stage = "sent"
    /\ LET rows == Those(Order, {i \in DOMAIN Order : Order[i] \in ledger \cap ToSet(req.refs)})
       IN  req' = [req EXCEPT !.stage = "loading", !.rows = rows, !.todo = rows]
    /\ UNCHANGED <<library, log, sending>>

Unread(c) == \E i \in DOMAIN docs[c] : docs[c][i] = Unreadable

\* _load_clauses without a provider: no document is read, and no signal tells it.
LoadNothing ==
    /\ req # Nothing /\ req.stage = "loading" /\ req.todo # <<>>
    /\ ~provider
    /\ req' = [req EXCEPT !.todo = <<>>]
    /\ UNCHANGED <<library, log, sending>>

\* _load_clauses with one, for one contract after the other.
LoadDocuments(provided) ==
    /\ provider
    /\ req # Nothing /\ req.stage = "loading" /\ req.todo # <<>>
    /\ LET c == Head(req.todo)
           told == IF provided /\ ~Unread(c) THEN {} ELSE {"unreadable"}
       IN  req' = [req EXCEPT !.todo = Tail(@), !.signals = @ \cup told,
                              !.loaded = IF provided THEN @ \cup {c} ELSE @]
    /\ UNCHANGED <<library, log, sending>>

Texts(c) == Those(docs[c], {d \in DOMAIN docs[c] : docs[c][d] # Unreadable})

WithNumbers(c, clauses) ==
    [i \in DOMAIN clauses |-> [contract |-> c, index |-> i, clause |-> clauses[i]]]

\* The clauses of a contract, numbered on from document to document.
ClausesOf(c) == WithNumbers(c, Joined(Texts(c)))

AnyText(r) == \E c \in r.loaded : ClausesOf(c) # <<>>

-----------------------------------------------------------------------------
(* run_pipeline.                                                           *)

Hits(topical, n) == IF topical THEN n.clause.hits ELSE 0
Hit(topical, s) == Those(s, {i \in DOMAIN s : Hits(topical, s[i]) > 0})
Behind(s) == Those(s, {i \in DOMAIN s : s[i].clause.behind})

\* The clauses that match; the clauses behind the findings when the question is
\* about no topic.
Scored(topical, s) == IF topical THEN Hit(topical, s) ELSE Behind(s)

Better(topical, m, n) ==
    \/ Hits(topical, m) > Hits(topical, n)
    \/ Hits(topical, m) = Hits(topical, n) /\ m.index < n.index

Best(topical, s) ==
    LET places == DOMAIN s
    IN  Listed(s, {p \in places \X places : Better(topical, s[p[1]], s[p[2]])})

\* select_clauses
Selected(r) ==
    LET rows == Those(r.rows, {k \in DOMAIN r.rows : r.rows[k] \in r.loaded})
        BestOf(c) == Best(r.topical, Scored(r.topical, ClausesOf(c)))
    IN  Joined([k \in DOMAIN rows |-> AtMost(PerContract, BestOf(rows[k]))])

\* Mutant: the gate lets everything through.
OpenGate(s) == s

\* redact_clauses and verify_clauses.
Gate(s) == Those(s, {i \in DOMAIN s : ~s[i].clause.sensitive})

Cut(n) == IF n.clause.size > ClauseCap THEN ClauseCap ELSE n.clause.size

Used(s, k) == SumFunction([i \in 1 .. k |-> Cut(s[i])])

\* build_payload: texts are cut, and the first that does not fit ends the list.
Fitting(s) == Cardinality({k \in DOMAIN s : Used(s, k) <= TotalCap})
Payload(s) ==
    [i \in 1 .. Fitting(s) |->
        [contract |-> s[i].contract, index |-> s[i].index, clause |-> s[i].clause,
         size |-> Cut(s[i])]]

\* Mutant: only cut texts count, not the clauses that came too late.
AnyCut(s) == \E i \in DOMAIN s : s[i].clause.size > ClauseCap

Truncated(s) ==
    Fitting(s) < Len(s) \/ \E i \in DOMAIN s : s[i].clause.size > ClauseCap

NothingMatched(r, dropped) == ~dropped /\ AnyText(r)

PipelineSignals(r, selected, kept) ==
    LET dropped == Len(kept) < Len(selected)
        empty   == Payload(kept) = <<>>
    IN  {s \in ChatSignals :
            \/ s = "fallback" /\ ~r.topical /\ selected # <<>>
            \/ s = "some_dropped" /\ dropped /\ kept # <<>>
            \/ s = "all_dropped" /\ dropped /\ kept = <<>>
            \/ s = "truncated" /\ Truncated(kept)
            \/ s = "no_topic" /\ empty /\ NothingMatched(r, dropped)
            \/ s = "no_clauses" /\ empty /\ ~NothingMatched(r, dropped)}

Build ==
    /\ req # Nothing /\ req.stage = "loading" /\ req.todo = <<>>
    /\ LET selected == Selected(req)
           kept == Gate(selected)
           told == PipelineSignals(req, selected, kept)
       IN  req' = [req EXCEPT !.stage = "built", !.clauses = Payload(kept),
                              !.signals = @ \cup told]
    /\ UNCHANGED <<library, log, sending>>

-----------------------------------------------------------------------------
(* The model and its answer.                                               *)

\* What is left of the clauses when the body is cut: those it holds at least the
\* beginning of.
InBody(s) ==
    AtMost(Cardinality({k \in DOMAIN s : Used(s, k - 1) < BodyCap}), s)

\* complete: prose that refers to something, right or wrong, or to nothing.
\* An empty answer is an answer.
Answer(mention) ==
    /\ req # Nothing /\ req.stage = "built"
    /\ req' = [req EXCEPT !.stage = "answered", !.sent = InBody(req.clauses),
                          !.mention = mention]
    /\ UNCHANGED <<library, log, sending>>

\* No model, or the call failed: the local summary, which names contracts of the
\* ledger only.
Degrade(why) ==
    /\ req # Nothing /\ req.stage = "built"
    /\ req' = [req EXCEPT !.stage = "answered", !.signals = @ \cup {why}]
    /\ UNCHANGED <<library, log, sending>>

\* Mutant: an answer is checked against the documents, not against what was sent.
KnownFromDocuments(r) ==
    ToSet(r.rows)
    \cup UNION {{n.clause.mark : n \in ToSet(ClausesOf(c))} : c \in r.loaded}

\* What an answer may refer to: contracts and articles of the payload.
Known(r) ==
    ToSet(r.rows)
    \cup UNION {{n.contract, n.clause.mark} : n \in ToSet(r.clauses)}

\* verify_answer and annotate_answer: the answer is kept and a warning added.
Verify ==
    /\ req # Nothing /\ req.stage = "answered"
    /\ LET told == IF req.mention \in Known(req) \cup {Nothing} THEN {}
                   ELSE {"unverified"}
       IN  req' = [req EXCEPT !.stage = "verified", !.signals = @ \cup told]
    /\ UNCHANGED <<library, log, sending>>

-----------------------------------------------------------------------------

\* What may be ticked on the page, in the order of ticking.
Selections == UNION {SetToSeqs(S) : S \in SUBSET Contracts}

ChatNext ==
    \/ \E topical \in BOOLEAN, refs \in Selections : Send(topical, refs)
    \/ \E ledger \in SUBSET Contracts : Receive(ledger)
    \/ LoadNothing
    \/ \E provided \in BOOLEAN : LoadDocuments(provided)
    \/ Build
    \/ \E mention \in Reference : Answer(mention)
    \/ \E why \in {"llm_unavailable", "llm_failed"} : Degrade(why)
    \/ Verify \/ Reply \/ Fails

ChatSpec == ChatInit /\ [][ChatNext]_chatVars
-----------------------------------------------------------------------------
(* Properties.                                                             *)

Built == req # Nothing /\ req.stage \in {"built", "answered", "verified"}

\* What the documents hold, told apart from what the pipeline makes of it.
TextOf(c) == Joined(Texts(c))
Matches(topical, clause) == IF topical THEN clause.hits > 0 ELSE clause.behind
MatchingIn(c) == {i \in DOMAIN TextOf(c) : Matches(req.topical, TextOf(c)[i])}
SentIn(c) == {n \in ToSet(req.clauses) : n.contract = c}

\* "Only retrieved fragments leave the machine": what is sent belongs to the
\* contracts that were asked about, matches the question, has passed the gate,
\* and keeps each of the ceilings.
OnlyMatchingFragmentsLeave == Built =>
    /\ \A n \in ToSet(req.clauses) :
            /\ n.contract \in ToSet(req.refs)
            /\ Matches(req.topical, n.clause) /\ ~n.clause.sensitive
    /\ \A c \in Contracts : Cardinality(SentIn(c)) <= PerContract
    /\ SumFunction([i \in DOMAIN req.clauses |-> req.clauses[i].size]) <= TotalCap

\* "We could not read any contract text" and "we read the text and nothing in
\* it is about what you asked" have different responses: when no clause is sent,
\* the signals tell which of them it was, or that the gate dropped everything.
EmptyIsExplained == req.clauses = <<>> =>
    LET text    == \E c \in req.loaded : TextOf(c) # <<>>
        matched == \E c \in req.loaded : MatchingIn(c) # {}
    IN  /\ "no_topic" \in req.signals <=> text /\ ~matched
        /\ "all_dropped" \in req.signals <=> matched
        /\ "no_clauses" \in req.signals <=> ~text \/ matched

\* Places of the clauses of a contract that are taken before the one at place i.
Before(c, i) ==
    {j \in MatchingIn(c) : Better(req.topical, ClausesOf(c)[j], ClausesOf(c)[i])}

\* Never silent: of the matching clauses of a contract that are its share, the
\* best ones, each is in the payload whole, or the answer says that clauses were
\* dropped by the gate or cut off. Without a signal goes what is beyond the share,
\* and nothing else. With a provider a document that could not be read is told;
\* and always the reason why the payload has no clause at all. (Of the body, which
\* may be shorter, see CheckedAgainstWhatWasSent.)
LossIsTold == Built =>
    /\ EmptyIsExplained
    /\ \A c \in req.loaded : \A i \in MatchingIn(c) :
        \/ Cardinality(Before(c, i)) >= PerContract
        \/ \E n \in SentIn(c) : n.index = i /\ n.size = TextOf(c)[i].size
        \/ IF TextOf(c)[i].sensitive
           THEN req.signals \cap {"some_dropped", "all_dropped"} # {}
           ELSE "truncated" \in req.signals
    /\ provider => \A c \in ToSet(req.rows) :
        c \notin req.loaded \/ Unread(c) => "unreadable" \in req.signals

\* References lead somewhere. A contract may have several documents: no two
\* citations are the same, and each leads to the clause of the payload under it.
\* An answer that refers to anything but a contract asked for, or an article that
\* a citation leads to and the gate let through, is flagged.
ReferencesLeadToClauses ==
    /\ Built => \A i, j \in DOMAIN req.clauses :
            LET m == req.clauses[i]
                n == req.clauses[j]
            IN  /\ m.contract = n.contract /\ m.index = n.index => i = j
                /\ TextOf(m.contract)[m.index] = m.clause
    /\ req # Nothing /\ req.stage = "verified" =>
            \/ "unverified" \in req.signals
            \/ req.mention \in {Nothing} \cup ToSet(req.refs)
            \/ \E n \in ToSet(req.clauses) :
                  LET text == TextOf(n.contract)[n.index]
                  IN  text.mark = req.mention /\ ~text.sensitive

\* "Verify AFTER generation, against the payload we actually sent": an answer of
\* the model that refers to an article of which the model was not given even the
\* beginning of a clause is flagged. The body is cut after the payload was built.
CheckedAgainstWhatWasSent ==
    req # Nothing /\ req.stage = "verified" =>
        \/ "unverified" \in req.signals
        \/ req.mention \in {Nothing} \cup ToSet(req.refs)
                            \cup {n.clause.mark : n \in ToSet(req.sent)}

=============================================================================
