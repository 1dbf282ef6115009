---------------------------- MODULE ChatContext ----------------------------
(***************************************************************************)
(* What the model is told when a question is asked: the recall of          *)
(* MemoryOrchestrator.build_context (app/chat/memory.py), the prompt       *)
(* built from it (app/chat/service.py, app/chat/llm.py) and the citations  *)
(* taken from the answer.                                                  *)
(*                                                                         *)
(* A recall reads the session, then the memory table, then the vector      *)
(* index, then the memory table again, once per hit. Nothing ties these    *)
(* reads together: items are replaced, withdrawn and run out between them, *)
(* and the index is wherever its workers have got to (MemoryOutbox), so a  *)
(* search may hit any item that was ever saved.                            *)
(*                                                                         *)
(* Texts are kept as widths. Memories are numbered in created_at order,    *)
(* which is taken to be strict, so that confidence and score never decide  *)
(* a rank. What sanitising replaces is left out, what it clips is not.     *)
(***************************************************************************)
EXTENDS Naturals, Sequences, FiniteSets, SequencesExt, FiniteSetsExt, Functions

CONSTANTS
    Catalogues,           \* what the memory table may hold: sequences of Item
    Conversations,        \* widths of the messages that may precede a question
    Summaries,            \* widths of the latest summary, 0 for none
    Questions,            \* widths of a question
    RiskItems,            \* what may be known of the risk: counts of its details
    RiskCaps,             \* at most so many are passed on: 12 hits, 10 suggestions, 8 dimensions
    RecentMessageLimit,   \* recent_message_limit
    RetrievalLimit,       \* retrieval_limit, at least one
    Budget,               \* context_char_budget
    Frame,                \* what a list entry costs beside its text
    Base,                 \* what the payload costs with everything left out
    JsonLimit,            \* total_char_limit
    MessageClip,          \* the clip of a message, 1200
    MemoryClip,           \* the clip of a memory, 1000
    SummaryClip,          \* the clip of the summary, 2500
    QuestionClip          \* the clip of the question, 2000

VARIABLES
    item,    \* memory_items, oldest first
    status,  \* what has become of each since
    step,    \* what the recall does next
    read,    \* what it has read
    sent,    \* the prompt, once built
    cited    \* the memories the stored answer cites

recallVars == <<item, status, step, read, sent, cited>>

Memories == DOMAIN item
\* own: project and principal are the asker's; local: confidentiality local_only.
Item == [text : Nat, authority : 0 .. 3, own : BOOLEAN, local : BOOLEAN, width : Nat \ {0}]
Statuses == {"active", "withdrawn", "lapsed"}
RecallSteps == {"idle", "exact", "search", "check", "prompt", "answer", "done"}
\* retrieval_reason: nothing failed, the vectors were missing, or all but the question.
Reasons == {"none", "vectors", "context"}
Message == [no : Nat, width : Nat]
\* held is a ghost: the items that were live at some moment since the start.
Read == [terms : BOOLEAN, question : Nat, summary : Nat, recent : Seq(Message),
         found : SUBSET Nat, hits : SUBSET Nat, reason : Reasons, held : SUBSET Nat]
Details == [hits : Nat, suggestions : Nat, dimensions : Nat]
Payload == [question : Nat, summary : Nat, recent : Seq(Message),
            memories : Seq(Nat), risk : Nat]
Nothing == <<>>

ASSUME ContextAssumption ==
    /\ Catalogues \subseteq Seq(Item) /\ Conversations \subseteq Seq(Nat)
    /\ Summaries \subseteq Nat /\ Questions \subseteq Nat
    /\ {MessageClip, MemoryClip, SummaryClip, QuestionClip} \subseteq Nat
    /\ RecentMessageLimit \in Nat \ {0} /\ RetrievalLimit \in Nat \ {0}
    /\ RiskItems \subseteq Details /\ RiskCaps \in Details
    /\ Budget \in Nat \ {0} /\ Base \in Nat /\ Frame \in Nat \ {0}
    /\ JsonLimit \in Nat /\ JsonLimit >= Base

RecallTypeOK ==
    /\ item \in Seq(Item)
    /\ status \in [Memories -> Statuses]
    /\ step \in RecallSteps
    /\ step # "idle" => read \in Read
    /\ step \in {"answer", "done"} => sent.payload \in Payload
    /\ cited \subseteq Memories

RecallInit ==
    /\ item \in Catalogues
    /\ status \in [Memories -> Statuses]
    /\ step = "idle"
    /\ read = Nothing
    /\ sent = Nothing
    /\ cited = {}

Live(m) == status[m] = "active"
Own == {m \in Memories : item[m].own}

-----------------------------------------------------------------------------
(* Recall.                                                                 *)

\* send_message wrote the question; it is in the session by now. A question of
\* a single character (of which a unit of width may be one) has no search term.
\* The summary is the latest version (RollingSummary); both are read before the
\* memories.
Ask(width, terms, before, summary) ==
    LET talk == [n \in 1 .. Len(before) + 1 |->
                    [no |-> n, width |-> IF n <= Len(before) THEN before[n] ELSE width]]
    IN  /\ step = "idle"
        /\ terms \/ width = 1
        /\ read' = [terms |-> terms, question |-> width, summary |-> summary,
                    recent |-> SubSeq(talk, IF Len(talk) > RecentMessageLimit
                                            THEN Len(talk) - RecentMessageLimit + 1 ELSE 1,
                                      Len(talk)),
                    found |-> {}, hits |-> {}, reason |-> "none",
                    held |-> {m \in Memories : Live(m)}]
        /\ step' = "exact"
        /\ UNCHANGED <<item, status, sent, cited>>

\* search_active_memories: LIKE over the live items of the scope, best first.
FindExact ==
    /\ step = "exact"
    /\ read.terms
    /\ \E found \in SUBSET {m \in Own : Live(m)} :
        /\ Cardinality(found) <= RetrievalLimit
        /\ read' = [read EXCEPT !.found = found]
    /\ step' = "search"
    /\ UNCHANGED <<item, status, sent, cited>>

\* _memory_context_best_effort: anything build_context raises leaves the
\* question alone. Without a search term the statement of
\* search_active_memories is not SQL; any other read may fail as well.
RecallFails ==
    /\ step = "exact"
    /\ read' = [read EXCEPT !.summary = 0, !.found = {}, !.reason = "context",
                            !.recent = <<[no |-> Last(read.recent).no,
                                          width |-> read.question]>>]
    /\ step' = "prompt"
    /\ UNCHANGED <<item, status, sent, cited>>

\* No embedding, no index, or either raises: what was found so far stays.
SearchFails ==
    /\ step = "search"
    /\ read' = [read EXCEPT !.reason = "vectors"]
    /\ step' = "prompt"
    /\ UNCHANGED <<item, status, sent, cited>>

\* The index filters by the payload it was given: scope and expires_at.
Search ==
    /\ step = "search"
    /\ \E hits \in SUBSET {m \in Own : status[m] # "lapsed"} :
        /\ Cardinality(hits) <= RetrievalLimit
        /\ read' = [read EXCEPT !.hits = hits]
    /\ step' = "check"
    /\ UNCHANGED <<item, status, sent, cited>>

\* Mutant: a hit is as good as the item it names.
AnyHit(m) == m \in Memories

\* get_memory and _memory_is_active
StillActive(m) == Live(m)

CheckHit(m) ==
    /\ step = "check"
    /\ m \in read.hits
    /\ read' = [read EXCEPT !.hits = @ \ {m},
                            !.found = IF StillActive(m) THEN @ \cup {m} ELSE @]
    /\ UNCHANGED <<item, status, step, sent, cited>>

\* get_memory raises: the hit is passed over, the search goes on.
SkipHit(m) ==
    /\ step = "check"
    /\ m \in read.hits
    /\ read' = [read EXCEPT !.hits = @ \ {m}]
    /\ UNCHANGED <<item, status, step, sent, cited>>

HitsChecked ==
    /\ step = "check"
    /\ read.hits = {}
    /\ step' = "prompt"
    /\ UNCHANGED <<item, status, read, sent, cited>>

\* Meanwhile an item is superseded or expired by a call, or runs out. Once the
\* hits are checked nothing looks any more.
Withdraw(m, how) ==
    /\ step \in {"exact", "search", "check"}
    /\ Live(m)
    /\ status' = [status EXCEPT ![m] = how]
    /\ UNCHANGED <<item, step, read, sent, cited>>

-----------------------------------------------------------------------------
(* Ranking and the character budget.                                       *)

\* _memory_sort_key
Outranks(m, n) ==
    \/ item[m].authority > item[n].authority
    \/ item[m].authority = item[n].authority /\ m > n

\* Mutant: duplicates are told by identifier only.
NoTwins(found) == found

\* One item per content_hash, the highest ranked.
Distinct(found) ==
    {m \in found : \A n \in found : item[n].text = item[m].text => n = m \/ Outranks(m, n)}

Least(a, b) == IF a < b THEN a ELSE b
Minus(a, b) == IF a > b THEN a - b ELSE 0

\* The n-th of some memories has n - 1 of the others before it.
InOrder(memories, Before(_, _)) ==
    [n \in 1 .. Cardinality(memories) |->
        CHOOSE m \in memories : Cardinality({l \in memories \ {m} : Before(l, m)}) = n - 1]

Ranked(found) ==
    LET all == InOrder(Distinct(found), Outranks)
    IN  SubSeq(all, 1, Least(Len(all), RetrievalLimit))

TotalWidth(s) == SumFunction([n \in DOMAIN s |-> s[n].width])
Cost(memories) == SumFunction([n \in DOMAIN memories |-> item[memories[n]].width])
\* As many of the first entries of s as fit.
FirstOnes(s, Fits(_)) ==
    SubSeq(s, 1, Max({0} \cup {n \in 1 .. Len(s) : Fits(SubSeq(s, 1, n))}))

\* As many of the last entries as fit, but never none.
LastOnes(s, Fits(_)) ==
    IF s = <<>> THEN s
    ELSE SubSeq(s, Min({Len(s)} \cup {n \in 1 .. Len(s) : Fits(SubSeq(s, n, Len(s)))}), Len(s))

WithLast(s, width) == [s EXCEPT ![Len(s)].width = width]

\* _fit_budget: the lowest memories go first, then the oldest messages, then
\* the end of the summary, then the end of the last message.
FitBudget(summary, recent, memories) ==
    LET kept   == FirstOnes(memories,
                    LAMBDA ms : summary + TotalWidth(recent) + Cost(ms) <= Budget)
        talk   == LastOnes(recent, LAMBDA s : summary + TotalWidth(s) + Cost(kept) <= Budget)
        digest == Least(summary, Minus(Budget, TotalWidth(talk) + Cost(kept)))
        rest   == Minus(Budget, digest + Cost(kept))
    IN  [summary |-> digest, memories |-> kept,
         recent  |-> IF talk # <<>> /\ digest + TotalWidth(talk) + Cost(kept) > Budget
                     THEN WithLast(talk, Least(Last(talk).width, rest)) ELSE talk]

-----------------------------------------------------------------------------
(* The prompt.                                                             *)

Clipped(s) == [n \in DOMAIN s |-> [s[n] EXCEPT !.width = Least(@, MessageClip)]]

Size(p) ==
    Base + p.question + p.summary + Frame * p.risk
    + TotalWidth(p.recent) + Frame * Len(p.recent)
    + SumFunction([n \in DOMAIN p.memories |->
                      Least(item[p.memories[n]].width, MemoryClip) + Frame])

\* width // 2 until the payload fits or nothing is left.
Halved(width, Fits(_)) ==
    LET halves == {width} \cup {w \in 0 .. width : \E k \in 1 .. width : w = width \div 2^k}
    IN  Max({0} \cup {w \in halves : Fits(w)})

FewerMessages(p) ==
    [p EXCEPT !.recent = FirstOnes(@, LAMBDA s : Size([p EXCEPT !.recent = s]) <= JsonLimit)]

FewerMemories(p) ==
    [p EXCEPT !.memories = FirstOnes(@, LAMBDA s : Size([p EXCEPT !.memories = s]) <= JsonLimit)]

ShorterSummary(p) ==
    [p EXCEPT !.summary = Halved(@, LAMBDA w : Size([p EXCEPT !.summary = w]) <= JsonLimit)]

ShorterQuestion(p) ==
    [p EXCEPT !.question = Halved(@, LAMBDA w : Size([p EXCEPT !.question = w]) <= JsonLimit)]

FewerDetails(p) ==
    [p EXCEPT !.risk = Max({0} \cup {n \in 1 .. @ : Size([p EXCEPT !.risk = n]) <= JsonLimit})]

\* Mutant: the question is halved before the summary.
QuestionFirst(p) == FewerMemories(ShorterSummary(ShorterQuestion(FewerMessages(p))))

\* _bounded_json: messages go first, from the end of the list, then memories,
\* then halves of the summary and of the question, then the risk details. The
\* bare payload it would fall back to is never needed: Base is below the limit,
\* which is at least 1000.
Bounded(p) ==
    FewerDetails(ShorterQuestion(ShorterSummary(FewerMemories(FewerMessages(p)))))

\* _prompt_memories
MayLeave(m) == item[m].own /\ ~item[m].local

\* _compact_risk_summary: the details, all of which weigh alike here.
Compacted(risk) ==
    Least(risk.hits, RiskCaps.hits) + Least(risk.suggestions, RiskCaps.suggestions)
    + Least(risk.dimensions, RiskCaps.dimensions)

\* The MemoryContext: what _fit_budget left of the recall. The one made when
\* build_context raised holds the question alone, whole, whatever the budget is.
Recalled ==
    IF read.reason = "context"
    THEN [summary |-> read.summary, recent |-> read.recent, memories |-> <<>>]
    ELSE FitBudget(read.summary, read.recent, Ranked(read.found))

\* build_prompt on that context; every memory of it that may leave may be cited,
\* whether or not the limit then cuts it.
BuildPrompt(risk) ==
    /\ step = "prompt"
    /\ LET context == Recalled
           offered == InOrder({m \in ToSet(context.memories) : MayLeave(m)}, Outranks)
       IN  sent' = [context |-> context, offered |-> ToSet(offered),
                    payload |-> Bounded([question |-> Least(read.question, QuestionClip),
                                         summary  |-> Least(context.summary, SummaryClip),
                                         recent   |-> Clipped(context.recent),
                                         memories |-> offered,
                                         risk     |-> Compacted(risk)])]
    /\ step' = "answer"
    /\ UNCHANGED <<item, status, read, cited>>

\* _allowed_citations
Allowed(named) == named \cap sent.offered

\* The answer names what it likes; a plain text names nothing, and the fallback
\* names the risk result only.
Answer(named) ==
    /\ step = "answer"
    /\ cited' = Allowed(named)
    /\ step' = "done"
    /\ UNCHANGED <<item, status, read, sent>>

RecallNext ==
    \/ \E width \in Questions, terms \in BOOLEAN, before \in Conversations, summary \in Summaries :
            Ask(width, terms, before, summary)
    \/ FindExact \/ RecallFails \/ SearchFails \/ Search \/ HitsChecked
    \/ \E m \in Memories : CheckHit(m) \/ SkipHit(m)
    \/ \E m \in Memories, how \in Statuses \ {"active"} : Withdraw(m, how)
    \/ \E risk \in RiskItems : BuildPrompt(risk)
    \/ \E named \in SUBSET Memories : Answer(named)

RecallSpec == RecallInit /\ [][RecallNext]_recallVars
-----------------------------------------------------------------------------

Built == step \in {"answer", "done"}

\* However the reads of a recall interleave with withdrawals, whatever a stale
\* index returns: a memory that is sent to the model, or cited, belongs to the
\* asker, may leave the machine, and was live at some moment since the question
\* was asked (build_context, _prompt_memories, _allowed_citations).
OnlyLiveMemoriesLeave ==
    Built => \A m \in ToSet(sent.payload.memories) \cup cited :
                m \in read.held \cap Own /\ ~item[m].local

\* No text is recalled twice, and of the items that carry it the one with the
\* most authority, the newest of equals, speaks (_rank_and_deduplicate), even
\* when one came from the table and the other from the index.
OneVoicePerText ==
    Built => \A m \in ToSet(sent.context.memories), n \in read.found :
                item[n].text = item[m].text => n = m \/ Outranks(m, n)

\* The two limits are applied one after the other by different rules. A recall
\* that was read respects the first (the context that stands in for a recall that
\* failed is not measured against it), every prompt respects the second, the last
\* message that was read survives the first, and the question is shortened only
\* when nothing else is left to drop but risk details (_fit_budget, _bounded_json,
\* _memory_context_best_effort).
QuestionIsCutLast ==
    Built =>
        LET c == sent.context
            p == sent.payload
        IN  /\ read.reason # "context" =>
                    c.summary + TotalWidth(c.recent) + Cost(c.memories) <= Budget
            /\ Last(c.recent).no = Last(read.recent).no
            /\ Size(p) <= JsonLimit
            /\ p.question < Least(read.question, QuestionClip)
                => p.recent = <<>> /\ p.memories = <<>> /\ p.summary = 0

=============================================================================
