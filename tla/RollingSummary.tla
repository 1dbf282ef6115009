--------------------------- MODULE RollingSummary ---------------------------
(***************************************************************************)
(* The rolling summary of a chat session (app/chat/memory.py,              *)
(* MemoryOrchestrator._refresh_summary and _merge_summary). A refresh      *)
(* reads the messages, reads the latest summary, and appends a new version *)
(* in a transaction of its own: nothing ties the three together, and       *)
(* refreshes of one session overlap when sends with different keys do.     *)
(*                                                                         *)
(* A message becomes a few lines, each named by the sequence number of the *)
(* message and its place in it; what a line says is left out, its width is *)
(* kept.                                                                   *)
(***************************************************************************)
EXTENDS Naturals, Sequences, SequencesExt

CONSTANTS
    Refreshers,   \* threads that build a context
    LineLimit,    \* _SUMMARY_LINE_CHAR_LIMIT
    Cuts,         \* the line widths messages are cut into
    Limit,        \* effective_summary_char_limit
    Threshold,    \* summary_threshold
    Keep,         \* summary_keep_messages
    MaxMessages,  \* bound: messages of the session
    MaxVersions   \* bound: summaries of the session

\* The limit is never below _MIN_SUMMARY_CHAR_LIMIT, which has room for three
\* full lines and the breaks between them (256 >= 3 * 80 + 2).
ASSUME SummaryAssumption ==
    /\ LineLimit \in Nat \ {0}
    /\ \A cut \in Cuts : cut # <<>> /\ cut \in Seq(1 .. LineLimit)
    /\ Limit \in Nat /\ Limit >= 3 * LineLimit + 2
    /\ Keep \in Nat \ {0}
    /\ Threshold \in Nat /\ Threshold >= Keep
    /\ MaxMessages \in Nat /\ MaxVersions \in Nat

VARIABLES
    messages,   \* the widths of each message's lines
    summaries,  \* memory_summaries, by version
    pc,         \* what each refresher does next
    seen,       \* how many messages it has read
    latest,     \* the version it has read, or 0
    overlap     \* ghost: whether a summary was saved over what its writer read

summaryVars == <<messages, summaries, pc, seen, latest, overlap>>

Lines == (1 .. MaxMessages) \X (Nat \ {0})
\* merged is a ghost: the messages whose lines were ever merged in.
Summary == [text : Seq(Lines), first : 1 .. MaxMessages,
            last : 1 .. MaxMessages, merged : SUBSET (1 .. MaxMessages)]
Steps == {"idle", "read", "save", "done"}

SummaryTypeOK ==
    /\ messages \in Seq(Cuts)
    /\ summaries \in Seq(Summary)
    /\ pc \in [Refreshers -> Steps]
    /\ seen \in [Refreshers -> Nat]
    /\ latest \in [Refreshers -> Nat]
    /\ overlap \in BOOLEAN

SummaryInit ==
    /\ messages = <<>>
    /\ summaries = <<>>
    /\ pc = [r \in Refreshers |-> "idle"]
    /\ seen = [r \in Refreshers |-> 0]
    /\ latest = [r \in Refreshers |-> 0]
    /\ overlap = FALSE

-----------------------------------------------------------------------------
(* _merge_summary: which lines survive.                                    *)

Width(line) == messages[line[1]][line[2]]

Total(widths) ==
    LET upto[i \in 0 .. Len(widths)] == IF i = 0 THEN 0 ELSE upto[i - 1] + widths[i]
    IN  upto[Len(widths)]

\* len("\n".join(lines))
Chars(text) ==
    IF text = <<>> THEN 0
    ELSE Total([i \in DOMAIN text |-> Width(text[i])]) + Len(text) - 1

\* The lines of all at the chosen places.
Chosen(all, places) ==
    LET kept[i \in 0 .. Len(all)] ==
            IF i = 0 THEN <<>>
            ELSE IF i \in places THEN Append(kept[i - 1], all[i]) ELSE kept[i - 1]
    IN  kept[Len(all)]

\* The order optional lines are tried in: new ones from the last but one
\* backwards, then old ones from the last but one backwards to the second.
Optional(old, new) ==
    [i \in 1 .. (IF new = <<>> THEN 0 ELSE Len(new) - 1) |-> Len(old) + Len(new) - i]
    \o [i \in 1 .. (IF Len(old) < 2 THEN 0 ELSE Len(old) - 2) |-> Len(old) - i]

\* Mutant: the ends of the old summary have to fit like everything else.
OnlyLastLine(old, new) == IF new = <<>> THEN {} ELSE {Len(old) + Len(new)}

\* Mutant: the last new line has to fit like everything else, and is not tried.
OldEndsOnly(old, new) == IF old = <<>> THEN {} ELSE {1, Len(old)}

\* The first and the last old line and the last new one stay whatever happens.
Mandatory(old, new) ==
    (IF old = <<>> THEN {} ELSE {1, Len(old)})
    \cup (IF new = <<>> THEN {} ELSE {Len(old) + Len(new)})

\* A line is dropped again when the text no longer fits.
TryLine(all, places, i) ==
    IF Chars(Chosen(all, places \cup {i})) > Limit THEN places ELSE places \cup {i}

Merge(old, new) ==
    LET all   == old \o new
        tries == Optional(old, new)
        places[i \in 0 .. Len(tries)] ==
            IF i = 0 THEN Mandatory(old, new)
            ELSE TryLine(all, places[i - 1], tries[i])
    IN  Chosen(all, places[Len(tries)])

-----------------------------------------------------------------------------
(* The session and its refreshers.                                         *)

\* Mutant: the role is put before a line after it was cut.
PrefixedLate(cut) == [i \in DOMAIN cut |-> cut[i] + 1]

\* What a message adds to a summary (_summary_chunks).
LinesOf(cut) == cut

AppendMessage(cut) ==
    /\ Len(messages) < MaxMessages
    /\ messages' = Append(messages, LinesOf(cut))
    /\ UNCHANGED <<summaries, pc, seen, latest, overlap>>

\* list_messages, without a limit; a short session needs no summary.
ReadMessages(r) ==
    /\ pc[r] = "idle"
    /\ seen' = [seen EXCEPT ![r] = Len(messages)]
    /\ pc' = [pc EXCEPT ![r] = IF Len(messages) <= Threshold THEN "done" ELSE "read"]
    /\ UNCHANGED <<messages, summaries, latest, overlap>>

\* Mutant: the message after the last one covered is skipped.
OneTooFar(n, v) == IF v = 0 THEN 1 ELSE summaries[v].last + 2

\* The first message a refresher that knows n messages and version v takes. A
\* version that reaches beyond what it has read is not found in it.
StartAt(n, v) ==
    IF v = 0 \/ summaries[v].last > n THEN 1 ELSE summaries[v].last + 1

\* The messages to add: all but the Keep newest that were read.
NewMessages(n, v) == [i \in 1 .. (IF n - Keep < StartAt(n, v) THEN 0
                                  ELSE n - Keep - StartAt(n, v) + 1)
                        |-> StartAt(n, v) + i - 1]

\* _extract_summary
Extracted(new) == FlattenSeq([i \in DOMAIN new |->
                                [n \in DOMAIN messages[new[i]] |-> <<new[i], n>>]])

\* get_latest_summary, and whether there is anything to add.
ReadLatest(r) ==
    /\ pc[r] = "read"
    /\ latest' = [latest EXCEPT ![r] = Len(summaries)]
    /\ pc' = [pc EXCEPT ![r] = IF NewMessages(seen[r], Len(summaries)) = <<>>
                               THEN "done" ELSE "save"]
    /\ UNCHANGED <<messages, summaries, seen, overlap>>

\* Another refresh has saved since r read, or had read further.
Overtaken(r) ==
    \/ latest[r] # Len(summaries)
    \/ latest[r] # 0 /\ summaries[latest[r]].last > seen[r]

\* save_summary: version is MAX(version) + 1 of the moment it is saved at.
SaveSummary(r) ==
    /\ pc[r] = "save"
    /\ Len(summaries) < MaxVersions
    /\ LET v   == latest[r]
           new == NewMessages(seen[r], v)
       IN  /\ summaries' = Append(summaries,
                [text  |-> Merge(IF v = 0 THEN <<>> ELSE summaries[v].text, Extracted(new)),
                 first |-> IF v = 0 THEN Head(new) ELSE summaries[v].first,
                 last  |-> Last(new),
                 merged |-> Range(new) \cup (IF v = 0 THEN {} ELSE summaries[v].merged)])
           /\ overlap' = (overlap \/ Overtaken(r))
    /\ pc' = [pc EXCEPT ![r] = "done"]
    /\ UNCHANGED <<messages, seen, latest>>

\* The context is built and the thread is free again.
Return(r) ==
    /\ pc[r] = "done"
    /\ pc' = [pc EXCEPT ![r] = "idle"]
    /\ seen' = [seen EXCEPT ![r] = 0]
    /\ latest' = [latest EXCEPT ![r] = 0]
    /\ UNCHANGED <<messages, summaries, overlap>>

\* A call of the store raises, or the process dies: the refresh is best effort.
Abandon(r) ==
    /\ pc[r] \in {"read", "save"}
    /\ pc' = [pc EXCEPT ![r] = "idle"]
    /\ seen' = [seen EXCEPT ![r] = 0]
    /\ latest' = [latest EXCEPT ![r] = 0]
    /\ UNCHANGED <<messages, summaries, overlap>>

SummaryNext ==
    \/ \E cut \in Cuts : AppendMessage(cut)
    \/ \E r \in Refreshers :
        ReadMessages(r) \/ ReadLatest(r) \/ SaveSummary(r) \/ Return(r) \/ Abandon(r)

SummarySpec == SummaryInit /\ [][SummaryNext]_summaryVars
-----------------------------------------------------------------------------
(* Properties.                                                             *)

SummaryVersions == DOMAIN summaries

\* However refreshes overlap, a summary ends with the line of the last message
\* it claims to cover (message_end_id), and no message of the range it claims
\* was passed over: all were merged into it or into a version it builds on.
CoversWhatItSays ==
    \A v \in SummaryVersions :
        /\ Last(summaries[v].text)[1] = summaries[v].last
        /\ summaries[v].first .. summaries[v].last \subseteq summaries[v].merged

Before(a, b) == a[1] < b[1] \/ (a[1] = b[1] /\ a[2] < b[2])

\* However many merges a line has gone through, a summary fits its limit: the
\* three lines that are kept unconditionally never overflow it. And as long as no
\* refresh overtook another, the oldest line of the first version survives every
\* later merge, and no line is repeated or out of order.
KeepsTheBeginning ==
    \A v \in SummaryVersions :
        /\ Chars(summaries[v].text) <= Limit
        /\ ~overlap =>
              /\ summaries[v].text[1] = summaries[1].text[1]
              /\ \A i, j \in DOMAIN summaries[v].text :
                    i < j => Before(summaries[v].text[i], summaries[v].text[j])

\* As long as no refresh overtook another: after one of a session that is long
\* enough, the latest summary reaches up to the messages that are kept whole, so
\* that a prompt built from both has no gap between them.
RefreshClosesTheGap ==
    \A r \in Refreshers :
        ~overlap /\ pc[r] = "done" /\ seen[r] > Threshold
        => summaries # <<>> /\ Last(summaries).last >= seen[r] - Keep

=============================================================================
