------------------------- MODULE ContractDocuments -------------------------
(***************************************************************************)
(* From the attachments of a project to its risk summary: the fetcher and  *)
(* its directory (app/contracts/attachment_fetch.py), the extractor that   *)
(* reads the files (text_extraction.py), and the analysis job that scores  *)
(* metadata and text and writes job and summary (analysis.py).             *)
(*                                                                         *)
(* Each worker is a server process. Workers share the directory and the    *)
(* registry; nothing locks either. A file is named after its address, and  *)
(* writing it is opening, which empties it, and then filling it. The       *)
(* registry is not part of the repository: its methods are single writes.  *)
(***************************************************************************)
EXTENDS Naturals, Sequences, FiniteSetsExt

CONSTANTS
    Workers,      \* server processes
    Attachments,  \* rows of contract attachments in the source system
    Url,          \* what the address of each looks like
    AllowLists,   \* allowed_hosts a process may be started with
    Severity,     \* what the text rules find in the text of each, 0 for nothing,
                  \* or Unusable
    Unusable,     \* the extractor finds no usable text in it
    Scores,       \* what findings score, 0 among them
    None,         \* no score, summary or attachment
    MaxJobs,      \* bound: jobs, made or still to be made by a run
    MaxRestarts   \* bound: deaths and restarts of processes

Address == [blank : BOOLEAN, https : BOOLEAN, host : (UNION AllowLists) \cup {None},
            fetchable : BOOLEAN, public : BOOLEAN]

ASSUME DocumentAssumption ==
    /\ Url \in [Attachments -> Address]
    /\ Severity \in [Attachments -> Scores \cup {Unusable}]
    /\ Scores \subseteq Nat /\ 0 \in Scores
    /\ Unusable \notin Scores /\ None \notin Scores \cup Attachments
    /\ MaxJobs \in Nat /\ MaxRestarts \in Nat

VARIABLES
    allowed,    \* the allowed_hosts of each process
    file,       \* what the directory holds under the name of each attachment
    pc,         \* what each process does next
    run,        \* the analysis it is busy with
    jobs,       \* contract analysis jobs, in the registry
    summaries,  \* contract risk summaries, in the registry
    restarts    \* deaths and restarts so far

registry == <<jobs, summaries>>
documentsVars == <<allowed, file, pc, run, jobs, summaries, restarts>>

Files == {"absent", "empty", "part", "whole"}
Payloads == {"empty", "part", "whole"}
Signals == {"not_analyzed", "analyzed", "unreadable"}  \* those about documents
Levels == {"low", "medium", "high", "severe", "not_scored"}
Steps == {"idle", "fetch", "download", "open", "fill", "job", "summary", "update"}

\* todo, refused: rows not yet fetched, rows without a file. paths: files to
\* read. read, unread: what became of them. analyzed: whether any text was.
\* found: severities of text findings.
Run == [status : {"skipped", "succeeded"}, metadata : Scores,
        todo : SUBSET Attachments, refused : SUBSET Attachments,
        paths : SUBSET Attachments, read : SUBSET Attachments,
        unread : SUBSET Attachments, found : SUBSET Scores,
        current : Attachments \cup {None}, payload : Payloads,
        analyzed : BOOLEAN, signals : SUBSET Signals, job : Nat]
Job == [status : {"skipped", "succeeded"}, summary : Nat]
\* found, read, unread and refused are ghosts: what the summary is a summary of.
Summary == [job : Nat, score : Scores \cup {None}, level : Levels,
            signals : SUBSET Signals, metadata : Scores, found : SUBSET Scores,
            read : SUBSET Attachments, unread : SUBSET Attachments,
            refused : SUBSET Attachments]

DocumentsTypeOK ==
    /\ allowed \in [Workers -> AllowLists]
    /\ file \in [Attachments -> Files]
    /\ pc \in [Workers -> Steps]
    /\ \A w \in Workers : pc[w] # "idle" => run[w] \in Run
    /\ jobs \in Seq(Job)
    /\ summaries \in Seq(Summary)
    /\ restarts \in Nat

DocumentsInit ==
    /\ allowed \in [Workers -> AllowLists]
    /\ file = [a \in Attachments |-> "absent"]
    /\ pc = [w \in Workers |-> "idle"]
    /\ run = [w \in Workers |-> None]
    /\ jobs = <<>>
    /\ summaries = <<>>
    /\ restarts = 0

Goes(w, step) == pc' = [pc EXCEPT ![w] = step]

-----------------------------------------------------------------------------
(* create_analysis_job, up to the documents.                               *)

Fresh(status, score, todo, signals) ==
    [status |-> status, metadata |-> score, todo |-> todo, refused |-> {},
     paths |-> {}, read |-> {}, unread |-> {}, found |-> {}, current |-> None,
     payload |-> "whole", analyzed |-> FALSE, signals |-> signals, job |-> 0]

Begins(w) ==
    /\ pc[w] = "idle"
    /\ Len(jobs) + Cardinality({v \in Workers : run[v] # None /\ run[v].job = 0}) < MaxJobs

\* Nothing to score: no assets, or no contract among them.
Skip(w, hasAssets) ==
    /\ Begins(w)
    /\ run' = [run EXCEPT ![w] =
            Fresh("skipped", 0, {}, IF hasAssets THEN {"not_analyzed"} ELSE {})]
    /\ Goes(w, "job")
    /\ UNCHANGED <<allowed, file, registry, restarts>>

\* The contracts are scored from their metadata, then documents are asked for.
Assess(w, score) ==
    /\ Begins(w)
    /\ run' = [run EXCEPT ![w] = Fresh("succeeded", score, Attachments, {})]
    /\ Goes(w, "fetch")
    /\ UNCHANGED <<allowed, file, registry, restarts>>

-----------------------------------------------------------------------------
(* AttachmentFetcher.fetch, for one row after the other.                   *)

\* The guards in front of directory and network.
PassesGuards(w, a) ==
    /\ ~Url[a].blank
    /\ allowed[w] # {}
    /\ Url[a].https
    /\ Url[a].host \in allowed[w]
    /\ Url[a].fetchable
    /\ Url[a].public

\* target.exists() and target.stat().st_size > 0
Cached(a) == file[a] \in {"part", "whole"}

\* Mutant: the path of a refused attachment, which is none, is handed out.
NoPath(r, a) ==
    [r EXCEPT !.todo = @ \ {a}, !.paths = @ \cup {None}, !.current = None]

Refused(r, a) ==
    [r EXCEPT !.todo = @ \ {a}, !.refused = @ \cup {a}, !.current = None]

HandedOut(r, a) ==
    [r EXCEPT !.todo = @ \ {a}, !.paths = @ \cup {a}, !.current = None,
              !.payload = "whole"]

\* One row: refused by a guard, found in the directory, or to be downloaded.
\* fetch_attachments drops the reason of a refusal and goes on.
Fetch(w, a) ==
    /\ pc[w] = "fetch" /\ a \in run[w].todo
    /\ \/ /\ ~PassesGuards(w, a)
          /\ run' = [run EXCEPT ![w] = Refused(@, a)]
          /\ UNCHANGED pc
       \/ /\ PassesGuards(w, a) /\ Cached(a)
          /\ run' = [run EXCEPT ![w] = HandedOut(@, a)]
          /\ UNCHANGED pc
       \/ /\ PassesGuards(w, a) /\ ~Cached(a)
          /\ run' = [run EXCEPT ![w].current = a]
          /\ Goes(w, "download")
    /\ UNCHANGED <<allowed, file, registry, restarts>>

\* _download: refused after a redirect or for its size, or failed.
DownloadFails(w) ==
    /\ pc[w] = "download"
    /\ run' = [run EXCEPT ![w] = Refused(@, @.current)]
    /\ Goes(w, "fetch")
    /\ UNCHANGED <<allowed, file, registry, restarts>>

\* What was read, up to the limit. Nothing compares it with the declared
\* length: a connection that breaks off leaves a part, or nothing.
Download(w, payload) ==
    /\ pc[w] = "download"
    /\ run' = [run EXCEPT ![w].payload = payload]
    /\ Goes(w, "open")
    /\ UNCHANGED <<allowed, file, registry, restarts>>

\* write_bytes opens the file, which empties it ...
OpenFile(w) ==
    /\ pc[w] = "open"
    /\ file' = [file EXCEPT ![run[w].current] = "empty"]
    /\ Goes(w, "fill")
    /\ UNCHANGED <<allowed, run, registry, restarts>>

\* ... and writes from its beginning: over a longer copy that another process
\* has written meanwhile, nothing changes.
Filled(old, payload) ==
    CASE old = "whole" \/ payload = "empty" -> old
      [] OTHER -> payload

FillFile(w) ==
    /\ pc[w] = "fill"
    /\ file' = [file EXCEPT ![run[w].current] = Filled(@, run[w].payload)]
    /\ run' = [run EXCEPT ![w] = HandedOut(@, @.current)]
    /\ Goes(w, "fetch")
    /\ UNCHANGED <<allowed, registry, restarts>>

\* What the directory holds when the process stops where it is.
BrokenOff(w, left) ==
    IF pc[w] # "fill" THEN file
    ELSE LET written == IF run[w].payload = "empty" THEN "empty" ELSE left
         IN  [file EXCEPT ![run[w].current] = Filled(@, written)]

\* No document of the run is read, those fetched before included.
NothingRead(r) ==
    [r EXCEPT !.todo = {}, !.paths = {}, !.current = None, !.payload = "whole",
              !.signals = @ \cup {"not_analyzed", "unreadable"}]

\* The provider raises: the source cannot be read, or a file cannot be written.
ProviderFails(w, left) ==
    /\ \/ pc[w] = "fetch" /\ run[w].todo = Attachments /\ left = "absent"
       \/ pc[w] = "open" /\ left = "absent"
       \/ pc[w] = "fill" /\ left \in {"empty", "part"}
    /\ file' = BrokenOff(w, left)
    /\ run' = [run EXCEPT ![w] = NothingRead(@)]
    /\ Goes(w, "job")
    /\ UNCHANGED <<allowed, registry, restarts>>

-----------------------------------------------------------------------------
(* _analyze_documents, once the provider has answered.                     *)

\* What extract_document and the text rules may make of a file. A part may be
\* rejected or be read as far as it goes, with clauses missing.
Outcomes(a) ==
    CASE file[a] = "whole" -> {Severity[a]}
      [] file[a] = "part"  -> {Unusable} \cup Scores
      [] OTHER             -> {Unusable}

\* Mutant: an unusable text counts as a text without findings.
EmptyIsClean(r, outcome) ==
    [r EXCEPT !.analyzed = TRUE,
              !.found = @ \cup ({outcome} \ {0, Unusable})]

\* What the loop makes of one document.
Analyzed(r, outcome) ==
    IF outcome = Unusable
    THEN [r EXCEPT !.signals = @ \cup {"unreadable"}]
    ELSE [r EXCEPT !.analyzed = TRUE,
                   !.found = @ \cup ({outcome} \ {0})]

AfterReading(r, a, outcome) ==
    LET seen == Analyzed(r, outcome)
    IN  IF outcome = Unusable THEN [seen EXCEPT !.unread = @ \cup {a}]
        ELSE [seen EXCEPT !.read = @ \cup {a}]

\* Files are read in turn, each as it is by then.
Extract(w, a) ==
    /\ pc[w] = "fetch" /\ run[w].todo = {}
    /\ a \in run[w].paths \ (run[w].read \cup run[w].unread)
    /\ \E outcome \in Outcomes(a) : run' = [run EXCEPT ![w] = AfterReading(@, a, outcome)]
    /\ UNCHANGED <<allowed, file, pc, registry, restarts>>

\* All read: whether there was any text is said either way.
Conclude(w) ==
    /\ pc[w] = "fetch" /\ run[w].todo = {}
    /\ run[w].paths = run[w].read \cup run[w].unread
    /\ run' = [run EXCEPT ![w].signals = @ \cup
            {IF run[w].analyzed THEN "analyzed" ELSE "not_analyzed"}]
    /\ Goes(w, "job")
    /\ UNCHANGED <<allowed, file, registry, restarts>>

-----------------------------------------------------------------------------
(* _finish: three writes.                                                  *)

Headline(r) ==
    IF r.status = "skipped" THEN None ELSE Max({r.metadata} \cup r.found)

\* _risk_level
Level(score) ==
    CASE score = None -> "not_scored"
      [] score # None /\ score >= 76 -> "severe"
      [] score # None /\ score >= 51 /\ score < 76 -> "high"
      [] score # None /\ score >= 26 /\ score < 51 -> "medium"
      [] OTHER -> "low"

CreateJob(w) ==
    /\ pc[w] = "job"
    /\ jobs' = Append(jobs, [status |-> run[w].status, summary |-> 0])
    /\ run' = [run EXCEPT ![w].job = Len(jobs) + 1]
    /\ Goes(w, "summary")
    /\ UNCHANGED <<allowed, file, summaries, restarts>>

\* From here on the run is its job.
SaveSummary(w) ==
    /\ pc[w] = "summary"
    /\ LET r == run[w]
           score == Headline(r)
       IN  summaries' = Append(summaries,
                [job |-> r.job, score |-> score, level |-> Level(score),
                 signals |-> r.signals, metadata |-> r.metadata,
                 found |-> r.found, read |-> r.read, unread |-> r.unread,
                 refused |-> r.refused])
    /\ run' = [run EXCEPT ![w] = [Fresh(@.status, 0, {}, {}) EXCEPT !.job = run[w].job]]
    /\ Goes(w, "update")
    /\ UNCHANGED <<allowed, file, jobs, restarts>>

\* Mutant: the job is given the latest summary.
LatestSummary(w) == Len(summaries)

\* The summary this run has saved.
OwnSummary(w) == CHOOSE s \in DOMAIN summaries : summaries[s].job = run[w].job

UpdateJob(w) ==
    /\ pc[w] = "update"
    /\ jobs' = [jobs EXCEPT ![run[w].job].summary = OwnSummary(w)]
    /\ run' = [run EXCEPT ![w] = None]
    /\ Goes(w, "idle")
    /\ UNCHANGED <<allowed, file, summaries, restarts>>

\* The registry raises, and the request is answered with an error.
RegistryFails(w) ==
    /\ pc[w] \in {"job", "summary", "update"}
    /\ run' = [run EXCEPT ![w] = None]
    /\ Goes(w, "idle")
    /\ UNCHANGED <<allowed, file, registry, restarts>>

-----------------------------------------------------------------------------

\* A process dies wherever it is and comes back, maybe with another allow list.
Restart(w, list, left) ==
    /\ restarts < MaxRestarts
    /\ restarts' = restarts + 1
    /\ allowed' = [allowed EXCEPT ![w] = list]
    /\ file' = BrokenOff(w, left)
    /\ run' = [run EXCEPT ![w] = None]
    /\ Goes(w, "idle")
    /\ UNCHANGED registry

DocumentsNext ==
    \E w \in Workers :
        \/ \E b \in BOOLEAN : Skip(w, b)
        \/ \E s \in Scores : Assess(w, s)
        \/ \E a \in Attachments : Fetch(w, a) \/ Extract(w, a)
        \/ \E p \in Payloads : Download(w, p)
        \/ DownloadFails(w) \/ OpenFile(w) \/ FillFile(w)
        \/ \E left \in Files : ProviderFails(w, left)
        \/ Conclude(w)
        \/ CreateJob(w) \/ SaveSummary(w) \/ UpdateJob(w) \/ RegistryFails(w)
        \/ \E list \in AllowLists, left \in {"empty", "part"} :
                Restart(w, list, left)

DocumentsSpec == DocumentsInit /\ [][DocumentsNext]_documentsVars
-----------------------------------------------------------------------------
(* Properties.                                                             *)

Saved == {summaries[s] : s \in DOMAIN summaries}

\* "A severe text problem would be hidden behind a mild metadata score": the
\* score of a summary is that of its worst finding, from whichever of the two
\* sources, and there is a score exactly when contracts were scored.
ScoreCoversFindings(s) ==
    \/ s.score = None /\ s.level = "not_scored" /\ s.found = {}
    \/ /\ s.score \in {s.metadata} \cup s.found
       /\ \A f \in {s.metadata} \cup s.found : s.score >= f
       /\ s.level = "severe" <=> s.score >= 76

\* However workers, downloads and writes interleave, the signals of a summary
\* tell what happened to the files it was given: text was analyzed exactly when
\* some file was read, never both or neither, a file that could not be read is
\* said to be unreadable, and what was found in those that were is in the score.
SignalsTellWhatWasRead ==
    \A s \in Saved :
        /\ ScoreCoversFindings(s)
        /\ s.signals # {} =>
              /\ "analyzed" \in s.signals <=> s.read # {}
              /\ "not_analyzed" \in s.signals <=> s.read = {}
              /\ s.unread # {} => "unreadable" \in s.signals

\* Workers write jobs and summaries in turns and die between any two writes:
\* a job names a summary that was made for it, no summary is without a job, and
\* no job has two.
JobsNameTheirSummaries ==
    /\ \A j \in DOMAIN jobs : jobs[j].summary # 0 =>
            /\ jobs[j].summary \in DOMAIN summaries
            /\ summaries[jobs[j].summary].job = j
    /\ \A s \in DOMAIN summaries : summaries[s].job \in DOMAIN jobs
    /\ \A s, t \in DOMAIN summaries : summaries[s].job = summaries[t].job => s = t

\* "A refusal here can never be mistaken for a clean contract": a summary of a
\* project one of whose attachments was refused says that something was not read.
RefusalIsVisible ==
    \A s \in Saved :
        s.refused # {} => s.signals \cap {"not_analyzed", "unreadable"} # {}

=============================================================================
