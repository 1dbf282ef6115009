------------------------- MODULE Attachments_proofs -------------------------
(***************************************************************************)
(* What holds of ContractDocuments for every set of processes and          *)
(* attachments, whatever their addresses, allow lists and texts are, and   *)
(* for any number of jobs and restarts; and of AttachmentAuthorization for *)
(* every set of callers, every list of asset rows, every lifetime and any  *)
(* number of calls.                                                        *)
(***************************************************************************)
EXTENDS ContractDocuments, AttachmentAuthorization, SequenceTheorems, TLAPS

Fetching == {"fetch", "download", "open", "fill"}

HasWorst(S) == \E x \in S : \A y \in S : x >= y

\* What is known of a run on its way to the summary. Its files are read when no
\* row is left to fetch, and its findings, which one step after the other adds,
\* have a worst one: nothing bounds how many scores there are.
RunSound(r, step) ==
    /\ r \in Run
    /\ HasWorst({r.metadata} \cup r.found)
    /\ r.status = "skipped" => r.found = {}
    /\ r.analyzed <=> r.read # {}
    /\ r.unread # {} => "unreadable" \in r.signals
    /\ step \in Fetching =>
          /\ r.status = "succeeded" /\ r.signals \subseteq {"unreadable"}
          /\ r.todo # {} => r.read = {} /\ r.unread = {}
    /\ step \in {"download", "open", "fill"} => r.current \in r.todo
    /\ step \in {"job", "summary"} /\ r.signals # {} =>
          /\ "analyzed" \in r.signals <=> r.read # {}
          /\ "not_analyzed" \in r.signals <=> r.read = {}

-----------------------------------------------------------------------------
(* What the steps make of a run.                                           *)

LEMMA NoneIsNoScore == None \notin Scores /\ Scores \subseteq Nat /\ 0 \in Scores
BY DocumentAssumption

\* The worst finding survives another one.
LEMMA StillHasWorst ==
    ASSUME NEW S \in SUBSET Nat, HasWorst(S), NEW x \in Nat
    PROVE  HasWorst(S \cup {x})
<1>1. PICK m \in S : \A y \in S : m >= y
  BY DEF HasWorst
<1>2. CASE m >= x
  <2>1. \A y \in S \cup {x} : m >= y
    BY <1>1, <1>2
  <2> QED
    BY <1>1, <2>1 DEF HasWorst
<1>3. CASE ~(m >= x)
  <2>1. \A y \in S \cup {x} : x >= y
    BY <1>1, <1>3
  <2> QED
    BY <2>1 DEF HasWorst
<1> QED
  BY <1>2, <1>3

LEMMA FreshRun ==
    ASSUME NEW status \in {"skipped", "succeeded"}, NEW score \in Scores,
           NEW todo \in SUBSET Attachments, NEW signals \in SUBSET Signals
    PROVE  /\ Fresh(status, score, todo, signals) \in Run
           /\ HasWorst({score} \cup {})
<1>1. Fresh(status, score, todo, signals) \in Run
  BY DEF Fresh, Run, Payloads
<1>2. \A y \in {score} \cup {} : score >= y
  BY NoneIsNoScore
<1> QED
  BY <1>1, <1>2 DEF HasWorst

LEMMA RefusedRun ==
    ASSUME NEW r, NEW step \in Fetching, RunSound(r, step), NEW a \in r.todo
    PROVE  RunSound(Refused(r, a), "fetch")
<1>1. r \in Run /\ a \in Attachments
  BY DEF RunSound, Run
<1>2. Refused(r, a) \in Run
  BY <1>1 DEF Refused, Run
<1>3. /\ Refused(r, a).metadata = r.metadata /\ Refused(r, a).found = r.found
      /\ Refused(r, a).status = r.status /\ Refused(r, a).analyzed = r.analyzed
      /\ Refused(r, a).read = r.read /\ Refused(r, a).unread = r.unread
      /\ Refused(r, a).signals = r.signals
  BY <1>1 DEF Refused, Run
<1> QED
  BY <1>2, <1>3 DEF RunSound, Fetching

LEMMA HandedOutRun ==
    ASSUME NEW r, NEW step \in Fetching, RunSound(r, step), NEW a \in r.todo
    PROVE  RunSound(HandedOut(r, a), "fetch")
<1>1. r \in Run /\ a \in Attachments
  BY DEF RunSound, Run
<1>2. HandedOut(r, a) \in Run
  BY <1>1 DEF HandedOut, Run, Payloads
<1>3. /\ HandedOut(r, a).metadata = r.metadata /\ HandedOut(r, a).found = r.found
      /\ HandedOut(r, a).status = r.status /\ HandedOut(r, a).analyzed = r.analyzed
      /\ HandedOut(r, a).read = r.read /\ HandedOut(r, a).unread = r.unread
      /\ HandedOut(r, a).signals = r.signals
  BY <1>1 DEF HandedOut, Run
<1> QED
  BY <1>2, <1>3 DEF RunSound, Fetching

\* The provider raised: nothing was read, and both signals say so.
LEMMA FailedRun ==
    ASSUME NEW r, NEW step \in Fetching, RunSound(r, step),
           r.todo = Attachments \/ step \in {"open", "fill"}, NEW n,
           n = NothingRead(r)
    PROVE  RunSound(n, "job")
<1>1. r \in Run
  BY DEF RunSound
<1>2. n \in Run
  BY <1>1 DEF NothingRead, Run, Payloads, Signals
<1>3. /\ n.metadata = r.metadata /\ n.found = r.found /\ n.status = r.status
      /\ n.analyzed = r.analyzed /\ n.read = r.read /\ n.unread = r.unread
      /\ n.signals = r.signals \cup {"not_analyzed", "unreadable"}
  BY <1>1 DEF NothingRead, Run
<1>4. r.read = {} /\ "analyzed" \notin r.signals
  BY <1>1 DEF RunSound, Run, Fetching
<1> QED
  BY <1>2, <1>3, <1>4 DEF RunSound, Fetching

\* One file was read, or could not be.
LEMMA ExtractedRun ==
    ASSUME NEW r, RunSound(r, "fetch"), r.todo = {}, NEW a \in Attachments,
           NEW outcome \in Scores \cup {Unusable}, NEW n,
           n = AfterReading(r, a, outcome)
    PROVE  RunSound(n, "fetch")
<1>1. r \in Run
  BY DEF RunSound
<1>2. CASE outcome = Unusable
  <2> DEFINE m == [r EXCEPT !.signals = @ \cup {"unreadable"}]
  <2>1. n = [m EXCEPT !.unread = @ \cup {a}]
    BY <1>2 DEF AfterReading, Analyzed
  <2>2. n \in Run
    <3>1. m \in Run
      BY <1>1 DEF Run, Signals
    <3> HIDE DEF m
    <3> QED
      BY <2>1, <3>1 DEF Run
  <2>3. /\ n.metadata = r.metadata /\ n.found = r.found /\ n.status = r.status
        /\ n.analyzed = r.analyzed /\ n.read = r.read /\ n.todo = r.todo
        /\ n.signals = r.signals \cup {"unreadable"}
    BY <1>1, <2>1 DEF Run
  <2> QED
    BY <2>2, <2>3 DEF RunSound, Fetching
<1>3. CASE outcome # Unusable
  <2> DEFINE m == [r EXCEPT !.analyzed = TRUE, !.found = @ \cup ({outcome} \ {0})]
  <2>1. n = [m EXCEPT !.read = @ \cup {a}]
    BY <1>3 DEF AfterReading, Analyzed
  <2>2. n \in Run
    <3>1. m \in Run
      BY <1>1, <1>3 DEF Run
    <3> HIDE DEF m
    <3> QED
      BY <2>1, <3>1 DEF Run
  <2>3. /\ n.metadata = r.metadata /\ n.status = r.status
        /\ n.found = r.found \cup ({outcome} \ {0})
        /\ n.analyzed = TRUE /\ n.read = r.read \cup {a} /\ n.unread = r.unread
        /\ n.todo = r.todo /\ n.signals = r.signals
    BY <1>1, <2>1 DEF Run
  <2>4. HasWorst({n.metadata} \cup n.found)
    <3>1. {r.metadata} \cup r.found \in SUBSET Nat /\ outcome \in Nat
      BY <1>1, <1>3, NoneIsNoScore DEF Run
    <3>2. HasWorst({r.metadata} \cup r.found)
      BY DEF RunSound
    <3>3. HasWorst(({r.metadata} \cup r.found) \cup {outcome})
      BY <3>1, <3>2, StillHasWorst
    <3>4. CASE outcome = 0
      <4>1. {n.metadata} \cup n.found = {r.metadata} \cup r.found
        BY <2>3, <3>4
      <4> QED
        BY <3>2, <4>1
    <3>5. CASE outcome # 0
      <4>1. {n.metadata} \cup n.found = ({r.metadata} \cup r.found) \cup {outcome}
        BY <2>3, <3>5
      <4> QED
        BY <3>3, <4>1
    <3> QED
      BY <3>4, <3>5
  <2> QED
    BY <2>2, <2>3, <2>4 DEF RunSound, Fetching
<1> QED
  BY <1>2, <1>3

\* All files were read.
LEMMA ConcludedRun ==
    ASSUME NEW r, RunSound(r, "fetch"), NEW n,
           n = [r EXCEPT !.signals = @ \cup {IF r.analyzed THEN "analyzed" ELSE "not_analyzed"}]
    PROVE  RunSound(n, "job")
<1>1. r \in Run
  BY DEF RunSound
<1>2. n \in Run
  BY <1>1 DEF Run, Signals
<1>3. /\ n.metadata = r.metadata /\ n.found = r.found /\ n.status = r.status
      /\ n.analyzed = r.analyzed /\ n.read = r.read /\ n.unread = r.unread
      /\ n.signals = r.signals \cup {IF r.analyzed THEN "analyzed" ELSE "not_analyzed"}
  BY <1>1 DEF Run
<1>4. r.signals \subseteq {"unreadable"}
  BY DEF RunSound, Fetching
<1> QED
  BY <1>2, <1>3, <1>4 DEF RunSound, Fetching
-----------------------------------------------------------------------------
(* Runs, for whatever step a process takes.                                *)

RunsSound ==
    /\ pc \in [Workers -> Steps]
    /\ run \in [Workers -> Run \cup {None}]
    /\ \A w \in Workers : pc[w] # "idle" => RunSound(run[w], pc[w])

\* What the others do is not touched.
OthersStay(w) == \A v \in Workers : v # w => pc'[v] = pc[v] /\ run'[v] = run[v]

LEMMA RunStep ==
    ASSUME RunsSound, NEW w \in Workers, NEW n \in Run \cup {None}, NEW step \in Steps,
           run' = [run EXCEPT ![w] = n], pc' = [pc EXCEPT ![w] = step],
           step # "idle" => RunSound(n, step)
    PROVE  RunsSound' /\ OthersStay(w) /\ pc'[w] = step /\ run'[w] = n
<1>1. /\ pc'[w] = step /\ run'[w] = n /\ OthersStay(w)
      /\ pc' \in [Workers -> Steps] /\ run' \in [Workers -> Run \cup {None}]
  BY DEF RunsSound, OthersStay
<1>2. ASSUME NEW v \in Workers, pc'[v] # "idle" PROVE RunSound(run'[v], pc'[v])
  BY <1>1, <1>2 DEF RunsSound, OthersStay
<1> QED
  BY <1>1, <1>2 DEF RunsSound

\* Where the actions up to the registry take a run.
LEMMA BeforeRegistry ==
    ASSUME RunsSound, NEW w \in Workers,
           \/ \E b \in BOOLEAN : Skip(w, b)
           \/ \E s \in Scores : Assess(w, s)
           \/ \E a \in Attachments : Fetch(w, a) \/ Extract(w, a)
           \/ \E p \in Payloads : Download(w, p)
           \/ DownloadFails(w) \/ OpenFile(w) \/ FillFile(w)
           \/ \E left \in Files : ProviderFails(w, left)
           \/ Conclude(w)
    PROVE  /\ RunsSound' /\ OthersStay(w)
           /\ pc'[w] \in Fetching \cup {"job"}
           /\ UNCHANGED <<allowed, registry, restarts>>
           /\ pc[w] \in Fetching \cup {"idle"}
<1> DEFINE Goal == /\ RunsSound' /\ OthersStay(w)
                   /\ pc'[w] \in Fetching \cup {"job"}
                   /\ UNCHANGED <<allowed, registry, restarts>>
                   /\ pc[w] \in Fetching \cup {"idle"}
           r == run[w]
<1>1. Fetching \subseteq Steps /\ "job" \in Steps /\ \A step \in Fetching \cup {"job"} : step # "idle"
  BY DEF Fetching, Steps
<1>2. /\ pc \in [Workers -> Steps] /\ run \in [Workers -> Run \cup {None}]
      /\ pc[w] \in Fetching => RunSound(r, pc[w]) /\ r \in Run
  BY DEF RunsSound, RunSound, Fetching
\* It is enough to name the step and the run.
<1>3. ASSUME NEW n, NEW step \in Fetching \cup {"job"}, RunSound(n, step),
             run' = [run EXCEPT ![w] = n], pc' = [pc EXCEPT ![w] = step],
             UNCHANGED <<allowed, registry, restarts>>, pc[w] \in Fetching \cup {"idle"}
      PROVE  Goal
  <2>1. n \in Run
    BY <1>3 DEF RunSound
  <2> QED
    BY <1>1, <1>3, <2>1, RunStep
<1>4. ASSUME NEW b \in BOOLEAN, Skip(w, b) PROVE Goal
  <2> DEFINE signals == IF b THEN {"not_analyzed"} ELSE {}
             n == Fresh("skipped", 0, {}, signals)
  <2>1. n \in Run /\ HasWorst({0} \cup {})
    BY FreshRun, NoneIsNoScore DEF Signals
  <2>2. RunSound(n, "job")
    BY <2>1 DEF RunSound, Fresh, Fetching
  <2>3. /\ run' = [run EXCEPT ![w] = n] /\ pc' = [pc EXCEPT ![w] = "job"]
        /\ UNCHANGED <<allowed, registry, restarts>> /\ pc[w] = "idle"
    BY <1>4 DEF Skip, Goes, Begins
  <2> HIDE DEF n
  <2> QED
    BY <1>3, <2>2, <2>3
<1>5. ASSUME NEW s \in Scores, Assess(w, s) PROVE Goal
  <2> DEFINE n == Fresh("succeeded", s, Attachments, {})
  <2>1. n \in Run /\ HasWorst({s} \cup {})
    BY FreshRun
  <2>2. RunSound(n, "fetch")
    BY <2>1 DEF RunSound, Fresh, Fetching
  <2>3. /\ run' = [run EXCEPT ![w] = n] /\ pc' = [pc EXCEPT ![w] = "fetch"]
        /\ UNCHANGED <<allowed, registry, restarts>> /\ pc[w] = "idle"
    BY <1>5 DEF Assess, Goes, Begins
  <2> HIDE DEF n
  <2> QED
    BY <1>3, <2>2, <2>3 DEF Fetching
<1>6. ASSUME NEW a \in Attachments, Fetch(w, a) PROVE Goal
  <2>1. /\ pc[w] = "fetch" /\ a \in r.todo /\ UNCHANGED <<allowed, registry, restarts>>
        /\ RunSound(r, "fetch") /\ r \in Run
        /\ pc = [pc EXCEPT ![w] = "fetch"]
    BY <1>2, <1>6 DEF Fetch, Fetching
  <2>2. CASE run' = [run EXCEPT ![w] = Refused(r, a)] /\ UNCHANGED pc
    BY <1>3, <2>1, <2>2, RefusedRun DEF Fetching
  <2>3. CASE run' = [run EXCEPT ![w] = HandedOut(r, a)] /\ UNCHANGED pc
    BY <1>3, <2>1, <2>3, HandedOutRun DEF Fetching
  <2>4. CASE run' = [run EXCEPT ![w] = [r EXCEPT !.current = a]] /\ Goes(w, "download")
    <3> DEFINE n == [r EXCEPT !.current = a]
    <3>1. n \in Run
      BY <2>1 DEF Run
    <3>2. /\ n.metadata = r.metadata /\ n.found = r.found /\ n.status = r.status
          /\ n.analyzed = r.analyzed /\ n.read = r.read /\ n.unread = r.unread
          /\ n.signals = r.signals /\ n.todo = r.todo /\ n.current = a
      BY <2>1 DEF Run
    <3>3. RunSound(n, "download")
      BY <2>1, <3>1, <3>2 DEF RunSound, Fetching
    <3>4. run' = [run EXCEPT ![w] = n] /\ pc' = [pc EXCEPT ![w] = "download"]
      BY <2>4 DEF Goes
    <3> HIDE DEF n
    <3> QED
      BY <1>3, <2>1, <3>3, <3>4 DEF Fetching
  <2> QED
    BY <1>6, <2>2, <2>3, <2>4 DEF Fetch
<1>7. ASSUME NEW a \in Attachments, Extract(w, a) PROVE Goal
  <2>1. /\ pc[w] = "fetch" /\ r.todo = {} /\ UNCHANGED <<allowed, registry, restarts>>
        /\ RunSound(r, "fetch") /\ pc' = [pc EXCEPT ![w] = "fetch"]
    BY <1>2, <1>7 DEF Extract, Fetching
  <2>2. \A outcome \in Outcomes(a) : outcome \in Scores \cup {Unusable}
    BY DocumentAssumption DEF Outcomes
  <2>3. PICK outcome \in Scores \cup {Unusable} :
            run' = [run EXCEPT ![w] = AfterReading(r, a, outcome)]
    BY <1>7, <2>2 DEF Extract
  <2> DEFINE n == AfterReading(r, a, outcome)
  <2>4. RunSound(n, "fetch")
    BY <2>1, ExtractedRun
  <2>5. run' = [run EXCEPT ![w] = n]
    BY <2>3
  <2> HIDE DEF n
  <2> QED
    BY <1>3, <2>1, <2>4, <2>5 DEF Fetching
<1>8. ASSUME NEW p \in Payloads, Download(w, p) PROVE Goal
  <2> DEFINE n == [r EXCEPT !.payload = p]
  <2>1. /\ pc[w] = "download" /\ RunSound(r, "download") /\ r \in Run
        /\ run' = [run EXCEPT ![w] = n] /\ pc' = [pc EXCEPT ![w] = "open"]
        /\ UNCHANGED <<allowed, registry, restarts>>
    BY <1>2, <1>8 DEF Download, Goes, Fetching
  <2>2. n \in Run
    BY <2>1 DEF Run
  <2>3. /\ n.metadata = r.metadata /\ n.found = r.found /\ n.status = r.status
        /\ n.analyzed = r.analyzed /\ n.read = r.read /\ n.unread = r.unread
        /\ n.signals = r.signals /\ n.todo = r.todo /\ n.current = r.current
    BY <2>1 DEF Run
  <2>4. RunSound(n, "open")
    BY <2>1, <2>2, <2>3 DEF RunSound, Fetching
  <2> HIDE DEF n
  <2> QED
    BY <1>3, <2>1, <2>4 DEF Fetching
<1>9. CASE DownloadFails(w)
  <2>1. /\ pc[w] = "download" /\ RunSound(r, "download") /\ r.current \in r.todo
        /\ run' = [run EXCEPT ![w] = Refused(r, r.current)]
        /\ pc' = [pc EXCEPT ![w] = "fetch"]
        /\ UNCHANGED <<allowed, registry, restarts>>
    BY <1>2, <1>9 DEF DownloadFails, Goes, Fetching, RunSound
  <2>2. RunSound(Refused(r, r.current), "fetch")
    BY <2>1, RefusedRun DEF Fetching
  <2> QED
    BY <1>3, <2>1, <2>2 DEF Fetching
<1>10. CASE OpenFile(w)
  <2>1. /\ pc[w] = "open" /\ RunSound(r, "open") /\ r \in Run
        /\ run' = [run EXCEPT ![w] = r] /\ pc' = [pc EXCEPT ![w] = "fill"]
        /\ UNCHANGED <<allowed, registry, restarts>>
    BY <1>2, <1>10 DEF OpenFile, Goes, Fetching
  <2>2. RunSound(r, "fill")
    BY <2>1 DEF RunSound, Fetching
  <2> QED
    BY <1>3, <2>1, <2>2 DEF Fetching
<1>11. CASE FillFile(w)
  <2>1. /\ pc[w] = "fill" /\ RunSound(r, "fill") /\ r.current \in r.todo
        /\ run' = [run EXCEPT ![w] = HandedOut(r, r.current)]
        /\ pc' = [pc EXCEPT ![w] = "fetch"]
        /\ UNCHANGED <<allowed, registry, restarts>>
    BY <1>2, <1>11 DEF FillFile, Goes, Fetching, RunSound
  <2>2. RunSound(HandedOut(r, r.current), "fetch")
    BY <2>1, HandedOutRun DEF Fetching
  <2> QED
    BY <1>3, <2>1, <2>2 DEF Fetching
<1>12. ASSUME NEW left \in Files, ProviderFails(w, left) PROVE Goal
  <2> DEFINE n == NothingRead(r)
  <2>1. /\ pc[w] \in Fetching /\ RunSound(r, pc[w])
        /\ r.todo = Attachments \/ pc[w] \in {"open", "fill"}
        /\ run' = [run EXCEPT ![w] = n] /\ pc' = [pc EXCEPT ![w] = "job"]
        /\ UNCHANGED <<allowed, registry, restarts>>
    BY <1>2, <1>12 DEF ProviderFails, Goes, Fetching
  <2>2. RunSound(n, "job")
    BY <2>1, FailedRun
  <2> HIDE DEF n
  <2> QED
    BY <1>3, <2>1, <2>2
<1>13. CASE Conclude(w)
  <2> DEFINE n == [r EXCEPT !.signals = @ \cup {IF r.analyzed THEN "analyzed" ELSE "not_analyzed"}]
  <2>1. /\ pc[w] = "fetch" /\ RunSound(r, "fetch")
        /\ run' = [run EXCEPT ![w] = n] /\ pc' = [pc EXCEPT ![w] = "job"]
        /\ UNCHANGED <<allowed, registry, restarts>>
    BY <1>2, <1>13 DEF Conclude, Goes, Fetching
  <2>2. RunSound(n, "job")
    BY <2>1, ConcludedRun
  <2> HIDE DEF n
  <2> QED
    BY <1>3, <2>1, <2>2 DEF Fetching
<1> QED
  BY <1>4, <1>5, <1>6, <1>7, <1>8, <1>9, <1>10, <1>11, <1>12, <1>13
-----------------------------------------------------------------------------
(* The registry.                                                           *)

\* A process between its first and its last write.
Writing(w) == pc[w] \in {"summary", "update"}

\* The job of a process that writes is its own, and has its summary as soon as it
\* was saved, and no other.
JobsSound ==
    /\ \A w \in Workers : Writing(w) =>
            run[w].job \in DOMAIN jobs /\ jobs[run[w].job].summary = 0
    /\ \A v, w \in Workers : Writing(v) /\ Writing(w) /\ run[v].job = run[w].job => v = w
    /\ \A w \in Workers : pc[w] = "summary" =>
            \A s \in DOMAIN summaries : summaries[s].job # run[w].job
    /\ \A w \in Workers : pc[w] = "update" =>
            \E s \in DOMAIN summaries : summaries[s].job = run[w].job
    /\ JobsNameTheirSummaries

\* What SignalsTellWhatWasRead says of one summary.
Tells(s) ==
    /\ ScoreCoversFindings(s)
    /\ s.signals # {} =>
          /\ "analyzed" \in s.signals <=> s.read # {}
          /\ "not_analyzed" \in s.signals <=> s.read = {}
          /\ s.unread # {} => "unreadable" \in s.signals

Registry ==
    /\ allowed \in [Workers -> AllowLists]
    /\ file \in [Attachments -> Files]
    /\ jobs \in Seq(Job)
    /\ summaries \in Seq(Summary)
    /\ restarts \in Nat

DocInv ==
    /\ RunsSound
    /\ Registry
    /\ JobsSound
    /\ \A s \in DOMAIN summaries : Tells(summaries[s])

LEMMA DocInvTypes == DocInv => DocumentsTypeOK
BY DEF DocInv, RunsSound, RunSound, Registry, DocumentsTypeOK

\* Steps that leave the registry alone and end outside of the writes.
LEMMA RegistryUntouched ==
    ASSUME DocInv, NEW w \in Workers, OthersStay(w), ~Writing(w)', UNCHANGED registry
    PROVE  JobsSound' /\ \A s \in DOMAIN summaries' : Tells(summaries[s])'
<1>1. \A v \in Workers : Writing(v)' => v # w /\ Writing(v) /\ pc'[v] = pc[v] /\ run'[v] = run[v]
  BY DEF OthersStay, Writing
<1>2. \A v \in Workers : pc'[v] \in {"summary", "update"} => Writing(v)'
  BY DEF Writing
<1>3. jobs' = jobs /\ summaries' = summaries /\ (JobsNameTheirSummaries' <=> JobsNameTheirSummaries)
  BY DEF registry, JobsNameTheirSummaries
<1>4. JobsSound'
  BY <1>1, <1>2, <1>3 DEF DocInv, JobsSound
<1>5. \A s \in DOMAIN summaries' : Tells(summaries[s])'
  BY <1>3 DEF DocInv, Tells, ScoreCoversFindings
<1> QED
  BY <1>4, <1>5

\* The worst finding is the maximum, and it decides the level.
LEMMA HeadlineIsWorst ==
    ASSUME NEW r \in Run, HasWorst({r.metadata} \cup r.found)
    PROVE  /\ Headline(r) \in Scores \cup {None}
           /\ r.status = "skipped" => Headline(r) = None
           /\ r.status # "skipped" =>
                 /\ Headline(r) \in {r.metadata} \cup r.found
                 /\ \A f \in {r.metadata} \cup r.found : Headline(r) >= f
<1>1. {r.metadata} \cup r.found \subseteq Scores
  BY DEF Run
<1>2. /\ Max({r.metadata} \cup r.found) \in {r.metadata} \cup r.found
      /\ \A f \in {r.metadata} \cup r.found : Max({r.metadata} \cup r.found) >= f
  BY DEF HasWorst, Max
<1> QED
  BY <1>1, <1>2 DEF Headline

LEMMA LevelOfScore ==
    ASSUME NEW score \in Scores \cup {None}
    PROVE  /\ Level(score) \in Levels
           /\ score = None => Level(score) = "not_scored"
           /\ score # None => (Level(score) = "severe" <=> score >= 76)
<1>1. score # None => score \in Nat
  BY NoneIsNoScore
<1>2. CASE score = None
  BY <1>2, NoneIsNoScore DEF Level, Levels
<1>3. CASE score # None
  BY <1>1, <1>3 DEF Level, Levels
<1> QED
  BY <1>2, <1>3

\* What SaveSummary writes of a run.
SummaryOf(r) ==
    [job |-> r.job, score |-> Headline(r), level |-> Level(Headline(r)),
     signals |-> r.signals, metadata |-> r.metadata, found |-> r.found,
     read |-> r.read, unread |-> r.unread, refused |-> r.refused]

LEMMA SummaryTells ==
    ASSUME NEW r, RunSound(r, "summary")
    PROVE  SummaryOf(r) \in Summary /\ Tells(SummaryOf(r))
<1>1. r \in Run /\ HasWorst({r.metadata} \cup r.found)
  BY DEF RunSound
<1> DEFINE s == SummaryOf(r)
<1>2. /\ s.job = r.job /\ s.score = Headline(r) /\ s.level = Level(Headline(r))
      /\ s.signals = r.signals /\ s.metadata = r.metadata /\ s.found = r.found
      /\ s.read = r.read /\ s.unread = r.unread /\ s.refused = r.refused
  BY DEF SummaryOf
<1>3. Headline(r) \in Scores \cup {None} /\ Level(Headline(r)) \in Levels
  BY <1>1, HeadlineIsWorst, LevelOfScore
<1>4. s \in Summary
  BY <1>1, <1>3 DEF SummaryOf, Summary, Run
<1>5. ScoreCoversFindings(s)
  <2>1. CASE r.status = "skipped"
    <3>1. Headline(r) = None /\ r.found = {} /\ Level(Headline(r)) = "not_scored"
      BY <1>1, <2>1, HeadlineIsWorst, LevelOfScore DEF RunSound
    <3> HIDE DEF s
    <3> QED
      BY <1>2, <3>1 DEF ScoreCoversFindings
  <2>2. CASE r.status # "skipped"
    <3>1. /\ Headline(r) \in {r.metadata} \cup r.found
          /\ \A f \in {r.metadata} \cup r.found : Headline(r) >= f
      BY <1>1, <2>2, HeadlineIsWorst
    <3>2. Headline(r) # None
      BY <1>1, <3>1, NoneIsNoScore DEF Run
    <3>3. Level(Headline(r)) = "severe" <=> Headline(r) >= 76
      BY <1>3, <3>2, LevelOfScore
    <3> HIDE DEF s
    <3> QED
      BY <1>2, <3>1, <3>3 DEF ScoreCoversFindings
  <2> QED
    BY <2>1, <2>2
<1> HIDE DEF s
<1>6. Tells(s)
  BY <1>2, <1>5 DEF Tells, RunSound
<1> QED
  BY <1>4, <1>6 DEF s
-----------------------------------------------------------------------------
(* The steps.                                                              *)

\* Whatever is written where, a name of the directory holds one of four things.
LEMMA FilesStayFiles ==
    ASSUME RunsSound, file \in [Attachments -> Files], NEW w \in Workers,
           NEW left \in Files
    PROVE  BrokenOff(w, left) \in [Attachments -> Files]
<1>1. CASE pc[w] # "fill"
  BY <1>1 DEF BrokenOff
<1>2. CASE pc[w] = "fill"
  <2>1. run[w] \in Run /\ run[w].current \in Attachments
    BY <1>2 DEF RunsSound, RunSound, Run
  <2>2. \A old, payload \in Files : Filled(old, payload) \in Files
    BY DEF Filled
  <2> DEFINE written == IF run[w].payload = "empty" THEN "empty" ELSE left
  <2>3. written \in Files
    BY DEF Files
  <2>4. BrokenOff(w, left) = [file EXCEPT ![run[w].current] = Filled(@, written)]
    BY <1>2 DEF BrokenOff
  <2> HIDE DEF written
  <2> QED
    BY <2>1, <2>2, <2>3, <2>4
<1> QED
  BY <1>1, <1>2

LEMMA BeforeRegistryFiles ==
    ASSUME RunsSound, file \in [Attachments -> Files], NEW w \in Workers,
           \/ \E b \in BOOLEAN : Skip(w, b)
           \/ \E s \in Scores : Assess(w, s)
           \/ \E a \in Attachments : Fetch(w, a) \/ Extract(w, a)
           \/ \E p \in Payloads : Download(w, p)
           \/ DownloadFails(w) \/ OpenFile(w) \/ FillFile(w)
           \/ \E left \in Files : ProviderFails(w, left)
           \/ Conclude(w)
    PROVE  file' \in [Attachments -> Files]
<1>1. CASE OpenFile(w)
  BY <1>1 DEF OpenFile, Files
<1>2. CASE FillFile(w)
  <2>1. run[w] \in Run /\ run[w].current \in Attachments /\ run[w].payload \in Files
    BY <1>2 DEF FillFile, RunsSound, RunSound, Run, Payloads, Files
  <2>2. \A old, payload \in Files : Filled(old, payload) \in Files
    BY DEF Filled
  <2> QED
    BY <1>2, <2>1, <2>2 DEF FillFile
<1>3. ASSUME NEW left \in Files, ProviderFails(w, left) PROVE file' \in [Attachments -> Files]
  BY <1>3, FilesStayFiles DEF ProviderFails
<1>4. CASE UNCHANGED file
  BY <1>4
<1>5. \/ \E b \in BOOLEAN : Skip(w, b)
      \/ \E s \in Scores : Assess(w, s)
      \/ \E a \in Attachments : Fetch(w, a) \/ Extract(w, a)
      \/ \E p \in Payloads : Download(w, p)
      \/ DownloadFails(w) \/ Conclude(w)
      => UNCHANGED file
  BY DEF Skip, Assess, Fetch, Extract, Download, DownloadFails, Conclude
<1> QED
  BY <1>1, <1>2, <1>3, <1>4, <1>5

\* A run that ends or dies.
LEMMA RunGone ==
    ASSUME RunsSound, NEW w \in Workers,
           run' = [run EXCEPT ![w] = None], pc' = [pc EXCEPT ![w] = "idle"]
    PROVE  RunsSound' /\ OthersStay(w) /\ ~Writing(w)'
<1>1. RunsSound' /\ OthersStay(w) /\ pc'[w] = "idle"
  BY RunStep DEF Steps
<1> QED
  BY <1>1 DEF Writing

\* _finish begins: the job is new, and whoever made it is the only one to write it.
LEMMA CreateJobStep == ASSUME DocInv, NEW w \in Workers, CreateJob(w) PROVE DocInv'
<1> DEFINE job == [status |-> run[w].status, summary |-> 0]
           n == [run[w] EXCEPT !.job = Len(jobs) + 1]
<1>0. RunSound(run[w], "job") /\ pc[w] = "job"
  BY DEF DocInv, RunsSound, CreateJob
<1>1. /\ RunSound(run[w], "job") /\ run[w] \in Run /\ pc[w] = "job"
      /\ jobs \in Seq(Job) /\ Len(jobs) \in Nat
  BY <1>0, LenProperties DEF DocInv, RunSound, Registry
<1>2. PICK j \in Nat : j = Len(jobs) + 1
  BY <1>1
<1>3. n \in Run
  BY <1>1 DEF Run
<1>4. /\ n.metadata = run[w].metadata /\ n.found = run[w].found /\ n.status = run[w].status
      /\ n.analyzed = run[w].analyzed /\ n.read = run[w].read /\ n.unread = run[w].unread
      /\ n.signals = run[w].signals /\ n.todo = run[w].todo /\ n.job = j
  BY <1>1, <1>2 DEF Run
<1>5. RunSound(n, "summary")
  BY <1>1, <1>3, <1>4 DEF RunSound, Fetching
<1>6. /\ run' = [run EXCEPT ![w] = n] /\ pc' = [pc EXCEPT ![w] = "summary"]
      /\ jobs' = Append(jobs, job) /\ UNCHANGED <<allowed, file, summaries, restarts>>
  BY DEF CreateJob, Goes
<1> HIDE DEF n
<1>7. RunsSound' /\ OthersStay(w) /\ pc'[w] = "summary" /\ run'[w] = n
  BY <1>3, <1>5, <1>6, RunStep DEF DocInv, Steps
<1>8. job \in Job /\ job.summary = 0
  BY <1>1 DEF Job, Run
<1> HIDE DEF job
<1>9. /\ jobs' \in Seq(Job) /\ DOMAIN jobs' = DOMAIN jobs \cup {j} /\ j \notin DOMAIN jobs
      /\ jobs'[j].summary = 0
      /\ \A i \in DOMAIN jobs : jobs'[i] = jobs[i]
  BY <1>1, <1>2, <1>6, <1>8, AppendProperties, LenProperties
<1>10. Registry'
  BY <1>6, <1>9 DEF DocInv, Registry
<1>11. summaries' = summaries /\ j # 0
  BY <1>1, <1>2, <1>6
<1>12. JobsNameTheirSummaries'
  BY <1>9, <1>11 DEF DocInv, JobsSound, JobsNameTheirSummaries
<1>13. /\ \A v \in Workers : v # w => pc'[v] = pc[v] /\ run'[v] = run[v]
       /\ run'[w].job = j
  BY <1>4, <1>7 DEF OthersStay
<1>14. \A s \in DOMAIN summaries : summaries[s].job # j
  BY <1>9 DEF DocInv, JobsSound, JobsNameTheirSummaries
<1>15. \A v \in Workers : v # w /\ Writing(v)' => run'[v].job \in DOMAIN jobs
  BY <1>13 DEF DocInv, JobsSound, Writing
<1>16. JobsSound'
  <2>1. \A v \in Workers : Writing(v)' => run'[v].job \in DOMAIN jobs' /\ jobs'[run'[v].job].summary = 0
    BY <1>9, <1>13 DEF DocInv, JobsSound, Writing
  <2>2. \A v, u \in Workers : Writing(v)' /\ Writing(u)' /\ run'[v].job = run'[u].job => v = u
    BY <1>9, <1>13, <1>15 DEF DocInv, JobsSound, Writing
  <2>3. \A v \in Workers : pc'[v] = "summary" =>
            \A s \in DOMAIN summaries' : summaries'[s].job # run'[v].job
    BY <1>11, <1>13, <1>14 DEF DocInv, JobsSound
  <2>4. \A v \in Workers : pc'[v] = "update" =>
            \E s \in DOMAIN summaries' : summaries'[s].job = run'[v].job
    BY <1>7, <1>11, <1>13 DEF DocInv, JobsSound
  <2> QED
    BY <1>12, <2>1, <2>2, <2>3, <2>4 DEF JobsSound
<1>17. \A s \in DOMAIN summaries' : Tells(summaries[s])'
  BY <1>11 DEF DocInv, Tells, ScoreCoversFindings
<1> QED
  BY <1>7, <1>10, <1>16, <1>17 DEF DocInv

\* The summary is the first and only one of its job, and tells what was read.
LEMMA SaveSummaryStep == ASSUME DocInv, NEW w \in Workers, SaveSummary(w) PROVE DocInv'
<1> DEFINE n == [Fresh(run[w].status, 0, {}, {}) EXCEPT !.job = run[w].job]
<1>0. RunSound(run[w], "summary") /\ pc[w] = "summary"
  BY DEF DocInv, RunsSound, SaveSummary
<1>1. /\ RunSound(run[w], "summary") /\ run[w] \in Run /\ pc[w] = "summary"
      /\ summaries \in Seq(Summary) /\ Len(summaries) \in Nat
  BY <1>0, LenProperties DEF DocInv, RunSound, Registry
<1>2. PICK t \in Nat : t = Len(summaries) + 1
  BY <1>1
<1>3. PICK new : new = SummaryOf(run[w])
  OBVIOUS
<1>4. new \in Summary /\ Tells(new) /\ new.job = run[w].job
  BY <1>1, <1>3, SummaryTells DEF SummaryOf
<1>5. /\ summaries' = Append(summaries, new) /\ UNCHANGED <<allowed, file, jobs, restarts>>
      /\ run' = [run EXCEPT ![w] = n] /\ pc' = [pc EXCEPT ![w] = "update"]
  BY <1>3 DEF SaveSummary, SummaryOf, Goes
<1>6. n \in Run /\ n.job = run[w].job /\ RunSound(n, "update")
  <2>1. PICK f : f = Fresh(run[w].status, 0, {}, {})
    OBVIOUS
  <2>2. f \in Run /\ HasWorst({0} \cup {})
    BY <1>1, <2>1, FreshRun, NoneIsNoScore DEF Run
  <2>3. /\ f.metadata = 0 /\ f.found = {} /\ f.analyzed = FALSE /\ f.read = {} /\ f.unread = {}
    BY <2>1 DEF Fresh
  <2>4. n = [f EXCEPT !.job = run[w].job]
    BY <2>1
  <2> HIDE DEF n
  <2>5. n \in Run /\ n.job = run[w].job
    BY <1>1, <2>2, <2>4 DEF Run
  <2>6. n.metadata = 0 /\ n.found = {} /\ n.analyzed = FALSE /\ n.read = {} /\ n.unread = {}
    BY <2>2, <2>3, <2>4 DEF Run
  <2> QED
    BY <2>2, <2>5, <2>6 DEF RunSound, Fetching
<1> HIDE DEF n
<1>7. RunsSound' /\ OthersStay(w) /\ pc'[w] = "update" /\ run'[w] = n
  BY <1>5, <1>6, RunStep DEF DocInv, Steps
<1>8. /\ summaries' \in Seq(Summary) /\ DOMAIN summaries' = DOMAIN summaries \cup {t}
      /\ t \notin DOMAIN summaries /\ summaries'[t] = new
      /\ \A s \in DOMAIN summaries : summaries'[s] = summaries[s]
  BY <1>1, <1>2, <1>4, <1>5, AppendProperties, LenProperties
<1>9. Registry'
  BY <1>5, <1>8 DEF DocInv, Registry
<1>10. /\ run[w].job \in DOMAIN jobs /\ jobs[run[w].job].summary = 0
       /\ \A s \in DOMAIN summaries : summaries[s].job # run[w].job
  BY <1>1 DEF DocInv, JobsSound, Writing
<1>11. JobsNameTheirSummaries'
  BY <1>4, <1>5, <1>8, <1>10 DEF DocInv, JobsSound, JobsNameTheirSummaries
<1>12. /\ \A v \in Workers : v # w => pc'[v] = pc[v] /\ run'[v] = run[v]
       /\ run'[w].job = run[w].job /\ pc'[w] = "update" /\ jobs' = jobs
  BY <1>5, <1>6, <1>7 DEF OthersStay
<1>13. \A v \in Workers : v # w /\ Writing(v) => run[v].job # run[w].job
  BY <1>1 DEF DocInv, JobsSound, Writing
<1>14. JobsSound'
  <2>1. \A v \in Workers : Writing(v)' => run'[v].job \in DOMAIN jobs' /\ jobs'[run'[v].job].summary = 0
    BY <1>10, <1>12 DEF DocInv, JobsSound, Writing
  <2>2. \A v, u \in Workers : Writing(v)' /\ Writing(u)' /\ run'[v].job = run'[u].job => v = u
    BY <1>12, <1>13 DEF DocInv, JobsSound, Writing
  <2>3. \A v \in Workers : pc'[v] = "summary" =>
            \A s \in DOMAIN summaries' : summaries'[s].job # run'[v].job
    BY <1>4, <1>8, <1>12, <1>13 DEF DocInv, JobsSound, Writing
  <2>4. \A v \in Workers : pc'[v] = "update" =>
            \E s \in DOMAIN summaries' : summaries'[s].job = run'[v].job
    BY <1>4, <1>8, <1>12 DEF DocInv, JobsSound
  <2> QED
    BY <1>11, <2>1, <2>2, <2>3, <2>4 DEF JobsSound
<1>15. \A s \in DOMAIN summaries' : Tells(summaries[s])'
  <2>1. ASSUME NEW s \in DOMAIN summaries' PROVE Tells(summaries'[s])
    BY <1>4, <1>8, <2>1 DEF DocInv
  <2> QED
    BY <2>1 DEF Tells, ScoreCoversFindings
<1> QED
  BY <1>7, <1>9, <1>14, <1>15 DEF DocInv

\* The job is given the summary that was made for it.
LEMMA UpdateJobStep == ASSUME DocInv, NEW w \in Workers, UpdateJob(w) PROVE DocInv'
<1>1. pc[w] = "update" /\ jobs \in Seq(Job) /\ UNCHANGED <<allowed, file, summaries, restarts>>
  BY DEF DocInv, Registry, UpdateJob
<1>2. PICK j \in DOMAIN jobs : j = run[w].job
  BY <1>1 DEF DocInv, JobsSound, Writing
<1>3. PICK s \in DOMAIN summaries : s = OwnSummary(w) /\ summaries[s].job = j
  BY <1>1, <1>2 DEF DocInv, JobsSound, OwnSummary
<1>4. jobs' = [jobs EXCEPT ![j] = [jobs[j] EXCEPT !.summary = s]]
  BY <1>2, <1>3 DEF UpdateJob
<1>5. s \in Nat /\ s # 0 /\ jobs[j] \in Job
  BY <1>1, <1>3, ElementOfSeq, LenProperties DEF DocInv, Registry
<1>6. /\ [jobs[j] EXCEPT !.summary = s] \in Job
      /\ [jobs[j] EXCEPT !.summary = s].summary = s
  BY <1>5 DEF Job
<1>7. /\ jobs' \in Seq(Job) /\ DOMAIN jobs' = DOMAIN jobs /\ jobs'[j].summary = s
      /\ \A i \in DOMAIN jobs : i # j => jobs'[i] = jobs[i]
  <2>1. PICK job \in Job : job = [jobs[j] EXCEPT !.summary = s] /\ job.summary = s
    BY <1>6
  <2>2. jobs' = [jobs EXCEPT ![j] = job] /\ j \in 1 .. Len(jobs)
    BY <1>1, <1>4, <2>1, LenProperties
  <2>3. jobs' \in Seq(Job) /\ Len(jobs') = Len(jobs)
    BY <1>1, <2>2, ExceptSeq
  <2> QED
    BY <2>1, <2>2, <2>3, LenProperties
<1>8. RunsSound' /\ OthersStay(w) /\ ~Writing(w)'
  BY RunGone DEF DocInv, UpdateJob, Goes
<1>9. Registry'
  BY <1>1, <1>7 DEF DocInv, Registry
<1>10. JobsNameTheirSummaries'
  BY <1>1, <1>3, <1>7 DEF DocInv, JobsSound, JobsNameTheirSummaries
<1>11. \A v \in Workers : Writing(v)' =>
            v # w /\ Writing(v) /\ pc'[v] = pc[v] /\ run'[v] = run[v] /\ run[v].job # j
  BY <1>1, <1>2, <1>8 DEF DocInv, JobsSound, OthersStay, Writing
<1>12. \A v \in Workers : pc'[v] \in {"summary", "update"} => Writing(v)'
  BY DEF Writing
<1>13. JobsSound'
  BY <1>1, <1>7, <1>10, <1>11, <1>12 DEF DocInv, JobsSound
<1>14. \A x \in DOMAIN summaries' : Tells(summaries[x])'
  BY <1>1 DEF DocInv, Tells, ScoreCoversFindings
<1> QED
  BY <1>8, <1>9, <1>13, <1>14 DEF DocInv

LEMMA DocInvInit == DocumentsInit => DocInv
<1> SUFFICES ASSUME DocumentsInit PROVE DocInv
  OBVIOUS
<1>1. RunsSound
  BY DEF DocumentsInit, RunsSound, Steps
<1>2. Registry
  BY DEF DocumentsInit, Registry, Files
<1>3. jobs = <<>> /\ summaries = <<>> /\ DOMAIN jobs = {} /\ DOMAIN summaries = {}
  BY DEF DocumentsInit
<1>4. JobsSound /\ \A s \in DOMAIN summaries : Tells(summaries[s])
  BY <1>3 DEF DocumentsInit, JobsSound, Writing, JobsNameTheirSummaries
<1> QED
  BY <1>1, <1>2, <1>4 DEF DocInv

LEMMA DocInvStep == DocInv /\ [DocumentsNext]_documentsVars => DocInv'
<1> SUFFICES ASSUME DocInv, [DocumentsNext]_documentsVars PROVE DocInv'
  OBVIOUS
<1>1. ASSUME NEW w \in Workers,
             \/ \E b \in BOOLEAN : Skip(w, b)
             \/ \E s \in Scores : Assess(w, s)
             \/ \E a \in Attachments : Fetch(w, a) \/ Extract(w, a)
             \/ \E p \in Payloads : Download(w, p)
             \/ DownloadFails(w) \/ OpenFile(w) \/ FillFile(w)
             \/ \E left \in Files : ProviderFails(w, left)
             \/ Conclude(w)
      PROVE  DocInv'
  <2>1. /\ RunsSound' /\ OthersStay(w) /\ pc'[w] \in Fetching \cup {"job"}
        /\ UNCHANGED <<allowed, registry, restarts>>
    BY <1>1, BeforeRegistry DEF DocInv
  <2>2. file' \in [Attachments -> Files]
    BY <1>1, BeforeRegistryFiles DEF DocInv, Registry
  <2>3. ~Writing(w)'
    BY <2>1 DEF Writing, Fetching
  <2>4. Registry'
    BY <2>1, <2>2 DEF DocInv, Registry, registry
  <2> QED
    BY <2>1, <2>3, <2>4, RegistryUntouched DEF DocInv
<1>2. ASSUME NEW w \in Workers, RegistryFails(w) PROVE DocInv'
  <2>1. RunsSound' /\ OthersStay(w) /\ ~Writing(w)'
    BY <1>2, RunGone DEF DocInv, RegistryFails, Goes
  <2>2. UNCHANGED registry /\ Registry'
    BY <1>2 DEF RegistryFails, DocInv, Registry, registry
  <2> QED
    BY <2>1, <2>2, RegistryUntouched DEF DocInv
<1>3. ASSUME NEW w \in Workers, NEW list \in AllowLists, NEW left \in {"empty", "part"},
             Restart(w, list, left)
      PROVE  DocInv'
  <2>1. RunsSound' /\ OthersStay(w) /\ ~Writing(w)'
    BY <1>3, RunGone DEF DocInv, Restart, Goes
  <2>2. file' \in [Attachments -> Files]
    BY <1>3, FilesStayFiles DEF DocInv, Registry, Restart, Files
  <2>3. UNCHANGED registry /\ Registry'
    BY <1>3, <2>2 DEF Restart, DocInv, Registry, registry
  <2> QED
    BY <2>1, <2>3, RegistryUntouched DEF DocInv
<1>4. CASE UNCHANGED documentsVars
  BY <1>4 DEF documentsVars, registry, DocInv, RunsSound, Registry, JobsSound, Writing, JobsNameTheirSummaries,
              Tells, ScoreCoversFindings
<1> QED
  BY <1>1, <1>2, <1>3, <1>4, CreateJobStep, SaveSummaryStep, UpdateJobStep DEF DocumentsNext

LEMMA DocInvAlways == DocumentsSpec => []DocInv
BY DocInvInit, DocInvStep, PTL DEF DocumentsSpec

\* Directory, runs, jobs and summaries keep their shape for any processes,
\* attachments, scores, jobs and restarts.
THEOREM DocumentsTypeCorrect == DocumentsSpec => []DocumentsTypeOK
BY DocInvAlways, DocInvTypes, PTL

\* However processes fetch, write, read, finish and die, the score and the signals
\* of every summary tell what happened to its files (AttachmentFetcher.fetch,
\* ContractAnalysisService._analyze_documents and _finish).
THEOREM SignalsKept == DocumentsSpec => []SignalsTellWhatWasRead
<1>1. DocInv => SignalsTellWhatWasRead
  BY DEF DocInv, Tells, SignalsTellWhatWasRead, Saved
<1> QED
  BY <1>1, DocInvAlways, PTL

\* However the three writes of several processes fall between one another, jobs
\* and summaries belong together (ContractAnalysisService._finish).
THEOREM JobsKeepTheirSummaries == DocumentsSpec => []JobsNameTheirSummaries
<1>1. DocInv => JobsNameTheirSummaries
  BY DEF DocInv, JobsSound
<1> QED
  BY <1>1, DocInvAlways, PTL

-----------------------------------------------------------------------------
(* Authorizations: what each step has at hand.                             *)

\* What each step of an operation has at hand.
CallSound(c) ==
    /\ call[c].step \in {"created", "changed", "check", "block", "told"} => call[c].id \in Ids
    /\ call[c].step = "check" => call[c].op \in {"can_retrieve", "preflight"}
    /\ call[c].step = "changed" => /\ call[c].seen \in {"approved", "rejected", "expired"}
                                   /\ call[c].op \in {"change", "can_retrieve", "preflight"}

TypeInv ==
    /\ AuthorizationTypeOK
    /\ events \in Seq([Events -> Nat])
    /\ Len(events) = Len(auth)
    /\ \A c \in Callers : CallSound(c)

-----------------------------------------------------------------------------
(* Type correctness.                                                       *)

LEMMA IdleIsCall == Idle \in Call
BY DEF Idle, Call, CallSteps, Operations, Statuses

\* Authorizations are only added, and none changes but in its status.
AuthKept ==
    /\ auth' \in Seq(Authorization)
    /\ Ids \subseteq Ids'
    /\ \A i \in Ids : auth'[i].key = auth[i].key /\ auth'[i].expires = auth[i].expires

LEMMA StatusChange ==
    ASSUME TypeInv, NEW i \in Ids, NEW to \in Statuses, SetStatus(i, to)
    PROVE  /\ AuthKept
           /\ Ids' = Ids
           /\ auth'[i].status = to
           /\ \A j \in Ids : j # i => auth'[j] = auth[j]
<1>1. auth[i] \in Authorization
  BY ElementOfSeq, LenProperties DEF TypeInv, AuthorizationTypeOK, Ids
<1>2. [auth[i] EXCEPT !.status = to] \in Authorization
  BY <1>1 DEF Authorization
<1>3. auth' = [auth EXCEPT ![i] = [auth[i] EXCEPT !.status = to]]
  BY DEF SetStatus
<1>4. auth' \in Seq(Authorization) /\ DOMAIN auth' = DOMAIN auth
  BY <1>2, <1>3, ExceptSeq, LenProperties DEF TypeInv, AuthorizationTypeOK, Ids
<1>5. auth'[i] = [auth[i] EXCEPT !.status = to] /\ \A j \in Ids : j # i => auth'[j] = auth[j]
  BY <1>3 DEF Ids
<1>6. auth'[i].key = auth[i].key /\ auth'[i].expires = auth[i].expires /\ auth'[i].status = to
  BY <1>1, <1>5 DEF Authorization
<1> QED
  BY <1>4, <1>5, <1>6 DEF AuthKept, Ids

\* The trail grows by one entry of one authorization.
LEMMA Recording ==
    ASSUME TypeInv, NEW i \in Ids, NEW e \in Events, Record(i, e)
    PROVE  /\ events' \in Seq([Events -> Nat]) /\ Len(events') = Len(events)
           /\ DOMAIN events' = Ids
           /\ \A j \in Ids : j # i => events'[j] = events[j]
           /\ \A x \in Events : x # e => events'[i][x] = events[i][x]
           /\ e # "blocked_download_attempt" => events'[i][e] = events[i][e] + 1
<1> DEFINE times == [events[i] EXCEPT ![e] = IF e = "blocked_download_attempt" THEN 1 ELSE @ + 1]
<1>1. i \in 1 .. Len(events) /\ Ids = 1 .. Len(events) /\ DOMAIN events = Ids
  BY LenProperties DEF TypeInv, AuthorizationTypeOK, Ids
<1>2. events[i] \in [Events -> Nat]
  BY <1>1, ElementOfSeq DEF TypeInv
<1>3. times \in [Events -> Nat]
  BY <1>2
<1>4. events' = [events EXCEPT ![i] = times]
  BY DEF Record
<1> HIDE DEF times
<1>5. events' \in Seq([Events -> Nat]) /\ Len(events') = Len(events)
  BY <1>1, <1>3, <1>4, ExceptSeq DEF TypeInv
<1>6. events'[i] = times /\ \A j \in Ids : j # i => events'[j] = events[j]
  BY <1>1, <1>4
<1> QED
  BY <1>1, <1>2, <1>5, <1>6, LenProperties DEF times
LEMMA TypeInvInit == AuthorizationInit => TypeInv
<1> SUFFICES ASSUME AuthorizationInit PROVE TypeInv
  OBVIOUS
<1>1. Len(auth) = 0 /\ Len(events) = 0 /\ Ids = {} /\ DOMAIN events = {}
  BY DEF AuthorizationInit, Ids
<1>2. auth \in Seq(Authorization) /\ events \in Seq([Events -> Nat])
  BY DEF AuthorizationInit
<1>3. events \in [Ids -> [Events -> Nat]]
  BY <1>1 DEF AuthorizationInit
<1>4. call \in [Callers -> Call] /\ \A c \in Callers : call[c].step = "idle"
  BY IdleIsCall DEF AuthorizationInit, Idle
<1> QED
  BY <1>1, <1>2, <1>3, <1>4, AuthorizationAssumption
     DEF AuthorizationInit, TypeInv, AuthorizationTypeOK, CallSound

LEMMA TypeInvStep == TypeInv /\ [AuthorizationNext]_authorizationVars => TypeInv'
<1> SUFFICES ASSUME TypeInv, [AuthorizationNext]_authorizationVars PROVE TypeInv'
  OBVIOUS
<1>0. /\ Ids = 1 .. Len(auth) /\ Len(auth) \in Nat /\ DOMAIN events = Ids
      /\ \A i \in Ids : auth[i] \in Authorization
      /\ \A i \in Ids : i \in Nat
      /\ calls \in 0 .. MaxCalls /\ MaxCalls \in Nat /\ clock \in Nat
      /\ call \in [Callers -> Call]
      /\ broken \subseteq Ids
  BY ElementOfSeq, LenProperties, AuthorizationAssumption DEF TypeInv, AuthorizationTypeOK, Ids
\* What the tables hold, when no operation adds to them.
<1>1. ASSUME UNCHANGED <<auth, events, clock>>, calls' \in 0 .. MaxCalls,
             call' \in [Callers -> Call], broken' \subseteq Ids,
             \A c \in Callers : CallSound(c)'
      PROVE  TypeInv'
  BY <1>1 DEF TypeInv, AuthorizationTypeOK, Ids
<1>2. CASE Tick
  BY <1>0, <1>2 DEF Tick, TypeInv, AuthorizationTypeOK, CallSound, Ids
<1>3. CASE UNCHANGED authorizationVars
  BY <1>0, <1>1, <1>3 DEF authorizationVars, TypeInv, CallSound, Ids
<1>4. ASSUME NEW c \in Callers, NEW op \in Operations, NEW places \in SUBSET (DOMAIN Assets),
             Make(c, op, places)
      PROVE  TypeInv'
  <2>1. [Idle EXCEPT !.op = op, !.step = "save", !.todo = places] \in Call
    BY DEF Idle, Call, CallSteps, Statuses
  <2>2. [Idle EXCEPT !.op = op, !.step = "save", !.todo = places].step = "save"
    BY DEF Idle
  <2> QED
    BY <1>0, <1>1, <1>4, <2>1, <2>2 DEF Make, CallBegins, TypeInv, CallSound, Ids
<1>5. ASSUME NEW c \in Callers, SaveDraft(c) PROVE TypeInv'
  <2>1. PICK n \in call[c].todo :
            /\ auth' = Append(auth, [key |-> Assets[n].key, status |-> "draft",
                                     expires |-> clock + Lifetime])
            /\ events' = Append(events, [e \in Events |-> 0])
            /\ call' = [call EXCEPT ![c] = [call[c] EXCEPT !.step = "created", !.todo = @ \ {n},
                                                           !.id = Len(auth) + 1]]
    BY <1>5 DEF SaveDraft
  <2>2. n \in DOMAIN Assets /\ n \in Nat /\ Assets[n] \in Asset
    BY <1>0, <2>1, ElementOfSeq, LenProperties, AuthorizationAssumption DEF Call
  <2>3. [key |-> Assets[n].key, status |-> "draft", expires |-> clock + Lifetime] \in Authorization
    BY <1>0, <2>2, AuthorizationAssumption DEF Authorization, Asset, Statuses
  <2>4. auth' \in Seq(Authorization) /\ Len(auth') = Len(auth) + 1
    BY <2>1, <2>3, AppendProperties DEF TypeInv, AuthorizationTypeOK
  <2>5. events' \in Seq([Events -> Nat]) /\ Len(events') = Len(events) + 1
    <3>1. [e \in Events |-> 0] \in [Events -> Nat]
      OBVIOUS
    <3> QED
      BY <2>1, <3>1, AppendProperties DEF TypeInv
  <2>6. Ids' = 1 .. Len(auth) + 1 /\ DOMAIN events' = Ids' /\ Ids \subseteq Ids'
    BY <1>0, <2>4, <2>5, LenProperties DEF Ids, TypeInv
  <2>7. events' \in [Ids' -> [Events -> Nat]]
    BY <2>5, <2>6, ElementOfSeq, LenProperties
  <2>8. [call[c] EXCEPT !.step = "created", !.todo = @ \ {n}, !.id = Len(auth) + 1] \in Call
    <3>1. call[c].todo \ {n} \in SUBSET (DOMAIN Assets) /\ Len(auth) + 1 \in Nat
      BY <1>0 DEF Call
    <3> QED
      BY <1>0, <3>1 DEF Call, CallSteps
  <2>9. /\ call'[c].step = "created" /\ call'[c].id = Len(auth) + 1
        /\ \A d \in Callers : d # c => call'[d] = call[d]
    BY <1>0, <2>1 DEF Call
  <2>10. \A d \in Callers : CallSound(d)'
    <3>1. CallSound(c)'
      BY <1>0, <2>6, <2>9 DEF CallSound
    <3> QED
      BY <2>6, <2>9, <3>1 DEF CallSound, TypeInv
  <2> QED
    BY <1>0, <1>5, <2>1, <2>4, <2>5, <2>6, <2>7, <2>8, <2>10 DEF SaveDraft, TypeInv, AuthorizationTypeOK
\* An entry in the trail, for the authorization a caller works on.
<1>6. ASSUME NEW c \in Callers, NEW e \in Events, call[c].id \in Ids, Record(call[c].id, e),
             UNCHANGED <<auth, clock, calls, broken>>,
             call' \in [Callers -> Call], \A d \in Callers : CallSound(d)'
      PROVE  TypeInv'
  <2>1. events' \in Seq([Events -> Nat]) /\ Len(events') = Len(events) /\ DOMAIN events' = Ids
    BY <1>6, Recording
  <2>2. events' \in [Ids -> [Events -> Nat]]
    BY <2>1, ElementOfSeq, LenProperties
  <2> QED
    BY <1>0, <1>6, <2>1, <2>2 DEF TypeInv, AuthorizationTypeOK, Ids
<1>7. ASSUME NEW c \in Callers, AuditCreated(c) PROVE TypeInv'
  <2>1. /\ call[c].id \in Ids
        /\ [call[c] EXCEPT !.step = "save"] \in Call
        /\ [call[c] EXCEPT !.step = "save"].step = "save" /\ Idle.step = "idle"
    BY <1>0, <1>7 DEF AuditCreated, TypeInv, CallSound, CallSteps, Call, Idle
  <2>2. call' \in [Callers -> Call] /\ \A d \in Callers : CallSound(d)'
    BY <1>0, <1>7, <2>1, IdleIsCall DEF AuditCreated, TypeInv, CallSound, Ids
  <2> QED
    BY <1>6, <1>7, <2>1, <2>2 DEF AuditCreated, Events
<1>8. ASSUME NEW c \in Callers, AuditChange(c) PROVE TypeInv'
  <2>1. /\ call[c].id \in Ids /\ call[c].seen \in Events
        /\ call[c].op \in {"change", "can_retrieve", "preflight"}
        /\ \A s \in {"told", "block"} : /\ [call[c] EXCEPT !.step = s] \in Call
                                        /\ [call[c] EXCEPT !.step = s].step = s
                                        /\ [call[c] EXCEPT !.step = s].id = call[c].id
        /\ Idle.step = "idle"
    BY <1>0, <1>8 DEF AuditChange, TypeInv, CallSound, CallSteps, Call, Idle, Events
  <2>2. call'[c] = Idle \/ \E s \in {"told", "block"} : call'[c] = [call[c] EXCEPT !.step = s]
    BY <1>0, <1>8, <2>1 DEF AuditChange
  <2>3. \A d \in Callers : d # c => call'[d] = call[d]
    BY <1>0, <1>8 DEF AuditChange
  <2>4. call' \in [Callers -> Call]
    BY <1>0, <1>8, <2>1, <2>2, <2>3, IdleIsCall DEF AuditChange
  <2>5. \A d \in Callers : CallSound(d)'
    BY <1>0, <1>8, <2>1, <2>2, <2>3 DEF AuditChange, TypeInv, CallSound, Ids
  <2> QED
    BY <1>6, <1>8, <2>1, <2>4, <2>5 DEF AuditChange
<1>9. ASSUME NEW c \in Callers, AuditBlocked(c) PROVE TypeInv'
  <2>1. /\ call[c].id \in Ids
        /\ [call[c] EXCEPT !.step = "told"] \in Call
        /\ [call[c] EXCEPT !.step = "told"].step = "told"
        /\ [call[c] EXCEPT !.step = "told"].id = call[c].id
    BY <1>0, <1>9 DEF AuditBlocked, TypeInv, CallSound, CallSteps, Call
  <2>2. call' \in [Callers -> Call] /\ \A d \in Callers : CallSound(d)'
    BY <1>0, <1>9, <2>1 DEF AuditBlocked, TypeInv, CallSound, Ids
  <2> QED
    BY <1>6, <1>9, <2>1, <2>2 DEF AuditBlocked, Events
\* A status that was set, by whoever.
<1>10. ASSUME NEW c \in Callers, NEW i \in Ids, NEW to \in Statuses, SetStatus(i, to),
              UNCHANGED <<events, clock, broken>>, calls' \in 0 .. MaxCalls,
              NEW k \in Call, call' = [call EXCEPT ![c] = k],
              k.step = "changed" /\ k.id = i /\ k.seen \in {"approved", "rejected", "expired"},
              k.op \in {"change", "can_retrieve", "preflight"}
       PROVE  TypeInv'
  <2>1. AuthKept /\ Ids' = Ids
    BY <1>10, StatusChange
  <2>2. Len(auth') = Len(auth)
    BY <2>1, LenProperties DEF AuthKept, Ids, TypeInv, AuthorizationTypeOK
  <2>3. \A d \in Callers : CallSound(d)'
    BY <1>0, <1>10, <2>1 DEF TypeInv, CallSound
  <2> QED
    BY <1>0, <1>10, <2>1, <2>2, <2>3 DEF TypeInv, AuthorizationTypeOK, AuthKept
<1>11. ASSUME NEW c \in Callers, NEW i \in Ids, NEW to \in Statuses, Decide(c, i, to)
       PROVE  TypeInv'
  <2> DEFINE k == [Idle EXCEPT !.op = "change", !.step = "changed", !.id = i, !.seen = to]
  <2>1. k \in Call
    BY <1>0 DEF Idle, Call, Operations, CallSteps, Statuses
  <2>2. k.step = "changed" /\ k.id = i /\ k.seen = to /\ k.op = "change"
    BY DEF Idle
  <2>3. to \in {"approved", "rejected", "expired"}
    BY <1>11 DEF Decide, SetStatus, MayBecome
  <2>4. call' = [call EXCEPT ![c] = k]
    BY <1>11 DEF Decide
  <2>5. SetStatus(i, to) /\ UNCHANGED <<events, clock, broken>> /\ calls' \in 0 .. MaxCalls
    BY <1>0, <1>11 DEF Decide, CallBegins
  <2> HIDE DEF k
  <2> QED
    BY <1>10, <2>1, <2>2, <2>3, <2>4, <2>5
<1>12. ASSUME NEW c \in Callers, NoticeExpiry(c) PROVE TypeInv'
  <2> DEFINE k == [call[c] EXCEPT !.step = "changed", !.seen = "expired"]
  <2>1. k \in Call
    BY <1>0 DEF Statuses, CallSteps, Call
  <2>2. k.step = "changed" /\ k.id = call[c].id /\ k.seen = "expired" /\ k.op = call[c].op
    BY <1>0 DEF Call
  <2>3. call[c].id \in Ids /\ call[c].op \in {"can_retrieve", "preflight"}
    BY <1>12 DEF NoticeExpiry, TypeInv, CallSound
  <2>4. call' = [call EXCEPT ![c] = k]
    BY <1>12 DEF NoticeExpiry
  <2>5. /\ SetStatus(call[c].id, "expired") /\ "expired" \in Statuses
        /\ UNCHANGED <<events, clock, broken>> /\ calls' \in 0 .. MaxCalls
    BY <1>0, <1>12 DEF NoticeExpiry, Statuses
  <2> HIDE DEF k
  <2> QED
    BY <1>10, <2>1, <2>2, <2>3, <2>4, <2>5
<1>13. ASSUME NEW c \in Callers, NEW i \in Ids, NEW op \in {"can_retrieve", "preflight"},
              Ask(c, i, op)
       PROVE  TypeInv'
  <2>1. PICK l \in BOOLEAN :
            call' = [call EXCEPT ![c] =
                [Idle EXCEPT !.op = op, !.step = "check", !.id = i, !.seen = auth[i].status,
                             !.late = l]]
    BY <1>13 DEF Ask
  <2> DEFINE k == [Idle EXCEPT !.op = op, !.step = "check", !.id = i, !.seen = auth[i].status,
                               !.late = l]
  <2>2. k \in Call
    BY <1>0 DEF Operations, CallSteps, Authorization, Idle, Call
  <2>3. k.step = "check" /\ k.id = i /\ k.op = op
    BY DEF Idle
  <2>4. call' = [call EXCEPT ![c] = k]
    BY <2>1
  <2> HIDE DEF k
  <2>5. call' \in [Callers -> Call] /\ \A d \in Callers : CallSound(d)'
    BY <1>0, <1>13, <2>2, <2>3, <2>4 DEF Ask, TypeInv, CallSound, Ids
  <2> QED
    BY <1>0, <1>1, <1>13, <2>5 DEF Ask, CallBegins
\* An answer that was found.
<1>14. ASSUME NEW c \in Callers, call[c].step \in {"check", "told"} \/ BreaksOff(c),
              NEW k \in Call, call' = [call EXCEPT ![c] = k],
              (k.step \in {"told", "block"} /\ k.id = call[c].id /\ call[c].step = "check") \/ k = Idle,
              UNCHANGED <<auth, events, clock, calls>>, broken' \subseteq Ids
       PROVE  TypeInv'
  <2>1. Idle.step = "idle"
    BY DEF Idle
  <2>2. call' \in [Callers -> Call] /\ \A d \in Callers : CallSound(d)'
    BY <1>0, <1>14, <2>1 DEF TypeInv, CallSound, Ids
  <2> QED
    BY <1>0, <1>1, <1>14, <2>2
<1>15. ASSUME NEW c \in Callers, FindOverdue(c) PROVE TypeInv'
  <2>1. PICK s \in {"told", "block"} : call' = [call EXCEPT ![c] = [call[c] EXCEPT !.step = s]]
    BY <1>15 DEF FindOverdue
  <2>2. /\ [call[c] EXCEPT !.step = s] \in Call
        /\ [call[c] EXCEPT !.step = s].step = s /\ [call[c] EXCEPT !.step = s].id = call[c].id
    BY <1>0 DEF CallSteps, Call
  <2>3. /\ call[c].step = "check" /\ UNCHANGED <<auth, events, clock, calls>>
        /\ broken' \subseteq Ids
    BY <1>0, <1>15 DEF FindOverdue
  <2> QED
    BY <1>14, <2>1, <2>2, <2>3
<1>16. ASSUME NEW c \in Callers, FindInTime(c) PROVE TypeInv'
  <2>1. PICK s \in {"told", "block"}, v \in BOOLEAN :
            call' = [call EXCEPT ![c] = [call[c] EXCEPT !.valid = v, !.step = s]]
    BY <1>16 DEF FindInTime
  <2>2. /\ [call[c] EXCEPT !.valid = v, !.step = s] \in Call
        /\ [call[c] EXCEPT !.valid = v, !.step = s].step = s
        /\ [call[c] EXCEPT !.valid = v, !.step = s].id = call[c].id
    BY <1>0 DEF CallSteps, Call
  <2>3. /\ call[c].step = "check" /\ UNCHANGED <<auth, events, clock, calls>>
        /\ broken' \subseteq Ids
    BY <1>0, <1>16 DEF FindInTime
  <2> QED
    BY <1>14, <2>1, <2>2, <2>3
<1>17. ASSUME NEW c \in Callers, Return(c) PROVE TypeInv'
  BY <1>0, <1>14, <1>17, IdleIsCall DEF Return
<1>18. ASSUME NEW c \in Callers, BreaksOff(c) PROVE TypeInv'
  <2>1. broken' \subseteq Ids
    BY <1>0, <1>18 DEF BreaksOff, TypeInv, CallSound
  <2> QED
    BY <1>0, <1>14, <1>18, <2>1, IdleIsCall DEF BreaksOff
<1>19. ASSUME NEW c \in Callers,
              (\E n \in DOMAIN Assets : CreateDraft(c, n)) \/ DraftsFromAssets(c)
       PROVE  TypeInv'
  <2>1. \E op \in Operations, places \in SUBSET (DOMAIN Assets) : Make(c, op, places)
    BY <1>19 DEF CreateDraft, DraftsFromAssets, Operations
  <2> QED
    BY <1>4, <2>1
<1> QED
  BY <1>2, <1>3, <1>5, <1>7, <1>8, <1>9, <1>11, <1>12, <1>13, <1>15, <1>16, <1>17, <1>18, <1>19
     DEF AuthorizationNext

\* Every table, trail and call keeps its shape, for any number of callers, rows
\* and operations (AttachmentAuthorizationService).
THEOREM AuthorizationTypeCorrect == AuthorizationSpec => []AuthorizationTypeOK
<1>1. AuthorizationInit => TypeInv
  BY TypeInvInit
<1>2. TypeInv /\ [AuthorizationNext]_authorizationVars => TypeInv'
  BY TypeInvStep
<1>3. TypeInv => AuthorizationTypeOK
  BY DEF TypeInv
<1> QED
  BY <1>1, <1>2, <1>3, PTL DEF AuthorizationSpec
-----------------------------------------------------------------------------
(* Over is over.                                                           *)

\* What a check has read stays true enough until it answers: deadlines only
\* come nearer, and what was approved stays approved or becomes expired.
AnswerSound(c) ==
    LET k == call[c]
    IN  /\ k.valid => k.step \in {"block", "told"}
        /\ k.step = "check" =>
              /\ k.late => auth[k.id].expires < clock \/ k.seen \in {"rejected", "expired"}
              /\ k.seen = "approved" => auth[k.id].status \in {"approved", "expired"}
        /\ k.valid => ~k.late /\ auth[k.id].status \in {"approved", "expired"}

OverInv == TypeInv /\ \A c \in Callers : AnswerSound(c)

\* What a step may do to what was read.
Onward ==
    /\ clock' \in Nat /\ clock <= clock'
    /\ Ids \subseteq Ids'
    /\ \A i \in Ids :
        /\ auth'[i].expires = auth[i].expires
        /\ auth[i].status \in {"approved", "expired"} => auth'[i].status \in {"approved", "expired"}

LEMMA OnlyOnward == ASSUME TypeInv, [AuthorizationNext]_authorizationVars PROVE Onward
<1>1. clock \in Nat /\ \A i \in Ids : auth[i] \in Authorization
  BY ElementOfSeq, LenProperties DEF TypeInv, AuthorizationTypeOK, Ids
<1>2. CASE UNCHANGED auth
  <2>1. CASE Tick
    BY <1>1, <1>2, <2>1 DEF Tick, Onward, Ids
  <2>2. ~Tick => clock' = clock
    BY DEF AuthorizationNext, authorizationVars, CreateDraft, DraftsFromAssets, Make, SaveDraft, AuditCreated, Decide, Ask,
           AuditChange, NoticeExpiry, FindOverdue, FindInTime, AuditBlocked, Return, BreaksOff
  <2> QED
    BY <1>1, <1>2, <2>1, <2>2 DEF Onward, Ids
<1>3. ASSUME NEW i \in Ids, NEW to \in Statuses, SetStatus(i, to), clock' = clock PROVE Onward
  <2>1. AuthKept /\ Ids' = Ids /\ auth'[i].status = to /\ \A j \in Ids : j # i => auth'[j] = auth[j]
    BY <1>3, StatusChange
  <2>2. auth[i].status \in {"approved", "expired"} => to \in {"approved", "expired"}
    BY <1>3 DEF SetStatus, MayBecome
  <2> QED
    BY <1>1, <1>3, <2>1, <2>2 DEF Onward, AuthKept
<1>4. ASSUME NEW c \in Callers, SaveDraft(c) PROVE Onward
  <2>1. PICK a : auth' = Append(auth, a)
    BY <1>4 DEF SaveDraft
  <2>2. \A i \in Ids : i \in Ids' /\ auth'[i] = auth[i]
    BY <2>1 DEF TypeInv, AuthorizationTypeOK, Ids
  <2>3. clock' = clock
    BY <1>4 DEF SaveDraft
  <2> QED
    BY <1>1, <2>2, <2>3 DEF Onward
<1>5. ASSUME NEW c \in Callers, NEW i \in Ids, NEW to \in Statuses, Decide(c, i, to) PROVE Onward
  BY <1>3, <1>5 DEF Decide
<1>6. ASSUME NEW c \in Callers, NoticeExpiry(c) PROVE Onward
  <2>1. SetStatus(call[c].id, "expired") /\ clock' = clock /\ call[c].id \in Ids
    BY <1>6 DEF NoticeExpiry, TypeInv, CallSound
  <2> QED
    BY <1>3, <2>1 DEF Statuses
<1>7. ASSUME AuthorizationNext,
             ~ \E c \in Callers : \/ SaveDraft(c) \/ NoticeExpiry(c)
                                  \/ \E i \in Ids, to \in Statuses : Decide(c, i, to)
      PROVE  UNCHANGED auth
  BY <1>7 DEF AuthorizationNext, Tick, CreateDraft, DraftsFromAssets, Make, AuditCreated, Ask, AuditChange,
              FindOverdue, FindInTime, AuditBlocked, Return, BreaksOff
<1> QED
  BY <1>2, <1>4, <1>5, <1>6, <1>7 DEF authorizationVars

LEMMA OverStep == OverInv /\ [AuthorizationNext]_authorizationVars => OverInv'
<1> SUFFICES ASSUME OverInv, [AuthorizationNext]_authorizationVars PROVE OverInv'
  OBVIOUS
<1>1. TypeInv /\ TypeInv' /\ Onward
  BY TypeInvStep, OnlyOnward DEF OverInv
<1>2. /\ call \in [Callers -> Call] /\ call' \in [Callers -> Call]
      /\ \A i \in Ids : auth[i] \in Authorization
      /\ clock \in Nat
  BY <1>1, ElementOfSeq, LenProperties DEF TypeInv, AuthorizationTypeOK, Ids
\* A caller that does nothing.
<1>3. ASSUME NEW c \in Callers, call'[c] = call[c] PROVE AnswerSound(c)'
  <2>1. call[c].step \in {"check", "block", "told"} => call[c].id \in Ids
    BY <1>1 DEF TypeInv, CallSound
  <2>2. \A i \in Ids : auth[i].expires \in Nat
    BY <1>2 DEF Authorization
  <2> QED
    BY <1>1, <1>2, <1>3, <2>1, <2>2 DEF Onward, OverInv, AnswerSound
<1>4. ASSUME NEW c \in Callers, ~call'[c].valid, call'[c].step # "check" PROVE AnswerSound(c)'
  BY <1>4 DEF AnswerSound
<1>5. ASSUME NEW c \in Callers, NEW op, NEW places, Make(c, op, places)
      PROVE  ~call'[c].valid /\ call'[c].step # "check"
  BY <1>2, <1>5 DEF Make, Idle
<1>6. ASSUME NEW c \in Callers, SaveDraft(c) PROVE ~call'[c].valid /\ call'[c].step # "check"
  <2>1. ~call[c].valid
    BY <1>6 DEF OverInv, AnswerSound, SaveDraft
  <2> QED
    BY <1>2, <1>6, <2>1 DEF SaveDraft, Call
<1>7. ASSUME NEW c \in Callers, AuditCreated(c) \/ AuditChange(c)
      PROVE  ~call'[c].valid /\ call'[c].step # "check"
  <2>1. ~call[c].valid
    BY <1>7 DEF OverInv, AnswerSound, AuditCreated, AuditChange
  <2>2. ~Idle.valid /\ Idle.step = "idle"
    BY DEF Idle
  <2>3. call'[c] = Idle \/ \E s \in {"save", "told", "block"} : call'[c] = [call[c] EXCEPT !.step = s]
    BY <1>1, <1>2, <1>7 DEF AuditCreated, AuditChange, TypeInv, CallSound
  <2> QED
    BY <1>2, <2>1, <2>2, <2>3 DEF Call
<1>8. ASSUME NEW c \in Callers, NEW i, NEW to, Decide(c, i, to)
      PROVE  ~call'[c].valid /\ call'[c].step # "check"
  BY <1>2, <1>8 DEF Decide, Idle
<1>9. ASSUME NEW c \in Callers, NoticeExpiry(c) \/ FindOverdue(c)
      PROVE  ~call'[c].valid /\ call'[c].step # "check"
  <2>1. ~call[c].valid
    BY <1>9 DEF OverInv, AnswerSound, NoticeExpiry, FindOverdue
  <2> QED
    BY <1>2, <1>9, <2>1 DEF NoticeExpiry, FindOverdue, Call
<1>10. ASSUME NEW c \in Callers, Return(c) \/ BreaksOff(c)
       PROVE  ~call'[c].valid /\ call'[c].step # "check"
  BY <1>2, <1>10 DEF Return, BreaksOff, Idle
\* The question is asked: what counts as over is what is read.
<1>11. ASSUME NEW c \in Callers, NEW i \in Ids, NEW op, Ask(c, i, op) PROVE AnswerSound(c)'
  <2>1. /\ ~call'[c].valid /\ call'[c].id = i /\ call'[c].seen = auth[i].status
        /\ call'[c].late = (auth[i].expires < clock \/ auth[i].status \in {"rejected", "expired"})
    BY <1>2, <1>11 DEF Ask, Idle
  <2>2. auth' = auth /\ clock' = clock
    BY <1>11 DEF Ask
  <2> QED
    BY <2>1, <2>2 DEF AnswerSound
\* The answer of a check that finds it in time.
<1>12. ASSUME NEW c \in Callers, FindInTime(c) PROVE AnswerSound(c)'
  <2>1. /\ call[c].step = "check" /\ ~(auth[call[c].id].expires < clock)
        /\ UNCHANGED <<auth, clock>>
    BY <1>12 DEF FindInTime, IsExpired
  <2>2. /\ call'[c].valid = (call[c].seen = "approved") /\ call'[c].step \in {"told", "block"}
        /\ call'[c].late = call[c].late /\ call'[c].id = call[c].id
    BY <1>2, <1>12 DEF FindInTime, Call
  <2> QED
    BY <2>1, <2>2 DEF OverInv, AnswerSound
<1>13. ASSUME NEW c \in Callers, AuditBlocked(c) PROVE AnswerSound(c)'
  <2>1. /\ call[c].step = "block" /\ UNCHANGED <<auth, clock>>
        /\ call'[c] = [call[c] EXCEPT !.step = "told"]
    BY <1>2, <1>13 DEF AuditBlocked
  <2>2. /\ call'[c].valid = call[c].valid /\ call'[c].step = "told"
        /\ call'[c].late = call[c].late /\ call'[c].id = call[c].id
    BY <1>2, <2>1 DEF Call
  <2> QED
    BY <2>1, <2>2 DEF OverInv, AnswerSound
\* Everybody else stays as they are.
<1>14. ASSUME NEW c \in Callers PROVE AnswerSound(c)'
  <2>1. CASE Tick \/ UNCHANGED authorizationVars
    BY <1>3, <2>1 DEF Tick, authorizationVars
  <2>2. ASSUME NEW d \in Callers, d # c,
               \/ \E n \in DOMAIN Assets : CreateDraft(d, n)
               \/ DraftsFromAssets(d) \/ SaveDraft(d) \/ AuditCreated(d)
               \/ \E i \in Ids, to \in Statuses : Decide(d, i, to)
               \/ \E i \in Ids, op \in {"can_retrieve", "preflight"} : Ask(d, i, op)
               \/ AuditChange(d) \/ NoticeExpiry(d) \/ FindOverdue(d) \/ FindInTime(d)
               \/ AuditBlocked(d) \/ Return(d) \/ BreaksOff(d)
        PROVE  AnswerSound(c)'
    <3>1. \E k : call' = [call EXCEPT ![d] = k]
      BY <2>2 DEF CreateDraft, DraftsFromAssets, Make, SaveDraft, AuditCreated, Decide, Ask,
                  AuditChange, NoticeExpiry, FindOverdue, FindInTime, AuditBlocked, Return, BreaksOff
    <3> QED
      BY <1>2, <1>3, <2>2, <3>1
  <2>3. ASSUME \/ \E n \in DOMAIN Assets : CreateDraft(c, n)
               \/ DraftsFromAssets(c) \/ SaveDraft(c) \/ AuditCreated(c)
               \/ \E i \in Ids, to \in Statuses : Decide(c, i, to)
               \/ \E i \in Ids, op \in {"can_retrieve", "preflight"} : Ask(c, i, op)
               \/ AuditChange(c) \/ NoticeExpiry(c) \/ FindOverdue(c) \/ FindInTime(c)
               \/ AuditBlocked(c) \/ Return(c) \/ BreaksOff(c)
        PROVE  AnswerSound(c)'
    BY <1>4, <1>5, <1>6, <1>7, <1>8, <1>9, <1>10, <1>11, <1>12, <1>13, <2>3
       DEF CreateDraft, DraftsFromAssets
  <2> QED
    BY <2>1, <2>2, <2>3 DEF AuthorizationNext
<1> QED
  BY <1>1, <1>14 DEF OverInv

\* However many requests decide, notice and ask, whoever asks about an
\* authorization that is over is not told that it is valid (can_retrieve,
\* preflight_retrieval).
THEOREM OverStaysOver == AuthorizationSpec => []OverIsOver
<1>1. AuthorizationInit => OverInv
  BY TypeInvInit DEF AuthorizationInit, OverInv, AnswerSound, Idle
<1>2. OverInv /\ [AuthorizationNext]_authorizationVars => OverInv'
  BY OverStep
<1>3. OverInv => OverIsOver
  BY DEF OverInv, AnswerSound, OverIsOver
<1> QED
  BY <1>1, <1>2, <1>3, PTL DEF AuthorizationSpec
-----------------------------------------------------------------------------
(* The trail is complete.                                                  *)

Told == Events \ {"blocked_download_attempt"}

\* Caller c has still to put event e of i into the trail.
Pending(c, i, e) ==
    /\ call[c].id = i
    /\ \/ call[c].step = "created" /\ e = "created"
       \/ call[c].step = "changed" /\ e = call[c].seen

\* What i has gone through, and what the trail must name of it.
Reached(i, e) ==
    \/ e = "created"
    \/ e = "approved" /\ auth[i].status \in {"approved", "expired"}
    \/ e \in {"rejected", "expired"} /\ auth[i].status = e
Due(i, e) == e = "created" \/ auth[i].status = e

\* An event is in the trail, about to be put there by one caller, lost, or has
\* not happened; never two of these.
TrailAt(i, e) ==
    /\ events[i][e] \in {0, 1}
    /\ events[i][e] = 1 => Reached(i, e)
    /\ \A c \in Callers : Pending(c, i, e) => events[i][e] = 0 /\ Reached(i, e)
    /\ \A c, d \in Callers : Pending(c, i, e) /\ Pending(d, i, e) => c = d
    /\ \/ i \in broken \/ events[i][e] = 1 \/ ~Due(i, e)
       \/ \E c \in Callers : Pending(c, i, e)

TrailInv == TypeInv /\ \A i \in Ids, e \in Told : TrailAt(i, e)

\* A step that neither adds to what is to be told nor tells it.
LEMMA NothingToTell ==
    ASSUME TrailInv, TypeInv', Ids' = Ids, broken' = broken,
           \A i \in Ids : auth'[i] = auth[i],
           \A i \in Ids, e \in Told : events'[i][e] = events[i][e],
           \A c \in Callers, i \in Ids, e \in Told :
                Pending(c, i, e)' <=> Pending(c, i, e)
    PROVE  TrailInv'
<1>1. ASSUME NEW i \in Ids, NEW e \in Told PROVE TrailAt(i, e)'
  <2>1. TrailAt(i, e)
    BY DEF TrailInv
  <2>2. (Reached(i, e)' <=> Reached(i, e)) /\ (Due(i, e)' <=> Due(i, e))
    BY DEF Reached, Due
  <2>3. events'[i][e] = events[i][e]
    OBVIOUS
  <2> QED
    BY <2>1, <2>2, <2>3 DEF TrailAt
<1> QED
  BY <1>1 DEF TrailInv

LEMMA TrailStep == TrailInv /\ [AuthorizationNext]_authorizationVars => TrailInv'
<1> SUFFICES ASSUME TrailInv, [AuthorizationNext]_authorizationVars PROVE TrailInv'
  OBVIOUS
<1>1. TypeInv /\ TypeInv'
  BY TypeInvStep DEF TrailInv
<1>2. /\ call \in [Callers -> Call] /\ call' \in [Callers -> Call]
      /\ \A i \in Ids : auth[i] \in Authorization
      /\ Ids = 1 .. Len(auth) /\ Len(auth) \in Nat
  BY <1>1, ElementOfSeq, LenProperties DEF TypeInv, AuthorizationTypeOK, Ids
\* Callers that do not move, and callers that have nothing to tell.
<1>3. ASSUME NEW c \in Callers, call'[c] = call[c], NEW i, NEW e
      PROVE  Pending(c, i, e)' <=> Pending(c, i, e)
  BY <1>3 DEF Pending
<1>4. ASSUME NEW c \in Callers, call[c].step \notin {"created", "changed"}, NEW i, NEW e
      PROVE  ~Pending(c, i, e)
  BY <1>4 DEF Pending
<1>5. ASSUME NEW c \in Callers, call'[c].step \notin {"created", "changed"}, NEW i, NEW e
      PROVE  ~Pending(c, i, e)'
  BY <1>5 DEF Pending
<1>6. ASSUME NEW c \in Callers, NEW k, call' = [call EXCEPT ![c] = k]
      PROVE  \A d \in Callers : d # c => call'[d] = call[d]
  BY <1>2, <1>6
\* Steps between those that concern the trail.
<1>7. ASSUME NEW c \in Callers, \A d \in Callers : d # c => call'[d] = call[d],
             call[c].step \notin {"created", "changed"},
             call'[c].step \notin {"created", "changed"},
             auth' = auth, broken' = broken,
             \A i \in Ids, e \in Told : events'[i][e] = events[i][e]
      PROVE  TrailInv'
  <2>1. \A d \in Callers, i \in Ids, e \in Told : Pending(d, i, e)' <=> Pending(d, i, e)
    BY <1>3, <1>4, <1>5, <1>7
  <2> QED
    BY <1>1, <1>7, <2>1, NothingToTell DEF Ids
<1>8. CASE Tick \/ UNCHANGED authorizationVars
  <2>1. \A d \in Callers, i \in Ids, e \in Told : Pending(d, i, e)' <=> Pending(d, i, e)
    BY <1>3, <1>8 DEF Tick, authorizationVars
  <2>2. Ids' = Ids /\ auth' = auth /\ events' = events /\ broken' = broken
    BY <1>8 DEF Tick, authorizationVars, Ids
  <2> QED
    BY <1>1, <2>1, <2>2, NothingToTell
<1>9. ASSUME NEW c \in Callers, NEW op, NEW places, Make(c, op, places) PROVE TrailInv'
  <2>1. call[c].step = "idle" /\ call'[c].step = "save"
    BY <1>2, <1>9 DEF Make, CallBegins, Idle
  <2>2. \A d \in Callers : d # c => call'[d] = call[d]
    BY <1>6, <1>9 DEF Make
  <2> QED
    BY <1>7, <1>9, <2>1, <2>2 DEF Make
<1>10. ASSUME NEW c \in Callers, NEW i, NEW op, Ask(c, i, op) PROVE TrailInv'
  <2>1. call[c].step = "idle" /\ call'[c].step = "check"
    BY <1>2, <1>10 DEF Ask, CallBegins, Idle
  <2>2. \A d \in Callers : d # c => call'[d] = call[d]
    BY <1>6, <1>10 DEF Ask
  <2> QED
    BY <1>7, <1>10, <2>1, <2>2 DEF Ask
<1>11. ASSUME NEW c \in Callers, FindOverdue(c) \/ FindInTime(c) PROVE TrailInv'
  <2>1. /\ call[c].step = "check" /\ call'[c].step \in {"told", "block"}
        /\ UNCHANGED <<auth, events, broken>>
    BY <1>2, <1>11 DEF FindOverdue, FindInTime, Call
  <2>2. \A d \in Callers : d # c => call'[d] = call[d]
    BY <1>6, <1>11 DEF FindOverdue, FindInTime
  <2> QED
    BY <1>7, <2>1, <2>2
<1>12. ASSUME NEW c \in Callers, Return(c) PROVE TrailInv'
  <2>1. /\ call[c].step = "told" /\ call'[c].step = "idle"
        /\ UNCHANGED <<auth, events, broken>>
    BY <1>2, <1>12 DEF Return, Idle
  <2>2. \A d \in Callers : d # c => call'[d] = call[d]
    BY <1>6, <1>12 DEF Return
  <2> QED
    BY <1>7, <2>1, <2>2
<1>13. ASSUME NEW c \in Callers, AuditBlocked(c) PROVE TrailInv'
  <2>1. /\ call[c].step = "block" /\ call[c].id \in Ids
        /\ call'[c].step = "told"
        /\ UNCHANGED <<auth, broken>>
    BY <1>1, <1>2, <1>13 DEF AuditBlocked, TypeInv, CallSound, Call
  <2>2. \A d \in Callers : d # c => call'[d] = call[d]
    BY <1>6, <1>13 DEF AuditBlocked
  <2>3. "blocked_download_attempt" \in Events /\ Record(call[c].id, "blocked_download_attempt")
    BY <1>13 DEF AuditBlocked, Events
  <2>4. \A i \in Ids, e \in Told : events'[i][e] = events[i][e]
    BY <1>1, <2>1, <2>3, Recording DEF Told
  <2> QED
    BY <1>7, <2>1, <2>2, <2>4
\* A draft is saved: it is about to be told, by its maker alone.
<1>14. ASSUME NEW c \in Callers, SaveDraft(c) PROVE TrailInv'
  <2>1. /\ call[c].step = "save" /\ broken' = broken
        /\ \E n, a : /\ auth' = Append(auth, a)
                     /\ events' = Append(events, [e \in Events |-> 0])
                     /\ call' = [call EXCEPT ![c] = [call[c] EXCEPT !.step = "created",
                                                         !.todo = @ \ {n}, !.id = Len(auth) + 1]]
    BY <1>14 DEF SaveDraft
  <2>0. PICK new \in Nat : new = Len(auth) + 1
    BY <1>2
  <2>2. /\ call'[c].step = "created" /\ call'[c].id = new
        /\ \A d \in Callers : d # c => call'[d] = call[d]
    BY <1>2, <2>0, <2>1 DEF Call
  <2>3. /\ Ids' = Ids \cup {new} /\ new \notin Ids
        /\ \A i \in Ids : auth'[i] = auth[i] /\ events'[i] = events[i]
        /\ events'[new] = [e \in Events |-> 0]
        /\ auth'[new].status = "draft"
    <3>1. PICK a : /\ auth' = Append(auth, a) /\ a.status = "draft"
                   /\ events' = Append(events, [e \in Events |-> 0])
      BY <1>14 DEF SaveDraft
    <3>2. auth \in Seq(Authorization) /\ events \in Seq([Events -> Nat]) /\ Len(events) = Len(auth)
      BY <1>1 DEF TypeInv, AuthorizationTypeOK
    <3> QED
      BY <1>2, <2>0, <3>1, <3>2 DEF Ids
  <2>4. \A d \in Callers, e \in Told : Pending(d, new, e)' <=> d = c /\ e = "created"
    BY <1>1, <2>2, <2>3 DEF Pending, TypeInv, CallSound
  <2>5. \A d \in Callers, i \in Ids, e \in Told : Pending(d, i, e)' <=> Pending(d, i, e)
    BY <1>3, <2>1, <2>2, <2>3 DEF Pending
  <2>6. ASSUME NEW i \in Ids, NEW e \in Told PROVE TrailAt(i, e)'
    <3>1. TrailAt(i, e)
      BY DEF TrailInv
    <3>2. (Reached(i, e)' <=> Reached(i, e)) /\ (Due(i, e)' <=> Due(i, e))
      BY <2>3 DEF Reached, Due
    <3>3. events'[i][e] = events[i][e]
      BY <2>3
    <3> QED
      BY <2>1, <2>5, <3>1, <3>2, <3>3 DEF TrailAt
  <2>7. ASSUME NEW e \in Told PROVE TrailAt(new, e)'
    <3>1. events'[new][e] = 0
      BY <2>3 DEF Told
    <3>2. Reached(new, "created")'
      BY DEF Reached
    <3>3. Due(new, e)' => e = "created"
      BY <2>3 DEF Due, Told, Events
    <3> QED
      BY <2>2, <2>3, <2>4, <3>1, <3>2, <3>3 DEF TrailAt
  <2> QED
    BY <1>1, <2>3, <2>6, <2>7 DEF TrailInv
\* An event is told: it was pending, and nobody else has it to tell.
<1>15. ASSUME NEW c \in Callers, NEW i \in Ids, NEW e \in Told, Pending(c, i, e), Record(i, e),
              auth' = auth, broken' = broken,
              \A d \in Callers : d # c => call'[d] = call[d],
              call'[c].step \notin {"created", "changed"}
       PROVE  TrailInv'
  <2>1. /\ events'[i][e] = events[i][e] + 1
        /\ \A j \in Ids, x \in Told : ~(j = i /\ x = e) => events'[j][x] = events[j][x]
    <3>1. e \in Events /\ e # "blocked_download_attempt"
      BY DEF Told
    <3> QED
      BY <1>1, <1>15, <3>1, Recording DEF Told
  <2>2. \A j \in Ids, x \in Told : Pending(c, j, x) => j = i /\ x = e
    BY <1>15 DEF Pending
  <2>3. \A d \in Callers : \A j, x : d # c => (Pending(d, j, x)' <=> Pending(d, j, x))
    BY <1>3, <1>15
  <2>4. \A j, x : ~Pending(c, j, x)'
    BY <1>5, <1>15
  <2>5. ASSUME NEW j \in Ids, NEW x \in Told PROVE TrailAt(j, x)'
    <3>1. TrailAt(j, x) /\ TrailAt(i, e)
      BY DEF TrailInv
    <3>2. (Reached(j, x)' <=> Reached(j, x)) /\ (Due(j, x)' <=> Due(j, x))
      BY <1>15 DEF Reached, Due
    <3>3. CASE j = i /\ x = e
      <4>1. events[i][e] = 0 /\ Reached(i, e) /\ \A d \in Callers : Pending(d, i, e) => d = c
        BY <1>15, <3>1 DEF TrailAt
      <4>2. events'[i][e] = 1
        BY <2>1, <4>1
      <4> QED
        BY <2>3, <2>4, <3>2, <3>3, <4>1, <4>2 DEF TrailAt
    <3>4. CASE ~(j = i /\ x = e)
      <4>1. ~Pending(c, j, x) /\ ~Pending(c, j, x)' /\ events'[j][x] = events[j][x]
        BY <2>1, <2>2, <2>4, <3>4
      <4> QED
        BY <1>15, <2>3, <3>1, <3>2, <4>1 DEF TrailAt
    <3> QED
      BY <3>3, <3>4
  <2>6. Ids' = Ids
    BY <1>15 DEF Ids
  <2> QED
    BY <1>1, <2>5, <2>6 DEF TrailInv
<1>16. ASSUME NEW c \in Callers, AuditCreated(c) PROVE TrailInv'
  <2>1. /\ call[c].step = "created" /\ call[c].id \in Ids
        /\ Record(call[c].id, "created") /\ auth' = auth /\ broken' = broken
    BY <1>1, <1>16 DEF AuditCreated, TypeInv, CallSound
  <2>2. "created" \in Told /\ Pending(c, call[c].id, "created")
    BY <2>1 DEF Told, Events, Pending
  <2>3. call'[c].step \notin {"created", "changed"} /\ \A d \in Callers : d # c => call'[d] = call[d]
    BY <1>2, <1>16 DEF AuditCreated, Call, Idle
  <2> QED
    BY <1>15, <2>1, <2>2, <2>3
<1>17. ASSUME NEW c \in Callers, AuditChange(c) PROVE TrailInv'
  <2>1. /\ call[c].step = "changed" /\ call[c].id \in Ids
        /\ call[c].seen \in {"approved", "rejected", "expired"}
        /\ call[c].op \in {"change", "can_retrieve", "preflight"}
        /\ Record(call[c].id, call[c].seen) /\ auth' = auth /\ broken' = broken
    BY <1>1, <1>17 DEF AuditChange, TypeInv, CallSound
  <2>2. call[c].seen \in Told /\ Pending(c, call[c].id, call[c].seen)
    BY <2>1 DEF Told, Events, Pending
  <2>3. \A d \in Callers : d # c => call'[d] = call[d]
    BY <1>6, <1>17 DEF AuditChange
  <2>4. call'[c] = Idle \/ \E s \in {"told", "block"} : call'[c] = [call[c] EXCEPT !.step = s]
    BY <1>2, <1>17, <2>1 DEF AuditChange
  <2>5. call'[c].step \notin {"created", "changed"}
    BY <1>2, <2>4 DEF Call, Idle
  <2> QED
    BY <1>15, <2>1, <2>2, <2>3, <2>5
\* A status is set: it was not reached before, so that nothing of it is told.
<1>18. ASSUME NEW c \in Callers, NEW i \in Ids, NEW to, SetStatus(i, to),
              UNCHANGED <<events, broken>>,
              \A d \in Callers : d # c => call'[d] = call[d],
              call[c].step \notin {"created", "changed"},
              call'[c].step = "changed" /\ call'[c].id = i /\ call'[c].seen = to
       PROVE  TrailInv'
  <2>1. MayBecome(auth[i].status, to) /\ to \in Statuses /\ to \in Told
    BY <1>18 DEF SetStatus, MayBecome, Statuses, Told, Events
  <2>2. AuthKept /\ Ids' = Ids /\ auth'[i].status = to /\ \A j \in Ids : j # i => auth'[j] = auth[j]
    BY <1>1, <1>18, <2>1, StatusChange
  <2>3. ~Reached(i, to) /\ \A x \in Told : Reached(i, x) => Reached(i, x)'
    BY <2>1, <2>2 DEF Reached, MayBecome
  <2>4. Reached(i, to)' /\ \A x \in Told : Due(i, x)' => x = to \/ Due(i, x)
    BY <2>1, <2>2 DEF Reached, Due, MayBecome
  <2>5. \A d \in Callers : \A j, x : d # c => (Pending(d, j, x)' <=> Pending(d, j, x))
    BY <1>3, <1>18
  <2>6. \A j, x : ~Pending(c, j, x) /\ (Pending(c, j, x)' <=> j = i /\ x = to)
    BY <1>18 DEF Pending
  <2>7. ASSUME NEW j \in Ids, NEW x \in Told PROVE TrailAt(j, x)'
    <3>1. TrailAt(j, x)
      BY DEF TrailInv
    <3>2. events' = events /\ broken' = broken
      BY <1>18
    <3>3. CASE j = i /\ x = to
      <4>1. events[j][x] = 0 /\ \A d \in Callers : ~Pending(d, j, x)
        BY <2>3, <3>1, <3>3 DEF TrailAt
      <4> QED
        BY <2>4, <2>5, <2>6, <3>2, <3>3, <4>1 DEF TrailAt
    <3>4. CASE j = i /\ x # to
      BY <2>3, <2>4, <2>5, <2>6, <3>1, <3>2, <3>4 DEF TrailAt
    <3>5. CASE j # i
      <4>1. (Reached(j, x)' <=> Reached(j, x)) /\ (Due(j, x)' <=> Due(j, x))
        BY <2>2, <3>5 DEF Reached, Due
      <4> QED
        BY <2>5, <2>6, <3>1, <3>2, <3>5, <4>1 DEF TrailAt
    <3> QED
      BY <3>3, <3>4, <3>5
  <2> QED
    BY <1>1, <2>2, <2>7 DEF TrailInv
<1>19. ASSUME NEW c \in Callers, NEW i \in Ids, NEW to, Decide(c, i, to) PROVE TrailInv'
  <2>1. /\ SetStatus(i, to) /\ UNCHANGED <<events, broken>> /\ call[c].step = "idle"
        /\ call'[c].step = "changed" /\ call'[c].id = i /\ call'[c].seen = to
    BY <1>2, <1>19 DEF Decide, CallBegins, Idle
  <2>2. \A d \in Callers : d # c => call'[d] = call[d]
    BY <1>6, <1>19 DEF Decide
  <2> QED
    BY <1>18, <2>1, <2>2
<1>20. ASSUME NEW c \in Callers, NoticeExpiry(c) PROVE TrailInv'
  <2>1. /\ SetStatus(call[c].id, "expired") /\ UNCHANGED <<events, broken>>
        /\ call[c].step = "check" /\ call[c].id \in Ids
        /\ call'[c].step = "changed" /\ call'[c].id = call[c].id /\ call'[c].seen = "expired"
    BY <1>1, <1>2, <1>20 DEF NoticeExpiry, TypeInv, CallSound, Call
  <2>2. \A d \in Callers : d # c => call'[d] = call[d]
    BY <1>6, <1>20 DEF NoticeExpiry
  <2> QED
    BY <1>18, <2>1, <2>2
\* An operation ends where it had something to tell, and it shows.
<1>21. ASSUME NEW c \in Callers, BreaksOff(c) PROVE TrailInv'
  <2>1. UNCHANGED <<auth, events>> /\ broken \subseteq broken' /\ Ids' = Ids
    BY <1>21 DEF BreaksOff, Ids
  <2>2. \A d \in Callers : d # c => call'[d] = call[d]
    BY <1>6, <1>21 DEF BreaksOff
  <2>3. call'[c].step = "idle"
    BY <1>2, <1>21 DEF BreaksOff, Idle
  <2>4. \A j, x : Pending(c, j, x) => j \in broken'
    BY <1>21 DEF BreaksOff, Pending
  <2>5. \A j, x : ~Pending(c, j, x)'
    BY <1>5, <2>3
  <2>6. \A d \in Callers : \A j, x : d # c => (Pending(d, j, x)' <=> Pending(d, j, x))
    BY <1>3, <2>2
  <2>7. ASSUME NEW j \in Ids, NEW x \in Told PROVE TrailAt(j, x)'
    <3>1. TrailAt(j, x)
      BY DEF TrailInv
    <3>2. (Reached(j, x)' <=> Reached(j, x)) /\ (Due(j, x)' <=> Due(j, x))
      BY <2>1 DEF Reached, Due
    <3> QED
      BY <2>1, <2>4, <2>5, <2>6, <3>1, <3>2 DEF TrailAt
  <2> QED
    BY <1>1, <2>1, <2>7 DEF TrailInv
<1>22. ASSUME NEW c \in Callers,
              (\E n \in DOMAIN Assets : CreateDraft(c, n)) \/ DraftsFromAssets(c)
       PROVE  TrailInv'
  BY <1>9, <1>22 DEF CreateDraft, DraftsFromAssets
<1> QED
  BY <1>8, <1>10, <1>11, <1>12, <1>13, <1>14, <1>16, <1>17, <1>19, <1>20, <1>21, <1>22 DEF AuthorizationNext

\* However operations interleave and wherever they end, the trail names each
\* status once, and once nothing is under way it misses none
\* (AttachmentAuthorizationService).
THEOREM TrailStaysComplete == AuthorizationSpec => []TrailIsComplete
<1>1. AuthorizationInit => TrailInv
  <2> SUFFICES ASSUME AuthorizationInit PROVE TrailInv
    OBVIOUS
  <2>1. TypeInv /\ Ids = {}
    BY TypeInvInit DEF AuthorizationInit, Ids
  <2> QED
    BY <2>1 DEF TrailInv
<1>2. TrailInv /\ [AuthorizationNext]_authorizationVars => TrailInv'
  BY TrailStep
<1>3. TrailInv => TrailIsComplete
  <2> SUFFICES ASSUME TrailInv, NEW i \in Ids
               PROVE  /\ \A e \in Told : events[i][e] <= 1
                      /\ i \notin broken /\ (\A c \in Callers : call[c].id = i =>
                                                call[c].step \notin {"created", "changed"})
                         => /\ events[i]["created"] = 1
                            /\ \A s \in {"rejected", "expired"} :
                                    events[i][s] = 1 <=> auth[i].status = s
                            /\ events[i]["approved"] = 1 =>
                                    auth[i].status \in {"approved", "expired"}
                            /\ auth[i].status = "approved" => events[i]["approved"] = 1
    BY DEF TrailIsComplete, Told
  <2>1. \A e \in Told : TrailAt(i, e)
    BY DEF TrailInv
  <2>2. \A e \in Told : events[i][e] <= 1
    BY <2>1 DEF TrailAt
  <2>3. ASSUME i \notin broken,
               \A c \in Callers : call[c].id = i => call[c].step \notin {"created", "changed"},
               NEW e \in Told
        PROVE  (Due(i, e) => events[i][e] = 1) /\ (events[i][e] = 1 => Reached(i, e))
    <3>1. \A c \in Callers : ~Pending(c, i, e)
      BY <2>3 DEF Pending
    <3> QED
      BY <2>1, <2>3, <3>1 DEF TrailAt
  <2>4. {"created", "approved", "rejected", "expired"} \subseteq Told
    BY DEF Told, Events
  <2> QED
    BY <2>2, <2>3, <2>4 DEF Due, Reached
<1> QED
  BY <1>1, <1>2, <1>3, PTL DEF AuthorizationSpec

=============================================================================
