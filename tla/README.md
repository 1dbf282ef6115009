# A verification project for the project risk assessor

This directory holds TLA+ models of the parts of `app/` that keep state and are
shared by several actors, the TLC configurations that check them on small
instances, and TLAPS proofs of what matters most for every instance. The
repository is a curated subset of a larger program (see its `README.md`): the
wiring of the persistence layer, the job runner and the store behind
`app/contracts/authorization.py` and `app/contracts/analysis.py` are not in it.

## The system

| part | code | state | who acts on it |
|---|---|---|---|
| authority store | `app/chat/storage.py` | sessions, messages, citations, summaries, memory items, audit, index outbox, model audit: eight tables of one SQLite file | request threads, outbox workers |
| vector index | `app/chat/vector.py` | one vector per memory id | outbox workers write, retrieval reads |
| memory orchestrator | `app/chat/memory.py` | none of its own | builds contexts, refreshes summaries, runs passes over the outbox |
| chat service | `app/chat/service.py` | a map of locks per idempotency key, in memory | request threads of one process |
| chat prompt and model client | `app/chat/llm.py`, `app/chat/embedding.py` | none | called by the two above |
| annotations | `app/contracts/annotations.py` | annotations and their history, two tables | ledger pages and other API clients |
| portfolio, ledger, rules | `app/contracts/rules.py`, `portfolio.py`, `ledger.py` | none: computed on each request from the source database | the ledger page |
| attachment authorization | `app/contracts/authorization.py` | authorizations and audit events, in a store outside this repository | operators, retrieval |
| attachment fetching | `app/contracts/attachment_fetch.py` | files in a directory | analysis jobs |
| analysis job | `app/contracts/analysis.py` | jobs and summaries, in the same external store | operators |
| text pipeline | `text_extraction.py`, `clause_split.py`, `text_money.py`, `text_rules.py`, `text_redaction.py` | none | analysis, contract chat |
| contract chat | `chat_service.py`, `chat_pipeline.py`, `chat_verify.py`, `chat_llm.py` | none across questions | the contract chat page |
| risk history | `app/risk/storage.py`, `diff.py` | results per project | risk page |
| pages | `app/static/js/*.js` | what is loaded, which panel is open, which request is under way | the operator |

They interact by calls inside a process, through the one SQLite file between
processes, and through the vector index, which shares no transaction with that
file. A page talks to the server by requests whose replies come back while the
operator goes on clicking.

Hard behaviours, in the order of what they cost when wrong: workers that race
for index jobs with leases, retries and crashes; sends that are repeated while
the first is being answered, in one process and in two; summary refreshes that
overlap; recalls over a table that changes and an index that lags; two orders of
"newest" among risk results; deadlines nobody watches; acknowledgements that
must stop covering a risk once it grows; pages that change under a request. `PROJECT.json` lists every hazard at its line.

## The modules

| module | what it is |
|---|---|
| `MemoryOutbox`, `ChatSend`, `ContractAnnotations` | one component each, with runs of their own |
| `RollingSummary`, `ChatContext`, `RiskHistory` | one component each; `ChatAndHistory` is the three side by side |
| `ContractDocuments`, `ContractChat`, `AttachmentAuthorization`, `ContractLedger` | one component each; `Contracts` is the four side by side |
| `ChatExchange` | what `ChatSend` promises |
| `Listing` | filtering, joining and sorting of sequences, in a form that can be reasoned about |
| `MC*` | instances for TLC |
| `*_proofs` | theorems, eight modules |

Components that share a composition have names of their own for initial states,
steps and types (`ChatInit`, `LedgerNext`, `RecallTypeOK`); the others call them
`Init`, `Next` and `TypeOK`.

### `MemoryOutbox` — memories, their audit, the outbox and its workers

`memory`, `audit`, `outbox` are the three tables, `index` the vector index,
`pc` and `batch` the pass each worker is in. One action per store method
(`SaveMemory`, `SupersedeMemory`, `ExpireMemory`, `Claim`, `MarkProcessed`,
`MarkFailed`): each runs under `BEGIN IMMEDIATE` or a single UPDATE, so it is
atomic against the others. `process_outbox_once` is cut where other actors can
come between: claim, read of the item, write to the index, mark. Every step of
a row may raise (`RowFails`), a pass may die anywhere (`Crash`), and a lease
lost inside the except clause ends the pass (`FailedLeaseLost`), as in the code.

Time is kept as the ticks left before each stored deadline. A row of the outbox
has one `timer`: the rest of its lease while it is processing, the rest of its
back-off while it is pending. An expired item has `ttl = 0`; only `_memory_is_active` looks at it.
`permanent=True` of `mark_outbox_failed` is left out: nothing in `app/` passes it.

### `ChatSend` — `ChatService.send_message`, and `ChatExchange`, what it promises

`entry`, `refs` and `holder` are the map of lock objects of each process;
`messages` and `memories` are the store. A call goes through the steps of the
code: take a reference, lock, write the question, look for an answer, ask the
model, write the answer, read the citations, remember the question, unlock, drop
the reference. Any store call may raise, a process may die with its locks. An
answer stands for the whole bundle one transaction writes and one hash compares
(content, citations, audit), so two answers that differ in any of them differ.

`ChatExchange` is the promise: a key has one question, one answer, both final,
and a caller is told the answer to the text it sent or an error. `ChatSend`
implements it under the mapping at the end of the module.

### `RollingSummary` — `_refresh_summary` and `_merge_summary`

A refresh is three separate reads and writes: messages, latest version, new
version. Lines keep their width and their origin (message and place in it);
their wording and its redaction are left out. Two ghosts serve the properties:
`merged`, the messages that ever went into a version, and `overlap`, whether a
version was saved over one its writer had not read. `Merge` is the code's greedy
choice: first and last old line and last new line always, then new lines from
the end, then old lines from the end, as long as the text fits.

### `ChatContext` — what the model is told, and what its answer may cite

`item` and `status` are the memory table, `read` what a recall has read so far,
`sent` the prompt, `cited` what is stored with the answer. `build_context` is cut
at its reads: session, table (`FindExact`), index (`Search`), and the table again
for each hit (`CheckHit`); items are withdrawn or run out in between. A search
returns any set of items that its filters admit, up to its limit: for the table
the live items of the scope, for the index anything that was ever put there and
has not expired. Ranking (`Distinct`, `Ranked`), the two limits (`FitBudget`,
`Bounded`), what may leave (`MayLeave`) and what may be cited (`Allowed`) are
operators over widths of text. When `build_context` raises, a context with the
question alone stands in for it (`RecallFails`); it does not pass the first limit
(`Recalled`). A ghost, `held`, keeps which items were live at
some moment since the question was asked. Sanitising text and answers that are
not JSON are left out.

### `RiskHistory` — results of project evaluations, their readers and their diff

`rows` is the table in the order of `id`, `saver` what each saver has stamped and
not inserted (the stamp is an argument of the statement), `board` a dashboard
request between its six reads. `NewestByTime` and `NewestById` are the two ways
the readers find the newest row. A payload is whole, without dimensions (an
older version of the program wrote it) or does not decode. Two ghosts: `raced`,
projects whose rows overtook one another, and the board's `moved`, projects
saved since its first read. Averages, charts and single dimensions are left out.

### `ContractAnnotations` — annotations, ledger rows and the page that edits them

`annotation` and `history` are the two tables, `score` what the rules compute
from the source database, which changes on its own. A page has `rows`, the open
`panel`, its `form` and the request it is `saving`; the request is carried out
in one action and its reply handled in another, with anything in between. An
owner stands for owner and note, which the code treats alike. Two ghosts of a
request, `shown` and `touched`, keep the annotation its row had on the page and
what was changed in the form.

### `ContractDocuments` — from attachments to a risk summary

`file` is the directory of the fetcher, named by address and shared by all
processes; `jobs` and `summaries` are in the registry, which is outside this
repository; `run` is the analysis a process is busy with. An analysis goes
through the attachments (`Fetch`, `Download`, `OpenFile`, `FillFile`: one network
read and a write that is not atomic), reads what it was handed (`Extract`) and
writes job, summary and link one after the other. A file of which only a part
arrived may be rejected by the extractor or be read as far as it goes. What rules
find in metadata and text is a number; `allowed_hosts` changes only by a restart.
The order in which rows are fetched is left open, and that two rows may carry
the same address is left out.

### `AttachmentAuthorization` — drafts, decisions, deadlines and their trail

The store is external: `auth` and `events` are what it keeps, each call on it is
an action, and it is taken to refuse what `ALLOWED_TRANSITIONS` does not list. A
`call` is an operation on its way: drafts are saved and then recorded, one after
the other; a decision changes the status and then records it; `can_retrieve` and
`preflight_retrieval` read, compare the deadline, may expire what they found
approved, and record. Any of them may break off. `used` is a status nothing in
the repository sets and is left out. A ghost, `late`, keeps whether an
authorization was over when a call began.

### `ContractLedger` — metadata rules, portfolio and worklist

Nothing is kept: `contracts` is what discovery returns and `day` the day it is
asked on. The rules are predicates on one contract (`Fires`), scores the worst
severity, rows the contracts in order and cut (`Rows`), tiers and organisations
counts over the rows. A date is a day number, blank or unreadable; the only
step is that days go by.

### `ContractChat` — a question about contracts, from the page to its answer

`docs` is what the provider returns for each contract, `req` the request on its
way through the service, `log` and `sending` the page. The stages are those of
`ask`: the ledger is read anew (`Receive`), documents are loaded contract by
contract, any of which may fail (`LoadDocuments`), or not at all, without a signal,
where the service was made without a provider (`LoadNothing`), the pipeline selects, gates
and fits (`Build`), the model answers or not (`Answer`, `Degrade`), the answer is
checked (`Verify`). A clause keeps what the pipeline looks at: hits, length,
what redaction leaves, its article number. The 20 contracts of the pipeline are
left out, as the route cuts the selection at 20 before. So is that rows of the
ledger may share a contract reference: the code then loads their documents twice
and numbers the second copies on. `clauses` is what the payload holds, `sent` what is left
of it in the body of the call, which is cut once more.

### `Contracts`, `ChatAndHistory` — compositions

Each extends its components, joins their states and lets their steps interleave.
The components of one composition share no variable: what one of them stores the
others read through stores outside this repository, or as a value that is taken
from a small set. `AllTypesOK` is the type invariant of a composition.

### `Listing` — lists by counting

The code sorts, filters and joins lists. The library operators for it are
recursive or take an operator as a parameter. In `Listing` an entry is at the
place that has as many entries before it: `Listed` sorts, `Those` filters,
`Joined` puts lists one after the other. `ContractChat` and `ContractLedger` are
written with it.

## What the runs check

| run | instance | question |
|---|---|---|
| `outbox_race` | 2 workers, 2 memories, 2 jobs, 2 attempts, batches of 2 | racing, retrying, crashing workers; every job settles |
| `outbox_single` | 1 worker, 2 memories, 4 jobs, items that expire by time | stale vectors, every order of store calls |
| `outbox_leaselost` | 2 workers, 2 jobs | violation, see below |
| `send_oneprocess` | 2 threads, 2 keys, 2 texts, 2 memories | the lock map, duplicates, promotion |
| `send_twoprocesses` | 2 processes, 2 threads in one of them, 1 key, 2 texts, 2 answers | implements `ChatExchange`; every call returns |
| `chat_and_history` | `RollingSummary`: 2 refreshers, 5 messages of 1 or 2 lines, limit 8. `ChatContext`: 3 items, 3 conversations, limits of 10, questions of 1, 6 and 12. `RiskHistory`: 2 savers, 2 projects, 3 rows, 2 seconds | overlapping refreshes; recalls, limits and citations; readers, dashboard and diff |
| `annotations_ledger` | 1 contract with 2 findings, 1 page, other clients, 2 writes, 2 owners, 2 scores | trail, pins, dismissed at the score that was seen |
| `contracts` | `ContractDocuments`: 2 processes, 1 attachment, 2 allow lists, 2 jobs, 1 restart. `ContractChat`: 3 contracts, 5 sets of documents (of the third only short ones), at most 2 contracts a question and 2 clauses a contract, with a provider and without, a body shorter than the payload. `AttachmentAuthorization`: 2 people, 3 files, 2 drafts, 4 operations. `ContractLedger`: up to 3 contracts of 8 kinds, 15 days, a cut at 2 | signals, jobs, what leaves and what is told, deadlines and trail, order and cut |
| `documents_refusal` | 1 process, 2 attachments | violation, see below |
| `annotations_owner`, `annotations_otherrow` | 1 page | violations, see below |
| `contracts_bodycut` | 1 contract with 2 articles, a body with room for 1 | violation, see below |

The bounds are enough because each property is about a pair: two workers on one
row, two threads on one key, two versions of a summary, two
contracts of a question. Two
attempts and two rows give every status a row can have with another row behind
it. A thread that returned may call again, so that two threads give every order
in which a lock is held, waited for, dropped and made anew. In `send_twoprocesses`
one process has two threads for that reason (a lock belongs to a process) and the
other has one, against which no lock helps. There every question is to be
remembered, since promotion is the longest way through the lock; both kinds are in
`send_oneprocess`. For summaries the limit is the smallest the assumption on it allows (three lines and two
breaks), so that lines are dropped in most merges. For recalls the limits are such that
each kind of content is the one that is cut in some state; the widest question is
wider than the first limit, so that the last message itself is cut. The days of the ledger
are the last inside and the first outside of every window of the contracts it
holds.

`chat_and_history` and `contracts` are runs of the two compositions. The
components of a composition share no variable, so their states need not be
multiplied: a variable `part`, chosen at the start, says which of them moves, and
the others stay at a state they may begin in. A run is then the sum of the runs of
its parts; every property is about the variables of one part and holds of it as it
would alone. (The theorems about the compositions are of `Spec`, in which all parts
move.) Processes, refreshers, savers and people are told apart by nothing
and reduced by symmetry; no liveness is checked under symmetry.

What the properties of these two runs say, beyond their comments in the modules:
`OnlyLiveMemoriesLeave` is what makes the lag that `MemoryOutbox` allows
harmless, whatever two workers leave in the index. `ReadersAgree` holds where no
row overtook another of its project, and `DashboardAddsUp` for what was not
saved between the six reads: outside of that the code promises nothing and the
numbers may differ for one request. `TrailIsComplete` holds of authorizations on
which no operation broke off; status and event are two calls, so a crash between
them loses the event for good, and an expiry after an approval whose event was lost
need not show the approval. `WorstFirst` counts from what discovery returned:
its own limit, applied before anything is scored, is outside. Its counts are those
by tier and by organisation, which are of the rows shown; `contract_total` and
`findings_total` of the same answer are of all contracts, cut ones too
(`portfolio.py:74`, `77`, `ledger.py:174`), and are not compared with them.
`LossIsTold` and `ReferencesLeadToClauses` are about the payload. Of the clauses that
match, only those beyond a contract's share, which are worse than all of it, go
without a signal. What the body of the call then cuts is told to nobody: see
`contracts_bodycut`. `QuestionIsCutLast` holds the first limit of recalls that were
read, not of the context that stands in for one that failed.

Five disagreements between the code and what the repository says of it are
kept as runs that end in a violation: `outbox_leaselost` (a lease lost while
reporting a failure ends the pass), `annotations_owner` (the panel re-sends state
and score when only the owner changed, which pins a stale acknowledgement at the
risen score), `annotations_otherrow` (the reply goes to
the row on screen, not to the row it is about), `documents_refusal` (a
refused attachment leaves no trace once another one was read), and
`contracts_bodycut` (the answer is checked against the payload as it was before
the body was cut).

### Fairness

`outbox_race`: nothing in `app/` calls `process_outbox_once`, so that somebody
keeps calling it is an assumption on the deployment, stated as weak fairness of
`PassBegins`; a running pass goes on (`PassNext`) and time passes (`Tick`).
`EveryRowSettles` further assumes that from some point passes neither die nor
outlive their leases: `claim_outbox` counts attempts without comparing them with
the budget, so a row whose worker always dies is claimed for ever.
`send_twoprocesses`: a thread that is not blocked is scheduled; sends stop coming at some point, for a
`threading.Lock` promises no order among the threads that wait for it.

## What is proved

Every invariant and action property of the passing runs is a theorem, except the
two liveness properties. The proofs assume what the modules assume of their
constants, which TLC evaluates in the runs, and what a theorem names besides: one
worker, one process, few memories. Each invariant below is
inductive; what a run checks follows from it.

`MemoryOutbox_proofs`, for any number of memories, workers, rows and attempts:

- `TypeCorrect`. `TypeInv` adds `SoundRow` (a row in progress has been attempted at
  least once, a pending one fewer times than the budget) and that the rows of a
  pass are rows of the outbox.
- `RetryBudgetKept`, from the same invariant.
- `ProcessedMeansIndexed`, and `OneWorkerForgetsNothing` when there is one worker.
  They need what a worker has done so far with the row it is on: that its vector is
  in, or that the item was dead when it looked. With two workers the second fails.
- `ChainsNeverFork`. `ChainInv` says of each item who its heirs are, and that an item
  that was never saved neither has nor is one.
- `TablesTellOneStory`. `StoryInv` says per item that its audit rows, its jobs and its
  status move together; it counts both sides of an append.
- `SettledStays` and `LeasesExclude`, action properties. `RowStep` lists what a step
  can do to one row; `QuietInv` adds that a settled row has no timer left, so that
  time does not change it either.

`ChatSend_proofs`, for any processes, callers, keys and questions, finitely many of
each at a time:

- `TypeCorrect` and `LocksHold`. `LInv` ties the three parts of the lock map: the
  reference count of a key is the number of threads between taking and dropping the
  entry, and its holder is one of them. Without the count an entry could be dropped
  under a waiting thread, and the next one would lock a new one.
- `ExchangeKept`: `ChatSend` implements `ChatExchange`. `FInv` adds what each caller
  may rely on (its question and its answer are in the table, or about to be), and
  every action of `ChatSend` is shown to be an action of `ChatExchange` or a stutter
  under the mapping. It holds for any number of processes: the unique indexes of the
  table keep it, not the locks.
- `AskedOnce` and `ConflictsAreReal`, with one process: what a lock holder read of its
  key is still so when it acts on it (`OInv`). With two processes both fail, as
  `send_twoprocesses` and the README of the repository say.
- `RememberedOnce`, with one process and `MaxMemories <= RecallLimit` (a promotion looks
  at the 100 items of `list_memories`): active memories of a text plus callers about to
  remember it are never more than its questions (`RInv`).

`ContractAnnotations_proofs`, for any contracts, rules, owners, scores and
pages: the types, `TrailTellsWhatHolds`, `OnlyDismissalsPin`, and the action property
`DismissedAsSeen` (`DismissedOnSight`). The invariant adds that an open panel has a
loaded ledger behind it. That a left-out argument (`None`) is neither a state nor an
annotation is assumed: otherwise a state that was sent could be taken for none.

`Listing_proofs` holds no theorem of its own, but the lemmas `Contracts_proofs` and
`ChatAndHistory_proofs` rest on: a sorted list has every element once and in order
(`ListedFacts`, by counting the elements before: `EveryPlaceIsTaken`), a filtered one keeps
its order (`ThoseFacts`), a joined one has the entries of all (`JoinedFacts`); sums as folds
(`SumOfCounts`, `SumIsMonotone`, by the smallest set on which they fail), and the
highest number of a finite set.

`Attachments_proofs`, on authorizations, for any callers, asset rows, lifetime and
number of operations: the types; `OverIsOver`, from what a check has read staying true enough
until it answers (`AnswerSound`: deadlines only come nearer, and what was approved
stays approved or becomes expired); `TrailIsComplete`, from `TrailAt`: an event is in
the trail, about to be put there by exactly one caller, lost to an operation that
broke off, or has not happened.

The same module on documents, for any processes, attachments, scores, jobs and restarts:

- `DocumentsTypeCorrect` and `SignalsKept`. `DocInv` says of a run, step by step of the analysis
  (`RunSound`), what it has read, refused and found so far; the summary is made of
  that. It needs no bound on scores: the findings of a run are finite at every step.
- `JobsKeepTheirSummaries`. `JobsSound`: the job of a process between its first and its
  last write is its own, and has a summary exactly from the second write on.

`Contracts_proofs`, on questions, for any contracts, documents, clauses and ceilings:

- `FragmentsOnly` and `LossStaysTold`. `ChatInv` says of a request from `build` on that
  its clauses and its signals about them are what the pipeline makes of the documents
  as they are (`Piped`), and of one that is loading that every contract behind it was
  read or told (`AllTold`). What the pipeline makes is then a matter of lists:
  `SelectedFacts` (matching clauses only, no more than its share of each contract, and
  all of a contract that has no more), `GateFacts`, `FittingFacts` (what fits
  keeps the ceiling, and a first clause always fits), `PayloadFacts`. The
  selection is sorted (`BestFirst`), so the matching clauses a share leaves out are
  those with a share's worth of better ones before them, and no others.
- `ReferencesLead`, of the payload: each citation leads to its one clause, and an answer
  that refers to anything outside it is flagged; `AnswerInv` carries that to the check
  of the answer. It holds whatever the body of the call has room for. That the model
  was given the whole payload is another matter: the code fixes the ceiling on clauses
  at 6000 and the body at 24000 less what findings take of it, and does not compare
  them (`contracts_bodycut`).

The same module on the ledger, for any table, budgets, days and row limit:

- `WaitingDoesNotHelp`, an action property. What fires on a day fires later, or the
  overdue rule has taken the place of a look-ahead window (`FindingsWorsen`); the
  windows are shown to be nested and ever more severe.
- `WorstIsFirst`. `RowsFacts`: the rows are the first of all contracts in an order by
  score, then reference, then place, so none left out is worse than one kept.
  `TiersAddUp` and `OrganisationsFacts`: every kept row is in one tier and under one
  organisation, and the organisation at the head has a row to act on now if any has.
  `TopFacts`: the first of the top findings is the one that made the score.

And on all four: `TypesCorrect`, a theorem about `Contracts!Spec`.

`RollingSummary_proofs`, for any refreshers, messages of lines of any width, and limits:

- `RangesHold`, `BeginningStays` and `NoGap`, action by action from `SummaryInv`, which
  says of each version that it is `Sound`, and of each refresher what it read is still
  so (`Informed`).
- What a merge keeps is a greedy loop. The loops are recursive functions, and a loop is
  shown to have a function that gives its state after each round (`Rounds`), by the
  least number at which it had none (`LeastNat`, which follows from the well-founded
  order on finite sets). From there `ChosenInOrder`, `MergeIsAChoice` and `MergeFacts`
  say that a merge keeps the limit, the order, and the mandatory lines. The limit must
  hold three full lines and two breaks: without that the mandatory lines exceed it.

`ChatAndHistory_proofs`, on risk history, for any projects, savers and results, finitely
many levels and any number of rows:

- `OneNewestRow`. A row in an order by time has as many rows before it as its place says,
  and every place is taken (`EveryAgeIsTaken`: counting the rows before is injective).
  `ReadersInv` says that stamps follow the clock, and the numbers as long as no row
  overtook another.
- `NumbersAddUp`. `BoardInv` says after each of the six reads which of the numbers read
  so far are those of the table now. That levels add up to rows is `SumOfCounts`, which
  shows the fold to agree with counting by the smallest set on which it does not.
- `DiffIsWhole`, which holds of any two rows.

The same module on recalls, for any memory table, conversation, answers of the index,
and every limit, clip and budget:

- `LiveMemoriesOnly`. `RecallInv` says that as long as memories can be withdrawn, those
  that are live are among those that were live since the question; a hit is checked
  then, and nothing is found afterwards.
- `OneVoice`. Ranked memories are one per text: that they are listed without loss
  (`InOrderFacts`) is again that every place of an order is taken.
- `QuestionComesLast`. `FitBudgetFacts` does the first limit, with the last message the
  only one that may be cut; a recall that failed does not come to it, and the theorem
  says nothing of its width but what the second limit gives. For the second, each stage of `Bounded` is shown to change
  nothing when the payload fits already and to leave nothing of its part when it cannot
  make it fit, so a shortened question means that the stages before it left nothing
  (`BoundedFacts`). What a list of entries weighs is a number by `SumIsANumber`.

And on all three: `TypesCorrect`, a theorem about `ChatAndHistory!Spec`.

Liveness under fairness (`EveryRowSettles`, `EveryCallReturns`) stays with TLC: it needs
ENABLED. The five properties that are expected to fail are not theorems, of course.

## What is not modelled

`PROJECT.json` names every part with its reason. Text processing by regular
expressions, file formats, HTTP status codes, configuration and rendering have
no state to model. That SQLite runs writers one after the other is assumed.

Some limits of the code are met by no instance, and are known to break what is
stated here: `list_memories` returns 100 items, so a promotion may miss an older
copy; two contracts whose references collide share an organisation; a
date that cannot be read is neither missing nor overdue. The vector of a replaced
item that one worker writes after another deleted it stays for good.

## Plan

What would come next:

1. The pages: joined loads, request tokens, polling.
2. Pure algorithms against reference definitions: clause merging, amounts.
3. Theorems that a composition with the external registry would need, should its code
   join the repository: today two components meet only there.
