---------------------------- MODULE MemoryOutbox ----------------------------
(***************************************************************************)
(* The long-term memory of the chat: SQLiteAuthorityStore keeps memory     *)
(* items, their audit trail and a transactional outbox of index jobs in    *)
(* one SQLite file (app/chat/storage.py); workers that run                 *)
(* MemoryOrchestrator.process_outbox_once (app/chat/memory.py) lease the   *)
(* jobs and carry them out on a vector index that shares no transaction    *)
(* with the database (app/chat/vector.py).                                 *)
(*                                                                         *)
(* Every write of the store runs under BEGIN IMMEDIATE and is one action.  *)
(* A pass of a worker is claim - carry out - mark, row by row, and any     *)
(* other actor may act between two of those steps.                         *)
(*                                                                         *)
(* Time.  A stored deadline is kept as the number of ticks left before it, *)
(* so that "deadline <= now" is "0 ticks left"; Tick lowers them all.      *)
(***************************************************************************)
EXTENDS Naturals, Sequences, FiniteSets

CONSTANTS
    Memories,     \* identifiers a memory item can be given
    ScopeOf,      \* the project and principal scope an identifier belongs to
    Workers,      \* worker ids, each running one pass at a time
    Nobody,       \* claimed_by IS NULL
    Forever,      \* expires_at IS NULL
    Ttls,         \* the lifetimes callers ask for
    LeaseTicks,   \* lease_seconds, clamped to at least one
    MaxAttempts,  \* max_attempts
    Backoff,      \* ticks to wait after the n-th failed attempt
    BatchLimit,   \* bound: the largest limit a pass is called with
    MaxOutbox,    \* bound: rows ever written to the outbox
    MayCrash      \* whether a pass may be cut short

ASSUME OutboxAssumption ==
    /\ Forever \notin Nat
    /\ Nobody \notin Workers
    /\ Ttls \subseteq Nat \cup {Forever}
    /\ LeaseTicks \in Nat \ {0}
    /\ MaxAttempts \in Nat \ {0}
    /\ Backoff \in [1 .. MaxAttempts -> Nat]
    /\ BatchLimit \in Nat \ {0}
    /\ MaxOutbox \in Nat
    /\ MayCrash \in BOOLEAN

VARIABLES
    memory,  \* memory_items: status, ticks to expires_at, replaced item
    audit,   \* memory_audit, in insertion order
    outbox,  \* memory_index_outbox, in (created_at, rowid) order
    index,   \* the memories that have a vector
    pc,      \* what each worker does next with its current row
    batch    \* rows each worker's pass has claimed and not yet dealt with

authority == <<memory, audit>>
workers   == <<pc, batch>>
vars      == <<memory, audit, outbox, index, pc, batch>>

Lifetime == Nat \cup {Forever}
Item == [status : {"absent", "active", "superseded", "expired"},
         ttl : Lifetime, supersedes : SUBSET Memories]
AuditRow == [memory : Memories, action : {"created", "superseded", "expired"}]
Entry == [memory : Memories, action : {"upsert", "delete"},
          status : {"pending", "processing", "processed", "dead"},
          owner : Workers \cup {Nobody}, timer : Nat, attempts : Nat]
Steps == {"idle", "start", "delete", "upsert", "mark", "fail"}

TypeOK ==
    /\ memory \in [Memories -> Item]
    /\ audit \in Seq(AuditRow)
    /\ outbox \in Seq(Entry)
    /\ index \subseteq Memories
    /\ pc \in [Workers -> Steps]
    /\ batch \in [Workers -> SUBSET Nat]

Init ==
    /\ memory = [m \in Memories |->
                    [status |-> "absent", ttl |-> Forever, supersedes |-> {}]]
    /\ audit = <<>>
    /\ outbox = <<>>
    /\ index = {}
    /\ pc = [w \in Workers |-> "idle"]
    /\ batch = [w \in Workers |-> {}]

-----------------------------------------------------------------------------
(* The authority: one transaction per operation.                           *)

\* _memory_is_active: the status alone does not make an item retrievable.
Live(m) == memory[m].status = "active" /\ memory[m].ttl # 0

NewItem(ttl, supersedes) ==
    [status |-> "active", ttl |-> ttl, supersedes |-> supersedes]

NewEntry(m, action) ==
    [memory |-> m, action |-> action, status |-> "pending",
     owner |-> Nobody, timer |-> 0, attempts |-> 0]

RoomFor(n) == Len(outbox) + n <= MaxOutbox

\* save_memory
SaveMemory(m, ttl) ==
    /\ memory[m].status = "absent"
    /\ RoomFor(1)
    /\ memory' = [memory EXCEPT ![m] = NewItem(ttl, {})]
    /\ audit' = Append(audit, [memory |-> m, action |-> "created"])
    /\ outbox' = Append(outbox, NewEntry(m, "upsert"))
    /\ UNCHANGED <<index, workers>>

\* Mutants: the status check of an operation is dropped.
AnyExceptAbsent(m) == memory[m].status # "absent"

\* supersede_memory refuses all but active items, expired lifetime or not.
MaySupersede(m) == memory[m].status = "active"

\* expire_memory refuses superseded items only: an expired one is expired again.
MayExpire(m) == memory[m].status \in {"active", "expired"}

\* Mutant: the vector of the replaced item is forgotten.
ReplacementJob(old, new) == <<NewEntry(new, "upsert")>>

SupersededJobs(old, new) == <<NewEntry(old, "delete"), NewEntry(new, "upsert")>>

\* supersede_memory: the replacement keeps the scope, and the lifetime unless
\* the caller gives another.
SupersedeMemory(old, new, ttl) ==
    /\ MaySupersede(old)
    /\ memory[new].status = "absent" /\ ScopeOf[new] = ScopeOf[old]
    /\ RoomFor(2)
    /\ memory' = [memory EXCEPT ![old].status = "superseded",
                                ![new] = NewItem(ttl, {old})]
    /\ audit' = audit \o <<[memory |-> old, action |-> "superseded"],
                           [memory |-> new, action |-> "created"]>>
    /\ outbox' = outbox \o SupersededJobs(old, new)
    /\ UNCHANGED <<index, workers>>

\* expire_memory
ExpireMemory(m) ==
    /\ MayExpire(m)
    /\ RoomFor(1)
    /\ memory' = [memory EXCEPT ![m].status = "expired"]
    /\ audit' = Append(audit, [memory |-> m, action |-> "expired"])
    /\ outbox' = Append(outbox, NewEntry(m, "delete"))
    /\ UNCHANGED <<index, workers>>
-----------------------------------------------------------------------------
(* The workers: MemoryOrchestrator.process_outbox_once.                    *)

\* The row e with other bookkeeping: what it is about never changes.
Row(e, status, owner, ticks, attempts) ==
    [memory |-> e.memory, action |-> e.action, status |-> status,
     owner |-> owner, timer |-> ticks, attempts |-> attempts]

\* Mutant: a row in progress is claimed without a look at its lease.
LeaseUnchecked(e) ==
    \/ e.status = "pending" /\ e.timer = 0
    \/ e.status = "processing"

\* Mutant: a row whose worker died stays with it.
NeverTakenOver(e) == e.status = "pending" /\ e.timer = 0

\* A row may be claimed when it waits and is due, or when its lease ran out.
\* A claim does not look at attempt_count.
Claimable(e) ==
    \/ e.status = "pending" /\ e.timer = 0
    \/ e.status = "processing" /\ e.timer = 0

ClaimableRows == {o \in DOMAIN outbox : Claimable(outbox[o])}

\* ORDER BY created_at, rowid LIMIT limit
ClaimedRows(limit) ==
    {o \in ClaimableRows : Cardinality({p \in ClaimableRows : p < o}) < limit}

\* The attempt counter is only ever compared with MaxAttempts: it saturates.
OneMoreAttempt(n) == IF n < MaxAttempts THEN n + 1 ELSE n

\* Mutant: claimed_by and claim_expires_at are bound in the wrong order.
SwappedLease(e, w) ==
    Row(e, "processing", LeaseTicks, w, OneMoreAttempt(e.attempts))

Leased(e, w) ==
    Row(e, "processing", w, LeaseTicks, OneMoreAttempt(e.attempts))

\* claim_outbox
Claim(w, limit) ==
    /\ pc[w] = "idle"
    /\ ClaimableRows # {}
    /\ outbox' = [o \in DOMAIN outbox |->
                    IF o \in ClaimedRows(limit) THEN Leased(outbox[o], w)
                    ELSE outbox[o]]
    /\ batch' = [batch EXCEPT ![w] = ClaimedRows(limit)]
    /\ pc' = [pc EXCEPT ![w] = "start"]
    /\ UNCHANGED <<authority, index>>

\* Rows are dealt with in the order they were claimed in.
Current(w, o) == o \in batch[w] /\ \A p \in batch[w] : o <= p

\* A delete row goes straight to the index.
StartDelete(w, o) ==
    /\ pc[w] = "start" /\ Current(w, o)
    /\ outbox[o].action = "delete"
    /\ index' = index \ {outbox[o].memory}
    /\ pc' = [pc EXCEPT ![w] = "mark"]
    /\ UNCHANGED <<authority, outbox, batch>>

\* Mutant: the worker trusts the row and does not ask the authority.
StepForAnyItem(m) == "upsert"

\* What an upsert row still calls for, given what the authority says.
StepForItem(m) == IF Live(m) THEN "upsert" ELSE "delete"

\* An upsert row: get_memory, before the embedding is computed.
StartUpsert(w, o) ==
    /\ pc[w] = "start" /\ Current(w, o)
    /\ outbox[o].action = "upsert"
    /\ pc' = [pc EXCEPT ![w] = StepForItem(outbox[o].memory)]
    /\ UNCHANGED <<authority, outbox, index, batch>>

RemoveVector(w, o) ==
    /\ pc[w] = "delete" /\ Current(w, o)
    /\ index' = index \ {outbox[o].memory}
    /\ pc' = [pc EXCEPT ![w] = "mark"]
    /\ UNCHANGED <<authority, outbox, batch>>

\* The embedding is there: VectorIndex.upsert writes whatever was read.
WriteVector(w, o) ==
    /\ pc[w] = "upsert" /\ Current(w, o)
    /\ index' = index \cup {outbox[o].memory}
    /\ pc' = [pc EXCEPT ![w] = "mark"]
    /\ UNCHANGED <<authority, outbox, batch>>

\* Mutant: the failure is swallowed and the row marked all the same.
FailureSwallowed(w) ==
    /\ pc[w] \in {"start", "delete", "upsert", "mark"}
    /\ pc' = [pc EXCEPT ![w] = "mark"]
    /\ UNCHANGED <<authority, outbox, index, batch>>

\* The index or the embedding is unavailable, or a call raises.
RowFails(w) ==
    /\ pc[w] \in {"start", "delete", "upsert", "mark"}
    /\ pc' = [pc EXCEPT ![w] = "fail"]
    /\ UNCHANGED <<authority, outbox, index, batch>>

\* Mutant: the UPDATE of a mark looks for the row only.
RowExists(w, o) == o \in DOMAIN outbox

\* The worker still holds the row. Neither mark looks at the lease deadline.
Owns(w, o) == outbox[o].status = "processing" /\ outbox[o].owner = w

Released(e, status, ticks) == Row(e, status, Nobody, ticks, e.attempts)

\* The for loop takes the next row, or returns.
NextRow(w, o) ==
    /\ batch' = [batch EXCEPT ![w] = @ \ {o}]
    /\ pc' = [pc EXCEPT ![w] = IF batch[w] = {o} THEN "idle" ELSE "start"]

\* Leaving the loop before its end: the rows left keep their lease.
PassEnds(w) ==
    /\ batch' = [batch EXCEPT ![w] = {}]
    /\ pc' = [pc EXCEPT ![w] = "idle"]

\* mark_outbox_processed; OutboxLeaseLost only skips the row.
MarkProcessed(w, o) ==
    /\ pc[w] = "mark" /\ Current(w, o)
    /\ outbox' = IF Owns(w, o)
                 THEN [outbox EXCEPT ![o] = Released(@, "processed", 0)]
                 ELSE outbox
    /\ NextRow(w, o)
    /\ UNCHANGED <<authority, index>>

\* Mutant: an exhausted row is offered again.
AlwaysRetried(e) == Released(e, "pending", Backoff[e.attempts])

\* Where a failed attempt leaves a row.
AfterFailure(e) ==
    IF e.attempts >= MaxAttempts THEN Released(e, "dead", 0)
    ELSE Released(e, "pending", Backoff[e.attempts])

\* mark_outbox_failed by the holder of the row.
MarkFailed(w, o) ==
    /\ pc[w] = "fail" /\ Current(w, o)
    /\ Owns(w, o)
    /\ outbox' = [outbox EXCEPT ![o] = AfterFailure(@)]
    /\ NextRow(w, o)
    /\ UNCHANGED <<authority, index>>

\* mark_outbox_failed raises OutboxLeaseLost inside the except clause: nothing
\* catches it there and the pass is over.
FailedLeaseLost(w, o) ==
    /\ pc[w] = "fail" /\ Current(w, o)
    /\ ~Owns(w, o)
    /\ PassEnds(w)
    /\ UNCHANGED <<authority, outbox, index>>

\* The process dies, or mark_outbox_failed itself cannot write.
Crash(w) ==
    /\ MayCrash
    /\ pc[w] # "idle"
    /\ PassEnds(w)
    /\ UNCHANGED <<authority, outbox, index>>

-----------------------------------------------------------------------------

Elapsed(n) == IF n \in Nat /\ n > 0 THEN n - 1 ELSE n

\* One tick of the clock all deadlines are compared with.
Tick ==
    /\ \/ \E o \in DOMAIN outbox : outbox[o].timer > 0
       \/ \E m \in Memories : memory[m].ttl \notin {0, Forever}
    /\ outbox' = [o \in DOMAIN outbox |->
                    [outbox[o] EXCEPT !.timer = Elapsed(@)]]
    /\ memory' = [m \in Memories |-> [memory[m] EXCEPT !.ttl = Elapsed(@)]]
    /\ UNCHANGED <<audit, index, workers>>

AuthorityNext ==
    \E m \in Memories :
        \/ \E ttl \in Ttls : SaveMemory(m, ttl)
        \/ \E new \in Memories, ttl \in Ttls \cup {memory[m].ttl} :
                SupersedeMemory(m, new, ttl)
        \/ ExpireMemory(m)

PassBegins(w) == \E limit \in 1 .. BatchLimit : Claim(w, limit)

\* What the rest of a pass does without crashing.
PassNext(w) ==
    \/ \E o \in batch[w] :
        \/ StartDelete(w, o) \/ StartUpsert(w, o)
        \/ RemoveVector(w, o) \/ WriteVector(w, o)
        \/ MarkProcessed(w, o) \/ MarkFailed(w, o) \/ FailedLeaseLost(w, o)
    \/ RowFails(w)

Next ==
    \/ AuthorityNext
    \/ \E w \in Workers : PassBegins(w) \/ PassNext(w) \/ Crash(w)
    \/ Tick

Spec == Init /\ [][Next]_vars

\* Workers keep calling process_outbox_once and a running pass goes on; time
\* passes. Nobody is obliged to save, replace or expire anything.
Fairness ==
    /\ \A w \in Workers : WF_vars(PassBegins(w)) /\ WF_vars(PassNext(w))
    /\ WF_vars(Tick)

FairSpec == Spec /\ Fairness
-----------------------------------------------------------------------------
(* What the store and its workers owe their callers.                       *)

Rows(m, action) ==
    {o \in DOMAIN outbox : outbox[o].memory = m /\ outbox[o].action = action}
Settled(o) == outbox[o].status \in {"processed", "dead"}

AuditActions(m) == {r \in DOMAIN audit : audit[r].memory = m}
StatusAfter(action) == IF action = "created" THEN "active" ELSE action

\* The three tables tell one story although no foreign key ties them: the
\* latest audit row of an item names its status, and the item has one index job
\* per audit row, an upsert first and deletes for every later event. A caller
\* that could expire a replaced item, or a job left out of a transaction, would
\* part them (save_memory, supersede_memory, expire_memory).
TablesAgree ==
    \A m \in Memories :
        /\ AuditActions(m) = {} <=> memory[m].status = "absent"
        /\ \A r \in AuditActions(m) :
              (\A q \in AuditActions(m) : q <= r)
                => memory[m].status = StatusAfter(audit[r].action)
        /\ Cardinality(AuditActions(m))
              = Cardinality(Rows(m, "upsert")) + Cardinality(Rows(m, "delete"))
        /\ \A o \in Rows(m, "delete") : \E u \in Rows(m, "upsert") : u < o

\* However supersede and expire calls are mixed, the correction chain of an
\* item never forks: exactly the superseded items have a replacement, and each
\* has one (the status checks of supersede_memory and expire_memory).
NoForkedMemory ==
    \A m \in Memories :
        LET Heirs == {n \in Memories : m \in memory[n].supersedes}
        IN  /\ Heirs # {} <=> memory[m].status = "superseded"
            /\ \A n, p \in Heirs : n = p
            /\ \A n \in Heirs : memory[n].status # "absent"

\* However many workers race, retry, lose leases and crash, an upsert row is
\* processed only when its vector is in the index, and nobody takes the vector
\* away while the item is active and unexpired: recall by meaning does not lose
\* a memory the outbox reports as done.
ProcessedUpsertIsIndexed ==
    \A o \in DOMAIN outbox :
        /\ outbox[o].action = "upsert" /\ outbox[o].status = "processed"
        /\ Live(outbox[o].memory)
        => outbox[o].memory \in index

\* With one worker the vector of a replaced or expired item is always
\* accounted for: a delete row that is still to be carried out, or dead,
\* exists. (With two workers it may stay behind for good: one reads an active
\* item, the other carries out the delete row, the first then upserts.)
StaleVectorIsQueued ==
    \A m \in index :
        \/ memory[m].status = "active"
        \/ \E o \in Rows(m, "delete") : outbox[o].status # "processed"

\* The dead letter takes only rows that used up their attempts, and a row that
\* used them up is never offered as pending again (mark_outbox_failed).
RetryBudget ==
    \A o \in DOMAIN outbox :
        /\ outbox[o].status = "dead" => outbox[o].attempts = MaxAttempts
        /\ outbox[o].status = "pending" => outbox[o].attempts < MaxAttempts

\* A settled row is final: a worker that lost its lease, comes late and marks
\* the row cannot reopen it or turn a success into a dead letter.
SettledForGood ==
    [][\A o \in DOMAIN outbox : Settled(o) => outbox'[o] = outbox[o]]_vars

\* While a lease runs no other worker gets the row (claim_outbox).
LeaseIsExclusive ==
    [][\A o \in DOMAIN outbox :
        outbox[o].status = "processing" /\ outbox[o].timer > 0
            => outbox'[o].owner \in {outbox[o].owner, Nobody}]_vars

\* A worker takes over a row that a running pass has not dealt with.
TakesOver ==
    \E w \in Workers :
        /\ PassBegins(w)
        /\ \E v \in Workers : \E o \in batch[v] : o \in batch'[w]

\* From some point on passes outlive neither their process nor their leases.
Calm == <>[][~TakesOver /\ \A w \in Workers : ~Crash(w)]_vars

\* Every index job is eventually processed or dead, whatever the index and the
\* embedding do: a failing row cannot be retried for ever and cannot starve the
\* rows behind it. Without calm attempt_count grows past max_attempts unseen
\* by claim_outbox, and nothing bounds the retries.
EveryRowSettles ==
    Calm => \A o \in 1 .. MaxOutbox :
                (o \in DOMAIN outbox) ~> (o \in DOMAIN outbox /\ Settled(o))

\* "lease_lost_does_not_mark_failed_or_stop_later_items": a worker that finds a
\* lease lost goes on with its other rows. (What a crash drops is not meant.)
LeaseLostKeepsLaterRows ==
    [][\A w \in Workers : \A o \in batch[w] :
        Current(w, o) /\ ~Owns(w, o)
        => \A p \in batch[w] \ {o} : Owns(w, p) => p \in batch'[w]]_vars

=============================================================================
