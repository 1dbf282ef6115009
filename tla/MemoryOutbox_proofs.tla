------------------------ MODULE MemoryOutbox_proofs ------------------------
(***************************************************************************)
(* Theorems about MemoryOutbox for any number of memories, workers, rows   *)
(* and attempts.                                                           *)
(***************************************************************************)
EXTENDS MemoryOutbox, SequenceTheorems, FiniteSetTheorems, TLAPS

\* Rows as every step leaves them: the attempts are counted, and the two
\* states mark_outbox_failed chooses between are on their side of the budget.
SoundRow ==
    {e \in Entry :
        /\ e.attempts <= MaxAttempts
        /\ e.status = "processing" => e.attempts >= 1
        /\ e.status = "dead" => e.attempts = MaxAttempts
        /\ e.status = "pending" => e.attempts < MaxAttempts}

\* A pass only holds rows that exist.
BatchesExist == \A w \in Workers : batch[w] \subseteq DOMAIN outbox

TypeInv == TypeOK /\ outbox \in Seq(SoundRow) /\ BatchesExist

\* What every step but an append does to the outbox: it changes the
\* bookkeeping of rows, never their number or what they are about.
SameJobs ==
    /\ DOMAIN outbox' = DOMAIN outbox
    /\ \A o \in DOMAIN outbox : /\ outbox'[o].memory = outbox[o].memory
                                /\ outbox'[o].action = outbox[o].action

-----------------------------------------------------------------------------
(* Lemmas on the operators that make and change rows.                      *)

\* A sound row is a row.
LEMMA SoundRowsAreRows == Seq(SoundRow) \subseteq Seq(Entry)
  BY DEF SoundRow

\* A function on the row numbers whose values are sound is a sound outbox.
LEMMA FunctionIsSeq ==
    ASSUME NEW S, NEW s \in Seq(S), NEW T, NEW f \in [DOMAIN s -> T]
    PROVE  f \in Seq(T) /\ DOMAIN f = DOMAIN s
  BY SeqDef, LenProperties

\* A new row is sound.
LEMMA NewRow ==
    ASSUME NEW m \in Memories, NEW action \in {"upsert", "delete"}
    PROVE  LET e == NewEntry(m, action)
           IN  /\ e \in SoundRow /\ e.memory = m /\ e.action = action
               /\ e.status = "pending"
  BY OutboxAssumption DEF NewEntry, Entry, SoundRow

\* Leasing keeps a row sound and counts the attempt.
LEMMA LeasedRow ==
    ASSUME NEW e \in SoundRow, NEW w \in Workers
    PROVE  LET f == Leased(e, w)
           IN  /\ f \in SoundRow /\ f.memory = e.memory /\ f.action = e.action
               /\ f.status = "processing"
<1> DEFINE n == OneMoreAttempt(e.attempts)
<1>1. n \in Nat /\ 1 <= n /\ n <= MaxAttempts
  BY OutboxAssumption DEF OneMoreAttempt, Entry, SoundRow
<1> HIDE DEF n
<1>2. QED
  BY <1>1, OutboxAssumption DEF Leased, Row, Entry, SoundRow, n

\* A failed attempt leaves a sound row that is not processed.
LEMMA FailedRow ==
    ASSUME NEW e \in SoundRow, e.status = "processing"
    PROVE  LET f == AfterFailure(e)
           IN  /\ f \in SoundRow /\ f.memory = e.memory /\ f.action = e.action
               /\ f.status \in {"pending", "dead"}
  BY OutboxAssumption DEF AfterFailure, Released, Row, Entry, SoundRow

\* Marking a row processed leaves a sound row.
LEMMA ProcessedRow ==
    ASSUME NEW e \in SoundRow
    PROVE  LET f == Released(e, "processed", 0)
           IN  /\ f \in SoundRow /\ f.memory = e.memory /\ f.action = e.action
               /\ f.status = "processed"
  BY OutboxAssumption DEF Released, Row, Entry, SoundRow

\* A tick only moves the deadline of a row.
LEMMA AgedRow ==
    ASSUME NEW e \in SoundRow
    PROVE  LET f == [e EXCEPT !.timer = Elapsed(@)]
           IN  /\ f \in SoundRow /\ f.memory = e.memory /\ f.action = e.action
               /\ f.status = e.status
<1>1. Elapsed(e.timer) \in Nat
  BY DEF Elapsed, SoundRow, Entry
<1>2. QED
  BY <1>1 DEF SoundRow, Entry

\* An append keeps the old rows and adds sound new ones behind them.
LEMMA AppendRows ==
    ASSUME NEW s \in Seq(SoundRow), NEW t \in Seq(SoundRow)
    PROVE  /\ s \o t \in Seq(SoundRow)
           /\ DOMAIN (s \o t) = 1 .. Len(s) + Len(t)
           /\ DOMAIN s \subseteq DOMAIN (s \o t)
           /\ \A o \in DOMAIN s : (s \o t)[o] = s[o]
           /\ \A o \in DOMAIN (s \o t) \ DOMAIN s :
                 o - Len(s) \in DOMAIN t /\ (s \o t)[o] = t[o - Len(s)]
  BY ConcatProperties, LenProperties

-----------------------------------------------------------------------------
(* What each kind of step does to the rows.                                *)

\* A claim leases rows; every row it takes is new to the pass as processing.
LEMMA ClaimRows ==
    ASSUME TypeInv, NEW w \in Workers, NEW limit, Claim(w, limit)
    PROVE  /\ outbox' \in Seq(SoundRow) /\ SameJobs
           /\ \A o \in DOMAIN outbox :
                 outbox'[o].status \in {outbox[o].status, "processing"}
<1>1. \A o \in DOMAIN outbox : outbox[o] \in SoundRow
  BY ElementOfSeq, LenProperties DEF TypeInv
<1>2. \A o \in DOMAIN outbox : Leased(outbox[o], w) \in SoundRow
  BY <1>1, LeasedRow
<1>3. outbox' \in [DOMAIN outbox -> SoundRow]
  BY <1>1, <1>2 DEF Claim
<1>4. outbox' \in Seq(SoundRow) /\ DOMAIN outbox' = DOMAIN outbox
  BY <1>3, FunctionIsSeq DEF TypeInv
<1>5. QED
  BY <1>1, <1>4, LeasedRow DEF Claim, SameJobs

\* A mark changes at most one row, which the worker held.
LEMMA MarkRows ==
    ASSUME TypeInv, NEW w \in Workers, NEW o \in batch[w],
           MarkProcessed(w, o) \/ MarkFailed(w, o)
    PROVE  /\ outbox' \in Seq(SoundRow) /\ SameJobs
           /\ \A p \in DOMAIN outbox : p # o => outbox'[p] = outbox[p]
           /\ MarkFailed(w, o) => outbox'[o].status # "processed"
<1>1. o \in DOMAIN outbox /\ \A p \in DOMAIN outbox : outbox[p] \in SoundRow
  BY ElementOfSeq, LenProperties DEF TypeInv, BatchesExist
<1>2. CASE outbox' = outbox /\ MarkProcessed(w, o)
  BY <1>2 DEF TypeInv, SameJobs, MarkFailed, MarkProcessed
<1>3. CASE /\ MarkProcessed(w, o)
           /\ outbox' = [outbox EXCEPT ![o] = Released(@, "processed", 0)]
  <2>1. Released(outbox[o], "processed", 0) \in SoundRow
    BY <1>1, ProcessedRow
  <2>2. outbox' \in Seq(SoundRow) /\ DOMAIN outbox' = DOMAIN outbox
    BY <1>1, <1>3, <2>1, ExceptSeq, LenProperties DEF TypeInv
  <2>3. QED
    BY <1>1, <1>3, <2>2, ProcessedRow DEF SameJobs, MarkProcessed, MarkFailed
<1>4. CASE MarkFailed(w, o)
  <2>1. outbox[o].status = "processing"
    BY <1>4 DEF MarkFailed, Owns
  <2>2. AfterFailure(outbox[o]) \in SoundRow
    BY <1>1, <2>1, FailedRow
  <2>3. outbox' = [outbox EXCEPT ![o] = AfterFailure(outbox[o])]
    BY <1>4 DEF MarkFailed
  <2>4. outbox' \in Seq(SoundRow) /\ DOMAIN outbox' = DOMAIN outbox
    BY <1>1, <2>2, <2>3, ExceptSeq, LenProperties DEF TypeInv
  <2>5. QED
    BY <1>1, <2>1, <2>3, <2>4, FailedRow DEF SameJobs
<1>5. QED
  BY <1>2, <1>3, <1>4 DEF MarkProcessed

\* A tick moves deadlines only.
LEMMA TickRows ==
    ASSUME TypeInv, Tick
    PROVE  /\ outbox' \in Seq(SoundRow) /\ SameJobs
           /\ \A o \in DOMAIN outbox : outbox'[o].status = outbox[o].status
<1>1. \A o \in DOMAIN outbox : outbox[o] \in SoundRow
  BY ElementOfSeq, LenProperties DEF TypeInv
<1>2. \A o \in DOMAIN outbox :
        [outbox[o] EXCEPT !.timer = Elapsed(@)] \in SoundRow
  BY <1>1, AgedRow
<1>3. outbox' \in [DOMAIN outbox -> SoundRow]
  BY <1>2 DEF Tick
<1>4. outbox' \in Seq(SoundRow) /\ DOMAIN outbox' = DOMAIN outbox
  BY <1>3, FunctionIsSeq DEF TypeInv
<1>5. QED
  BY <1>1, <1>4, AgedRow DEF Tick, SameJobs
\* An operation of the store appends the jobs it owes and keeps the others.
LEMMA AppendedJobs ==
    ASSUME TypeInv, NEW jobs \in Seq(SoundRow), outbox' = outbox \o jobs
    PROVE  /\ outbox' \in Seq(SoundRow)
           /\ DOMAIN outbox \subseteq DOMAIN outbox'
           /\ \A o \in DOMAIN outbox : outbox'[o] = outbox[o]
           /\ \A o \in DOMAIN outbox' \ DOMAIN outbox :
                 \E j \in DOMAIN jobs : outbox'[o] = jobs[j]
           /\ DOMAIN outbox' = 1 .. Len(outbox) + Len(jobs)
           /\ \A j \in DOMAIN jobs : outbox'[Len(outbox) + j] = jobs[j]
  BY AppendRows, ConcatProperties, LenProperties DEF TypeInv

\* save_memory appends an upsert job.
LEMMA SaveJobs ==
    ASSUME TypeInv, NEW m \in Memories, NEW ttl, SaveMemory(m, ttl)
    PROVE  LET jobs == <<NewEntry(m, "upsert")>>
           IN  jobs \in Seq(SoundRow) /\ outbox' = outbox \o jobs
<1>1. NewEntry(m, "upsert") \in SoundRow
  BY NewRow
<1>2. Append(outbox, NewEntry(m, "upsert")) = outbox \o <<NewEntry(m, "upsert")>>
  BY <1>1, AppendIsConcat DEF TypeInv
<1>3. QED
  BY <1>1, <1>2 DEF SaveMemory

\* expire_memory appends a delete job.
LEMMA ExpireJobs ==
    ASSUME TypeInv, NEW m \in Memories, ExpireMemory(m)
    PROVE  LET jobs == <<NewEntry(m, "delete")>>
           IN  jobs \in Seq(SoundRow) /\ outbox' = outbox \o jobs
<1>1. NewEntry(m, "delete") \in SoundRow
  BY NewRow
<1>2. Append(outbox, NewEntry(m, "delete")) = outbox \o <<NewEntry(m, "delete")>>
  BY <1>1, AppendIsConcat DEF TypeInv
<1>3. QED
  BY <1>1, <1>2 DEF ExpireMemory

\* supersede_memory appends a delete job and an upsert job.
LEMMA SupersedeJobs ==
    ASSUME TypeInv, NEW old \in Memories, NEW new \in Memories, NEW ttl,
           SupersedeMemory(old, new, ttl)
    PROVE  LET jobs == SupersededJobs(old, new)
           IN  /\ jobs \in Seq(SoundRow) /\ outbox' = outbox \o jobs
               /\ DOMAIN jobs = {1, 2}
               /\ jobs[1] = NewEntry(old, "delete")
               /\ jobs[2] = NewEntry(new, "upsert")
<1>1. NewEntry(old, "delete") \in SoundRow /\ NewEntry(new, "upsert") \in SoundRow
  BY NewRow
<1>2. QED
  BY <1>1 DEF SupersedeMemory, SupersededJobs

-----------------------------------------------------------------------------
(* Type correctness.                                                       *)

\* Lifetimes stay lifetimes.
LEMMA ElapsedLifetime ==
    ASSUME NEW ttl \in Lifetime
    PROVE  /\ Elapsed(ttl) \in Lifetime
           /\ Elapsed(ttl) # 0 => ttl # 0
  BY OutboxAssumption DEF Elapsed, Lifetime

\* The type invariant with sound rows and existing batches is inductive.
LEMMA TypeInvStep == TypeInv /\ [Next]_vars => TypeInv'
<1> SUFFICES ASSUME TypeInv, [Next]_vars PROVE TypeInv'
  OBVIOUS
<1> USE OutboxAssumption
<1>1. ASSUME NEW m \in Memories, NEW ttl \in Ttls, SaveMemory(m, ttl)
      PROVE  TypeInv'
  <2>1. outbox' \in Seq(SoundRow) /\ DOMAIN outbox \subseteq DOMAIN outbox'
    BY <1>1, SaveJobs, AppendedJobs
  <2>2. audit' \in Seq(AuditRow)
    BY <1>1 DEF SaveMemory, TypeInv, TypeOK, AuditRow
  <2>3. memory' \in [Memories -> Item]
    BY <1>1 DEF SaveMemory, TypeInv, TypeOK, Item, NewItem, Lifetime
  <2>4. QED
    BY <1>1, <2>1, <2>2, <2>3, SoundRowsAreRows
    DEF SaveMemory, workers, TypeInv, TypeOK, BatchesExist
<1>2. ASSUME NEW old \in Memories, NEW new \in Memories,
             NEW ttl \in Ttls \cup {memory[old].ttl},
             SupersedeMemory(old, new, ttl)
      PROVE  TypeInv'
  <2>1. outbox' \in Seq(SoundRow) /\ DOMAIN outbox \subseteq DOMAIN outbox'
    BY <1>2, SupersedeJobs, AppendedJobs
  <2>2. audit' \in Seq(AuditRow)
    <3>1. <<[memory |-> old, action |-> "superseded"],
            [memory |-> new, action |-> "created"]>> \in Seq(AuditRow)
      BY DEF AuditRow
    <3>2. QED
      BY <1>2, <3>1, ConcatProperties DEF SupersedeMemory, TypeInv, TypeOK
  <2>3. memory' \in [Memories -> Item]
    <3>1. ttl \in Lifetime /\ memory[old] \in Item
      BY DEF TypeInv, TypeOK, Item, Lifetime
    <3>2. NewItem(ttl, {old}) \in Item
      BY <3>1 DEF NewItem, Item
    <3>3. [memory[old] EXCEPT !.status = "superseded"] \in Item
      BY <3>1 DEF Item
    <3>4. memory' = [[memory EXCEPT ![old] = [@ EXCEPT !.status = "superseded"]]
                        EXCEPT ![new] = NewItem(ttl, {old})]
      BY <1>2 DEF SupersedeMemory
    <3>5. QED
      BY <3>2, <3>3, <3>4 DEF TypeInv, TypeOK
  <2>4. QED
    BY <1>2, <2>1, <2>2, <2>3, SoundRowsAreRows
    DEF SupersedeMemory, workers, TypeInv, TypeOK, BatchesExist
<1>3. ASSUME NEW m \in Memories, ExpireMemory(m)
      PROVE  TypeInv'
  <2>1. outbox' \in Seq(SoundRow) /\ DOMAIN outbox \subseteq DOMAIN outbox'
    BY <1>3, ExpireJobs, AppendedJobs
  <2>2. audit' \in Seq(AuditRow)
    BY <1>3 DEF ExpireMemory, TypeInv, TypeOK, AuditRow
  <2>3. memory' \in [Memories -> Item]
    <3>1. memory[m] \in Item
      BY DEF TypeInv, TypeOK
    <3>2. [memory[m] EXCEPT !.status = "expired"] \in Item
      BY <3>1 DEF Item
    <3>3. memory' = [memory EXCEPT ![m] = [memory[m] EXCEPT !.status = "expired"]]
      BY <1>3 DEF ExpireMemory
    <3>4. QED
      BY <3>2, <3>3 DEF TypeInv, TypeOK
  <2>4. QED
    BY <1>3, <2>1, <2>2, <2>3, SoundRowsAreRows
    DEF ExpireMemory, workers, TypeInv, TypeOK, BatchesExist
<1>4. ASSUME NEW w \in Workers, NEW limit, Claim(w, limit)
      PROVE  TypeInv'
  <2>1. outbox' \in Seq(SoundRow) /\ DOMAIN outbox' = DOMAIN outbox
    BY <1>4, ClaimRows DEF SameJobs
  <2>2. ClaimedRows(limit) \subseteq DOMAIN outbox
    BY DEF ClaimedRows, ClaimableRows
  <2>3. DOMAIN outbox \subseteq Nat
    BY LenProperties DEF TypeInv
  <2>4. QED
    BY <1>4, <2>1, <2>2, <2>3, SoundRowsAreRows
    DEF Claim, authority, TypeInv, TypeOK, Steps, BatchesExist
<1>5. ASSUME NEW w \in Workers, PassNext(w)
      PROVE  TypeInv'
  <2>1. ASSUME NEW o \in batch[w], StartDelete(w, o) \/ RemoveVector(w, o)
        PROVE  TypeInv'
    BY <2>1 DEF StartDelete, RemoveVector, authority, TypeInv, TypeOK, Steps,
                BatchesExist
  <2>2. ASSUME NEW o \in batch[w], StartUpsert(w, o)
        PROVE  TypeInv'
    BY <2>2 DEF StartUpsert, StepForItem, authority, TypeInv, TypeOK, Steps,
                BatchesExist
  <2>3. ASSUME NEW o \in batch[w], WriteVector(w, o)
        PROVE  TypeInv'
    <3>1. outbox[o].memory \in Memories
      BY ElementOfSeq, LenProperties DEF TypeInv, BatchesExist, SoundRow, Entry
    <3>2. QED
      BY <2>3, <3>1 DEF WriteVector, authority, TypeInv, TypeOK, Steps,
                        BatchesExist
  <2>4. ASSUME NEW o \in batch[w], MarkProcessed(w, o) \/ MarkFailed(w, o)
        PROVE  TypeInv'
    <3>1. outbox' \in Seq(SoundRow) /\ DOMAIN outbox' = DOMAIN outbox
      BY <2>4, MarkRows DEF SameJobs
    <3>2. /\ NextRow(w, o)
          /\ UNCHANGED <<authority, index>>
      BY <2>4 DEF MarkProcessed, MarkFailed
    <3>3. pc' \in [Workers -> Steps] /\ batch' \in [Workers -> SUBSET Nat]
      BY <3>2 DEF NextRow, TypeInv, TypeOK, Steps
    <3>4. \A v \in Workers : batch'[v] \subseteq batch[v]
      BY <3>2 DEF NextRow, TypeInv, TypeOK
    <3>5. QED
      BY <3>1, <3>2, <3>3, <3>4, SoundRowsAreRows
      DEF authority, TypeInv, TypeOK, BatchesExist
  <2>5. ASSUME NEW o \in batch[w], FailedLeaseLost(w, o)
        PROVE  TypeInv'
    BY <2>5 DEF FailedLeaseLost, PassEnds, authority, TypeInv, TypeOK, Steps,
                BatchesExist
  <2>6. CASE RowFails(w)
    BY <2>6 DEF RowFails, authority, TypeInv, TypeOK, Steps, BatchesExist
  <2>7. QED
    BY <1>5, <2>1, <2>2, <2>3, <2>4, <2>5, <2>6 DEF PassNext
<1>6. ASSUME NEW w \in Workers, Crash(w)
      PROVE  TypeInv'
  BY <1>6 DEF Crash, PassEnds, authority, TypeInv, TypeOK, Steps, BatchesExist
<1>7. CASE Tick
  <2>1. outbox' \in Seq(SoundRow) /\ DOMAIN outbox' = DOMAIN outbox
    BY <1>7, TickRows DEF SameJobs
  <2>2. ASSUME NEW m \in Memories
        PROVE  [memory[m] EXCEPT !.ttl = Elapsed(@)] \in Item
    <3>1. memory[m] \in Item /\ memory[m].ttl \in Lifetime
      BY DEF TypeInv, TypeOK, Item
    <3>2. Elapsed(memory[m].ttl) \in Lifetime
      BY <3>1, ElapsedLifetime
    <3>3. QED
      BY <3>1, <3>2 DEF Item
  <2>3. memory' \in [Memories -> Item]
    BY <1>7, <2>2 DEF Tick
  <2>4. QED
    BY <1>7, <2>1, <2>3, SoundRowsAreRows
    DEF Tick, workers, TypeInv, TypeOK, BatchesExist
<1>8. CASE UNCHANGED vars
  BY <1>8 DEF vars, TypeInv, TypeOK, BatchesExist
<1>9. QED
  BY <1>1, <1>2, <1>3, <1>4, <1>5, <1>6, <1>7, <1>8
  DEF Next, AuthorityNext, PassBegins

\* The invariant holds at the start.
LEMMA TypeInvInit == Init => TypeInv
  BY OutboxAssumption, SoundRowsAreRows
  DEF Init, TypeInv, TypeOK, Item, Lifetime, Steps, BatchesExist

\* It holds for ever.
LEMMA TypeInvAlways == Spec => []TypeInv
  BY TypeInvInit, TypeInvStep, PTL DEF Spec

\* Type correctness of the store, the workers and the index.
THEOREM TypeCorrect == Spec => []TypeOK
<1>1. TypeInv => TypeOK
  BY DEF TypeInv
<1>2. QED
  BY <1>1, TypeInvAlways, PTL

\* The dead letter takes only exhausted rows, and exhausted rows are never
\* offered again, for every retry budget (mark_outbox_failed).
THEOREM RetryBudgetKept == Spec => []RetryBudget
<1>1. TypeInv => RetryBudget
  BY ElementOfSeq, LenProperties DEF TypeInv, RetryBudget, SoundRow
<1>2. QED
  BY <1>1, TypeInvAlways, PTL
-----------------------------------------------------------------------------
(* A processed upsert row means a searchable memory.                       *)
(*                                                                         *)
(* ProcessedUpsertIsIndexed is not inductive: it says nothing of workers   *)
(* that are about to remove a vector or to mark a row. The strengthening   *)
(* adds what they know, and why a delete row can be trusted without asking *)
(* the authority again.                                                    *)

\* Jobs are about items that exist, and delete jobs about items that are over.
JobsOfItems ==
    \A o \in DOMAIN outbox :
        /\ memory[outbox[o].memory].status # "absent"
        /\ outbox[o].action = "delete" => memory[outbox[o].memory].status # "active"

\* A worker about to remove a vector has seen an item that is over; one about
\* to mark an upsert row leaves the vector of a live item in the index.
PassesCareful ==
    \A w \in Workers : \A o \in batch[w] :
        Current(w, o) =>
            /\ pc[w] = "delete" => ~Live(outbox[o].memory)
            /\ pc[w] = "mark" /\ outbox[o].action = "upsert" /\ Live(outbox[o].memory)
                => outbox[o].memory \in index

IndexInv == TypeInv /\ JobsOfItems /\ PassesCareful /\ ProcessedUpsertIsIndexed

\* Nothing brings an item back: not live stays not live, over stays over.
LEMMA ItemsOnlyDie ==
    ASSUME TypeInv, [Next]_vars, NEW m \in Memories, memory[m].status # "absent"
    PROVE  /\ memory'[m].status # "absent"
           /\ memory'[m].status = "active" => memory[m].status = "active"
           /\ Live(m)' => Live(m)
<1> USE DEF Live
<1>1. ASSUME NEW n \in Memories, NEW ttl \in Ttls, SaveMemory(n, ttl)
      PROVE  memory'[m] = memory[m]
  BY <1>1 DEF SaveMemory, TypeInv, TypeOK
<1>2. ASSUME NEW old \in Memories, NEW new \in Memories,
             NEW ttl \in Ttls \cup {memory[old].ttl},
             SupersedeMemory(old, new, ttl)
      PROVE  /\ m # old => memory'[m] = memory[m]
             /\ m = old => memory'[m].status = "superseded"
  <2>1. memory[old] \in Item
    BY DEF TypeInv, TypeOK
  <2>2. /\ memory[new].status = "absent" /\ m # new /\ old # new
        /\ memory' = [memory EXCEPT ![old] = [memory[old] EXCEPT !.status = "superseded"],
                                    ![new] = NewItem(ttl, {old})]
    BY <1>2 DEF SupersedeMemory, MaySupersede
  <2>3. QED
    BY <2>1, <2>2 DEF TypeInv, TypeOK, Item
<1>3. ASSUME NEW n \in Memories, ExpireMemory(n)
      PROVE  /\ m # n => memory'[m] = memory[m]
             /\ m = n => memory'[m].status = "expired"
  <2>1. memory[n] \in Item
    BY DEF TypeInv, TypeOK
  <2>2. memory' = [memory EXCEPT ![n] = [memory[n] EXCEPT !.status = "expired"]]
    BY <1>3 DEF ExpireMemory
  <2>3. QED
    BY <2>1, <2>2 DEF TypeInv, TypeOK, Item
<1>4. CASE Tick
  <2>1. memory[m] \in Item /\ memory[m].ttl \in Lifetime
    BY DEF TypeInv, TypeOK, Item
  <2>2. memory'[m] = [memory[m] EXCEPT !.ttl = Elapsed(memory[m].ttl)]
    BY <1>4 DEF Tick
  <2>3. memory'[m].status = memory[m].status
        /\ memory'[m].ttl = Elapsed(memory[m].ttl)
    BY <2>1, <2>2 DEF Item
  <2>4. QED
    BY <2>1, <2>3, ElapsedLifetime
<1>5. ASSUME UNCHANGED memory
      PROVE  memory'[m] = memory[m]
  BY <1>5
<1>6. CASE \E w \in Workers : PassBegins(w) \/ PassNext(w) \/ Crash(w)
  BY <1>5, <1>6
  DEF PassBegins, Claim, PassNext, StartDelete, StartUpsert, RemoveVector,
      WriteVector, MarkProcessed, MarkFailed, FailedLeaseLost, RowFails, Crash,
      authority
<1>7. QED
  BY <1>1, <1>2, <1>3, <1>4, <1>5, <1>6 DEF Next, AuthorityNext, vars

\* An operation of the store only adds pending jobs about items it changed.
LEMMA StoreStep ==
    ASSUME TypeInv, AuthorityNext
    PROVE  /\ UNCHANGED <<index, pc, batch>>
           /\ DOMAIN outbox \subseteq DOMAIN outbox'
           /\ \A o \in DOMAIN outbox : outbox'[o] = outbox[o]
           /\ \A o \in DOMAIN outbox' \ DOMAIN outbox :
                 LET m == outbox'[o].memory
                 IN  /\ outbox'[o].status = "pending"
                     /\ m \in Memories /\ memory'[m].status # "absent"
                     /\ outbox'[o].action = "delete" => memory'[m].status # "active"
           /\ \A m \in Memories :
                 memory[m].status = "active" /\ memory'[m].status # "active"
                    => \E o \in DOMAIN outbox' \ DOMAIN outbox :
                          outbox'[o].memory = m /\ outbox'[o].action = "delete"
<1> USE DEF workers
<1> DEFINE Fresh == DOMAIN outbox' \ DOMAIN outbox
<1>0. DOMAIN outbox = 1 .. Len(outbox) /\ Len(outbox) \in Nat
  BY LenProperties DEF TypeInv
<1>1. ASSUME NEW m \in Memories, NEW ttl \in Ttls, SaveMemory(m, ttl)
      PROVE  /\ \A o \in DOMAIN outbox : outbox'[o] = outbox[o]
             /\ DOMAIN outbox \subseteq DOMAIN outbox'
             /\ \A o \in Fresh : outbox'[o] = NewEntry(m, "upsert")
             /\ memory'[m].status = "active"
             /\ memory[m].status = "absent"
             /\ \A n \in Memories : n # m => memory'[n] = memory[n]
  BY <1>1, SaveJobs, AppendedJobs DEF SaveMemory, NewItem, TypeInv, TypeOK
<1>2. ASSUME NEW old \in Memories, NEW new \in Memories,
             NEW ttl \in Ttls \cup {memory[old].ttl},
             SupersedeMemory(old, new, ttl)
      PROVE  /\ \A o \in DOMAIN outbox : outbox'[o] = outbox[o]
             /\ DOMAIN outbox \subseteq DOMAIN outbox'
             /\ \A o \in Fresh : \/ outbox'[o] = NewEntry(old, "delete")
                                 \/ outbox'[o] = NewEntry(new, "upsert")
             /\ Len(outbox) + 1 \in Fresh
             /\ outbox'[Len(outbox) + 1] = NewEntry(old, "delete")
             /\ memory'[old].status = "superseded"
             /\ memory'[new].status = "active"
             /\ memory[new].status = "absent"
             /\ \A n \in Memories \ {old, new} : memory'[n] = memory[n]
  <2>1. memory[old] \in Item
    BY DEF TypeInv, TypeOK
  <2>2. /\ old # new /\ memory[new].status = "absent"
        /\ memory' = [memory EXCEPT ![old] = [memory[old] EXCEPT !.status = "superseded"],
                                    ![new] = NewItem(ttl, {old})]
    BY <1>2 DEF SupersedeMemory, MaySupersede
  <2>3. /\ memory'[old].status = "superseded"
        /\ memory'[new].status = "active"
        /\ \A n \in Memories \ {old, new} : memory'[n] = memory[n]
    BY <2>1, <2>2 DEF TypeInv, TypeOK, Item, NewItem
  <2> DEFINE jobs == SupersededJobs(old, new)
  <2>4. /\ jobs \in Seq(SoundRow) /\ outbox' = outbox \o jobs
        /\ DOMAIN jobs = {1, 2} /\ Len(jobs) = 2
        /\ jobs[1] = NewEntry(old, "delete") /\ jobs[2] = NewEntry(new, "upsert")
    <3>1. Len(jobs) = 2
      BY DEF SupersededJobs
    <3>2. QED
      BY <1>2, <3>1, SupersedeJobs
  <2> HIDE DEF jobs
  <2>5. /\ DOMAIN outbox \subseteq DOMAIN outbox'
        /\ \A o \in DOMAIN outbox : outbox'[o] = outbox[o]
        /\ \A o \in Fresh : \E j \in DOMAIN jobs : outbox'[o] = jobs[j]
        /\ DOMAIN outbox' = 1 .. Len(outbox) + 2
        /\ outbox'[Len(outbox) + 1] = jobs[1]
    BY <2>4, AppendedJobs
  <2>6. Len(outbox) + 1 \in Fresh
    BY <1>0, <2>5
  <2>7. \A o \in Fresh : \/ outbox'[o] = NewEntry(old, "delete")
                         \/ outbox'[o] = NewEntry(new, "upsert")
    BY <2>4, <2>5
  <2>8. QED
    BY <2>2, <2>3, <2>4, <2>5, <2>6, <2>7
<1>3. ASSUME NEW m \in Memories, ExpireMemory(m)
      PROVE  /\ \A o \in DOMAIN outbox : outbox'[o] = outbox[o]
             /\ DOMAIN outbox \subseteq DOMAIN outbox'
             /\ \A o \in Fresh : outbox'[o] = NewEntry(m, "delete")
             /\ Len(outbox) + 1 \in Fresh
             /\ memory'[m].status = "expired"
             /\ \A n \in Memories : n # m => memory'[n] = memory[n]
  <2>1. memory[m] \in Item
    BY DEF TypeInv, TypeOK
  <2>2. memory' = [memory EXCEPT ![m] = [memory[m] EXCEPT !.status = "expired"]]
    BY <1>3 DEF ExpireMemory
  <2>3. /\ memory'[m].status = "expired"
        /\ \A n \in Memories : n # m => memory'[n] = memory[n]
    BY <2>1, <2>2 DEF TypeInv, TypeOK, Item
  <2> DEFINE jobs == <<NewEntry(m, "delete")>>
  <2>4. /\ jobs \in Seq(SoundRow) /\ outbox' = outbox \o jobs
        /\ Len(jobs) = 1 /\ \A j \in DOMAIN jobs : jobs[j] = NewEntry(m, "delete")
    BY <1>3, ExpireJobs
  <2> HIDE DEF jobs
  <2>5. /\ DOMAIN outbox \subseteq DOMAIN outbox'
        /\ \A o \in DOMAIN outbox : outbox'[o] = outbox[o]
        /\ \A o \in Fresh : \E j \in DOMAIN jobs : outbox'[o] = jobs[j]
        /\ DOMAIN outbox' = 1 .. Len(outbox) + Len(jobs)
    BY <2>4, AppendedJobs
  <2>6. Len(outbox) + 1 \in Fresh
    BY <1>0, <2>4, <2>5
  <2>7. \A o \in Fresh : outbox'[o] = NewEntry(m, "delete")
    BY <2>4, <2>5
  <2>8. QED
    BY <2>3, <2>5, <2>6, <2>7
<1>4. \A m \in Memories : \A action \in {"upsert", "delete"} :
        LET e == NewEntry(m, action)
        IN  e.memory = m /\ e.action = action /\ e.status = "pending"
  BY NewRow
<1>5. UNCHANGED <<index, pc, batch>>
  BY DEF AuthorityNext, SaveMemory, SupersedeMemory, ExpireMemory
<1>6. CASE \E m \in Memories : \E ttl \in Ttls : SaveMemory(m, ttl)
  BY <1>1, <1>4, <1>5, <1>6
<1>7. CASE \E old, new \in Memories : \E ttl \in Ttls \cup {memory[old].ttl} :
                SupersedeMemory(old, new, ttl)
  <2> PICK old \in Memories, new \in Memories :
          \E ttl \in Ttls \cup {memory[old].ttl} : SupersedeMemory(old, new, ttl)
    BY <1>7
  <2>1. \A o \in Fresh :
          LET m == outbox'[o].memory
          IN  /\ outbox'[o].status = "pending"
              /\ m \in Memories /\ memory'[m].status # "absent"
              /\ outbox'[o].action = "delete" => memory'[m].status # "active"
    BY <1>2, <1>4
  <2>2. ASSUME NEW m \in Memories,
               memory[m].status = "active", memory'[m].status # "active"
        PROVE  m = old
    BY <1>2, <2>2
  <2>3. /\ Len(outbox) + 1 \in Fresh
        /\ outbox'[Len(outbox) + 1].memory = old
        /\ outbox'[Len(outbox) + 1].action = "delete"
    BY <1>2, <1>4
  <2>4. QED
    BY <1>2, <1>5, <2>1, <2>2, <2>3
<1>8. CASE \E m \in Memories : ExpireMemory(m)
  BY <1>3, <1>4, <1>5, <1>8
<1>9. QED
  BY <1>6, <1>7, <1>8 DEF AuthorityNext
\* Every other step keeps the jobs; a row becomes processed by a mark only.
LEMMA WorkStep ==
    ASSUME TypeInv,
           \/ \E w \in Workers : PassBegins(w) \/ PassNext(w) \/ Crash(w)
           \/ Tick
           \/ UNCHANGED vars
    PROVE  /\ SameJobs
           /\ \A o \in DOMAIN outbox :
                 outbox[o].status # "processed" /\ outbox'[o].status = "processed"
                    => \E w \in Workers : o \in batch[w] /\ MarkProcessed(w, o)
<1>1. ASSUME NEW w \in Workers, PassBegins(w)
      PROVE  /\ SameJobs
             /\ \A o \in DOMAIN outbox :
                   outbox'[o].status \in {outbox[o].status, "processing"}
  BY <1>1, ClaimRows DEF PassBegins
<1>2. ASSUME NEW w \in Workers, NEW o \in batch[w], MarkProcessed(w, o) \/ MarkFailed(w, o)
      PROVE  /\ SameJobs
             /\ \A p \in DOMAIN outbox :
                   outbox[p].status # "processed" /\ outbox'[p].status = "processed"
                      => p = o /\ MarkProcessed(w, o)
  BY <1>2, MarkRows
<1>3. CASE Tick
  BY <1>3, TickRows
<1>4. CASE UNCHANGED outbox
  BY <1>4 DEF SameJobs
<1>5. ASSUME NEW w \in Workers, PassNext(w) \/ Crash(w)
      PROVE  \/ UNCHANGED outbox
             \/ \E o \in batch[w] : MarkProcessed(w, o) \/ MarkFailed(w, o)
  BY <1>5 DEF PassNext, StartDelete, StartUpsert, RemoveVector, WriteVector,
              FailedLeaseLost, RowFails, Crash, authority
<1>6. QED
  BY <1>1, <1>2, <1>3, <1>4, <1>5 DEF vars

\* A step of a pass leaves the other passes alone.
LEMMA PassAlone ==
    ASSUME TypeInv, NEW w \in Workers, PassNext(w), NEW v \in Workers, v # w
    PROVE  pc'[v] = pc[v] /\ batch'[v] = batch[v]
  BY DEF PassNext, StartDelete, StartUpsert, RemoveVector, WriteVector, MarkProcessed,
         MarkFailed, FailedLeaseLost, RowFails, NextRow, PassEnds, TypeInv, TypeOK

\* Only vectors of items that are over are removed.
LEMMA IndexKeepsLive ==
    ASSUME IndexInv, NEW w \in Workers, PassNext(w), NEW m \in index, Live(m)
    PROVE  m \in index'
<1>1. ASSUME NEW o \in batch[w], StartDelete(w, o)
      PROVE  m \in index'
  <2>1. o \in DOMAIN outbox
    BY DEF IndexInv, TypeInv, BatchesExist
  <2>2. ~Live(outbox[o].memory)
    BY <1>1, <2>1 DEF StartDelete, IndexInv, JobsOfItems, Live
  <2>3. QED
    BY <1>1, <2>2 DEF StartDelete
<1>2. ASSUME NEW o \in batch[w], RemoveVector(w, o)
      PROVE  m \in index'
  BY <1>2 DEF RemoveVector, IndexInv, PassesCareful
<1>3. QED
  BY <1>1, <1>2 DEF PassNext, StartUpsert, WriteVector, MarkProcessed, MarkFailed,
                    FailedLeaseLost, RowFails

\* The invariant is inductive.
LEMMA IndexInvStep == IndexInv /\ [Next]_vars => IndexInv'
<1> SUFFICES ASSUME IndexInv, [Next]_vars PROVE IndexInv'
  OBVIOUS
<1>1. TypeInv /\ TypeInv'
  BY TypeInvStep DEF IndexInv
<1>2. \A o \in DOMAIN outbox : outbox[o].memory \in Memories
  BY <1>1, ElementOfSeq, LenProperties DEF TypeInv, SoundRow, Entry
<1>3. \A m \in Memories :
         memory[m].status # "absent" =>
            /\ memory'[m].status # "absent"
            /\ memory'[m].status = "active" => memory[m].status = "active"
            /\ Live(m)' => Live(m)
  BY <1>1, ItemsOnlyDie
<1>4. \A o \in DOMAIN outbox : \A m \in {outbox[o].memory} :
         /\ m \in Memories
         /\ memory'[m].status # "absent"
         /\ outbox[o].action = "delete" => memory'[m].status # "active"
         /\ Live(m)' => Live(m)
  BY <1>2, <1>3 DEF IndexInv, JobsOfItems
<1>5. CASE AuthorityNext
  <2>1. JobsOfItems'
    BY <1>1, <1>4, <1>5, StoreStep DEF JobsOfItems
  <2>2. PassesCareful'
    BY <1>1, <1>4, <1>5, StoreStep
    DEF IndexInv, PassesCareful, Current, TypeInv, BatchesExist
  <2>3. ProcessedUpsertIsIndexed'
    BY <1>1, <1>4, <1>5, StoreStep DEF IndexInv, ProcessedUpsertIsIndexed
  <2>4. QED
    BY <1>1, <2>1, <2>2, <2>3 DEF IndexInv
<1>6. CASE \/ \E w \in Workers : PassBegins(w) \/ PassNext(w) \/ Crash(w)
           \/ Tick
           \/ UNCHANGED vars
  <2>1. /\ SameJobs
        /\ \A o \in DOMAIN outbox :
              outbox[o].status # "processed" /\ outbox'[o].status = "processed"
                 => \E w \in Workers : o \in batch[w] /\ MarkProcessed(w, o)
    BY <1>1, <1>6, WorkStep
  <2>2. JobsOfItems'
    BY <1>4, <2>1 DEF JobsOfItems, SameJobs
  <2>3. \A m \in index : Live(m) => m \in index'
    BY <1>6, IndexKeepsLive
    DEF PassBegins, Claim, Crash, Tick, vars
  <2>4. ProcessedUpsertIsIndexed'
    <3> SUFFICES ASSUME NEW o \in DOMAIN outbox, NEW m \in {outbox[o].memory},
                        outbox[o].action = "upsert", outbox'[o].status = "processed",
                        Live(m)'
                 PROVE  m \in index'
      BY <2>1 DEF ProcessedUpsertIsIndexed, SameJobs
    <3>1. Live(m)
      BY <1>4
    <3>2. CASE outbox[o].status = "processed"
      BY <2>3, <3>1, <3>2 DEF IndexInv, ProcessedUpsertIsIndexed
    <3>3. CASE \E w \in Workers : o \in batch[w] /\ MarkProcessed(w, o)
      BY <2>3, <3>1, <3>3 DEF IndexInv, PassesCareful, MarkProcessed
    <3>4. QED
      BY <2>1, <3>2, <3>3
  <2>5. ASSUME NEW w \in Workers, NEW o \in batch[w],
               pc'[w] = pc[w], batch'[w] = batch[w], Current(w, o)',
               NEW m \in {outbox[o].memory}
        PROVE  /\ pc'[w] = "delete" => ~Live(m)'
               /\ pc'[w] = "mark" /\ outbox[o].action = "upsert" /\ Live(m)'
                    => m \in index'
    <3>1. Current(w, o) /\ o \in DOMAIN outbox
      BY <1>1, <2>5 DEF Current, TypeInv, BatchesExist
    <3>2. QED
      BY <1>4, <2>3, <2>5, <3>1 DEF IndexInv, PassesCareful
  <2>6. ASSUME NEW w \in Workers, PassNext(w), NEW o \in batch'[w], Current(w, o)',
               NEW m \in {outbox[o].memory}
        PROVE  /\ pc'[w] = "delete" => ~Live(m)'
               /\ pc'[w] = "mark" /\ outbox[o].action = "upsert" /\ Live(m)'
                    => m \in index'
    <3>1. CASE pc'[w] \notin {"delete", "mark"}
      BY <3>1
    <3>2. CASE pc'[w] = "delete"
      <4>1. PICK p \in batch[w] : StartUpsert(w, p)
        BY <2>6, <3>2, <1>1
        DEF PassNext, StartDelete, RemoveVector, WriteVector, MarkProcessed,
            MarkFailed, FailedLeaseLost, RowFails, NextRow, PassEnds, TypeInv, TypeOK
      <4>2. /\ batch' = batch /\ memory' = memory /\ p = o
            /\ pc'[w] = StepForItem(m)
        <5>1. batch' = batch /\ memory' = memory
          BY <4>1 DEF StartUpsert, authority
        <5>2. p = o
          BY <1>1, <2>6, <4>1, <5>1 DEF StartUpsert, Current, TypeInv, TypeOK
        <5>3. QED
          BY <1>1, <4>1, <5>1, <5>2 DEF StartUpsert, TypeInv, TypeOK
      <4>3. QED
        BY <3>2, <4>2 DEF StepForItem, Live
    <3>3. CASE pc'[w] = "mark"
      <4>1. PICK p \in batch[w] :
               StartDelete(w, p) \/ RemoveVector(w, p) \/ WriteVector(w, p)
        BY <2>6, <3>3, <1>1
        DEF PassNext, StartUpsert, StepForItem, MarkProcessed, MarkFailed,
            FailedLeaseLost, RowFails, NextRow, PassEnds, TypeInv, TypeOK
      <4>2. batch' = batch /\ memory' = memory
        BY <4>1 DEF StartDelete, RemoveVector, WriteVector, authority
      <4>3. p = o
        BY <1>1, <2>6, <4>1, <4>2
        DEF StartDelete, RemoveVector, WriteVector, Current, TypeInv, TypeOK
      <4>4. QED
        BY <3>3, <4>1, <4>2, <4>3
        DEF StartDelete, RemoveVector, WriteVector, Live, IndexInv, PassesCareful
    <3>4. QED
      BY <3>1, <3>2, <3>3
  <2>7. PassesCareful'
    <3> SUFFICES ASSUME NEW v \in Workers, NEW o \in batch'[v], Current(v, o)',
                        NEW m \in {outbox[o].memory}
                 PROVE  /\ pc'[v] = "delete" => ~Live(m)'
                        /\ pc'[v] = "mark" /\ outbox[o].action = "upsert" /\ Live(m)'
                             => m \in index'
      <4>1. \A v \in Workers : batch'[v] \subseteq DOMAIN outbox
        BY <1>1, <2>1 DEF TypeInv, BatchesExist, SameJobs
      <4>2. QED
        BY <2>1, <4>1 DEF PassesCareful, SameJobs
    <3>1. CASE Tick \/ UNCHANGED vars
      BY <2>5, <3>1 DEF Tick, workers, vars
    <3>2. ASSUME NEW w \in Workers, PassBegins(w) \/ Crash(w)
          PROVE  /\ v # w => pc'[v] = pc[v] /\ batch'[v] = batch[v]
                 /\ v = w => pc'[v] \notin {"delete", "mark"}
      BY <1>1, <3>2 DEF PassBegins, Claim, Crash, PassEnds, TypeInv, TypeOK
    <3>3. ASSUME NEW w \in Workers, PassNext(w), v # w
          PROVE  pc'[v] = pc[v] /\ batch'[v] = batch[v]
      BY <1>1, <3>3, PassAlone
    <3>4. QED
      BY <1>6, <2>5, <2>6, <3>1, <3>2, <3>3
  <2>8. QED
    BY <1>1, <2>2, <2>4, <2>7 DEF IndexInv
<1>7. QED
  BY <1>5, <1>6 DEF Next

\* The invariant holds at the start.
LEMMA IndexInvInit == Init => IndexInv
  BY TypeInvInit DEF Init, IndexInv, JobsOfItems, PassesCareful,
                     ProcessedUpsertIsIndexed

\* It holds for ever.
LEMMA IndexInvAlways == Spec => []IndexInv
  BY IndexInvInit, IndexInvStep, PTL DEF Spec

\* However many workers race, an upsert row is processed only when the vector
\* of its item is in the index, and stays there while the item is live.
THEOREM ProcessedMeansIndexed == Spec => []ProcessedUpsertIsIndexed
<1>1. IndexInv => ProcessedUpsertIsIndexed
  BY DEF IndexInv
<1>2. QED
  BY <1>1, IndexInvAlways, PTL
-----------------------------------------------------------------------------
(* With one worker no stale vector is forgotten.                           *)
(*                                                                         *)
(* StaleVectorIsQueued breaks when a delete row is marked processed while  *)
(* somebody is about to write the vector back. One worker is never at both *)
(* places; the strengthening says what it knows at each of them.           *)

\* The item is current, or its vector is still to be taken away.
Accounted(m) ==
    \/ memory[m].status = "active"
    \/ \E o \in Rows(m, "delete") : outbox[o].status # "processed"

\* The worker writes vectors of accounted items only, and the vector a delete
\* row is about is gone when the row is about to be marked.
PassOrderly ==
    \A w \in Workers : \A o \in batch[w] :
        Current(w, o) =>
            /\ pc[w] = "upsert"
                => outbox[o].action = "upsert" /\ Accounted(outbox[o].memory)
            /\ pc[w] = "mark" /\ outbox[o].action = "delete"
                => outbox[o].memory \notin index

SingleInv == TypeInv /\ PassOrderly /\ StaleVectorIsQueued

\* An accounted item stays accounted until a delete row of it is marked.
LEMMA AccountedKept ==
    ASSUME TypeInv, [Next]_vars, NEW m \in Memories, Accounted(m),
           ~Accounted(m)'
    PROVE  \E w \in Workers : \E o \in batch[w] :
              MarkProcessed(w, o) /\ outbox[o].memory = m /\ outbox[o].action = "delete"
<1>1. CASE AuthorityNext
  BY <1>1, StoreStep DEF Accounted, Rows
<1>2. CASE \/ \E w \in Workers : PassBegins(w) \/ PassNext(w) \/ Crash(w)
           \/ Tick
           \/ UNCHANGED vars
  <2>1. /\ SameJobs
        /\ \A o \in DOMAIN outbox :
              outbox[o].status # "processed" /\ outbox'[o].status = "processed"
                 => \E w \in Workers : o \in batch[w] /\ MarkProcessed(w, o)
    BY <1>2, WorkStep
  <2>2. memory'[m].status = memory[m].status
    <3>1. CASE Tick
      <4>1. memory[m] \in Item
        BY DEF TypeInv, TypeOK
      <4>2. memory'[m] = [memory[m] EXCEPT !.ttl = Elapsed(memory[m].ttl)]
        BY <3>1 DEF Tick
      <4>3. QED
        BY <4>1, <4>2 DEF Item
    <3>2. CASE UNCHANGED memory
      BY <3>2
    <3>3. QED
      BY <1>2, <3>1, <3>2
      DEF PassBegins, Claim, PassNext, StartDelete, StartUpsert, RemoveVector,
          WriteVector, MarkProcessed, MarkFailed, FailedLeaseLost, RowFails, Crash,
          authority, vars
  <2>3. PICK d \in Rows(m, "delete") : outbox[d].status # "processed"
    BY <2>2 DEF Accounted
  <2>4. d \in DOMAIN outbox /\ outbox[d].memory = m /\ outbox[d].action = "delete"
    BY <2>3 DEF Rows
  <2>5. outbox'[d].status = "processed"
    BY <2>1, <2>4 DEF Accounted, Rows, SameJobs
  <2>6. QED
    BY <2>1, <2>3, <2>4, <2>5
<1>3. QED
  BY <1>1, <1>2 DEF Next

\* Vectors are written by WriteVector only.
LEMMA NewVector ==
    ASSUME [Next]_vars, NEW m \in index', m \notin index
    PROVE  \E w \in Workers : \E o \in batch[w] :
              WriteVector(w, o) /\ outbox[o].memory = m
  BY DEF Next, AuthorityNext, SaveMemory, SupersedeMemory, ExpireMemory, PassBegins,
         Claim, PassNext, StartDelete, StartUpsert, RemoveVector, WriteVector,
         MarkProcessed, MarkFailed, FailedLeaseLost, RowFails, Crash, Tick, vars

\* The invariant is inductive when there is one worker.
LEMMA SingleInvStep ==
    ASSUME \A v, w \in Workers : v = w, SingleInv, [Next]_vars
    PROVE  SingleInv'
<1>1. TypeInv /\ TypeInv'
  BY TypeInvStep DEF SingleInv
<1>2. \A o \in DOMAIN outbox : outbox[o].memory \in Memories
  BY <1>1, ElementOfSeq, LenProperties DEF TypeInv, SoundRow, Entry
<1>3. \A w \in Workers : batch[w] \subseteq DOMAIN outbox /\ batch[w] \subseteq Nat
  BY <1>1 DEF TypeInv, TypeOK, BatchesExist
<1>4. /\ DOMAIN outbox \subseteq DOMAIN outbox'
      /\ \A o \in DOMAIN outbox : /\ outbox'[o].memory = outbox[o].memory
                                  /\ outbox'[o].action = outbox[o].action
  BY <1>1, StoreStep, WorkStep DEF Next, SameJobs
<1>5. StaleVectorIsQueued'
  <2> SUFFICES ASSUME NEW m \in index', ~Accounted(m)'
               PROVE  FALSE
    BY DEF StaleVectorIsQueued, Accounted
  <2>1. m \in Memories
    BY <1>1 DEF TypeInv, TypeOK
  <2>2. CASE m \in index
    <3>1. Accounted(m)
      BY <2>2 DEF SingleInv, StaleVectorIsQueued, Accounted
    <3>2. PICK w \in Workers : \E o \in batch[w] :
             MarkProcessed(w, o) /\ outbox[o].memory = m /\ outbox[o].action = "delete"
      BY <1>1, <2>1, <3>1, AccountedKept
    <3>3. QED
      BY <2>2, <3>2 DEF MarkProcessed, SingleInv, PassOrderly
  <2>3. CASE m \notin index
    <3>1. PICK w \in Workers : \E o \in batch[w] :
             WriteVector(w, o) /\ outbox[o].memory = m
      BY <2>3, NewVector
    <3>2. Accounted(m)
      BY <3>1 DEF WriteVector, SingleInv, PassOrderly
    <3>3. UNCHANGED <<memory, outbox>>
      BY <3>1 DEF WriteVector, authority
    <3>4. QED
      BY <3>2, <3>3 DEF Accounted, Rows
  <2>4. QED
    BY <2>2, <2>3
<1>6. PassOrderly'
  <2> SUFFICES ASSUME NEW w \in Workers, NEW o \in batch'[w], Current(w, o)',
                      NEW m \in {outbox'[o].memory}
               PROVE  /\ pc'[w] = "upsert"
                            => outbox'[o].action = "upsert" /\ Accounted(m)'
                      /\ pc'[w] = "mark" /\ outbox'[o].action = "delete"
                            => m \notin index'
    BY DEF PassOrderly, Accounted, Rows
  <2>1. CASE AuthorityNext \/ Tick \/ UNCHANGED vars
    <3>1. UNCHANGED <<index, pc, batch>>
      BY <1>1, <2>1, StoreStep DEF Tick, workers, vars
    <3>2. /\ o \in batch[w] /\ Current(w, o) /\ m = outbox[o].memory
          /\ o \in DOMAIN outbox /\ m \in Memories
      BY <1>2, <1>3, <1>4, <3>1 DEF Current
    <3>3. ASSUME pc[w] = "upsert", ~Accounted(m)'
          PROVE  FALSE
      <4>1. PICK v \in Workers : \E p \in batch[v] : MarkProcessed(v, p)
        BY <1>1, <3>2, <3>3, AccountedKept DEF SingleInv, PassOrderly
      <4>2. v = w /\ pc[v] = "mark"
        BY <4>1 DEF MarkProcessed
      <4>3. QED
        BY <3>3, <4>2
    <3>4. QED
      BY <1>4, <3>1, <3>2, <3>3 DEF SingleInv, PassOrderly
  <2>2. CASE PassBegins(w) \/ Crash(w)
    BY <1>1, <2>2 DEF PassBegins, Claim, Crash, PassEnds, TypeInv, TypeOK
  <2>3. ASSUME PassNext(w), pc'[w] = "upsert"
        PROVE  outbox'[o].action = "upsert" /\ Accounted(m)'
    <3>1. PICK p \in batch[w] : StartUpsert(w, p)
      BY <1>1, <2>3
      DEF PassNext, StartDelete, RemoveVector, WriteVector, MarkProcessed,
          MarkFailed, FailedLeaseLost, RowFails, NextRow, PassEnds, TypeInv, TypeOK
    <3>2. UNCHANGED <<memory, outbox, batch>>
      BY <3>1 DEF StartUpsert, authority
    <3>3. p = o
      BY <1>3, <3>1, <3>2 DEF StartUpsert, Current
    <3>4. Live(m)
      BY <1>1, <2>3, <3>1, <3>2, <3>3 DEF StartUpsert, StepForItem, TypeInv, TypeOK
    <3>5. QED
      BY <3>1, <3>2, <3>3, <3>4 DEF StartUpsert, Live, Accounted, Rows
  <2>4. ASSUME PassNext(w), pc'[w] = "mark", outbox'[o].action = "delete"
        PROVE  m \notin index'
    <3>1. PICK p \in batch[w] :
             StartDelete(w, p) \/ RemoveVector(w, p) \/ WriteVector(w, p)
      BY <1>1, <2>4
      DEF PassNext, StartUpsert, StepForItem, MarkProcessed, MarkFailed,
          FailedLeaseLost, RowFails, NextRow, PassEnds, TypeInv, TypeOK
    <3>2. UNCHANGED <<outbox, batch>>
      BY <3>1 DEF StartDelete, RemoveVector, WriteVector, authority
    <3>3. p = o
      BY <1>3, <3>1, <3>2 DEF StartDelete, RemoveVector, WriteVector, Current
    <3>4. ~WriteVector(w, p)
      BY <2>4, <3>2, <3>3 DEF WriteVector, SingleInv, PassOrderly
    <3>5. QED
      BY <3>1, <3>2, <3>3, <3>4 DEF StartDelete, RemoveVector
  <2>5. QED
    BY <2>1, <2>2, <2>3, <2>4 DEF Next
<1>7. QED
  BY <1>1, <1>5, <1>6 DEF SingleInv

\* With one worker, whatever the lifetimes, crashes, retries and corrections,
\* every vector of an item that is over has a delete row still to come or dead.
THEOREM OneWorkerForgetsNothing ==
    ASSUME \A v, w \in Workers : v = w
    PROVE  Spec => []StaleVectorIsQueued
<1>1. Init => SingleInv
  BY TypeInvInit DEF Init, SingleInv, PassOrderly, StaleVectorIsQueued
<1>2. SingleInv /\ [Next]_vars => SingleInv'
  BY SingleInvStep
<1>3. SingleInv => StaleVectorIsQueued
  BY DEF SingleInv
<1>4. QED
  BY <1>1, <1>2, <1>3, PTL DEF Spec

-----------------------------------------------------------------------------
(* The correction chains of items.                                         *)

Heirs(m) == {n \in Memories : m \in memory[n].supersedes}

\* NoForkedMemory forgets to say that what was never saved replaces nothing.
ChainAt(m) ==
    /\ Heirs(m) # {} <=> memory[m].status = "superseded"
    /\ \A n, p \in Heirs(m) : n = p
    /\ \A n \in Heirs(m) : memory[n].status # "absent"
    /\ memory[m].status = "absent" => memory[m].supersedes = {}

ChainInv == TypeInv /\ \A m \in Memories : ChainAt(m)

\* What an operation leaves of an item's record, field by field.
LEMMA SavedItem ==
    ASSUME TypeInv, NEW m \in Memories, NEW ttl \in Ttls, SaveMemory(m, ttl)
    PROVE  /\ memory[m].status = "absent"
           /\ memory'[m].status = "active" /\ memory'[m].supersedes = {}
           /\ \A n \in Memories \ {m} : memory'[n] = memory[n]
BY DEF SaveMemory, NewItem, TypeInv, TypeOK

LEMMA SupersededItems ==
    ASSUME TypeInv, NEW old \in Memories, NEW new \in Memories, NEW ttl,
           SupersedeMemory(old, new, ttl)
    PROVE  /\ old # new /\ memory[old].status = "active" /\ memory[new].status = "absent"
           /\ memory'[old].status = "superseded"
           /\ memory'[old].supersedes = memory[old].supersedes
           /\ memory'[new].status = "active" /\ memory'[new].supersedes = {old}
           /\ \A n \in Memories \ {old, new} : memory'[n] = memory[n]
<1>1. memory[old] \in Item
  BY DEF TypeInv, TypeOK
<1>2. /\ memory[old].status = "active" /\ memory[new].status = "absent" /\ old # new
      /\ memory' = [memory EXCEPT ![old] = [memory[old] EXCEPT !.status = "superseded"],
                                  ![new] = NewItem(ttl, {old})]
  BY DEF SupersedeMemory, MaySupersede
<1> QED
  BY <1>1, <1>2 DEF NewItem, TypeInv, TypeOK, Item

LEMMA ExpiredItem ==
    ASSUME TypeInv, NEW m \in Memories, ExpireMemory(m)
    PROVE  /\ memory[m].status \in {"active", "expired"} /\ memory'[m].status = "expired"
           /\ memory'[m].supersedes = memory[m].supersedes
           /\ \A n \in Memories \ {m} : memory'[n] = memory[n]
<1>1. memory[m] \in Item
  BY DEF TypeInv, TypeOK
<1>2. /\ memory[m].status \in {"active", "expired"}
      /\ memory' = [memory EXCEPT ![m] = [memory[m] EXCEPT !.status = "expired"]]
  BY DEF ExpireMemory, MayExpire
<1> QED
  BY <1>1, <1>2 DEF TypeInv, TypeOK, Item

\* Passes and the clock change neither a status nor a chain nor the trail.
LEMMA WorkKeepsItems ==
    ASSUME TypeInv,
           \/ \E w \in Workers : PassBegins(w) \/ PassNext(w) \/ Crash(w)
           \/ Tick
           \/ UNCHANGED vars
    PROVE  /\ audit' = audit
           /\ \A m \in Memories : /\ memory'[m].status = memory[m].status
                                  /\ memory'[m].supersedes = memory[m].supersedes
<1>1. CASE Tick
  <2> SUFFICES ASSUME NEW m \in Memories
               PROVE  /\ memory'[m].status = memory[m].status
                      /\ memory'[m].supersedes = memory[m].supersedes
    BY <1>1 DEF Tick
  <2>1. memory[m] \in Item
    BY DEF TypeInv, TypeOK
  <2>2. memory'[m] = [memory[m] EXCEPT !.ttl = Elapsed(memory[m].ttl)]
    BY <1>1 DEF Tick
  <2> QED
    BY <2>1, <2>2 DEF Item
<1>2. CASE UNCHANGED vars \/ \E w \in Workers : PassBegins(w) \/ PassNext(w) \/ Crash(w)
  <2>1. UNCHANGED authority
    BY <1>2
    DEF PassBegins, Claim, PassNext, StartDelete, StartUpsert, RemoveVector,
        WriteVector, MarkProcessed, MarkFailed, FailedLeaseLost, RowFails, Crash,
        authority, vars
  <2> QED
    BY <2>1 DEF authority
<1> QED
  BY <1>1, <1>2

LEMMA ChainStep == ChainInv /\ [Next]_vars => ChainInv'
<1> SUFFICES ASSUME ChainInv, [Next]_vars PROVE \A x \in Memories : ChainAt(x)'
  BY TypeInvStep DEF ChainInv
<1>0. TypeInv
  BY DEF ChainInv
\* What changes no chain and keeps an item's status, or expires it.
<1>1. ASSUME \A n \in Memories : memory'[n].supersedes = memory[n].supersedes,
             \A n \in Memories :
                \/ memory'[n].status = memory[n].status
                \/ memory'[n].status \in {"active", "expired"} /\ memory[n].status # "superseded",
             NEW x \in Memories
      PROVE  ChainAt(x)'
  <2>1. Heirs(x)' = Heirs(x)
    BY <1>1 DEF Heirs
  <2>2. ChainAt(x) /\ Heirs(x) \subseteq Memories
    BY DEF ChainInv, Heirs
  <2> QED
    BY <1>1, <2>1, <2>2 DEF ChainAt
<1>2. ASSUME NEW m \in Memories, NEW ttl \in Ttls, SaveMemory(m, ttl),
             NEW x \in Memories
      PROVE  ChainAt(x)'
  <2>1. memory[m].supersedes = {}
    BY <1>0, <1>2, SavedItem DEF ChainInv, ChainAt
  <2> QED
    BY <1>0, <1>1, <1>2, <2>1, SavedItem
<1>3. ASSUME NEW old \in Memories, NEW new \in Memories, NEW ttl,
             SupersedeMemory(old, new, ttl), NEW x \in Memories
      PROVE  ChainAt(x)'
  <2>1. memory[new].supersedes = {}
    BY <1>0, <1>3, SupersededItems DEF ChainInv, ChainAt
  <2>2. Heirs(old) = {} /\ Heirs(new) = {}
    BY <1>0, <1>3, SupersededItems DEF ChainInv, ChainAt
  <2>3. Heirs(old)' = {new}
    BY <1>0, <1>3, <2>1, <2>2, SupersededItems DEF Heirs
  <2>4. \A m \in Memories \ {old} : Heirs(m)' = Heirs(m)
    BY <1>0, <1>3, <2>1, SupersededItems DEF Heirs
  <2>5. CASE x = old
    BY <1>0, <1>3, <2>3, <2>5, SupersededItems DEF ChainAt
  <2>6. CASE x = new
    BY <1>0, <1>3, <2>2, <2>4, <2>6, SupersededItems DEF ChainAt
  <2>7. CASE x \notin {old, new}
    <3>1. Heirs(x)' = Heirs(x) /\ memory'[x] = memory[x] /\ ChainAt(x) /\ Heirs(x) \subseteq Memories
      BY <1>0, <1>3, <2>4, <2>7, SupersededItems DEF ChainInv, Heirs
    <3>2. \A n \in Memories : memory[n].status # "absent" => memory'[n].status # "absent"
      BY <1>0, <1>3, SupersededItems
    <3> QED
      BY <3>1, <3>2 DEF ChainAt
  <2> QED
    BY <2>5, <2>6, <2>7
<1>4. ASSUME NEW m \in Memories, ExpireMemory(m), NEW x \in Memories PROVE ChainAt(x)'
  BY <1>0, <1>1, <1>4, ExpiredItem
<1>5. CASE \/ \E w \in Workers : PassBegins(w) \/ PassNext(w) \/ Crash(w)
           \/ Tick
           \/ UNCHANGED vars
  BY <1>0, <1>1, <1>5, WorkKeepsItems
<1> QED
  BY <1>2, <1>3, <1>4, <1>5 DEF Next, AuthorityNext

\* However supersede and expire calls are mixed, and for any number of items,
\* the correction chain of an item never forks (supersede_memory,
\* expire_memory).
THEOREM ChainsNeverFork == Spec => []NoForkedMemory
<1>1. Init => ChainInv
  BY TypeInvInit DEF Init, ChainInv, ChainAt, Heirs
<1>2. ChainInv => NoForkedMemory
  BY DEF ChainInv, ChainAt, Heirs, NoForkedMemory
<1> QED
  BY <1>1, <1>2, ChainStep, PTL DEF Spec

-----------------------------------------------------------------------------
(* Items, audit trail and index jobs tell one story.                       *)

ItemAgrees(m) ==
    /\ AuditActions(m) = {} <=> memory[m].status = "absent"
    /\ \A r \in AuditActions(m) :
          (\A q \in AuditActions(m) : q <= r)
            => memory[m].status = StatusAfter(audit[r].action)
    /\ Cardinality(AuditActions(m))
          = Cardinality(Rows(m, "upsert")) + Cardinality(Rows(m, "delete"))
    /\ \A o \in Rows(m, "delete") : \E u \in Rows(m, "upsert") : u < o

StoryInv == TypeInv /\ \A m \in Memories : ItemAgrees(m)

LEMMA TablesFinite ==
    ASSUME TypeInv, NEW m \in Memories
    PROVE  /\ IsFiniteSet(AuditActions(m)) /\ Cardinality(AuditActions(m)) \in Nat
           /\ AuditActions(m) \subseteq 1 .. Len(audit) /\ Len(audit) \in Nat
           /\ \A action \in {"upsert", "delete"} :
                /\ IsFiniteSet(Rows(m, action)) /\ Cardinality(Rows(m, action)) \in Nat
                /\ Rows(m, action) \subseteq 1 .. Len(outbox)
           /\ Len(outbox) \in Nat
<1>1. /\ AuditActions(m) \in SUBSET (1 .. Len(audit)) /\ Len(audit) \in Nat
      /\ Len(outbox) \in Nat
      /\ \A action : Rows(m, action) \in SUBSET (1 .. Len(outbox))
  BY LenProperties DEF TypeInv, TypeOK, AuditActions, Rows
<1>2. IsFiniteSet(1 .. Len(audit)) /\ IsFiniteSet(1 .. Len(outbox))
  BY <1>1, FS_Interval
<1> QED
  BY <1>1, <1>2, FS_Subset, FS_CardinalityType

\* Whatever no row of which was written keeps its story.
LEMMA StoryUntouched ==
    ASSUME NEW m, ItemAgrees(m),
           memory'[m].status = memory[m].status,
           AuditActions(m)' = AuditActions(m),
           \A r \in AuditActions(m) : audit'[r] = audit[r],
           Rows(m, "upsert")' = Rows(m, "upsert"), Rows(m, "delete")' = Rows(m, "delete")
    PROVE  ItemAgrees(m)'
BY DEF ItemAgrees

\* A transaction that writes one audit row r and one job o of an item, and the
\* status that the row names.
LEMMA StoryGoesOn ==
    ASSUME TypeInv, NEW m \in Memories, ItemAgrees(m),
           NEW r \in Nat, NEW o \in Nat, r > Len(audit), o > Len(outbox),
           AuditActions(m)' = AuditActions(m) \cup {r},
           memory'[m].status # "absent",
           memory'[m].status = StatusAfter(audit'[r].action),
           \/ /\ Rows(m, "upsert")' = Rows(m, "upsert") \cup {o}
              /\ Rows(m, "delete")' = Rows(m, "delete")
           \/ /\ Rows(m, "delete")' = Rows(m, "delete") \cup {o}
              /\ Rows(m, "upsert")' = Rows(m, "upsert")
              /\ memory[m].status # "absent"
    PROVE  ItemAgrees(m)'
<1>1. /\ IsFiniteSet(AuditActions(m)) /\ Cardinality(AuditActions(m)) \in Nat
      /\ IsFiniteSet(Rows(m, "upsert")) /\ Cardinality(Rows(m, "upsert")) \in Nat
      /\ IsFiniteSet(Rows(m, "delete")) /\ Cardinality(Rows(m, "delete")) \in Nat
      /\ \A q \in AuditActions(m) : q \in Nat /\ q < r
      /\ \A p \in Rows(m, "upsert") \cup Rows(m, "delete") : p \in Nat /\ p < o
  BY TablesFinite
<1>2. Cardinality(AuditActions(m)') = Cardinality(AuditActions(m)) + 1
  <2>1. r \notin AuditActions(m)
    BY <1>1
  <2> QED
    BY <1>1, <2>1, FS_AddElement
<1>3. Cardinality(AuditActions(m)')
        = Cardinality(Rows(m, "upsert")') + Cardinality(Rows(m, "delete")')
  <2>1. Cardinality(AuditActions(m))
            = Cardinality(Rows(m, "upsert")) + Cardinality(Rows(m, "delete"))
    BY DEF ItemAgrees
  <2>2. o \notin Rows(m, "upsert") /\ o \notin Rows(m, "delete")
    BY <1>1
  <2>3. /\ Cardinality(Rows(m, "upsert") \cup {o}) = Cardinality(Rows(m, "upsert")) + 1
        /\ Cardinality(Rows(m, "delete") \cup {o}) = Cardinality(Rows(m, "delete")) + 1
    BY <1>1, <2>2, FS_AddElement
  <2>4. CASE Rows(m, "upsert")' = Rows(m, "upsert") \cup {o} /\ Rows(m, "delete")' = Rows(m, "delete")
    <3>1. /\ Cardinality(Rows(m, "upsert")') = Cardinality(Rows(m, "upsert")) + 1
          /\ Cardinality(Rows(m, "delete")') = Cardinality(Rows(m, "delete"))
      BY <2>3, <2>4
    <3> QED
      BY <1>1, <1>2, <2>1, <3>1
  <2>5. CASE Rows(m, "delete")' = Rows(m, "delete") \cup {o} /\ Rows(m, "upsert")' = Rows(m, "upsert")
    <3>1. /\ Cardinality(Rows(m, "delete")') = Cardinality(Rows(m, "delete")) + 1
          /\ Cardinality(Rows(m, "upsert")') = Cardinality(Rows(m, "upsert"))
      BY <2>3, <2>5
    <3> QED
      BY <1>1, <1>2, <2>1, <3>1
  <2> QED
    BY <2>4, <2>5
<1>4. \A q \in AuditActions(m)' :
        (\A p \in AuditActions(m)' : p <= q) => q = r
  <2> SUFFICES ASSUME NEW q \in AuditActions(m)', q # r PROVE ~(r <= q)
    OBVIOUS
  <2> QED
    BY <1>1
\* An item that exists has an upsert job already.
<1>5. memory[m].status # "absent" => \E u \in Rows(m, "upsert") : u \in Nat /\ u < o
  <2>1. SUFFICES ASSUME memory[m].status # "absent"
                 PROVE  \E u \in Rows(m, "upsert") : u \in Nat /\ u < o
    OBVIOUS
  <2>2. Cardinality(AuditActions(m)) # 0
    BY <1>1, <2>1, FS_EmptySet DEF ItemAgrees
  <2>3. Rows(m, "upsert") # {} \/ Rows(m, "delete") # {}
    <3>1. Cardinality({}) = 0 /\ 0 + 0 = 0
      BY FS_EmptySet
    <3> QED
      BY <2>2, <3>1 DEF ItemAgrees
  <2> QED
    BY <1>1, <2>3 DEF ItemAgrees
<1>6. \A p \in Rows(m, "delete")' : \E u \in Rows(m, "upsert")' : u < p
  BY <1>1, <1>5 DEF ItemAgrees
<1> QED
  BY <1>3, <1>4, <1>6 DEF ItemAgrees

\* What appending to the trail and to the outbox does to an item.
LEMMA AuditAppended ==
    ASSUME TypeInv, NEW rows \in Seq(AuditRow), audit' = audit \o rows, NEW m \in Memories
    PROVE  /\ AuditActions(m)' = AuditActions(m)
                \cup {Len(audit) + j : j \in {i \in DOMAIN rows : rows[i].memory = m}}
           /\ \A r \in AuditActions(m) : audit'[r] = audit[r]
           /\ \A j \in DOMAIN rows : audit'[Len(audit) + j] = rows[j]
<1>1. /\ audit \in Seq(AuditRow) /\ Len(audit) \in Nat /\ Len(rows) \in Nat
      /\ DOMAIN audit = 1 .. Len(audit) /\ DOMAIN rows = 1 .. Len(rows)
      /\ DOMAIN audit' = 1 .. Len(audit) + Len(rows)
  BY ConcatProperties, LenProperties DEF TypeInv, TypeOK
<1>2. /\ \A i \in DOMAIN audit : audit'[i] = audit[i]
      /\ \A j \in DOMAIN rows : audit'[Len(audit) + j] = rows[j]
  BY <1>1, ConcatProperties
<1>3. \A i \in DOMAIN audit' : i \in DOMAIN audit \/ (i - Len(audit) \in DOMAIN rows
                                                    /\ i = Len(audit) + (i - Len(audit)))
  BY <1>1
<1>4. \A j \in DOMAIN rows : Len(audit) + j \in DOMAIN audit'
  BY <1>1
<1>5. \A i \in DOMAIN audit : i \in DOMAIN audit'
  BY <1>1
<1>6. AuditActions(m)' \subseteq AuditActions(m)
        \cup {Len(audit) + j : j \in {i \in DOMAIN rows : rows[i].memory = m}}
  BY <1>2, <1>3 DEF AuditActions
<1>7. AuditActions(m) \cup {Len(audit) + j : j \in {i \in DOMAIN rows : rows[i].memory = m}}
        \subseteq AuditActions(m)'
  BY <1>2, <1>4, <1>5 DEF AuditActions
<1> QED
  BY <1>2, <1>6, <1>7 DEF AuditActions

LEMMA JobsAppended ==
    ASSUME TypeInv, NEW jobs \in Seq(SoundRow), outbox' = outbox \o jobs,
           NEW m \in Memories, NEW action
    PROVE  Rows(m, action)' = Rows(m, action)
                \cup {Len(outbox) + j : j \in {i \in DOMAIN jobs :
                                        jobs[i].memory = m /\ jobs[i].action = action}}
<1>1. /\ Len(outbox) \in Nat /\ Len(jobs) \in Nat
      /\ DOMAIN outbox = 1 .. Len(outbox) /\ DOMAIN jobs = 1 .. Len(jobs)
      /\ DOMAIN outbox' = 1 .. Len(outbox) + Len(jobs)
  BY AppendedJobs, LenProperties DEF TypeInv
<1>2. /\ \A i \in DOMAIN outbox : outbox'[i] = outbox[i]
      /\ \A j \in DOMAIN jobs : outbox'[Len(outbox) + j] = jobs[j]
  BY AppendedJobs
<1>3. \A i \in DOMAIN outbox' : i \in DOMAIN outbox \/ (i - Len(outbox) \in DOMAIN jobs
                                                    /\ i = Len(outbox) + (i - Len(outbox)))
  BY <1>1
<1>4. /\ \A j \in DOMAIN jobs : Len(outbox) + j \in DOMAIN outbox'
      /\ \A i \in DOMAIN outbox : i \in DOMAIN outbox'
  BY <1>1
<1>5. Rows(m, action)' \subseteq Rows(m, action)
        \cup {Len(outbox) + j : j \in {i \in DOMAIN jobs :
                jobs[i].memory = m /\ jobs[i].action = action}}
  BY <1>2, <1>3 DEF Rows
<1>6. Rows(m, action)
        \cup {Len(outbox) + j : j \in {i \in DOMAIN jobs :
                jobs[i].memory = m /\ jobs[i].action = action}} \subseteq Rows(m, action)'
  BY <1>2, <1>4 DEF Rows
<1> QED
  BY <1>5, <1>6

\* Saving: one audit row and one upsert job, at the end of both tables.
LEMMA SaveTellsAll ==
    ASSUME StoryInv, NEW m \in Memories, NEW ttl \in Ttls, SaveMemory(m, ttl),
           NEW x \in Memories
    PROVE  ItemAgrees(x)'
<1> DEFINE row == [memory |-> m, action |-> "created"]
           jobs == <<NewEntry(m, "upsert")>>
<1>1. TypeInv /\ ItemAgrees(x)
  BY DEF StoryInv
<1>2. <<row>> \in Seq(AuditRow) /\ audit' = audit \o <<row>>
  BY <1>1, AppendIsConcat DEF SaveMemory, AuditRow, TypeInv, TypeOK
<1>3. jobs \in Seq(SoundRow) /\ outbox' = outbox \o jobs
  BY <1>1, SaveJobs
<1>4. /\ AuditActions(x)' = AuditActions(x) \cup (IF x = m THEN {Len(audit) + 1} ELSE {})
      /\ \A r \in AuditActions(x) : audit'[r] = audit[r]
      /\ audit'[Len(audit) + 1].action = "created"
  <2>1. /\ AuditActions(x)' = AuditActions(x)
                \cup {Len(audit) + j : j \in {i \in DOMAIN <<row>> : <<row>>[i].memory = x}}
        /\ \A r \in AuditActions(x) : audit'[r] = audit[r]
        /\ \A j \in DOMAIN <<row>> : audit'[Len(audit) + j] = <<row>>[j]
    BY <1>1, <1>2, AuditAppended
  <2> QED
    BY <2>1
<1>5. /\ Rows(x, "upsert")' = Rows(x, "upsert") \cup (IF x = m THEN {Len(outbox) + 1} ELSE {})
      /\ Rows(x, "delete")' = Rows(x, "delete")
  <2>1. \A action : Rows(x, action)' = Rows(x, action)
            \cup {Len(outbox) + j : j \in {i \in DOMAIN jobs :
                                jobs[i].memory = x /\ jobs[i].action = action}}
    BY <1>1, <1>3, JobsAppended
  <2>2. DOMAIN jobs = {1} /\ jobs[1].memory = m /\ jobs[1].action = "upsert"
    BY DEF NewEntry
  <2> HIDE DEF jobs
  <2>3. /\ {i \in DOMAIN jobs : jobs[i].memory = x /\ jobs[i].action = "upsert"}
                = IF x = m THEN {1} ELSE {}
        /\ {i \in DOMAIN jobs : jobs[i].memory = x /\ jobs[i].action = "delete"} = {}
    BY <2>2
  <2>4. Rows(x, "upsert")' = Rows(x, "upsert") \cup (IF x = m THEN {Len(outbox) + 1} ELSE {})
    BY <2>1, <2>3
  <2>5. Rows(x, "delete")' = Rows(x, "delete")
    <3>1. Rows(x, "delete")' = Rows(x, "delete") \cup {Len(outbox) + j : j \in {}}
      BY <2>1, <2>3
    <3> QED
      BY <3>1
  <2> QED
    BY <2>4, <2>5
<1>6. CASE x # m
  BY <1>1, <1>4, <1>5, <1>6, SavedItem, StoryUntouched
<1>7. CASE x = m
  <2>1. memory'[x].status = "active"
    BY <1>1, <1>7, SavedItem
  <2>2. Len(audit) \in Nat /\ Len(outbox) \in Nat
    BY <1>1, TablesFinite
  <2> QED
    BY <1>1, <1>4, <1>5, <1>7, <2>1, <2>2, StoryGoesOn DEF StatusAfter
<1> QED
  BY <1>6, <1>7

\* Expiring: one audit row and one delete job, of an item that exists.
LEMMA ExpireTellsAll ==
    ASSUME StoryInv, NEW m \in Memories, ExpireMemory(m), NEW x \in Memories
    PROVE  ItemAgrees(x)'
<1> DEFINE row == [memory |-> m, action |-> "expired"]
           jobs == <<NewEntry(m, "delete")>>
<1>1. TypeInv /\ ItemAgrees(x)
  BY DEF StoryInv
<1>2. <<row>> \in Seq(AuditRow) /\ audit' = audit \o <<row>>
  BY <1>1, AppendIsConcat DEF ExpireMemory, AuditRow, TypeInv, TypeOK
<1>3. jobs \in Seq(SoundRow) /\ outbox' = outbox \o jobs
  BY <1>1, ExpireJobs
<1>4. /\ AuditActions(x)' = AuditActions(x) \cup (IF x = m THEN {Len(audit) + 1} ELSE {})
      /\ \A r \in AuditActions(x) : audit'[r] = audit[r]
      /\ audit'[Len(audit) + 1].action = "expired"
  <2>1. /\ AuditActions(x)' = AuditActions(x)
                \cup {Len(audit) + j : j \in {i \in DOMAIN <<row>> : <<row>>[i].memory = x}}
        /\ \A r \in AuditActions(x) : audit'[r] = audit[r]
        /\ \A j \in DOMAIN <<row>> : audit'[Len(audit) + j] = <<row>>[j]
    BY <1>1, <1>2, AuditAppended
  <2> QED
    BY <2>1
<1>5. /\ Rows(x, "delete")' = Rows(x, "delete") \cup (IF x = m THEN {Len(outbox) + 1} ELSE {})
      /\ Rows(x, "upsert")' = Rows(x, "upsert")
  <2>1. \A action : Rows(x, action)' = Rows(x, action)
            \cup {Len(outbox) + j : j \in {i \in DOMAIN jobs :
                                jobs[i].memory = x /\ jobs[i].action = action}}
    BY <1>1, <1>3, JobsAppended
  <2>2. DOMAIN jobs = {1} /\ jobs[1].memory = m /\ jobs[1].action = "delete"
    BY DEF NewEntry
  <2> HIDE DEF jobs
  <2>3. /\ {i \in DOMAIN jobs : jobs[i].memory = x /\ jobs[i].action = "delete"}
                = IF x = m THEN {1} ELSE {}
        /\ {i \in DOMAIN jobs : jobs[i].memory = x /\ jobs[i].action = "upsert"} = {}
    BY <2>2
  <2>4. Rows(x, "delete")' = Rows(x, "delete") \cup (IF x = m THEN {Len(outbox) + 1} ELSE {})
    BY <2>1, <2>3
  <2>5. Rows(x, "upsert")' = Rows(x, "upsert")
    <3>1. Rows(x, "upsert")' = Rows(x, "upsert") \cup {Len(outbox) + j : j \in {}}
      BY <2>1, <2>3
    <3> QED
      BY <3>1
  <2> QED
    BY <2>4, <2>5
<1>6. CASE x # m
  BY <1>1, <1>4, <1>5, <1>6, ExpiredItem, StoryUntouched
<1>7. CASE x = m
  <2>1. memory'[x].status = "expired" /\ memory[x].status # "absent"
    BY <1>1, <1>7, ExpiredItem
  <2>2. Len(audit) \in Nat /\ Len(outbox) \in Nat
    BY <1>1, TablesFinite
  <2> QED
    BY <1>1, <1>4, <1>5, <1>7, <2>1, <2>2, StoryGoesOn DEF StatusAfter
<1> QED
  BY <1>6, <1>7

\* Replacing: one audit row and one job for each of the two items.
LEMMA SupersedeTellsAll ==
    ASSUME StoryInv, NEW old \in Memories, NEW new \in Memories, NEW ttl,
           SupersedeMemory(old, new, ttl), NEW x \in Memories
    PROVE  ItemAgrees(x)'
<1> DEFINE rows == <<[memory |-> old, action |-> "superseded"],
                     [memory |-> new, action |-> "created"]>>
           jobs == SupersededJobs(old, new)
<1>1. TypeInv /\ ItemAgrees(x)
  BY DEF StoryInv
<1>i. /\ old # new /\ memory[old].status = "active"
      /\ memory'[old].status = "superseded" /\ memory'[new].status = "active"
      /\ \A n \in Memories \ {old, new} : memory'[n] = memory[n]
  BY <1>1, SupersededItems
<1>2. rows \in Seq(AuditRow) /\ audit' = audit \o rows
  BY DEF SupersedeMemory, AuditRow
<1>3. /\ jobs \in Seq(SoundRow) /\ outbox' = outbox \o jobs
      /\ DOMAIN jobs = {1, 2}
      /\ jobs[1].memory = old /\ jobs[1].action = "delete"
      /\ jobs[2].memory = new /\ jobs[2].action = "upsert"
  <2>1. /\ jobs \in Seq(SoundRow) /\ outbox' = outbox \o jobs
        /\ DOMAIN jobs = {1, 2}
        /\ jobs[1] = NewEntry(old, "delete") /\ jobs[2] = NewEntry(new, "upsert")
    BY <1>1, SupersedeJobs
  <2> QED
    BY <2>1 DEF NewEntry
<1>4. /\ AuditActions(x)' = AuditActions(x) \cup (IF x = old THEN {Len(audit) + 1}
                                                  ELSE IF x = new THEN {Len(audit) + 2} ELSE {})
      /\ \A r \in AuditActions(x) : audit'[r] = audit[r]
      /\ audit'[Len(audit) + 1].action = "superseded"
      /\ audit'[Len(audit) + 2].action = "created"
  <2>1. /\ AuditActions(x)' = AuditActions(x)
                \cup {Len(audit) + j : j \in {i \in DOMAIN rows : rows[i].memory = x}}
        /\ \A r \in AuditActions(x) : audit'[r] = audit[r]
        /\ \A j \in DOMAIN rows : audit'[Len(audit) + j] = rows[j]
    BY <1>1, <1>2, AuditAppended
  <2>2. /\ DOMAIN rows = {1, 2}
        /\ rows[1].memory = old /\ rows[1].action = "superseded"
        /\ rows[2].memory = new /\ rows[2].action = "created"
    OBVIOUS
  <2> HIDE DEF rows
  <2> QED
    BY <1>i, <2>1, <2>2
<1>5. /\ Rows(x, "delete")' = Rows(x, "delete") \cup (IF x = old THEN {Len(outbox) + 1} ELSE {})
      /\ Rows(x, "upsert")' = Rows(x, "upsert") \cup (IF x = new THEN {Len(outbox) + 2} ELSE {})
  <2>1. \A action : Rows(x, action)' = Rows(x, action)
            \cup {Len(outbox) + j : j \in {i \in DOMAIN jobs :
                                jobs[i].memory = x /\ jobs[i].action = action}}
    BY <1>1, <1>3, JobsAppended
  <2> HIDE DEF jobs
  <2> QED
    BY <1>3, <2>1
<1>6. Len(audit) \in Nat /\ Len(outbox) \in Nat
  BY <1>1, TablesFinite
<1>7. CASE x = old
  <2>1. /\ AuditActions(x)' = AuditActions(x) \cup {Len(audit) + 1}
        /\ Rows(x, "delete")' = Rows(x, "delete") \cup {Len(outbox) + 1}
        /\ Rows(x, "upsert")' = Rows(x, "upsert")
    BY <1>i, <1>4, <1>5, <1>7
  <2>2. /\ memory'[x].status = StatusAfter(audit'[Len(audit) + 1].action)
        /\ memory'[x].status # "absent" /\ memory[x].status # "absent"
    BY <1>i, <1>4, <1>7 DEF StatusAfter
  <2> QED
    BY <1>1, <1>6, <2>1, <2>2, StoryGoesOn
<1>8. CASE x = new
  <2>1. /\ AuditActions(x)' = AuditActions(x) \cup {Len(audit) + 2}
        /\ Rows(x, "upsert")' = Rows(x, "upsert") \cup {Len(outbox) + 2}
        /\ Rows(x, "delete")' = Rows(x, "delete")
    BY <1>i, <1>4, <1>5, <1>8
  <2>2. /\ memory'[x].status = StatusAfter(audit'[Len(audit) + 2].action)
        /\ memory'[x].status # "absent"
    BY <1>i, <1>4, <1>8 DEF StatusAfter
  <2> QED
    BY <1>1, <1>6, <2>1, <2>2, StoryGoesOn
<1>9. CASE x \notin {old, new}
  BY <1>1, <1>i, <1>4, <1>5, <1>9, StoryUntouched
<1> QED
  BY <1>7, <1>8, <1>9

LEMMA StoryStep == StoryInv /\ [Next]_vars => StoryInv'
<1> SUFFICES ASSUME StoryInv, [Next]_vars PROVE \A x \in Memories : ItemAgrees(x)'
  BY TypeInvStep DEF StoryInv
<1>1. CASE \/ \E w \in Workers : PassBegins(w) \/ PassNext(w) \/ Crash(w)
           \/ Tick
           \/ UNCHANGED vars
  <2>1. /\ audit' = audit /\ SameJobs
        /\ \A m \in Memories : memory'[m].status = memory[m].status
    BY <1>1, WorkKeepsItems, WorkStep DEF StoryInv
  <2>2. \A x, action : Rows(x, action)' = Rows(x, action)
    BY <2>1 DEF SameJobs, Rows
  <2>3. \A x : AuditActions(x)' = AuditActions(x)
    BY <2>1 DEF AuditActions
  <2> QED
    BY <2>1, <2>2, <2>3, StoryUntouched DEF StoryInv
<1> QED
  BY <1>1, SaveTellsAll, SupersedeTellsAll, ExpireTellsAll DEF Next, AuthorityNext

\* The latest audit row of an item names its status, and the item has one index
\* job per audit row, an upsert first, for any mix of operations, passes and
\* crashes (save_memory, supersede_memory, expire_memory).
THEOREM TablesTellOneStory == Spec => []TablesAgree
<1>1. Init => StoryInv
  <2> SUFFICES ASSUME Init PROVE StoryInv
    OBVIOUS
  <2>1. \A m \in Memories : AuditActions(m) = {} /\ Rows(m, "upsert") = {} /\ Rows(m, "delete") = {}
    BY DEF Init, AuditActions, Rows
  <2>2. \A m \in Memories : ItemAgrees(m)
    <3>1. Cardinality({}) = 0 /\ 0 + 0 = 0
      BY FS_EmptySet
    <3> QED
      BY <2>1, <3>1 DEF Init, ItemAgrees
  <2> QED
    BY <2>2, TypeInvInit DEF StoryInv
<1>2. StoryInv => TablesAgree
  BY DEF StoryInv, ItemAgrees, TablesAgree
<1> QED
  BY <1>1, <1>2, StoryStep, PTL DEF Spec

-----------------------------------------------------------------------------
(* What a step may never do to a row.                                      *)

\* A settled row waits for nothing, so that time does not touch it either.
QuietInv ==
    TypeInv /\ \A o \in DOMAIN outbox : Settled(o) => outbox[o].timer = 0

\* The row is as it was, or a claim took it, or its holder dealt with it, or a
\* tick went by.
LEMMA RowStep ==
    ASSUME TypeInv, [Next]_vars, NEW o \in DOMAIN outbox
    PROVE  /\ o \in DOMAIN outbox'
           /\ \/ outbox'[o] = outbox[o]
              \/ /\ Claimable(outbox[o])
                 /\ \E w \in Workers : outbox'[o] = Leased(outbox[o], w)
              \/ /\ outbox[o].status = "processing"
                 /\ outbox'[o] \in {Released(outbox[o], "processed", 0), AfterFailure(outbox[o])}
              \/ outbox'[o] = [outbox[o] EXCEPT !.timer = Elapsed(@)]
<1> DEFINE Goal ==
        /\ o \in DOMAIN outbox'
        /\ \/ outbox'[o] = outbox[o]
           \/ /\ Claimable(outbox[o])
              /\ \E w \in Workers : outbox'[o] = Leased(outbox[o], w)
           \/ /\ outbox[o].status = "processing"
              /\ outbox'[o] \in {Released(outbox[o], "processed", 0), AfterFailure(outbox[o])}
           \/ outbox'[o] = [outbox[o] EXCEPT !.timer = Elapsed(@)]
<1>1. CASE AuthorityNext
  <2>1. \E jobs \in Seq(SoundRow) : outbox' = outbox \o jobs
    BY <1>1, SaveJobs, SupersedeJobs, ExpireJobs DEF AuthorityNext
  <2> QED
    BY <2>1, AppendedJobs
<1>2. ASSUME NEW w \in Workers, NEW limit, Claim(w, limit) PROVE Goal
  BY <1>2 DEF Claim, ClaimedRows, ClaimableRows
<1>3. ASSUME NEW w \in Workers, NEW p \in batch[w], MarkProcessed(w, p) \/ MarkFailed(w, p)
      PROVE  Goal
  <2>1. DOMAIN outbox' = DOMAIN outbox /\ (o # p => outbox'[o] = outbox[o])
    BY <1>3, MarkRows DEF SameJobs
  <2>2. CASE o = p /\ Owns(w, p)
    BY <1>3, <2>1, <2>2 DEF MarkProcessed, MarkFailed, Owns
  <2>3. CASE o = p /\ ~Owns(w, p)
    BY <1>3, <2>1, <2>3 DEF MarkProcessed, MarkFailed
  <2> QED
    BY <2>1, <2>2, <2>3
<1>4. CASE UNCHANGED outbox
  BY <1>4
<1>5. CASE Tick
  BY <1>5 DEF Tick
<1>6. ASSUME NEW w \in Workers, PassNext(w) \/ Crash(w)
      PROVE  \/ UNCHANGED outbox
             \/ \E p \in batch[w] : MarkProcessed(w, p) \/ MarkFailed(w, p)
  BY <1>6 DEF PassNext, StartDelete, StartUpsert, RemoveVector, WriteVector,
              FailedLeaseLost, RowFails, Crash, authority
<1> QED
  BY <1>1, <1>2, <1>3, <1>4, <1>5, <1>6 DEF Next, PassBegins, vars

\* A tick leaves a row that waits for nothing as it is.
LEMMA QuietRow ==
    ASSUME NEW e \in SoundRow, e.timer = 0
    PROVE  [e EXCEPT !.timer = Elapsed(@)] = e
BY DEF Elapsed, SoundRow, Entry

\* Whatever the store changes, the rows it appends are pending.
LEMMA JobsArePending ==
    ASSUME TypeInv, AuthorityNext
    PROVE  \E jobs \in Seq(SoundRow) :
              /\ outbox' = outbox \o jobs
              /\ \A j \in DOMAIN jobs : jobs[j].status = "pending"
<1> DEFINE Pending(jobs) == \A j \in DOMAIN jobs : jobs[j].status = "pending"
<1>1. \A m \in Memories : \A a : Pending(<<NewEntry(m, a)>>)
  BY DEF NewEntry
<1>2. ASSUME NEW m \in Memories, NEW ttl, SaveMemory(m, ttl)
      PROVE  \E jobs \in Seq(SoundRow) : outbox' = outbox \o jobs /\ Pending(jobs)
  <2>1. <<NewEntry(m, "upsert")>> \in Seq(SoundRow) /\ outbox' = outbox \o <<NewEntry(m, "upsert")>>
    BY <1>2, SaveJobs
  <2>2. Pending(<<NewEntry(m, "upsert")>>)
    BY <1>1
  <2> HIDE DEF Pending
  <2> QED
    BY <2>1, <2>2
<1>3. ASSUME NEW m \in Memories, ExpireMemory(m)
      PROVE  \E jobs \in Seq(SoundRow) : outbox' = outbox \o jobs /\ Pending(jobs)
  <2>1. <<NewEntry(m, "delete")>> \in Seq(SoundRow) /\ outbox' = outbox \o <<NewEntry(m, "delete")>>
    BY <1>3, ExpireJobs
  <2>2. Pending(<<NewEntry(m, "delete")>>)
    BY <1>1
  <2> HIDE DEF Pending
  <2> QED
    BY <2>1, <2>2
<1>4. ASSUME NEW m \in Memories, NEW n \in Memories, NEW ttl, SupersedeMemory(m, n, ttl)
      PROVE  \E jobs \in Seq(SoundRow) : outbox' = outbox \o jobs /\ Pending(jobs)
  <2>1. PICK jobs \in Seq(SoundRow) :
            /\ outbox' = outbox \o jobs /\ DOMAIN jobs = {1, 2}
            /\ jobs[1] = NewEntry(m, "delete") /\ jobs[2] = NewEntry(n, "upsert")
    BY <1>4, SupersedeJobs
  <2>2. jobs[1].status = "pending" /\ jobs[2].status = "pending"
    BY <2>1 DEF NewEntry
  <2>3. Pending(jobs)
    BY <2>1, <2>2
  <2> HIDE DEF Pending
  <2> QED
    BY <2>1, <2>3
<1> QED
  BY <1>2, <1>3, <1>4 DEF AuthorityNext

LEMMA QuietStep ==
    QuietInv /\ [Next]_vars =>
        /\ QuietInv'
        /\ \A o \in DOMAIN outbox : Settled(o) => outbox'[o] = outbox[o]
<1> SUFFICES ASSUME QuietInv, [Next]_vars
             PROVE  /\ QuietInv'
                    /\ \A o \in DOMAIN outbox : Settled(o) => outbox'[o] = outbox[o]
  OBVIOUS
<1>1. TypeInv /\ TypeInv'
  BY TypeInvStep DEF QuietInv
<1>2. \A o \in DOMAIN outbox : outbox[o] \in SoundRow
  BY <1>1, ElementOfSeq, LenProperties DEF TypeInv
<1>3. ASSUME NEW o \in DOMAIN outbox, Settled(o) PROVE outbox'[o] = outbox[o]
  <2>1. outbox[o].timer = 0
    BY <1>3 DEF QuietInv
  <2> QED
    BY <1>1, <1>2, <1>3, <2>1, RowStep, QuietRow DEF Settled, Claimable
<1>4. ASSUME NEW o \in DOMAIN outbox, Settled(o)' PROVE outbox'[o].timer = 0
  <2>1. CASE outbox'[o] = outbox[o]
    BY <1>4, <2>1 DEF QuietInv, Settled
  <2>2. ASSUME NEW w \in Workers, outbox'[o] = Leased(outbox[o], w) PROVE FALSE
    BY <1>4, <2>2 DEF Settled, Leased, Row
  <2>3. CASE outbox'[o] \in {Released(outbox[o], "processed", 0), AfterFailure(outbox[o])}
    BY <1>4, <2>3 DEF Settled, Released, AfterFailure, Row
  <2>4. CASE outbox'[o] = [outbox[o] EXCEPT !.timer = Elapsed(@)]
    <3>1. outbox'[o].status = outbox[o].status
      BY <1>2, <2>4 DEF SoundRow, Entry
    <3> QED
      BY <1>3, <1>4, <3>1 DEF QuietInv, Settled
  <2> QED
    BY <1>1, <2>1, <2>2, <2>3, <2>4, RowStep
\* New rows are pending.
<1>5. ASSUME NEW o \in DOMAIN outbox' \ DOMAIN outbox PROVE ~Settled(o)'
  <2>1. CASE AuthorityNext
    <3>1. PICK jobs \in Seq(SoundRow) :
              /\ outbox' = outbox \o jobs
              /\ \A j \in DOMAIN jobs : jobs[j].status = "pending"
      BY <1>1, <2>1, JobsArePending
    <3> QED
      BY <1>1, <1>5, <3>1, AppendedJobs DEF Settled
  <2>2. CASE ~AuthorityNext
    BY <1>1, <1>5, <2>2, WorkStep DEF SameJobs, Next
  <2> QED
    BY <2>1, <2>2
<1> QED
  BY <1>1, <1>3, <1>4, <1>5 DEF QuietInv

\* A settled row is final, however late and in whatever order passes mark their
\* rows (mark_outbox_processed, mark_outbox_failed, claim_outbox).
THEOREM SettledStays == Spec => SettledForGood
<1>1. Init => QuietInv
  BY TypeInvInit DEF Init, QuietInv
<1>2. QuietInv /\ [Next]_vars =>
        [\A o \in DOMAIN outbox : Settled(o) => outbox'[o] = outbox[o]]_vars
  BY QuietStep
<1>3. QuietInv /\ [Next]_vars => QuietInv'
  BY QuietStep
<1> QED
  BY <1>1, <1>2, <1>3, PTL DEF Spec, SettledForGood

\* While a lease runs no other worker gets the row, for any number of workers
\* (claim_outbox).
THEOREM LeasesExclude == Spec => LeaseIsExclusive
<1>1. TypeInv /\ [Next]_vars =>
        [\A o \in DOMAIN outbox :
            outbox[o].status = "processing" /\ outbox[o].timer > 0
                => outbox'[o].owner \in {outbox[o].owner, Nobody}]_vars
  <2> SUFFICES ASSUME TypeInv, [Next]_vars, NEW o \in DOMAIN outbox,
                      outbox[o].status = "processing", outbox[o].timer > 0
               PROVE  outbox'[o].owner \in {outbox[o].owner, Nobody}
    OBVIOUS
  <2>1. outbox[o] \in SoundRow
    BY ElementOfSeq, LenProperties DEF TypeInv
  <2>2. ~Claimable(outbox[o])
    BY <2>1 DEF Claimable, SoundRow, Entry
  <2>3. [outbox[o] EXCEPT !.timer = Elapsed(@)].owner = outbox[o].owner
    BY <2>1 DEF SoundRow, Entry
  <2>4. /\ Released(outbox[o], "processed", 0).owner = Nobody
        /\ AfterFailure(outbox[o]).owner = Nobody
    BY DEF Released, AfterFailure, Row
  <2> QED
    BY <2>2, <2>3, <2>4, RowStep
<1> QED
  BY <1>1, TypeInvAlways, PTL DEF Spec, LeaseIsExclusive

=============================================================================
