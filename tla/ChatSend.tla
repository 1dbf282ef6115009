------------------------------ MODULE ChatSend ------------------------------
(***************************************************************************)
(* ChatService.send_message (app/chat/service.py) on one chat session, by  *)
(* several threads of one or more processes.                               *)
(*                                                                         *)
(* A process keeps one lock per idempotency key in use, in a map that is   *)
(* itself guarded by a lock: looking a lock up and giving it back are one  *)
(* action each. Under the lock of its key a thread writes the question,    *)
(* looks for an answer, asks the model when there is none, writes the      *)
(* answer and, if asked to, remembers the question. The processes share    *)
(* the store only (app/chat/storage.py), whose writes are transactions and *)
(* one action each.                                                        *)
(*                                                                         *)
(* An answer stands for the assistant message with its citations and its   *)
(* audit row, which one transaction writes and one hash compares. Building *)
(* the prompt reads only, except for the summary, which RollingSummary     *)
(* models.                                                                 *)
(***************************************************************************)
EXTENDS Naturals, Sequences, FiniteSets

CONSTANTS
    Callers,      \* threads that serve send_message
    Processes,    \* server processes
    ProcessOf,    \* the process a caller is a thread of
    Keys,         \* idempotency keys of the session
    Texts,        \* what users write
    Answers,      \* what the model, or the fallback, may answer
    Entries,      \* lock objects, one per key and process at least
    None,         \* no text, answer, lock or thread
    Remembers,    \* whether messages ask to be remembered: some, all or none do
    RecallLimit,  \* how many active memories list_memories returns
    MaxMemories,  \* bound: memories ever saved
    MayCrash      \* whether processes may die

ASSUME SendAssumption ==
    /\ IsFiniteSet(Callers)
    /\ ProcessOf \in [Callers -> Processes]
    /\ None \notin Texts \cup Answers \cup Entries \cup Callers
    /\ Remembers \subseteq BOOLEAN
    /\ RecallLimit \in Nat \ {0}
    /\ MaxMemories \in Nat
    /\ MayCrash \in BOOLEAN

VARIABLES
    messages,  \* chat_messages of the session, in sequence_no order
    memories,  \* user_confirmed memory items of the session, oldest first
    entry,     \* _idempotency_locks of each process: key to lock object
    refs,      \* ref_count of each lock object
    holder,    \* the thread that holds the lock
    pc,        \* what each caller does next
    call       \* the call it is busy with

store == <<messages, memories>>
locks == <<entry, refs, holder>>
vars  == <<messages, memories, entry, refs, holder, pc, call>>

Message == [role : {"user", "assistant"}, key : Keys, content : Texts \cup Answers,
            reply : Nat]
Memory == [text : Texts, active : BOOLEAN]
Outcomes == {"none", "ok", "conflict", "error"}
Call == [key : Keys, text : Texts, remember : BOOLEAN, entry : Entries,
         user : Nat, answer : Answers \cup {None}, fresh : BOOLEAN,
         outcome : Outcomes]
Steps == {"idle", "lock", "append", "lookup", "complete", "save", "cite",
          "recall", "remember", "finish", "unlock", "release"}

TypeOK ==
    /\ messages \in Seq(Message)
    /\ memories \in Seq(Memory)
    /\ entry \in [Processes -> [Keys -> Entries \cup {None}]]
    /\ refs \in [Entries -> Nat]
    /\ holder \in [Entries -> Callers \cup {None}]
    /\ pc \in [Callers -> Steps]
    /\ \A c \in Callers : pc[c] # "idle" => call[c] \in Call

Init ==
    /\ messages = <<>>
    /\ memories = <<>>
    /\ entry = [p \in Processes |-> [k \in Keys |-> None]]
    /\ refs = [e \in Entries |-> 0]
    /\ holder = [e \in Entries |-> None]
    /\ pc = [c \in Callers |-> "idle"]
    /\ call = [c \in Callers |-> None]

-----------------------------------------------------------------------------
(* The lock of a key.                                                      *)

\* Lock objects nobody has a reference to.
Unused ==
    {e \in Entries :
        /\ \A p \in Processes, k \in Keys : entry[p][k] # e
        /\ \A c \in Callers : pc[c] # "idle" => call[c].entry # e}

EntriesFor(p, k) == IF entry[p][k] = None THEN Unused ELSE {entry[p][k]}

NewCall(k, t, remember, e) ==
    [key |-> k, text |-> t, remember |-> remember, entry |-> e,
     user |-> 0, answer |-> None, fresh |-> FALSE, outcome |-> "none"]

\* send_message up to the lock: _acquire_idempotency_entry
Begin(c, k, t, remember) ==
    /\ pc[c] = "idle"
    /\ \E e \in EntriesFor(ProcessOf[c], k) :
        /\ entry' = [entry EXCEPT ![ProcessOf[c]][k] = e]
        /\ refs' = [refs EXCEPT ![e] = @ + 1]
        /\ call' = [call EXCEPT ![c] = NewCall(k, t, remember, e)]
    /\ pc' = [pc EXCEPT ![c] = "lock"]
    /\ UNCHANGED <<store, holder>>

\* Mutant: the body does not run under the lock of the key.
AlwaysFree(e) == e \in Entries

Free(e) == holder[e] = None

TakeLock(c) ==
    /\ pc[c] = "lock"
    /\ Free(call[c].entry)
    /\ holder' = [holder EXCEPT ![call[c].entry] = c]
    /\ pc' = [pc EXCEPT ![c] = "append"]
    /\ UNCHANGED <<store, entry, refs, call>>

\* Leaving the with block, by return or by exception.
Unlock(c) ==
    /\ pc[c] = "unlock"
    /\ holder' = [holder EXCEPT ![call[c].entry] = None]
    /\ pc' = [pc EXCEPT ![c] = "release"]
    /\ UNCHANGED <<store, entry, refs, call>>

\* Mutant: the entry goes whoever else uses it.
DroppedWhenFree(e, n) == Free(e)

\* The entry has no user left.
Droppable(e, n) == n = 0 /\ Free(e)

\* _release_idempotency_entry; then the call returns or raises.
Release(c) ==
    LET p == ProcessOf[c]
        k == call[c].key
        e == call[c].entry
    IN  /\ pc[c] = "release"
        /\ IF entry[p][k] # e THEN UNCHANGED <<entry, refs>>
           ELSE /\ refs' = [refs EXCEPT ![e] = @ - 1]
                /\ entry' = IF Droppable(e, refs[e] - 1)
                            THEN [entry EXCEPT ![p][k] = None] ELSE entry
        /\ pc' = [pc EXCEPT ![c] = "idle"]
        /\ call' = [call EXCEPT ![c] = None]
        /\ UNCHANGED <<store, holder>>

-----------------------------------------------------------------------------
(* The store.                                                              *)

\* The message with idempotency key role:k, of which there is at most one.
Stored(role, k) ==
    {i \in DOMAIN messages : messages[i].role = role /\ messages[i].key = k}

Answered(k) == Stored("assistant", k) # {}

\* Mutant: a key that is known is a replay, whatever comes with it.
AnyMessage(i, content, reply) == TRUE

\* Mutant: what is hashed changes from one try to the next.
HashVaries(i, content, reply) == FALSE

\* A replay must agree with what is stored in all that was hashed.
SameMessage(i, content, reply) ==
    messages[i].content = content /\ messages[i].reply = reply

Goes(c, step) == pc' = [pc EXCEPT ![c] = step]

\* Mutant: an exception skips the unlocking.
LeavesLocked(c, outcome) ==
    /\ pc' = [pc EXCEPT ![c] = IF outcome = "ok" THEN "unlock" ELSE "release"]
    /\ call' = [call EXCEPT ![c].outcome = outcome]

Ends(c, outcome) ==
    /\ pc' = [pc EXCEPT ![c] = "unlock"]
    /\ call' = [call EXCEPT ![c].outcome = outcome]

\* Where a call that has its answer goes: promotion is on request.
AfterAnswer(c) == IF call[c].remember THEN "recall" ELSE "finish"

\* append_message: the question.
AppendUser(c) ==
    /\ pc[c] = "append"
    /\ UNCHANGED <<memories, locks>>
    /\ \/ /\ Stored("user", call[c].key) = {}
          /\ messages' = Append(messages, [role |-> "user", key |-> call[c].key,
                                           content |-> call[c].text, reply |-> 0])
          /\ call' = [call EXCEPT ![c].user = Len(messages) + 1]
          /\ Goes(c, "lookup")
       \/ \E i \in Stored("user", call[c].key) :
            /\ UNCHANGED messages
            /\ IF SameMessage(i, call[c].text, 0)
               THEN /\ call' = [call EXCEPT ![c].user = i]
                    /\ Goes(c, "lookup")
               ELSE Ends(c, "conflict")

\* get_message_by_idempotency_key: is there an answer already?
Lookup(c) ==
    /\ pc[c] = "lookup"
    /\ UNCHANGED <<store, locks>>
    /\ \/ /\ ~Answered(call[c].key)
          /\ Goes(c, "complete")
          /\ UNCHANGED call
       \/ \E i \in Stored("assistant", call[c].key) :
            /\ call' = [call EXCEPT ![c].answer = messages[i].content]
            /\ Goes(c, AfterAnswer(c))

\* The model answers, or fails and the fallback answers.
Complete(c, a) ==
    /\ pc[c] = "complete"
    /\ call' = [call EXCEPT ![c].answer = a, ![c].fresh = TRUE]
    /\ Goes(c, "save")
    /\ UNCHANGED <<store, locks>>

\* The message the answer refers to, which must be a user's.
ReplyTarget(c) == call[c].user

\* save_assistant_message_with_citations
SaveAnswer(c) ==
    /\ pc[c] = "save"
    /\ UNCHANGED <<memories, locks>>
    /\ \/ /\ ~Answered(call[c].key)
          /\ messages' = Append(messages,
                [role |-> "assistant", key |-> call[c].key,
                 content |-> call[c].answer, reply |-> ReplyTarget(c)])
          /\ UNCHANGED call
          /\ Goes(c, "cite")
       \/ \E i \in Stored("assistant", call[c].key) :
            /\ UNCHANGED messages
            /\ IF SameMessage(i, call[c].answer, ReplyTarget(c))
               THEN /\ call' = [call EXCEPT ![c].answer = messages[i].content]
                    /\ Goes(c, "cite")
               ELSE Ends(c, "conflict")

\* list_citations of a fresh answer
Cite(c) ==
    /\ pc[c] = "cite"
    /\ Goes(c, AfterAnswer(c))
    /\ UNCHANGED <<store, locks, call>>

\* The newest active memories, as many as list_memories returns.
Recalled ==
    {i \in DOMAIN memories :
        /\ memories[i].active
        /\ Cardinality({j \in DOMAIN memories : j > i /\ memories[j].active})
              < RecallLimit}

\* Mutant: nobody looks whether the memory is there already.
NeverKnown(t) == FALSE

Known(t) == \E i \in Recalled : memories[i].text = t

\* Mutant: the answer is remembered.
AnswerGiven(c) == call[c].answer

\* What a promotion remembers: the user's words.
UserWords(c) == call[c].text

\* _promote_user_memory_best_effort, first half: list_memories
Recall(c) ==
    /\ pc[c] = "recall"
    /\ Goes(c, IF Known(UserWords(c)) THEN "finish" ELSE "remember")
    /\ UNCHANGED <<store, locks, call>>

\* Second half: save_memory
Remember(c) ==
    /\ pc[c] = "remember"
    /\ Len(memories) < MaxMemories
    /\ memories' = Append(memories, [text |-> UserWords(c), active |-> TRUE])
    /\ Goes(c, "finish")
    /\ UNCHANGED <<messages, locks, call>>

\* Promotion is best effort: an exception in it is dropped.
PromotionFails(c) ==
    /\ pc[c] \in {"recall", "remember"}
    /\ Goes(c, "finish")
    /\ UNCHANGED <<store, locks, call>>

\* The summary refresh of a fresh answer, which cannot fail the call, or the
\* list_citations of a replayed one.
Finish(c) ==
    /\ pc[c] = "finish"
    /\ Ends(c, "ok")
    /\ UNCHANGED <<store, locks>>

\* A call of the store raises: a replay reads its citations last.
StoreFails(c) ==
    /\ \/ pc[c] \in {"append", "lookup", "save", "cite"}
       \/ pc[c] = "finish" /\ ~call[c].fresh
    /\ Ends(c, "error")
    /\ UNCHANGED <<store, locks>>

\* A user withdraws a memory (expire_memory).
Forget(i) ==
    /\ memories[i].active
    /\ memories' = [memories EXCEPT ![i].active = FALSE]
    /\ UNCHANGED <<messages, locks, pc, call>>

ThreadsOf(p) == {c \in Callers : ProcessOf[c] = p}
LocksOf(p) == {entry[p][k] : k \in Keys}

\* A process dies, with its threads and its locks. The store stays.
Crash(p) ==
    /\ MayCrash
    /\ \E c \in ThreadsOf(p) : pc[c] # "idle"
    /\ pc' = [c \in Callers |-> IF c \in ThreadsOf(p) THEN "idle" ELSE pc[c]]
    /\ call' = [c \in Callers |-> IF c \in ThreadsOf(p) THEN None ELSE call[c]]
    /\ entry' = [entry EXCEPT ![p] = [k \in Keys |-> None]]
    /\ refs' = [e \in Entries |-> IF e \in LocksOf(p) THEN 0 ELSE refs[e]]
    /\ holder' = [e \in Entries |-> IF e \in LocksOf(p) THEN None ELSE holder[e]]
    /\ UNCHANGED store

-----------------------------------------------------------------------------

Arrives(c) == \E k \in Keys, t \in Texts, r \in Remembers : Begin(c, k, t, r)

\* What a call does once it is under way.
Proceeds(c) ==
    \/ TakeLock(c) \/ AppendUser(c) \/ Lookup(c)
    \/ \E a \in Answers : Complete(c, a)
    \/ SaveAnswer(c) \/ Cite(c) \/ Recall(c) \/ Remember(c) \/ PromotionFails(c)
    \/ Finish(c) \/ StoreFails(c) \/ Unlock(c) \/ Release(c)

Next ==
    \/ \E c \in Callers : Arrives(c) \/ Proceeds(c)
    \/ \E i \in DOMAIN memories : Forget(i)
    \/ \E p \in Processes : Crash(p)

Spec == Init /\ [][Next]_vars

\* A thread that is not blocked is scheduled in the end.
Fairness == \A c \in Callers : WF_vars(Proceeds(c))

FairSpec == Spec /\ Fairness
-----------------------------------------------------------------------------
(* Properties.                                                             *)

Inside == {"append", "lookup", "complete", "save", "cite", "recall", "remember",
           "finish", "unlock"}

UsersOf(p, k) ==
    {c \in ThreadsOf(p) : pc[c] # "idle" /\ call[c].key = k}

\* Locks are made, counted, dropped and made again while calls come and go:
\* still, two threads of a process are never inside the body for one key. The map
\* holds the lock of a key exactly while a call uses the key, and every such call
\* uses that lock object: nothing leaks, nothing is dropped early.
OneThreadPerKey ==
    \A p \in Processes, k \in Keys :
        /\ \A c, d \in UsersOf(p, k) : pc[c] \in Inside /\ pc[d] \in Inside => c = d
        /\ IF UsersOf(p, k) = {} THEN entry[p][k] = None
           ELSE /\ \A c \in UsersOf(p, k) : entry[p][k] = call[c].entry
                /\ refs[entry[p][k]] = Cardinality(UsersOf(p, k))

\* One process: the model is asked about a key only while the key has no
\* answer, so that a question is answered, and paid for, once, however many
\* duplicates run, fail, crash and are sent again.
AskedOnlyUnanswered ==
    \A c \in Callers : pc[c] \in {"complete", "save"} => ~Answered(call[c].key)

\* One process: a call is refused as a conflict only when its key was used for
\* another text. (A second process may lose the race to save its answer.)
ConflictMeansOtherText ==
    \A c \in Callers :
        pc[c] # "idle" /\ call[c].outcome = "conflict"
        => \E i \in Stored("user", call[c].key) : messages[i].content # call[c].text

\* One process, few memories: a text is remembered at most once per key it was
\* sent under, although the check and the save of a promotion are apart and
\* retries promote again.
RememberedOncePerKey ==
    \A t \in Texts :
        Cardinality({i \in DOMAIN memories : memories[i].text = t /\ memories[i].active})
        <= Cardinality({i \in DOMAIN messages :
                            messages[i].role = "user" /\ messages[i].content = t})

\* The message log, read as questions and answers, implements the exchange.
FirstContent(role, k) ==
    IF Stored(role, k) = {} THEN None
    ELSE messages[CHOOSE i \in Stored(role, k) : \A j \in Stored(role, k) : i <= j].content

Returning(c) == pc[c] \in {"unlock", "release"} /\ call[c].outcome = "ok"
Returned(c) ==
    [key |-> call[c].key, text |-> call[c].text, answer |-> call[c].answer]

Exchange == INSTANCE ChatExchange
    WITH question <- [k \in Keys |-> FirstContent("user", k)],
         answer   <- [k \in Keys |-> FirstContent("assistant", k)],
         telling  <- {Returned(c) : c \in {d \in Callers : Returning(d)}}

\* Whatever the processes, races, failures and crashes: a key has one question
\* and one answer, both final, and nobody is told anything else.
ImplementsExchange == Exchange!Spec

\* Callers stop sending at some point.
SendingStops == <>[][\A c \in Callers : ~Arrives(c)]_vars

\* Every call returns, whichever locks it waits for: no call waits on a lock
\* that nobody gives back.
EveryCallReturns ==
    SendingStops => \A c \in Callers : pc[c] # "idle" ~> pc[c] = "idle"

=============================================================================
