--------------------------- MODULE ChatSend_proofs ---------------------------
(***************************************************************************)
(* What holds of ChatSend for every set of threads, processes, keys, texts *)
(* and answers.                                                            *)
(***************************************************************************)
EXTENDS ChatSend, FiniteSetTheorems, TLAPS

\* The calls that hold a reference to a lock object.
EntryUsers(e) == {c \in Callers : pc[c] # "idle" /\ call[c].entry = e}

\* What TypeOK leaves open of calls.
CallsFit ==
    /\ call \in [Callers -> Call \cup {None}]
    /\ \A c \in Callers : pc[c] = "save" => call[c].answer \in Answers

\* A call finds the lock of its key in the map and is counted there; what is in
\* the map is in use, under one key of one process; a lock is held by exactly
\* the call inside the body.
LocksAgree ==
    /\ \A c \in Callers :
        pc[c] # "idle" => entry[ProcessOf[c]][call[c].key] = call[c].entry
    /\ \A e \in Entries : refs[e] = Cardinality(EntryUsers(e))
    /\ \A p \in Processes, k \in Keys : entry[p][k] # None => UsersOf(p, k) # {}
    /\ \A p, q \in Processes, k, j \in Keys :
        entry[p][k] = entry[q][j] /\ entry[p][k] # None => p = q /\ k = j
    /\ \A e \in Entries :
        holder[e] # None => pc[holder[e]] \in Inside /\ call[holder[e]].entry = e
    /\ \A c \in Callers : pc[c] \in Inside => holder[call[c].entry] = c

\* A key has at most one question, which refers to nothing, and one answer.
LogFits ==
    /\ \A i \in DOMAIN messages :
        IF messages[i].role = "user"
        THEN messages[i].content \in Texts /\ messages[i].reply = 0
        ELSE messages[i].content \in Answers
    /\ \A i, j \in DOMAIN messages :
        messages[i].role = messages[j].role /\ messages[i].key = messages[j].key => i = j

LInv == TypeOK /\ CallsFit /\ LocksAgree /\ LogFits

-----------------------------------------------------------------------------
(* The lock of a key.                                                      *)

LEMMA UsersFinite ==
    ASSUME NEW e
    PROVE  IsFiniteSet(EntryUsers(e)) /\ IsFiniteSet(EntryUsers(e)')
<1>1. EntryUsers(e) \in SUBSET Callers /\ EntryUsers(e)' \in SUBSET Callers
  BY DEF EntryUsers
<1> QED
  BY <1>1, SendAssumption, FS_Subset

\* A thread inside the body that stays inside, on the same key.
LEMMA BodyKeepsLocks ==
    ASSUME LInv, NEW c \in Callers, NEW s \in Inside,
           pc[c] \in Inside, pc' = [pc EXCEPT ![c] = s],
           call'[c].key = call[c].key, call'[c].entry = call[c].entry,
           \A d \in Callers \ {c} : call'[d] = call[d],
           UNCHANGED locks
    PROVE  LocksAgree'
<1>1. /\ \A d \in Callers : /\ pc[d] # "idle" <=> pc'[d] # "idle"
                            /\ pc[d] \in Inside <=> pc'[d] \in Inside
                            /\ call'[d].key = call[d].key
                            /\ call'[d].entry = call[d].entry
      /\ entry' = entry /\ refs' = refs /\ holder' = holder
  BY DEF LInv, TypeOK, Inside, locks
<1>2. \A e \in Entries : EntryUsers(e)' = EntryUsers(e)
  BY <1>1 DEF EntryUsers
<1>3. \A p \in Processes, k \in Keys : UsersOf(p, k)' = UsersOf(p, k)
  BY <1>1 DEF UsersOf, ThreadsOf
<1>4. \A e \in Entries : holder[e] # None => holder[e] \in Callers
  BY DEF LInv, TypeOK
<1> QED
  BY <1>1, <1>2, <1>3, <1>4 DEF LInv, LocksAgree

LEMMA BeginKeepsLocks ==
    ASSUME LInv, NEW c \in Callers, NEW k \in Keys, NEW t \in Texts,
           NEW r \in BOOLEAN, Begin(c, k, t, r)
    PROVE  TypeOK' /\ CallsFit' /\ LocksAgree'
<1> DEFINE p == ProcessOf[c]
<1>p. p \in Processes
  BY SendAssumption
<1>1. PICK e \in EntriesFor(p, k) :
        /\ entry' = [entry EXCEPT ![p][k] = e]
        /\ refs' = [refs EXCEPT ![e] = @ + 1]
        /\ call' = [call EXCEPT ![c] = NewCall(k, t, r, e)]
  BY DEF Begin
<1>2. /\ pc[c] = "idle" /\ pc' = [pc EXCEPT ![c] = "lock"]
      /\ messages' = messages /\ memories' = memories /\ holder' = holder
  BY DEF Begin, store
<1>3. e \in Entries /\ e # None
  BY <1>p, SendAssumption DEF EntriesFor, Unused, LInv, TypeOK
<1>4. NewCall(k, t, r, e) \in Call
  BY <1>3 DEF NewCall, Call, Outcomes
<1>5. TypeOK'
  BY <1>p, <1>1, <1>2, <1>3, <1>4 DEF LInv, TypeOK, CallsFit, Steps
<1>6. CallsFit'
  BY <1>1, <1>2, <1>4 DEF LInv, TypeOK, CallsFit
<1>7. /\ \A d \in Callers \ {c} : call'[d] = call[d] /\ pc'[d] = pc[d]
      /\ pc'[c] = "lock" /\ call'[c].key = k /\ call'[c].entry = e
      /\ \A q \in Processes, j \in Keys :
            entry'[q][j] = IF q = p /\ j = k THEN e ELSE entry[q][j]
      /\ \A f \in Entries : refs'[f] = IF f = e THEN refs[e] + 1 ELSE refs[f]
  BY <1>p, <1>1, <1>2, <1>3 DEF LInv, TypeOK, CallsFit, NewCall
\* Either the entry is found, or nobody knew it.
<1>8. \/ entry[p][k] = e
      \/ /\ entry[p][k] = None
         /\ \A q \in Processes, j \in Keys : entry[q][j] # e
         /\ \A d \in Callers : pc[d] # "idle" => call[d].entry # e
  BY <1>p, <1>1 DEF EntriesFor, Unused
<1>9. \A d \in Callers : pc'[d] # "idle" => entry'[ProcessOf[d]][call'[d].key] = call'[d].entry
  <2> SUFFICES ASSUME NEW d \in Callers, pc'[d] # "idle"
               PROVE  entry'[ProcessOf[d]][call'[d].key] = call'[d].entry
    OBVIOUS
  <2>1. CASE d = c
    BY <2>1, <1>p, <1>7
  <2>2. CASE d # c
    <3>1. /\ ProcessOf[d] \in Processes /\ call[d].key \in Keys
          /\ call'[d] = call[d] /\ entry[ProcessOf[d]][call[d].key] = call[d].entry
          /\ pc[d] # "idle"
      BY <2>2, <1>7, SendAssumption DEF LInv, TypeOK, Call, LocksAgree
    <3>2. CASE ProcessOf[d] = p /\ call[d].key = k
      <4>1. entry[p][k] = call[d].entry /\ call[d].entry # None
        BY <3>1, <3>2, SendAssumption DEF LInv, TypeOK, Call
      <4> QED
        BY <3>1, <3>2, <4>1, <1>7, <1>8
    <3>3. CASE ~(ProcessOf[d] = p /\ call[d].key = k)
      BY <3>1, <3>3, <1>7
    <3> QED
      BY <3>2, <3>3
  <2> QED
    BY <2>1, <2>2
<1>10. \A f \in Entries : refs'[f] = Cardinality(EntryUsers(f)')
  <2> SUFFICES ASSUME NEW f \in Entries PROVE refs'[f] = Cardinality(EntryUsers(f)')
    OBVIOUS
  <2>1. CASE f = e
    <3>1. EntryUsers(f)' = EntryUsers(f) \cup {c} /\ c \notin EntryUsers(f)
      BY <2>1, <1>2, <1>7 DEF EntryUsers
    <3>2. Cardinality(EntryUsers(f)') = Cardinality(EntryUsers(f)) + 1
      BY <3>1, UsersFinite, FS_AddElement
    <3> QED
      BY <2>1, <3>2, <1>7 DEF LInv, LocksAgree
  <2>2. CASE f # e
    <3>1. EntryUsers(f)' = EntryUsers(f)
      BY <2>2, <1>2, <1>7 DEF EntryUsers
    <3> QED
      BY <2>2, <3>1, <1>7 DEF LInv, LocksAgree
  <2> QED
    BY <2>1, <2>2
<1>11. \A q \in Processes, j \in Keys : entry'[q][j] # None => UsersOf(q, j)' # {}
  <2> SUFFICES ASSUME NEW q \in Processes, NEW j \in Keys, entry'[q][j] # None
               PROVE  \E d \in Callers : ProcessOf[d] = q /\ pc'[d] # "idle" /\ call'[d].key = j
    BY DEF UsersOf, ThreadsOf
  <2>1. CASE q = p /\ j = k
    BY <2>1, <1>7
  <2>2. CASE ~(q = p /\ j = k)
    <3>1. PICK d \in Callers : ProcessOf[d] = q /\ pc[d] # "idle" /\ call[d].key = j
      BY <2>2, <1>7 DEF LInv, LocksAgree, UsersOf, ThreadsOf
    <3> QED
      BY <3>1, <1>2, <1>7
  <2> QED
    BY <2>1, <2>2
<1>12. \A q, o \in Processes, i, j \in Keys :
        entry'[q][i] = entry'[o][j] /\ entry'[q][i] # None => q = o /\ i = j
  BY <1>p, <1>3, <1>7, <1>8 DEF LInv, LocksAgree
<1>13. \A f \in Entries : holder'[f] # None =>
        pc'[holder'[f]] \in Inside /\ call'[holder'[f]].entry = f
  BY <1>2, <1>7 DEF LInv, TypeOK, LocksAgree, Inside
<1>14. \A d \in Callers : pc'[d] \in Inside => holder'[call'[d].entry] = d
  BY <1>2, <1>7 DEF LInv, LocksAgree, Inside
<1> QED
  BY <1>5, <1>6, <1>9, <1>10, <1>11, <1>12, <1>13, <1>14 DEF LocksAgree

LEMMA TakeLockKeepsLocks ==
    ASSUME LInv, NEW c \in Callers, TakeLock(c)
    PROVE  TypeOK' /\ CallsFit' /\ LocksAgree'
<1> DEFINE e == call[c].entry
<1>1. /\ pc[c] = "lock" /\ holder[e] = None
      /\ holder' = [holder EXCEPT ![e] = c] /\ pc' = [pc EXCEPT ![c] = "append"]
      /\ UNCHANGED <<messages, memories, entry, refs, call>>
  BY DEF TakeLock, Free, store
<1>2. e \in Entries
  BY <1>1 DEF LInv, TypeOK, Call
<1>3. TypeOK'
  BY <1>1, <1>2 DEF LInv, TypeOK, Steps
<1>4. CallsFit'
  BY <1>1 DEF LInv, TypeOK, CallsFit
<1>5. /\ \A d \in Callers \ {c} : pc'[d] = pc[d]
      /\ pc'[c] = "append"
      /\ \A f \in Entries : holder'[f] = IF f = e THEN c ELSE holder[f]
  BY <1>1, <1>2 DEF LInv, TypeOK
<1>6. \A f \in Entries : EntryUsers(f)' = EntryUsers(f)
  BY <1>1, <1>5 DEF EntryUsers
<1>7. \A p \in Processes, k \in Keys : UsersOf(p, k)' = UsersOf(p, k)
  BY <1>1, <1>5 DEF UsersOf, ThreadsOf
<1>8. \A f \in Entries : holder'[f] # None =>
        pc'[holder'[f]] \in Inside /\ call'[holder'[f]].entry = f
  BY <1>1, <1>5 DEF LInv, TypeOK, LocksAgree, Inside
<1>9. \A d \in Callers : pc'[d] \in Inside => holder'[call'[d].entry] = d
  <2> SUFFICES ASSUME NEW d \in Callers, d # c, pc[d] \in Inside
               PROVE  holder'[call[d].entry] = d
    BY <1>1, <1>2, <1>5
  <2>1. holder[call[d].entry] = d /\ call[d].entry \in Entries
    BY DEF LInv, LocksAgree, TypeOK, Call, Inside
  <2> QED
    BY <2>1, <1>1, <1>5, SendAssumption
<1> QED
  BY <1>1, <1>3, <1>4, <1>5, <1>6, <1>7, <1>8, <1>9 DEF LInv, LocksAgree

LEMMA UnlockKeepsLocks ==
    ASSUME LInv, NEW c \in Callers, Unlock(c)
    PROVE  TypeOK' /\ CallsFit' /\ LocksAgree'
<1> DEFINE e == call[c].entry
<1>1. /\ pc[c] = "unlock"
      /\ holder' = [holder EXCEPT ![e] = None] /\ pc' = [pc EXCEPT ![c] = "release"]
      /\ UNCHANGED <<messages, memories, entry, refs, call>>
  BY DEF Unlock, store
<1>2. e \in Entries /\ holder[e] = c
  BY <1>1 DEF LInv, TypeOK, Call, LocksAgree, Inside
<1>3. TypeOK'
  BY <1>1, <1>2 DEF LInv, TypeOK, Steps
<1>4. CallsFit'
  BY <1>1 DEF LInv, TypeOK, CallsFit
<1>5. /\ \A d \in Callers \ {c} : pc'[d] = pc[d]
      /\ pc'[c] = "release"
      /\ \A f \in Entries : holder'[f] = IF f = e THEN None ELSE holder[f]
  BY <1>1, <1>2 DEF LInv, TypeOK
<1>6. \A f \in Entries : EntryUsers(f)' = EntryUsers(f)
  BY <1>1, <1>5 DEF EntryUsers
<1>7. \A p \in Processes, k \in Keys : UsersOf(p, k)' = UsersOf(p, k)
  BY <1>1, <1>5 DEF UsersOf, ThreadsOf
<1>8. \A f \in Entries : holder'[f] # None =>
        pc'[holder'[f]] \in Inside /\ call'[holder'[f]].entry = f
  BY <1>1, <1>2, <1>5 DEF LInv, TypeOK, LocksAgree
<1>9. \A d \in Callers : pc'[d] \in Inside => holder'[call'[d].entry] = d
  <2> SUFFICES ASSUME NEW d \in Callers, d # c, pc[d] \in Inside
               PROVE  holder'[call[d].entry] = d
    BY <1>1, <1>5 DEF Inside
  <2>1. holder[call[d].entry] = d /\ call[d].entry \in Entries
    BY DEF LInv, LocksAgree, TypeOK, Call, Inside
  <2> QED
    BY <2>1, <1>2, <1>5
<1> QED
  BY <1>1, <1>3, <1>4, <1>5, <1>6, <1>7, <1>8, <1>9 DEF LInv, LocksAgree

\* The entry is the one that was taken, and goes exactly with its last user.
LEMMA ReleaseKeepsLocks ==
    ASSUME LInv, NEW c \in Callers, Release(c)
    PROVE  TypeOK' /\ CallsFit' /\ LocksAgree'
<1>0. /\ pc[c] = "release" /\ call[c] \in Call /\ ProcessOf[c] \in Processes
      /\ entry[ProcessOf[c]][call[c].key] = call[c].entry
  BY SendAssumption DEF Release, LInv, TypeOK, LocksAgree
<1>1. PICK p \in Processes, k \in Keys, e \in Entries :
        /\ p = ProcessOf[c] /\ k = call[c].key /\ e = call[c].entry
        /\ e # None /\ entry[p][k] = e
  BY <1>0, SendAssumption DEF Call
<1>2. /\ refs' = [refs EXCEPT ![e] = @ - 1]
      /\ entry' = IF Droppable(e, refs[e] - 1) THEN [entry EXCEPT ![p][k] = None] ELSE entry
      /\ pc' = [pc EXCEPT ![c] = "idle"] /\ call' = [call EXCEPT ![c] = None]
      /\ UNCHANGED <<messages, memories, holder>>
  BY <1>0, <1>1 DEF Release, store
<1>3. EntryUsers(e)' = EntryUsers(e) \ {c} /\ c \in EntryUsers(e)
  BY <1>0, <1>1, <1>2 DEF EntryUsers, LInv, TypeOK, CallsFit
<1>4. /\ Cardinality(EntryUsers(e)) \in Nat
      /\ Cardinality(EntryUsers(e)) # 0
      /\ Cardinality(EntryUsers(e)') = Cardinality(EntryUsers(e)) - 1
  BY <1>3, UsersFinite, FS_RemoveElement, FS_CardinalityType, FS_EmptySet
<1>5. refs[e] = Cardinality(EntryUsers(e))
  BY <1>1 DEF LInv, LocksAgree
<1>6. refs[e] - 1 \in Nat
  BY <1>4, <1>5
<1>7. TypeOK'
  <2>1. refs' \in [Entries -> Nat] /\ pc' \in [Callers -> Steps]
    BY <1>1, <1>2, <1>6 DEF LInv, TypeOK, Steps
  <2>2. entry' \in [Processes -> [Keys -> Entries \cup {None}]]
    BY <1>1, <1>2 DEF LInv, TypeOK
  <2>3. \A d \in Callers : pc'[d] # "idle" => call'[d] \in Call
    BY <1>2 DEF LInv, TypeOK, CallsFit
  <2> QED
    BY <2>1, <2>2, <2>3, <1>2 DEF LInv, TypeOK
<1>8. CallsFit'
  BY <1>2 DEF LInv, TypeOK, CallsFit
<1>9. /\ \A d \in Callers \ {c} : call'[d] = call[d] /\ pc'[d] = pc[d]
      /\ pc'[c] = "idle"
      /\ \A f \in Entries : refs'[f] = IF f = e THEN refs[e] - 1 ELSE refs[f]
  BY <1>1, <1>2 DEF LInv, TypeOK, CallsFit
\* Nobody is inside on an entry without users.
<1>10. Droppable(e, refs[e] - 1) <=> EntryUsers(e)' = {}
  <2>1. EntryUsers(e)' = {} <=> refs[e] - 1 = 0
    BY <1>4, <1>5, UsersFinite, FS_EmptySet
  <2>2. ASSUME EntryUsers(e)' = {}, holder[e] # None PROVE FALSE
    <3>1. /\ holder[e] \in Callers /\ pc[holder[e]] \in Inside
          /\ call[holder[e]].entry = e
      BY <2>2 DEF LInv, TypeOK, LocksAgree
    <3>2. holder[e] \in EntryUsers(e) /\ holder[e] # c
      BY <3>1, <1>0 DEF EntryUsers, Inside
    <3> QED
      BY <2>2, <3>2, <1>3
  <2> QED
    BY <2>1, <2>2 DEF Droppable, Free
<1>11. \A q \in Processes, j \in Keys :
        entry'[q][j] = IF EntryUsers(e)' = {} /\ q = p /\ j = k THEN None ELSE entry[q][j]
  BY <1>1, <1>2, <1>10 DEF LInv, TypeOK
<1>12. \A d \in Callers : pc'[d] # "idle" => entry'[ProcessOf[d]][call'[d].key] = call'[d].entry
  <2> SUFFICES ASSUME NEW d \in Callers, d # c, pc[d] # "idle"
               PROVE  entry'[ProcessOf[d]][call[d].key] = call[d].entry
    BY <1>9
  <2>1. /\ ProcessOf[d] \in Processes /\ call[d].key \in Keys
        /\ entry[ProcessOf[d]][call[d].key] = call[d].entry
    BY SendAssumption DEF LInv, TypeOK, Call, LocksAgree
  <2>2. ProcessOf[d] = p /\ call[d].key = k => d \in EntryUsers(e)'
    BY <2>1, <1>1, <1>9 DEF EntryUsers
  <2> QED
    BY <2>1, <2>2, <1>11
<1>13. \A f \in Entries : refs'[f] = Cardinality(EntryUsers(f)')
  <2> SUFFICES ASSUME NEW f \in Entries PROVE refs'[f] = Cardinality(EntryUsers(f)')
    OBVIOUS
  <2>1. CASE f = e
    BY <2>1, <1>4, <1>5, <1>9
  <2>2. CASE f # e
    <3>1. EntryUsers(f)' = EntryUsers(f)
      BY <2>2, <1>1, <1>9 DEF EntryUsers
    <3> QED
      BY <2>2, <3>1, <1>9 DEF LInv, LocksAgree
  <2> QED
    BY <2>1, <2>2
<1>14. \A q \in Processes, j \in Keys : entry'[q][j] # None => UsersOf(q, j)' # {}
  <2> SUFFICES ASSUME NEW q \in Processes, NEW j \in Keys, entry'[q][j] # None
               PROVE  \E d \in Callers : ProcessOf[d] = q /\ pc'[d] # "idle" /\ call'[d].key = j
    BY DEF UsersOf, ThreadsOf
  <2>1. CASE q = p /\ j = k
    <3>1. PICK d \in EntryUsers(e)' : TRUE
      BY <2>1, <1>11
    <3>2. d \in Callers /\ d # c /\ pc[d] # "idle" /\ call[d].entry = e
      BY <3>1, <1>3 DEF EntryUsers
    <3>3. /\ ProcessOf[d] \in Processes /\ call[d].key \in Keys
          /\ entry[ProcessOf[d]][call[d].key] = e
      BY <3>2, SendAssumption DEF LInv, TypeOK, Call, LocksAgree
    <3>4. ProcessOf[d] = p /\ call[d].key = k
      BY <3>3, <1>1 DEF LInv, LocksAgree
    <3> QED
      BY <2>1, <3>2, <3>4, <1>9
  <2>2. CASE ~(q = p /\ j = k)
    <3>1. PICK d \in Callers : ProcessOf[d] = q /\ pc[d] # "idle" /\ call[d].key = j
      BY <2>2, <1>11 DEF LInv, LocksAgree, UsersOf, ThreadsOf
    <3>2. d # c
      BY <2>2, <3>1, <1>1
    <3> QED
      BY <3>1, <3>2, <1>9
  <2> QED
    BY <2>1, <2>2
<1>15. \A q, o \in Processes, i, j \in Keys :
        entry'[q][i] = entry'[o][j] /\ entry'[q][i] # None => q = o /\ i = j
  BY <1>11 DEF LInv, LocksAgree
<1>16. \A f \in Entries : holder'[f] # None =>
        pc'[holder'[f]] \in Inside /\ call'[holder'[f]].entry = f
  BY <1>0, <1>2, <1>9 DEF LInv, TypeOK, LocksAgree, Inside
<1>17. \A d \in Callers : pc'[d] \in Inside => holder'[call'[d].entry] = d
  BY <1>2, <1>9 DEF LInv, LocksAgree, Inside
<1> QED
  BY <1>7, <1>8, <1>12, <1>13, <1>14, <1>15, <1>16, <1>17 DEF LocksAgree

LEMMA CrashKeepsLocks ==
    ASSUME LInv, NEW p \in Processes, Crash(p)
    PROVE  TypeOK' /\ CallsFit' /\ LocksAgree'
<1>1. /\ \A c \in Callers : /\ pc'[c] = IF ProcessOf[c] = p THEN "idle" ELSE pc[c]
                            /\ call'[c] = IF ProcessOf[c] = p THEN None ELSE call[c]
      /\ \A q \in Processes, k \in Keys : entry'[q][k] = IF q = p THEN None ELSE entry[q][k]
      /\ \A e \in Entries : /\ refs'[e] = IF e \in LocksOf(p) THEN 0 ELSE refs[e]
                            /\ holder'[e] = IF e \in LocksOf(p) THEN None ELSE holder[e]
  BY DEF Crash, ThreadsOf, LInv, TypeOK
<1>2. TypeOK' /\ CallsFit'
  <2>1. messages' = messages /\ memories' = memories
    BY DEF Crash, store
  <2>2. pc' \in [Callers -> Steps]
    BY DEF Crash, LInv, TypeOK, Steps
  <2>3. call' \in [Callers -> Call \cup {None}]
    BY DEF Crash, LInv, CallsFit
  <2>4. entry' \in [Processes -> [Keys -> Entries \cup {None}]]
    BY DEF Crash, LInv, TypeOK
  <2>5. refs' \in [Entries -> Nat] /\ holder' \in [Entries -> Callers \cup {None}]
    BY DEF Crash, LInv, TypeOK
  <2>6. \A c \in Callers : /\ pc'[c] # "idle" => call'[c] \in Call
                           /\ pc'[c] = "save" => call'[c].answer \in Answers
    BY <1>1 DEF LInv, TypeOK, CallsFit
  <2> QED
    BY <2>1, <2>2, <2>3, <2>4, <2>5, <2>6 DEF LInv, TypeOK, CallsFit
\* A call that lives on uses a lock of another process.
<1>3. \A c \in Callers : pc[c] # "idle" =>
        /\ ProcessOf[c] \in Processes /\ call[c].key \in Keys /\ call[c].entry \in Entries
        /\ call[c].entry # None
        /\ entry[ProcessOf[c]][call[c].key] = call[c].entry
        /\ call[c].entry \in LocksOf(p) <=> ProcessOf[c] = p
  <2> SUFFICES ASSUME NEW c \in Callers, pc[c] # "idle"
               PROVE  /\ ProcessOf[c] \in Processes /\ call[c].key \in Keys
                      /\ call[c].entry \in Entries /\ call[c].entry # None
                      /\ entry[ProcessOf[c]][call[c].key] = call[c].entry
                      /\ call[c].entry \in LocksOf(p) <=> ProcessOf[c] = p
    OBVIOUS
  <2>1. /\ ProcessOf[c] \in Processes /\ call[c].key \in Keys /\ call[c].entry \in Entries
        /\ call[c].entry # None
        /\ entry[ProcessOf[c]][call[c].key] = call[c].entry
    BY SendAssumption DEF LInv, TypeOK, Call, LocksAgree
  <2> QED
    BY <2>1 DEF LocksOf, LInv, LocksAgree
<1>4. \A c \in Callers : pc'[c] # "idle" => entry'[ProcessOf[c]][call'[c].key] = call'[c].entry
  BY <1>1, <1>3
<1>5. \A e \in Entries : refs'[e] = Cardinality(EntryUsers(e)')
  <2> SUFFICES ASSUME NEW e \in Entries PROVE refs'[e] = Cardinality(EntryUsers(e)')
    OBVIOUS
  <2>1. CASE e \in LocksOf(p)
    <3>1. EntryUsers(e)' = {}
      BY <2>1, <1>1, <1>3 DEF EntryUsers
    <3> QED
      BY <2>1, <3>1, <1>1, FS_EmptySet
  <2>2. CASE e \notin LocksOf(p)
    <3>1. EntryUsers(e)' = EntryUsers(e)
      BY <2>2, <1>1, <1>3 DEF EntryUsers
    <3> QED
      BY <2>2, <3>1, <1>1 DEF LInv, LocksAgree
  <2> QED
    BY <2>1, <2>2
<1>6. \A q \in Processes, k \in Keys : entry'[q][k] # None => UsersOf(q, k)' # {}
  <2> SUFFICES ASSUME NEW q \in Processes, NEW k \in Keys, entry'[q][k] # None
               PROVE  \E d \in Callers : ProcessOf[d] = q /\ pc'[d] # "idle" /\ call'[d].key = k
    BY DEF UsersOf, ThreadsOf
  <2>1. PICK d \in Callers : ProcessOf[d] = q /\ pc[d] # "idle" /\ call[d].key = k
    BY <1>1 DEF LInv, LocksAgree, UsersOf, ThreadsOf
  <2> QED
    BY <2>1, <1>1
<1>7. \A q, o \in Processes, i, j \in Keys :
        entry'[q][i] = entry'[o][j] /\ entry'[q][i] # None => q = o /\ i = j
  BY <1>1 DEF LInv, LocksAgree
<1>8. \A e \in Entries : holder'[e] # None =>
        pc'[holder'[e]] \in Inside /\ call'[holder'[e]].entry = e
  <2> SUFFICES ASSUME NEW e \in Entries, holder'[e] # None
               PROVE  pc'[holder'[e]] \in Inside /\ call'[holder'[e]].entry = e
    OBVIOUS
  <2>1. /\ e \notin LocksOf(p) /\ holder'[e] = holder[e] /\ holder[e] \in Callers
        /\ pc[holder[e]] \in Inside /\ call[holder[e]].entry = e
    BY <1>1 DEF LInv, TypeOK, LocksAgree
  <2> QED
    BY <2>1, <1>1, <1>3 DEF Inside
<1>9. \A c \in Callers : pc'[c] \in Inside => holder'[call'[c].entry] = c
  BY <1>1, <1>3 DEF LInv, LocksAgree, Inside
<1> QED
  BY <1>2, <1>4, <1>5, <1>6, <1>7, <1>8, <1>9 DEF LocksAgree

-----------------------------------------------------------------------------
(* The body.                                                               *)

\* What the step of a call inside the body does to its own record: the key, the
\* text, the lock and the wish to remember stay.
Carries(c) ==
    /\ call' \in [Callers -> Call \cup {None}]
    /\ call'[c] \in Call
    /\ \A d \in Callers \ {c} : call'[d] = call[d]
    /\ call'[c].key = call[c].key /\ call'[c].text = call[c].text
    /\ call'[c].entry = call[c].entry

LEMMA CallUpdate ==
    ASSUME LInv, NEW c \in Callers, call[c] \in Call, NEW new \in Call,
           new.key = call[c].key, new.text = call[c].text, new.entry = call[c].entry,
           call' = [call EXCEPT ![c] = new]
    PROVE  Carries(c) /\ call'[c] = new
BY DEF Carries, LInv, CallsFit

LEMMA EndsCarries ==
    ASSUME LInv, NEW c \in Callers, call[c] \in Call, NEW o \in Outcomes, Ends(c, o)
    PROVE  /\ Carries(c) /\ pc' = [pc EXCEPT ![c] = "unlock"]
           /\ call'[c] = [call[c] EXCEPT !.outcome = o]
           /\ call'[c].outcome = o
<1>1. [call[c] EXCEPT !.outcome = o] \in Call /\ [call[c] EXCEPT !.outcome = o].outcome = o
  BY DEF Call
<1>2. call' = [call EXCEPT ![c] = [call[c] EXCEPT !.outcome = o]]
  BY DEF Ends
<1> QED
  BY <1>1, <1>2, CallUpdate DEF Ends, Call

LEMMA StaysCarries ==
    ASSUME LInv, NEW c \in Callers, call[c] \in Call, UNCHANGED call
    PROVE  Carries(c)
BY DEF Carries, LInv, CallsFit

LEMMA UserCarries ==
    ASSUME LInv, NEW c \in Callers, call[c] \in Call, NEW n \in Nat,
           call' = [call EXCEPT ![c].user = n]
    PROVE  Carries(c) /\ call'[c].outcome = call[c].outcome
<1>1. /\ [call[c] EXCEPT !.user = n] \in Call
      /\ [call[c] EXCEPT !.user = n].outcome = call[c].outcome
  BY DEF Call
<1>2. call' = [call EXCEPT ![c] = [call[c] EXCEPT !.user = n]]
  OBVIOUS
<1> QED
  BY <1>1, <1>2, CallUpdate DEF Call

LEMMA AnswerCarries ==
    ASSUME LInv, NEW c \in Callers, call[c] \in Call, NEW a \in Answers,
           call' = [call EXCEPT ![c].answer = a]
    PROVE  Carries(c) /\ call'[c].answer = a /\ call'[c].outcome = call[c].outcome
<1>1. /\ [call[c] EXCEPT !.answer = a] \in Call
      /\ [call[c] EXCEPT !.answer = a].answer = a
      /\ [call[c] EXCEPT !.answer = a].outcome = call[c].outcome
  BY DEF Call
<1>2. call' = [call EXCEPT ![c] = [call[c] EXCEPT !.answer = a]]
  OBVIOUS
<1> QED
  BY <1>1, <1>2, CallUpdate DEF Call

\* What the store gives back under a key.
LEMMA StoredFits ==
    ASSUME LInv, NEW k \in Keys
    PROVE  /\ \A i \in Stored("user", k) :
                /\ i \in Nat /\ i \in DOMAIN messages
                /\ messages[i].role = "user" /\ messages[i].key = k
                /\ messages[i].content \in Texts /\ messages[i].reply = 0
           /\ \A i \in Stored("assistant", k) :
                /\ i \in Nat /\ i \in DOMAIN messages
                /\ messages[i].role = "assistant" /\ messages[i].key = k
                /\ messages[i].content \in Answers
BY DEF LInv, TypeOK, LogFits, Stored

\* A step of the body moves its thread from one place inside to another and
\* leaves the locks alone.
BodyStep(c) ==
    /\ call[c] \in Call /\ pc[c] \in Inside
    /\ Carries(c) /\ UNCHANGED locks
    /\ \E s \in Inside : pc' = [pc EXCEPT ![c] = s]
    /\ pc'[c] = "save" => call'[c].answer \in Answers

LEMMA BodyStepType ==
    ASSUME LInv, NEW c \in Callers, pc[c] \in Inside
    PROVE  call[c] \in Call /\ call[c].key \in Keys /\ call[c].text \in Texts
BY DEF LInv, TypeOK, Inside, Call

LEMMA AppendUserBody ==
    ASSUME LInv, NEW c \in Callers, AppendUser(c)
    PROVE  BodyStep(c)
<1>1. call[c] \in Call /\ call[c].key \in Keys /\ pc[c] \in Inside
  BY BodyStepType DEF AppendUser, Inside
<1>2. ASSUME NEW n \in Nat, call' = [call EXCEPT ![c].user = n], Goes(c, "lookup")
      PROVE  BodyStep(c)
  BY <1>1, <1>2, UserCarries DEF AppendUser, BodyStep, Goes, Inside, LInv, TypeOK
<1>3. ASSUME Ends(c, "conflict") PROVE BodyStep(c)
  BY <1>1, <1>3, EndsCarries DEF AppendUser, BodyStep, Inside, Outcomes, LInv, TypeOK
<1>4. Len(messages) + 1 \in Nat
  BY DEF LInv, TypeOK
<1> QED
  BY <1>1, <1>2, <1>3, <1>4, StoredFits DEF AppendUser

LEMMA LookupBody ==
    ASSUME LInv, NEW c \in Callers, Lookup(c)
    PROVE  BodyStep(c)
<1>1. call[c] \in Call /\ call[c].key \in Keys /\ pc[c] \in Inside
  BY BodyStepType DEF Lookup, Inside
<1>2. ASSUME Goes(c, "complete"), UNCHANGED call PROVE BodyStep(c)
  BY <1>1, <1>2, StaysCarries DEF Lookup, BodyStep, Goes, Inside, LInv, TypeOK
<1>3. ASSUME NEW i \in Stored("assistant", call[c].key),
             call' = [call EXCEPT ![c].answer = messages[i].content],
             Goes(c, AfterAnswer(c))
      PROVE  BodyStep(c)
  <2>1. messages[i].content \in Answers /\ AfterAnswer(c) \in {"recall", "finish"}
    BY <1>1, <1>3, StoredFits DEF AfterAnswer
  <2>2. Carries(c)
    BY <1>1, <1>3, <2>1, AnswerCarries
  <2> QED
    BY <1>1, <1>3, <2>1, <2>2 DEF Lookup, BodyStep, Goes, Inside, LInv, TypeOK
<1> QED
  BY <1>2, <1>3 DEF Lookup

LEMMA CompleteBody ==
    ASSUME LInv, NEW c \in Callers, NEW a \in Answers, Complete(c, a)
    PROVE  BodyStep(c) /\ call'[c] = [call[c] EXCEPT !.answer = a, !.fresh = TRUE]
<1>1. call[c] \in Call /\ pc[c] \in Inside
  BY BodyStepType DEF Complete, Inside
<1> DEFINE new == [call[c] EXCEPT !.answer = a, !.fresh = TRUE]
<1>2. /\ new \in Call /\ new.key = call[c].key /\ new.text = call[c].text
      /\ new.entry = call[c].entry /\ new.answer = a
  BY <1>1 DEF Call
<1>3. call' = [call EXCEPT ![c] = new]
  BY <1>1 DEF Complete, LInv, CallsFit
<1>4. Carries(c) /\ call'[c] = new
  BY <1>1, <1>2, <1>3, CallUpdate
<1> QED
  BY <1>1, <1>2, <1>4 DEF Complete, BodyStep, Goes, Inside, LInv, TypeOK

LEMMA SaveAnswerBody ==
    ASSUME LInv, NEW c \in Callers, SaveAnswer(c)
    PROVE  BodyStep(c)
<1>1. call[c] \in Call /\ call[c].key \in Keys /\ pc[c] \in Inside
  BY BodyStepType DEF SaveAnswer, Inside
<1>2. ASSUME Goes(c, "cite"), UNCHANGED call PROVE BodyStep(c)
  BY <1>1, <1>2, StaysCarries DEF SaveAnswer, BodyStep, Goes, Inside, LInv, TypeOK
<1>3. ASSUME NEW i \in Stored("assistant", call[c].key),
             call' = [call EXCEPT ![c].answer = messages[i].content], Goes(c, "cite")
      PROVE  BodyStep(c)
  BY <1>1, <1>3, AnswerCarries, StoredFits
     DEF SaveAnswer, BodyStep, Goes, Inside, LInv, TypeOK
<1>4. ASSUME Ends(c, "conflict") PROVE BodyStep(c)
  BY <1>1, <1>4, EndsCarries DEF SaveAnswer, BodyStep, Inside, Outcomes, LInv, TypeOK
<1> QED
  BY <1>2, <1>3, <1>4 DEF SaveAnswer

LEMMA OtherBody ==
    ASSUME LInv, NEW c \in Callers,
           \/ Cite(c) \/ Recall(c) \/ Remember(c) \/ PromotionFails(c)
           \/ Finish(c) \/ StoreFails(c)
    PROVE  BodyStep(c) /\ UNCHANGED messages
<1>1. call[c] \in Call /\ call[c].key \in Keys /\ pc[c] \in Inside
  BY BodyStepType DEF Cite, Recall, Remember, PromotionFails, Finish, StoreFails, Inside
<1>2. UNCHANGED <<messages, locks>>
  BY DEF Cite, Recall, Remember, PromotionFails, Finish, StoreFails, store
<1>3. ASSUME NEW s \in {"recall", "remember", "finish"}, Goes(c, s), UNCHANGED call
      PROVE  BodyStep(c)
  BY <1>1, <1>2, <1>3, StaysCarries DEF BodyStep, Goes, Inside, LInv, TypeOK
<1>4. ASSUME NEW o \in {"ok", "error"}, Ends(c, o) PROVE BodyStep(c)
  BY <1>1, <1>2, <1>4, EndsCarries DEF BodyStep, Inside, Outcomes, LInv, TypeOK
<1> QED
  BY <1>2, <1>3, <1>4
     DEF Cite, Recall, Remember, PromotionFails, Finish, StoreFails, AfterAnswer

\* The log grows by a message whose key had none of its role, or stays.
LogGrows(m) ==
    /\ m \in Message
    /\ IF m.role = "user" THEN m.content \in Texts /\ m.reply = 0 ELSE m.content \in Answers
    /\ Stored(m.role, m.key) = {}
    /\ messages' = Append(messages, m)

LEMMA LogGrowsFits ==
    ASSUME LInv, NEW m, LogGrows(m)
    PROVE  messages' \in Seq(Message) /\ LogFits'
<1>1. /\ messages' \in Seq(Message) /\ DOMAIN messages = 1 .. Len(messages)
      /\ Len(messages) \in Nat
      /\ DOMAIN messages' = 1 .. Len(messages) + 1
      /\ \A i \in DOMAIN messages : messages'[i] = messages[i]
      /\ messages'[Len(messages) + 1] = m
  BY DEF LogGrows, LInv, TypeOK
<1>2. \A i \in DOMAIN messages : ~(messages[i].role = m.role /\ messages[i].key = m.key)
  BY DEF LogGrows, Stored
<1>3. \A i \in DOMAIN messages' :
        i \in DOMAIN messages \/ (i = Len(messages) + 1 /\ messages'[i] = m)
  BY <1>1
<1>4. \A i \in DOMAIN messages' :
        IF messages'[i].role = "user"
        THEN messages'[i].content \in Texts /\ messages'[i].reply = 0
        ELSE messages'[i].content \in Answers
  BY <1>1, <1>3 DEF LogGrows, LInv, LogFits
<1>5. \A i, j \in DOMAIN messages' :
        messages'[i].role = messages'[j].role /\ messages'[i].key = messages'[j].key => i = j
  BY <1>1, <1>2, <1>3 DEF LInv, LogFits
<1> QED
  BY <1>1, <1>4, <1>5 DEF LogFits

Asked(c) == [role |-> "user", key |-> call[c].key, content |-> call[c].text, reply |-> 0]
Given(c) == [role |-> "assistant", key |-> call[c].key, content |-> call[c].answer,
             reply |-> call[c].user]

\* What the steps of the body do to the log.
LEMMA BodyLog ==
    ASSUME LInv, NEW c \in Callers,
           \/ AppendUser(c) \/ Lookup(c) \/ \E a \in Answers : Complete(c, a)
           \/ SaveAnswer(c)
    PROVE  \/ UNCHANGED messages
           \/ AppendUser(c) /\ LogGrows(Asked(c))
           \/ SaveAnswer(c) /\ LogGrows(Given(c))
<1>1. CASE AppendUser(c)
  BY <1>1, BodyStepType DEF AppendUser, LogGrows, Asked, Message, Inside
<1>2. CASE SaveAnswer(c)
  <2>1. /\ call[c] \in Call /\ call[c].key \in Keys /\ call[c].answer \in Answers
        /\ call[c].user \in Nat
    BY <1>2, BodyStepType DEF SaveAnswer, Inside, LInv, CallsFit, Call
  <2> QED
    BY <1>2, <2>1 DEF SaveAnswer, LogGrows, Given, Message, Answered, ReplyTarget
<1>3. CASE Lookup(c) \/ \E a \in Answers : Complete(c, a)
  BY <1>3 DEF Lookup, Complete, store
<1> QED
  BY <1>1, <1>2, <1>3

-----------------------------------------------------------------------------
(* Every step keeps locks, types and log.                                  *)

LEMMA InitLocks == Init => LInv
<1> SUFFICES ASSUME Init PROVE LInv
  OBVIOUS
<1>1. TypeOK /\ CallsFit /\ LogFits
  BY DEF Init, TypeOK, CallsFit, LogFits, Steps
<1>2. \A e \in Entries : EntryUsers(e) = {}
  BY DEF Init, EntryUsers
<1>3. LocksAgree
  BY <1>2, FS_EmptySet DEF Init, LocksAgree, Inside
<1> QED
  BY <1>1, <1>3 DEF LInv

LEMMA BodyKeeps ==
    ASSUME LInv, NEW c \in Callers, BodyStep(c),
           messages' \in Seq(Message), memories' \in Seq(Memory), LogFits'
    PROVE  LInv'
<1>1. PICK s \in Inside : pc' = [pc EXCEPT ![c] = s]
  BY DEF BodyStep
<1>2. LocksAgree'
  BY <1>1, BodyKeepsLocks DEF BodyStep, Carries
<1>3. TypeOK'
  BY <1>1 DEF BodyStep, Carries, locks, LInv, TypeOK, Inside, Steps
<1>4. CallsFit'
  BY <1>1 DEF BodyStep, Carries, LInv, TypeOK, CallsFit
<1> QED
  BY <1>2, <1>3, <1>4 DEF LInv

LEMMA StepKeepsLocks == LInv /\ [Next]_vars => LInv'
<1> SUFFICES ASSUME LInv, [Next]_vars PROVE LInv'
  OBVIOUS
<1>1. ASSUME NEW c \in Callers, Arrives(c) PROVE LInv'
  <2>1. PICK k \in Keys, t \in Texts, r \in Remembers : Begin(c, k, t, r)
    BY <1>1 DEF Arrives
  <2>2. UNCHANGED messages
    BY <2>1 DEF Begin, store
  <2>3. LogFits'
    BY <2>2 DEF LInv, LogFits
  <2>4. TypeOK' /\ CallsFit' /\ LocksAgree'
    BY <2>1, BeginKeepsLocks, SendAssumption
  <2> QED
    BY <2>3, <2>4 DEF LInv
<1>2. ASSUME NEW c \in Callers,
             \/ AppendUser(c) \/ Lookup(c) \/ \E a \in Answers : Complete(c, a)
             \/ SaveAnswer(c)
      PROVE  LInv'
  <2>1. BodyStep(c)
    BY <1>2, AppendUserBody, LookupBody, CompleteBody, SaveAnswerBody
  <2>2. memories' = memories
    BY <1>2 DEF AppendUser, Lookup, Complete, SaveAnswer, store
  <2>3. messages' \in Seq(Message) /\ LogFits'
    BY <1>2, BodyLog, LogGrowsFits DEF LInv, TypeOK, LogFits
  <2> QED
    BY <2>1, <2>2, <2>3, BodyKeeps DEF LInv, TypeOK
<1>3. ASSUME NEW c \in Callers,
             \/ Cite(c) \/ Recall(c) \/ Remember(c) \/ PromotionFails(c)
             \/ Finish(c) \/ StoreFails(c)
      PROVE  LInv'
  <2>1. BodyStep(c) /\ UNCHANGED messages
    BY <1>3, OtherBody
  <2>2. memories' \in Seq(Memory)
    <3>1. CASE Remember(c)
      BY <3>1, BodyStepType DEF Remember, Inside, UserWords, Memory, LInv, TypeOK
    <3>2. CASE ~Remember(c)
      BY <3>2, <1>3 DEF Cite, Recall, PromotionFails, Finish, StoreFails, store, LInv, TypeOK
    <3> QED
      BY <3>1, <3>2
  <2>3. messages' \in Seq(Message) /\ LogFits'
    BY <2>1 DEF LInv, TypeOK, LogFits
  <2> QED
    BY <2>1, <2>2, <2>3, BodyKeeps
<1>4. ASSUME NEW c \in Callers, TakeLock(c) \/ Unlock(c) \/ Release(c) PROVE LInv'
  BY <1>4, TakeLockKeepsLocks, UnlockKeepsLocks, ReleaseKeepsLocks
     DEF TakeLock, Unlock, Release, store, LInv, LogFits
<1>5. ASSUME NEW i \in DOMAIN memories, Forget(i) PROVE LInv'
  <2> DEFINE m == [memories[i] EXCEPT !.active = FALSE]
  <2>0. memories \in Seq(Memory)
    BY DEF LInv, TypeOK
  <2>m. m \in Memory /\ memories' = [memories EXCEPT ![i] = m]
    <3>1. memories[i] \in Memory
      BY <2>0
    <3>2. m \in Memory
      BY <3>1 DEF Memory
    <3>3. memories' = [memories EXCEPT ![i] = m]
      BY <1>5 DEF Forget
    <3> QED
      BY <3>2, <3>3
  <2>1. memories' \in Seq(Memory)
    <3> HIDE DEF m
    <3> QED
      BY <1>5, <2>0, <2>m
  <2>2. /\ UNCHANGED <<messages, entry, refs, holder, pc, call>>
        /\ \A e \in Entries : EntryUsers(e)' = EntryUsers(e)
        /\ \A p \in Processes, k \in Keys : UsersOf(p, k)' = UsersOf(p, k)
    BY <1>5 DEF Forget, locks, EntryUsers, UsersOf, ThreadsOf
  <2> QED
    BY <2>1, <2>2 DEF LInv, TypeOK, CallsFit, LocksAgree, LogFits
<1>6. ASSUME NEW p \in Processes, Crash(p) PROVE LInv'
  BY <1>6, CrashKeepsLocks DEF Crash, store, LInv, LogFits
<1>7. CASE UNCHANGED vars
  <2>1. /\ \A e \in Entries : EntryUsers(e)' = EntryUsers(e)
        /\ \A p \in Processes, k \in Keys : UsersOf(p, k)' = UsersOf(p, k)
    BY <1>7 DEF vars, EntryUsers, UsersOf, ThreadsOf
  <2> QED
    BY <2>1, <1>7 DEF vars, LInv, TypeOK, CallsFit, LocksAgree, LogFits
<1> QED
  BY <1>1, <1>2, <1>3, <1>4, <1>5, <1>6, <1>7 DEF Next, Proceeds

\* An entry of the map counts exactly the calls that use its key.
LEMMA OneThreadFollows == LInv => OneThreadPerKey
<1> SUFFICES ASSUME LInv, NEW p \in Processes, NEW k \in Keys
             PROVE  /\ \A c, d \in UsersOf(p, k) :
                            pc[c] \in Inside /\ pc[d] \in Inside => c = d
                    /\ IF UsersOf(p, k) = {} THEN entry[p][k] = None
                       ELSE /\ \A c \in UsersOf(p, k) : entry[p][k] = call[c].entry
                            /\ refs[entry[p][k]] = Cardinality(UsersOf(p, k))
  BY DEF OneThreadPerKey
<1>1. \A c \in UsersOf(p, k) :
        /\ c \in Callers /\ pc[c] # "idle" /\ call[c] \in Call
        /\ entry[p][k] = call[c].entry
  BY DEF UsersOf, ThreadsOf, LInv, TypeOK, LocksAgree
<1>2. \A c, d \in UsersOf(p, k) : pc[c] \in Inside /\ pc[d] \in Inside => c = d
  BY <1>1 DEF LInv, LocksAgree
<1>3. ASSUME UsersOf(p, k) # {} PROVE refs[entry[p][k]] = Cardinality(UsersOf(p, k))
  <2>1. PICK e \in Entries : entry[p][k] = e /\ e # None
    BY <1>1, <1>3, SendAssumption DEF Call
  <2>2. EntryUsers(e) \subseteq UsersOf(p, k)
    <3> SUFFICES ASSUME NEW c \in EntryUsers(e) PROVE c \in UsersOf(p, k)
      OBVIOUS
    <3>1. /\ c \in Callers /\ pc[c] # "idle" /\ ProcessOf[c] \in Processes
          /\ call[c].key \in Keys /\ entry[ProcessOf[c]][call[c].key] = e
      BY SendAssumption DEF EntryUsers, LInv, TypeOK, Call, LocksAgree
    <3> QED
      BY <2>1, <3>1 DEF UsersOf, ThreadsOf, LInv, LocksAgree
  <2>3. UsersOf(p, k) \subseteq EntryUsers(e)
    BY <1>1, <2>1 DEF EntryUsers
  <2>4. UsersOf(p, k) = EntryUsers(e)
    BY <2>2, <2>3
  <2> QED
    BY <2>1, <2>4 DEF LInv, LocksAgree
<1> QED
  BY <1>1, <1>2, <1>3 DEF LInv, LocksAgree

\* Types hold at every step: a reference count is a number because nobody gives
\* back what it does not hold.
THEOREM TypeCorrect == Spec => []TypeOK
<1>1. LInv => TypeOK
  BY DEF LInv
<1> QED
  BY <1>1, InitLocks, StepKeepsLocks, PTL DEF Spec

\* Two threads of a process are never inside the body for one key, and the map
\* of locks neither leaks nor drops one early, for any number of processes, keys
\* and threads, with crashes (service.py, _acquire_idempotency_entry and
\* _release_idempotency_entry).
THEOREM LocksHold == Spec => []OneThreadPerKey
BY OneThreadFollows, InitLocks, StepKeepsLocks, PTL DEF Spec

-----------------------------------------------------------------------------
(* The log, read as questions and answers, implements the exchange.        *)

\* The log has a message of that content.
Said(role, k, x) == \E i \in Stored(role, k) : messages[i].content = x

AskedSteps == {"lookup", "complete", "save", "cite", "recall", "remember", "finish"}
ToldSteps  == {"cite", "recall", "remember", "finish"}

\* A call past its append has its text for the question of its key, and one
\* that goes to return has the answer of its key.
Follows(c) ==
    /\ pc[c] \in AskedSteps \/ Returning(c)
        => Said("user", call[c].key, call[c].text)
    /\ pc[c] \in ToldSteps \/ Returning(c)
        => Said("assistant", call[c].key, call[c].answer)

CallsFollow == \A c \in Callers : Follows(c)

FInv == LInv /\ CallsFollow

\* Nothing is taken out of the log.
LEMMA LogKeeps ==
    ASSUME LInv, UNCHANGED messages \/ \E m : LogGrows(m)
    PROVE  \A i \in DOMAIN messages : i \in DOMAIN messages' /\ messages'[i] = messages[i]
<1>1. CASE UNCHANGED messages
  BY <1>1
<1>2. ASSUME NEW m, LogGrows(m)
      PROVE  \A i \in DOMAIN messages : i \in DOMAIN messages' /\ messages'[i] = messages[i]
  <2>1. messages \in Seq(Message) /\ messages' = Append(messages, m)
    BY <1>2 DEF LogGrows, LInv, TypeOK
  <2> QED
    BY <2>1
<1> QED
  BY <1>1, <1>2

LEMMA SaidStays ==
    ASSUME LInv, UNCHANGED messages \/ \E m : LogGrows(m),
           NEW role, NEW k, NEW x, Said(role, k, x)
    PROVE  Said(role, k, x)'
BY LogKeeps DEF Said, Stored

LEMMA GrowthSays ==
    ASSUME LInv, NEW m, LogGrows(m)
    PROVE  Said(m.role, m.key, m.content)'
<1>1. messages \in Seq(Message) /\ messages' = Append(messages, m)
  BY DEF LogGrows, LInv, TypeOK
<1>2. Len(messages) + 1 \in DOMAIN messages' /\ messages'[Len(messages) + 1] = m
  BY <1>1
<1> QED
  BY <1>2 DEF Said, Stored

\* What a step does not touch goes on.
LEMMA FollowsStays ==
    ASSUME LInv, UNCHANGED messages \/ \E m : LogGrows(m),
           NEW d \in Callers, Follows(d), pc'[d] = pc[d], call'[d] = call[d]
    PROVE  Follows(d)'
<1>1. Returning(d)' <=> Returning(d)
  BY DEF Returning
<1>2. \A role, k, x : Said(role, k, x) => Said(role, k, x)'
  BY SaidStays
<1> QED
  BY <1>1, <1>2 DEF Follows

\* A step of the body, by what its thread knows after it.
LEMMA BodyFollows ==
    ASSUME FInv, NEW c \in Callers, BodyStep(c), NEW s \in Steps,
           UNCHANGED messages \/ \E m : LogGrows(m),
           pc' = [pc EXCEPT ![c] = s],
           s \in AskedSteps \/ (s = "unlock" /\ call'[c].outcome = "ok")
            => Said("user", call[c].key, call[c].text)',
           s \in ToldSteps \/ (s = "unlock" /\ call'[c].outcome = "ok")
            => Said("assistant", call[c].key, call[c].answer)',
           s # "release"
    PROVE  CallsFollow'
<1>1. /\ pc'[c] = s /\ \A d \in Callers \ {c} : pc'[d] = pc[d] /\ call'[d] = call[d]
      /\ call'[c].key = call[c].key /\ call'[c].text = call[c].text
  BY DEF BodyStep, Carries, FInv, LInv, TypeOK
<1>2. \A d \in Callers \ {c} : Follows(d)'
  BY <1>1, FollowsStays DEF FInv, CallsFollow
<1>3. Follows(c)'
  BY <1>1 DEF Follows, Returning
<1> QED
  BY <1>2, <1>3 DEF CallsFollow

LEMMA AppendUserFollows ==
    ASSUME FInv, NEW c \in Callers, AppendUser(c)
    PROVE  CallsFollow'
<1>1. /\ BodyStep(c) /\ pc[c] = "append" /\ call[c] \in Call /\ call[c].key \in Keys
      /\ UNCHANGED messages \/ LogGrows(Asked(c))
  BY AppendUserBody, BodyLog, BodyStepType DEF FInv, AppendUser, BodyStep, Inside, SaveAnswer
<1>2. call'[c].key = call[c].key /\ call'[c].text = call[c].text
  BY <1>1 DEF BodyStep, Carries
<1>3. ASSUME Goes(c, "lookup"), Said("user", call[c].key, call[c].text)' PROVE CallsFollow'
  BY <1>1, <1>3, BodyFollows DEF Goes, Steps, AskedSteps, ToldSteps
<1>4. ASSUME LogGrows(Asked(c)), Goes(c, "lookup") PROVE CallsFollow'
  <2>1. Said("user", call[c].key, call[c].text)'
    BY <1>2, <1>4, GrowthSays DEF FInv, Asked
  <2> QED
    BY <1>3, <1>4, <2>1
<1>5. ASSUME NEW i \in Stored("user", call[c].key), SameMessage(i, call[c].text, 0),
             UNCHANGED messages, Goes(c, "lookup")
      PROVE  CallsFollow'
  <2>1. Said("user", call[c].key, call[c].text)
    BY <1>5 DEF Said, SameMessage
  <2>2. Said("user", call[c].key, call[c].text)'
    BY <1>2, <1>5, <2>1, SaidStays DEF FInv
  <2> QED
    BY <1>3, <1>5, <2>2
<1>6. ASSUME Ends(c, "conflict") PROVE CallsFollow'
  <2>1. pc' = [pc EXCEPT ![c] = "unlock"] /\ call'[c].outcome = "conflict"
    BY <1>1, <1>6, EndsCarries DEF FInv, Outcomes, Call
  <2> QED
    BY <1>1, <2>1, BodyFollows DEF Steps, AskedSteps, ToldSteps
<1>7. \/ messages' = Append(messages, Asked(c)) /\ Goes(c, "lookup")
      \/ \E i \in Stored("user", call[c].key) :
            /\ UNCHANGED messages
            /\ \/ SameMessage(i, call[c].text, 0) /\ Goes(c, "lookup")
               \/ Ends(c, "conflict")
  BY DEF AppendUser, Asked
<1>8. messages' = Append(messages, Asked(c)) => LogGrows(Asked(c))
  BY <1>1 DEF FInv, LInv, TypeOK
<1> QED
  BY <1>4, <1>5, <1>6, <1>7, <1>8

LEMMA LookupFollows ==
    ASSUME FInv, NEW c \in Callers, Lookup(c)
    PROVE  CallsFollow'
<1>1. /\ BodyStep(c) /\ pc[c] = "lookup" /\ call[c] \in Call /\ call[c].key \in Keys
      /\ UNCHANGED messages
  BY LookupBody, BodyStepType DEF FInv, Lookup, BodyStep, Inside, store
<1>2. call'[c].key = call[c].key /\ call'[c].text = call[c].text
  BY <1>1 DEF BodyStep, Carries
<1>3. Said("user", call[c].key, call[c].text)'
  BY <1>1, <1>2, SaidStays DEF FInv, CallsFollow, Follows, AskedSteps
<1>4. CASE Goes(c, "complete")
  BY <1>1, <1>3, <1>4, BodyFollows DEF Goes, Steps, AskedSteps, ToldSteps
<1>5. ASSUME NEW i \in Stored("assistant", call[c].key),
             call' = [call EXCEPT ![c].answer = messages[i].content],
             Goes(c, AfterAnswer(c))
      PROVE  CallsFollow'
  <2>1. messages[i].content \in Answers /\ AfterAnswer(c) \in {"recall", "finish"}
    BY <1>1, <1>5, StoredFits DEF AfterAnswer, FInv
  <2>2. call'[c].answer = messages[i].content
    BY <1>1, <1>5, <2>1, AnswerCarries DEF FInv
  <2>3. Said("assistant", call[c].key, messages[i].content)
    BY <1>5 DEF Said
  <2>4. Said("assistant", call[c].key, call[c].answer)'
    BY <1>1, <1>2, <2>2, <2>3, SaidStays DEF FInv
  <2> QED
    BY <1>1, <1>3, <1>5, <2>1, <2>4, BodyFollows DEF Goes, Steps
<1> QED
  BY <1>4, <1>5 DEF Lookup

LEMMA CompleteFollows ==
    ASSUME FInv, NEW c \in Callers, NEW a \in Answers, Complete(c, a)
    PROVE  CallsFollow'
<1>1. /\ BodyStep(c) /\ pc[c] = "complete" /\ UNCHANGED messages /\ Goes(c, "save")
  BY CompleteBody DEF FInv, Complete, store
<1>2. Said("user", call[c].key, call[c].text)'
  BY <1>1, SaidStays DEF FInv, CallsFollow, Follows, AskedSteps, BodyStep, Carries
<1> QED
  BY <1>1, <1>2, BodyFollows DEF Goes, Steps, AskedSteps, ToldSteps

LEMMA SaveAnswerFollows ==
    ASSUME FInv, NEW c \in Callers, SaveAnswer(c)
    PROVE  CallsFollow'
<1>1. /\ BodyStep(c) /\ pc[c] = "save" /\ call[c] \in Call /\ call[c].key \in Keys
      /\ UNCHANGED messages \/ LogGrows(Given(c))
  BY SaveAnswerBody, BodyLog, BodyStepType DEF FInv, AppendUser, BodyStep, Inside, SaveAnswer
<1>2. call'[c].key = call[c].key /\ call'[c].text = call[c].text
  BY <1>1 DEF BodyStep, Carries
<1>3. Said("user", call[c].key, call[c].text)'
  BY <1>1, <1>2, SaidStays DEF FInv, CallsFollow, Follows, AskedSteps
<1>4. ASSUME Goes(c, "cite"), Said("assistant", call[c].key, call[c].answer)'
      PROVE  CallsFollow'
  BY <1>1, <1>3, <1>4, BodyFollows DEF Goes, Steps
<1>5. ASSUME LogGrows(Given(c)), Goes(c, "cite"), UNCHANGED call PROVE CallsFollow'
  <2>1. Said("assistant", call[c].key, call[c].answer)'
    BY <1>5, GrowthSays DEF FInv, Given
  <2> QED
    BY <1>4, <1>5, <2>1
<1>6. ASSUME NEW i \in Stored("assistant", call[c].key), UNCHANGED messages,
             call' = [call EXCEPT ![c].answer = messages[i].content], Goes(c, "cite")
      PROVE  CallsFollow'
  <2>1. messages[i].content \in Answers
    BY <1>1, <1>6, StoredFits DEF FInv
  <2>2. call'[c].answer = messages[i].content
    BY <1>1, <1>6, <2>1, AnswerCarries DEF FInv
  <2>3. Said("assistant", call[c].key, messages[i].content)
    BY <1>6 DEF Said
  <2>4. Said("assistant", call[c].key, call[c].answer)'
    BY <1>2, <1>6, <2>2, <2>3, SaidStays DEF FInv
  <2> QED
    BY <1>4, <1>6, <2>4
<1>7. ASSUME Ends(c, "conflict") PROVE CallsFollow'
  <2>1. pc' = [pc EXCEPT ![c] = "unlock"] /\ call'[c].outcome = "conflict"
    BY <1>1, <1>7, EndsCarries DEF FInv, Outcomes, Call
  <2> QED
    BY <1>1, <2>1, BodyFollows DEF Steps, AskedSteps, ToldSteps
<1>8. \/ messages' = Append(messages, Given(c)) /\ Goes(c, "cite") /\ UNCHANGED call
      \/ \E i \in Stored("assistant", call[c].key) :
            /\ UNCHANGED messages
            /\ \/ /\ call' = [call EXCEPT ![c].answer = messages[i].content]
                  /\ Goes(c, "cite")
               \/ Ends(c, "conflict")
  BY DEF SaveAnswer, Given, ReplyTarget
<1>9. messages' = Append(messages, Given(c)) => LogGrows(Given(c))
  BY <1>1 DEF FInv, LInv, TypeOK
<1> QED
  BY <1>5, <1>6, <1>7, <1>8, <1>9

LEMMA OtherFollows ==
    ASSUME FInv, NEW c \in Callers,
           \/ Cite(c) \/ Recall(c) \/ Remember(c) \/ PromotionFails(c)
           \/ Finish(c) \/ StoreFails(c)
    PROVE  CallsFollow'
<1>1. BodyStep(c) /\ UNCHANGED messages /\ call[c] \in Call
  BY OtherBody DEF FInv, BodyStep
<1>2. call'[c].key = call[c].key /\ call'[c].text = call[c].text
  BY <1>1 DEF BodyStep, Carries
<1>3. ASSUME pc[c] \in ToldSteps, call'[c].answer = call[c].answer
      PROVE  /\ Said("user", call[c].key, call[c].text)'
             /\ Said("assistant", call[c].key, call[c].answer)'
  BY <1>1, <1>2, <1>3, SaidStays
     DEF FInv, CallsFollow, Follows, AskedSteps, ToldSteps
<1>4. ASSUME NEW s \in {"recall", "remember", "finish"}, Goes(c, s), UNCHANGED call,
             pc[c] \in ToldSteps
      PROVE  CallsFollow'
  BY <1>1, <1>3, <1>4, BodyFollows DEF Goes, Steps
<1>5. ASSUME Ends(c, "ok"), pc[c] = "finish" PROVE CallsFollow'
  <2>1. pc' = [pc EXCEPT ![c] = "unlock"] /\ call'[c].answer = call[c].answer
    BY <1>1, <1>5, EndsCarries DEF FInv, Outcomes, Call
  <2> QED
    BY <1>1, <1>3, <1>5, <2>1, BodyFollows DEF Steps, ToldSteps
<1>6. ASSUME Ends(c, "error") PROVE CallsFollow'
  <2>1. pc' = [pc EXCEPT ![c] = "unlock"] /\ call'[c].outcome = "error"
    BY <1>1, <1>6, EndsCarries DEF FInv, Outcomes, Call
  <2> QED
    BY <1>1, <2>1, BodyFollows DEF Steps, AskedSteps, ToldSteps
<1>7. \/ \E s \in {"recall", "remember", "finish"} :
            Goes(c, s) /\ UNCHANGED call /\ pc[c] \in ToldSteps
      \/ Ends(c, "ok") /\ pc[c] = "finish"
      \/ Ends(c, "error")
  BY DEF Cite, Recall, Remember, PromotionFails, Finish, StoreFails, AfterAnswer, ToldSteps
<1> QED
  BY <1>4, <1>5, <1>6, <1>7

LEMMA StepKeepsFollow == FInv /\ [Next]_vars => CallsFollow'
<1> SUFFICES ASSUME FInv, [Next]_vars PROVE CallsFollow'
  OBVIOUS
\* Of a thread that does nothing, or comes, or goes.
<1>1. ASSUME NEW d \in Callers, UNCHANGED messages,
             \/ pc'[d] = pc[d] /\ call'[d] = call[d]
             \/ pc'[d] \in {"idle", "lock", "append"}
             \/ pc[d] = "unlock" /\ pc'[d] = "release" /\ call'[d] = call[d]
      PROVE  Follows(d)'
  <2>1. \A role, k, x : Said(role, k, x) => Said(role, k, x)'
    BY <1>1, SaidStays DEF FInv
  <2> QED
    BY <1>1, <2>1 DEF Follows, Returning, AskedSteps, ToldSteps, FInv, CallsFollow
<1>2. ASSUME NEW c \in Callers, Arrives(c) \/ TakeLock(c) \/ Unlock(c) \/ Release(c)
      PROVE  CallsFollow'
  <2>1. UNCHANGED messages /\ \A d \in Callers \ {c} : pc'[d] = pc[d] /\ call'[d] = call[d]
    BY <1>2 DEF Arrives, Begin, TakeLock, Unlock, Release, store, FInv, LInv, TypeOK, CallsFit
  <2>2. \/ pc'[c] \in {"idle", "lock", "append"}
        \/ pc[c] = "unlock" /\ pc'[c] = "release" /\ call'[c] = call[c]
    BY <1>2 DEF Arrives, Begin, TakeLock, Unlock, Release, FInv, LInv, TypeOK
  <2> QED
    BY <1>1, <2>1, <2>2 DEF CallsFollow
<1>3. ASSUME NEW c \in Callers,
             \/ AppendUser(c) \/ Lookup(c) \/ \E a \in Answers : Complete(c, a)
             \/ SaveAnswer(c) \/ Cite(c) \/ Recall(c) \/ Remember(c)
             \/ PromotionFails(c) \/ Finish(c) \/ StoreFails(c)
      PROVE  CallsFollow'
  BY <1>3, AppendUserFollows, LookupFollows, CompleteFollows, SaveAnswerFollows, OtherFollows
<1>4. ASSUME NEW i \in DOMAIN memories, Forget(i) PROVE CallsFollow'
  BY <1>1, <1>4 DEF Forget, CallsFollow
<1>5. ASSUME NEW p \in Processes, Crash(p) PROVE CallsFollow'
  <2>1. /\ UNCHANGED messages
        /\ \A d \in Callers : pc'[d] = "idle" \/ (pc'[d] = pc[d] /\ call'[d] = call[d])
    BY <1>5 DEF Crash, store
  <2> QED
    BY <1>1, <2>1 DEF CallsFollow
<1>6. CASE UNCHANGED vars
  BY <1>1, <1>6 DEF vars, CallsFollow
<1> QED
  BY <1>2, <1>3, <1>4, <1>5, <1>6 DEF Next, Proceeds

LEMMA FollowsAlways == Spec => []FInv
<1>1. Init => FInv
  BY InitLocks DEF FInv, CallsFollow, Follows, Returning, Init, AskedSteps, ToldSteps
<1>2. FInv /\ [Next]_vars => FInv'
  BY StepKeepsLocks, StepKeepsFollow DEF FInv
<1> QED
  BY <1>1, <1>2, PTL DEF Spec

\* Under a key the log has the one content that was said, or none.
ContentsRead ==
    \A role \in {"user", "assistant"}, k \in Keys :
        /\ \A x : Said(role, k, x) => FirstContent(role, k) = x
        /\ FirstContent(role, k) = None <=> Stored(role, k) = {}

LEMMA ContentsAreRead == LInv => ContentsRead
<1> SUFFICES ASSUME LInv, NEW role \in {"user", "assistant"}, NEW k \in Keys
             PROVE  /\ \A x : Said(role, k, x) => FirstContent(role, k) = x
                    /\ FirstContent(role, k) = None <=> Stored(role, k) = {}
  BY DEF ContentsRead
<1>1. CASE Stored(role, k) = {}
  BY <1>1 DEF Said, FirstContent
<1>2. ASSUME NEW i \in Stored(role, k)
      PROVE  FirstContent(role, k) = messages[i].content /\ messages[i].content # None
  <2>1. i \in Nat /\ \A j \in Stored(role, k) : j = i
    BY <1>2 DEF Stored, LInv, TypeOK, LogFits
  <2>2. (CHOOSE j \in Stored(role, k) : \A l \in Stored(role, k) : j <= l) = i
    <3>1. \A l \in Stored(role, k) : i <= l
      BY <2>1
    <3>2. \E j \in Stored(role, k) : \A l \in Stored(role, k) : j <= l
      BY <1>2, <3>1
    <3> QED
      BY <2>1, <3>2, Zenon
  <2>3. messages[i].content # None
    BY <1>2, StoredFits, SendAssumption
  <2> QED
    BY <1>2, <2>2, <2>3 DEF FirstContent
<1> QED
  BY <1>1, <1>2 DEF Said

LEMMA ContentsReadNext == LInv' => ContentsRead'
BY ContentsAreRead, PTL

LEMMA GrowthShows ==
    ASSUME LInv, LInv', NEW m, LogGrows(m)
    PROVE  /\ FirstContent(m.role, m.key) = None
           /\ FirstContent(m.role, m.key)' = m.content
           /\ \A role \in {"user", "assistant"}, k \in Keys :
                ~(role = m.role /\ k = m.key)
                => FirstContent(role, k)' = FirstContent(role, k)
<1>1. m.role \in {"user", "assistant"} /\ m.key \in Keys
  BY DEF LogGrows, Message
<1>2. ContentsRead /\ ContentsRead'
  BY ContentsAreRead, ContentsReadNext
<1>3. FirstContent(m.role, m.key) = None
  BY <1>1, <1>2 DEF ContentsRead, LogGrows
<1>4. FirstContent(m.role, m.key)' = m.content
  BY <1>1, <1>2, GrowthSays DEF ContentsRead
<1>5. ASSUME NEW role \in {"user", "assistant"}, NEW k \in Keys,
             ~(role = m.role /\ k = m.key)
      PROVE  FirstContent(role, k)' = FirstContent(role, k)
  <2>1. CASE Stored(role, k) = {}
    <3>1. messages \in Seq(Message) /\ messages' = Append(messages, m)
      BY DEF LogGrows, LInv, TypeOK
    <3>2. Stored(role, k)' = {}
      BY <1>5, <2>1, <3>1 DEF Stored
    <3> QED
      BY <2>1, <3>2, <1>2 DEF ContentsRead
  <2>2. ASSUME NEW i \in Stored(role, k) PROVE FirstContent(role, k)' = FirstContent(role, k)
    <3>1. PICK x : x = messages[i].content
      OBVIOUS
    <3>2. Said(role, k, x)
      BY <2>2, <3>1 DEF Said
    <3>3. Said(role, k, x)'
      BY <3>2, SaidStays
    <3> QED
      BY <3>2, <3>3, <1>2 DEF ContentsRead
  <2> QED
    BY <2>1, <2>2
<1> QED
  BY <1>3, <1>4, <1>5

\* What is being told, as the refinement reads it.
Telling == {Returned(c) : c \in {d \in Callers : Returning(d)}}

LEMMA NobodyTold ==
    ASSUME NEW c \in Callers, \A d \in Callers \ {c} : pc'[d] = pc[d] /\ call'[d] = call[d],
           ~Returning(c), ~Returning(c)'
    PROVE  Telling' = Telling
<1>1. \A d \in Callers : Returning(d)' <=> Returning(d)
  BY DEF Returning
<1>2. \A d \in Callers : Returning(d) => Returned(d)' = Returned(d)
  BY DEF Returned
<1> QED
  BY <1>1, <1>2 DEF Telling

LEMMA MappedParts ==
    /\ Exchange!vars = <<[k \in Keys |-> FirstContent("user", k)],
                         [k \in Keys |-> FirstContent("assistant", k)], Telling>>
    /\ Exchange!vars' = <<[k \in Keys |-> FirstContent("user", k)'],
                          [k \in Keys |-> FirstContent("assistant", k)'], Telling'>>
BY DEF Exchange!vars, Telling

LEMMA TellingShrinks ==
    ASSUME UNCHANGED messages, Telling' \subseteq Telling
    PROVE  [Exchange!Next]_(Exchange!vars)
<1>1. \A role, k : FirstContent(role, k)' = FirstContent(role, k)
  BY DEF FirstContent, Stored
<1> QED
  BY <1>1 DEF Telling, Exchange!Next, Exchange!Told

\* Saving a question is Ask, and saving an answer is Reply.
LEMMA AppendUserAsks ==
    ASSUME FInv, LInv', NEW c \in Callers, AppendUser(c)
    PROVE  [Exchange!Next]_(Exchange!vars)
<1>1. /\ BodyStep(c) /\ pc[c] = "append" /\ pc'[c] \in {"lookup", "unlock"}
      /\ call[c] \in Call /\ call[c].key \in Keys /\ call[c].text \in Texts
      /\ UNCHANGED messages \/ LogGrows(Asked(c))
      /\ \A d \in Callers \ {c} : pc'[d] = pc[d]
  BY AppendUserBody, BodyLog, BodyStepType
     DEF FInv, LInv, TypeOK, AppendUser, Goes, Ends, BodyStep, Inside, SaveAnswer
<1>2. pc'[c] = "unlock" => call'[c].outcome = "conflict"
  BY <1>1, EndsCarries DEF AppendUser, Goes, FInv, LInv, TypeOK, Outcomes, Call
<1>3. Telling' = Telling
  BY <1>1, <1>2, NobodyTold DEF Returning, BodyStep, Carries
<1>4. CASE UNCHANGED messages
  BY <1>3, <1>4, TellingShrinks
<1>5. CASE LogGrows(Asked(c))
  <2>1. PICK k \in Keys, t \in Texts : k = call[c].key /\ t = call[c].text
    BY <1>1
  <2>2. /\ FirstContent("user", k) = None /\ FirstContent("user", k)' = t
        /\ \A j \in Keys \ {k} : FirstContent("user", j)' = FirstContent("user", j)
        /\ \A j \in Keys : FirstContent("assistant", j)' = FirstContent("assistant", j)
    BY <1>5, <2>1, GrowthShows DEF FInv, Asked
  <2>3. Exchange!Ask(k, t)
    BY <1>3, <2>2 DEF Exchange!Ask, Telling
  <2> QED
    BY <2>3 DEF Exchange!Next
<1> QED
  BY <1>1, <1>4, <1>5

LEMMA SaveAnswerReplies ==
    ASSUME FInv, LInv', NEW c \in Callers, SaveAnswer(c)
    PROVE  [Exchange!Next]_(Exchange!vars)
<1>1. /\ BodyStep(c) /\ pc[c] = "save" /\ pc'[c] \in {"cite", "unlock"}
      /\ call[c] \in Call /\ call[c].key \in Keys /\ call[c].answer \in Answers
      /\ UNCHANGED messages \/ LogGrows(Given(c))
      /\ \A d \in Callers \ {c} : pc'[d] = pc[d]
  BY SaveAnswerBody, BodyLog, BodyStepType
     DEF FInv, LInv, TypeOK, CallsFit, AppendUser, SaveAnswer, Goes, Ends, BodyStep, Inside
<1>2. pc'[c] = "unlock" => call'[c].outcome = "conflict"
  <2>1. pc \in [Callers -> Steps]
    BY DEF FInv, LInv, TypeOK
  <2>2. "conflict" \in Outcomes
    BY DEF Outcomes
  <2>3. Goes(c, "cite") \/ Ends(c, "conflict")
    BY DEF SaveAnswer
  <2>4. ASSUME Goes(c, "cite") PROVE pc'[c] = "cite"
    BY <2>1, <2>4 DEF Goes
  <2>5. ASSUME Ends(c, "conflict") PROVE call'[c].outcome = "conflict"
    BY <1>1, <2>2, <2>5, EndsCarries DEF FInv
  <2> QED
    BY <2>3, <2>4, <2>5
<1>3. Telling' = Telling
  BY <1>1, <1>2, NobodyTold DEF Returning, BodyStep, Carries
<1>4. CASE UNCHANGED messages
  BY <1>3, <1>4, TellingShrinks
<1>5. CASE LogGrows(Given(c))
  <2>1. PICK k \in Keys, a \in Answers : k = call[c].key /\ a = call[c].answer
    BY <1>1
  <2>2. /\ FirstContent("assistant", k) = None /\ FirstContent("assistant", k)' = a
        /\ \A j \in Keys \ {k} : FirstContent("assistant", j)' = FirstContent("assistant", j)
        /\ \A j \in Keys : FirstContent("user", j)' = FirstContent("user", j)
    BY <1>5, <2>1, GrowthShows DEF FInv, Given
  <2>3. FirstContent("user", k) # None
    BY <1>1, <2>1, ContentsAreRead
       DEF FInv, CallsFollow, Follows, AskedSteps, ContentsRead, Said
  <2>4. Exchange!Reply(k, a)
    BY <1>3, <2>2, <2>3 DEF Exchange!Reply, Telling
  <2> QED
    BY <2>4 DEF Exchange!Next
<1> QED
  BY <1>1, <1>4, <1>5

\* The call ends well: it is told the question it asked and the answer of its key.
LEMMA FinishTells ==
    ASSUME FInv, NEW c \in Callers, Finish(c)
    PROVE  [Exchange!Next]_(Exchange!vars)
<1>1. /\ pc[c] = "finish" /\ pc' = [pc EXCEPT ![c] = "unlock"]
      /\ call[c] \in Call /\ UNCHANGED messages
      /\ Carries(c) /\ call'[c] = [call[c] EXCEPT !.outcome = "ok"]
  BY EndsCarries, BodyStepType DEF Finish, Inside, Outcomes, FInv, store
<1>2. PICK k \in Keys, t \in Texts, a \in {call[c].answer} :
        k = call[c].key /\ t = call[c].text /\ a = call[c].answer
  BY <1>1 DEF Call
<1>3. FirstContent("user", k) = t /\ FirstContent("assistant", k) = a /\ a # None
  <2>1. Said("user", k, t) /\ Said("assistant", k, a)
    BY <1>1, <1>2 DEF FInv, CallsFollow, Follows, AskedSteps, ToldSteps
  <2> QED
    BY <2>1, ContentsAreRead DEF FInv, ContentsRead, Said
<1>4. /\ pc'[c] = "unlock" /\ call'[c].key = k /\ call'[c].text = t /\ call'[c].answer = a
      /\ call'[c].outcome = "ok"
      /\ \A d \in Callers \ {c} : pc'[d] = pc[d] /\ call'[d] = call[d]
  BY <1>1, <1>2 DEF FInv, LInv, TypeOK, Carries, Call
<1>5. Telling' = Telling \cup {[key |-> k, text |-> t, answer |-> a]}
  <2>1. ~Returning(c) /\ Returning(c)' /\ \A d \in Callers \ {c} : Returning(d)' <=> Returning(d)
    BY <1>1, <1>4 DEF Returning
  <2>2. /\ Returned(c)' = [key |-> k, text |-> t, answer |-> a]
        /\ \A d \in Callers \ {c} : Returned(d)' = Returned(d)
    BY <1>4 DEF Returned
  <2> QED
    BY <2>1, <2>2 DEF Telling
<1>6. \A role, j : FirstContent(role, j)' = FirstContent(role, j)
  BY <1>1 DEF FirstContent, Stored
<1>7. Exchange!Tell(k)
  BY <1>3, <1>5, <1>6 DEF Exchange!Tell, Telling
<1> QED
  BY <1>7 DEF Exchange!Next

LEMMA StepIsExchange == FInv /\ LInv' /\ [Next]_vars => [Exchange!Next]_(Exchange!vars)
<1> SUFFICES ASSUME FInv, LInv', [Next]_vars PROVE [Exchange!Next]_(Exchange!vars)
  OBVIOUS
\* Who is told less after a step.
<1>1. ASSUME UNCHANGED messages,
             \A d \in Callers : \/ pc'[d] = pc[d] /\ call'[d] = call[d]
                                \/ ~Returning(d)'
                                \/ pc[d] = "unlock" /\ call'[d] = call[d]
      PROVE  [Exchange!Next]_(Exchange!vars)
  <2>1. \A d \in Callers : Returning(d)' => Returning(d) /\ Returned(d)' = Returned(d)
    BY <1>1 DEF Returning, Returned
  <2>2. Telling' \subseteq Telling
    BY <2>1 DEF Telling
  <2> QED
    BY <1>1, <2>2, TellingShrinks
<1>2. ASSUME NEW c \in Callers, Arrives(c) \/ TakeLock(c) \/ Unlock(c) \/ Release(c)
      PROVE  [Exchange!Next]_(Exchange!vars)
  <2>1. /\ UNCHANGED messages
        /\ \A d \in Callers \ {c} : pc'[d] = pc[d] /\ call'[d] = call[d]
    BY <1>2 DEF Arrives, Begin, TakeLock, Unlock, Release, store, FInv, LInv, TypeOK, CallsFit
  <2>2. \/ pc'[c] \in {"idle", "lock", "append"}
        \/ pc[c] = "unlock" /\ call'[c] = call[c]
    BY <1>2 DEF Arrives, Begin, TakeLock, Unlock, Release, FInv, LInv, TypeOK
  <2> QED
    BY <1>1, <2>1, <2>2 DEF Returning
<1>3. ASSUME NEW c \in Callers,
             \/ Lookup(c) \/ \E a \in Answers : Complete(c, a)
             \/ Cite(c) \/ Recall(c) \/ Remember(c) \/ PromotionFails(c) \/ StoreFails(c)
      PROVE  [Exchange!Next]_(Exchange!vars)
  <2>0. BodyStep(c) /\ UNCHANGED messages
    <3>1. CASE Lookup(c)
      BY <3>1, LookupBody DEF FInv, Lookup, store
    <3>2. CASE \E a \in Answers : Complete(c, a)
      BY <3>2, CompleteBody DEF FInv, Complete, store
    <3> QED
      BY <1>3, <3>1, <3>2, OtherBody DEF FInv
  <2>1. \A d \in Callers \ {c} : pc'[d] = pc[d] /\ call'[d] = call[d]
    BY <2>0 DEF FInv, LInv, TypeOK, BodyStep, Carries
  <2>2. CASE StoreFails(c)
    <3>1. pc'[c] = "unlock" /\ call'[c].outcome = "error"
      BY <2>0, <2>2, EndsCarries DEF StoreFails, BodyStep, FInv, LInv, TypeOK, Outcomes
    <3> QED
      BY <1>1, <2>0, <2>1, <3>1 DEF Returning
  <2>3. CASE ~StoreFails(c)
    <3>1. pc'[c] \in AskedSteps
      BY <1>3, <2>3 DEF Lookup, Complete, Cite, Recall, Remember, PromotionFails, Goes,
                        AfterAnswer, AskedSteps, FInv, LInv, TypeOK
    <3> QED
      BY <1>1, <2>0, <2>1, <3>1 DEF Returning, AskedSteps
  <2> QED
    BY <2>2, <2>3
<1>4. ASSUME NEW i \in DOMAIN memories, Forget(i) PROVE [Exchange!Next]_(Exchange!vars)
  BY <1>1, <1>4 DEF Forget
<1>5. ASSUME NEW p \in Processes, Crash(p) PROVE [Exchange!Next]_(Exchange!vars)
  <2>1. /\ UNCHANGED messages
        /\ \A d \in Callers : pc'[d] = "idle" \/ (pc'[d] = pc[d] /\ call'[d] = call[d])
    BY <1>5 DEF Crash, store
  <2> QED
    BY <1>1, <2>1 DEF Returning
<1>6. CASE UNCHANGED vars
  BY <1>1, <1>6 DEF vars
<1> QED
  BY <1>2, <1>3, <1>4, <1>5, <1>6, AppendUserAsks, SaveAnswerReplies, FinishTells
     DEF Next, Proceeds

\* Whatever the processes, races, failures and crashes, a key gets one question
\* and one answer, both final, and a call that returns is told the answer to the
\* very text it sent: send_message implements the exchange.
THEOREM ExchangeKept == Spec => ImplementsExchange
<1>1. Init => Exchange!Init
  <2> SUFFICES ASSUME Init PROVE Exchange!Init
    OBVIOUS
  <2>1. \A role, k : FirstContent(role, k) = None
    BY DEF Init, FirstContent, Stored
  <2>2. \A c \in Callers : ~Returning(c)
    BY DEF Init, Returning
  <2> QED
    BY <2>1, <2>2 DEF Exchange!Init
<1>2. FInv /\ FInv' /\ [Next]_vars => [Exchange!Next]_(Exchange!vars)
  BY StepIsExchange DEF FInv
<1> QED
  BY <1>1, <1>2, FollowsAlways, PTL DEF Spec, ImplementsExchange, Exchange!Spec

-----------------------------------------------------------------------------
(* One process: the lock of a key covers every call that uses the key.     *)

OneProcessOnly == \A p, q \in Processes : p = q

\* A key whose answer is being made or saved has none yet, and a conflict is
\* about the question.
OInv == LInv /\ AskedOnlyUnanswered /\ ConflictMeansOtherText

LEMMA AloneInside ==
    ASSUME OneProcessOnly, LInv, NEW c \in Callers, NEW d \in Callers,
           pc[c] \in Inside, pc[d] \in Inside, call[c].key = call[d].key
    PROVE  c = d
<1>1. ProcessOf[c] = ProcessOf[d]
  BY SendAssumption DEF OneProcessOnly
<1>2. /\ pc[c] # "idle" /\ pc[d] # "idle"
      /\ entry[ProcessOf[c]][call[c].key] = call[c].entry
      /\ entry[ProcessOf[d]][call[d].key] = call[d].entry
      /\ holder[call[c].entry] = c /\ holder[call[d].entry] = d
  BY DEF Inside, LInv, LocksAgree
<1> QED
  BY <1>1, <1>2

\* What a call in either place says of the log.
Unanswered(c) == pc[c] \in {"complete", "save"} => ~Answered(call[c].key)
RightlyRefused(c) ==
    pc[c] # "idle" /\ call[c].outcome = "conflict"
    => \E i \in Stored("user", call[c].key) : messages[i].content # call[c].text

\* A step of another thread, which is not the one that saves the answer.
LEMMA OthersStay ==
    ASSUME OInv, NEW d \in Callers, pc'[d] = pc[d], call'[d] = call[d],
           \/ UNCHANGED messages
           \/ \E m : LogGrows(m) /\ (m.role = "assistant" /\ pc[d] \in {"complete", "save"}
                                      => m.key # call[d].key)
    PROVE  Unanswered(d)' /\ RightlyRefused(d)'
<1>1. CASE UNCHANGED messages
  BY <1>1 DEF OInv, AskedOnlyUnanswered, ConflictMeansOtherText, Unanswered,
              RightlyRefused, Answered, Stored
<1>2. ASSUME NEW m, LogGrows(m),
             m.role = "assistant" /\ pc[d] \in {"complete", "save"} => m.key # call[d].key
      PROVE  Unanswered(d)' /\ RightlyRefused(d)'
  <2>1. /\ messages \in Seq(Message) /\ messages' = Append(messages, m)
        /\ \A i \in DOMAIN messages' : \/ i \in DOMAIN messages /\ messages'[i] = messages[i]
                                       \/ messages'[i] = m
        /\ \A i \in DOMAIN messages : i \in DOMAIN messages' /\ messages'[i] = messages[i]
    BY <1>2 DEF LogGrows, OInv, LInv, TypeOK
  <2>2. Unanswered(d)'
    BY <1>2, <2>1 DEF OInv, AskedOnlyUnanswered, Unanswered, Answered, Stored
  <2>3. RightlyRefused(d)'
    BY <2>1 DEF OInv, ConflictMeansOtherText, RightlyRefused, Stored
  <2> QED
    BY <2>2, <2>3
<1> QED
  BY <1>1, <1>2

LEMMA OneProcessBody ==
    ASSUME OneProcessOnly, OInv, NEW c \in Callers,
           \/ AppendUser(c) \/ Lookup(c) \/ \E a \in Answers : Complete(c, a)
           \/ SaveAnswer(c) \/ Cite(c) \/ Recall(c) \/ Remember(c)
           \/ PromotionFails(c) \/ Finish(c) \/ StoreFails(c)
    PROVE  (AskedOnlyUnanswered /\ ConflictMeansOtherText)'
<1>1. BodyStep(c)
  BY AppendUserBody, LookupBody, CompleteBody, SaveAnswerBody, OtherBody DEF OInv
<1>2. /\ call[c] \in Call /\ call[c].key \in Keys /\ call[c].text \in Texts
      /\ pc[c] \in Inside
      /\ call'[c].key = call[c].key /\ call'[c].text = call[c].text
      /\ \A d \in Callers \ {c} : pc'[d] = pc[d] /\ call'[d] = call[d]
  BY <1>1, BodyStepType DEF BodyStep, Carries, OInv, LInv, TypeOK
<1>3. \/ UNCHANGED messages
      \/ AppendUser(c) /\ LogGrows(Asked(c))
      \/ SaveAnswer(c) /\ LogGrows(Given(c))
  BY BodyLog, OtherBody DEF OInv
<1>4. ASSUME NEW d \in Callers \ {c} PROVE Unanswered(d)' /\ RightlyRefused(d)'
  <2>1. CASE UNCHANGED messages
    BY <1>2, <2>1, OthersStay
  <2>2. CASE LogGrows(Asked(c))
    BY <1>2, <2>2, OthersStay DEF Asked
  <2>3. CASE LogGrows(Given(c))
    <3>1. pc[d] \in {"complete", "save"} => call[d].key # call[c].key
      BY <1>2, AloneInside DEF Inside, OInv
    <3> QED
      BY <1>2, <2>3, <3>1, OthersStay DEF Given
  <2> QED
    BY <1>3, <2>1, <2>2, <2>3
\* The answer is not there when the call begins to make it.
<1>5. Unanswered(c)'
  <2>1. CASE Lookup(c)
    <3>1. ASSUME ~Answered(call[c].key) PROVE Unanswered(c)'
      BY <1>2, <2>1, <3>1 DEF Lookup, store, Unanswered, Answered, Stored
    <3>2. ASSUME Goes(c, AfterAnswer(c)) PROVE Unanswered(c)'
      BY <3>2 DEF Goes, AfterAnswer, Unanswered, OInv, LInv, TypeOK
    <3> QED
      BY <2>1, <3>1, <3>2 DEF Lookup
  <2>2. CASE \E a \in Answers : Complete(c, a)
    BY <1>2, <2>2 DEF Complete, store, OInv, AskedOnlyUnanswered, Unanswered, Answered, Stored
  <2>3. CASE ~Lookup(c) /\ ~\E a \in Answers : Complete(c, a)
    <3>1. pc'[c] \notin {"complete", "save"}
      BY <2>3 DEF AppendUser, SaveAnswer, Cite, Recall, Remember, PromotionFails, Finish,
                  StoreFails, Goes, Ends, AfterAnswer, OInv, LInv, TypeOK
    <3> QED
      BY <3>1 DEF Unanswered
  <2> QED
    BY <2>1, <2>2, <2>3
\* A call is refused by its question only.
<1>6. RightlyRefused(c)'
  <2>1. ASSUME call'[c].outcome = call[c].outcome \/ call'[c].outcome # "conflict",
               UNCHANGED messages \/ \E m : LogGrows(m)
        PROVE  RightlyRefused(c)'
    <3>1. \A i \in DOMAIN messages : i \in DOMAIN messages' /\ messages'[i] = messages[i]
      BY <2>1, LogKeeps DEF OInv
    <3> QED
      BY <1>2, <2>1, <3>1 DEF OInv, ConflictMeansOtherText, RightlyRefused, Stored, Inside
  <2>2. ASSUME NEW i \in Stored("user", call[c].key), UNCHANGED messages,
               ~SameMessage(i, call[c].text, 0)
        PROVE  RightlyRefused(c)'
    BY <1>2, <2>2, StoredFits DEF OInv, SameMessage, RightlyRefused, Stored
  <2>3. CASE AppendUser(c)
    <3>1. Len(messages) + 1 \in Nat /\ \A i \in Stored("user", call[c].key) : i \in Nat
      BY <1>2, StoredFits DEF OInv, LInv, TypeOK
    <3>2. ASSUME NEW n \in Nat, call' = [call EXCEPT ![c].user = n] PROVE RightlyRefused(c)'
      BY <1>2, <1>3, <2>1, <3>2, UserCarries DEF OInv
    <3> QED
      BY <2>2, <2>3, <3>1, <3>2 DEF AppendUser
  <2>4. CASE Lookup(c)
    <3>1. call'[c].outcome = call[c].outcome
      BY <1>2, <2>4, AnswerCarries, StoredFits DEF Lookup, OInv
    <3> QED
      BY <2>1, <2>4, <3>1 DEF Lookup, store
  <2>5. ASSUME NEW a \in Answers, Complete(c, a) PROVE RightlyRefused(c)'
    <3>1. call'[c].outcome = call[c].outcome
      BY <1>2, <2>5, CompleteBody DEF OInv, Call
    <3> QED
      BY <2>1, <2>5, <3>1 DEF Complete, store
  <2>6. CASE SaveAnswer(c)
    <3>1. UNCHANGED call
      BY <2>6 DEF SaveAnswer, OInv, AskedOnlyUnanswered, Answered
    <3> QED
      BY <1>3, <2>1, <3>1
  <2>7. CASE Cite(c) \/ Recall(c) \/ Remember(c) \/ PromotionFails(c)
    <3>1. UNCHANGED <<messages, call>>
      BY <2>7 DEF Cite, Recall, Remember, PromotionFails, store
    <3> QED
      BY <2>1, <3>1
  <2>8. CASE Finish(c) \/ StoreFails(c)
    <3>1. call'[c].outcome \in {"ok", "error"}
      BY <1>2, <2>8, EndsCarries DEF Finish, StoreFails, OInv, Outcomes
    <3> QED
      BY <1>3, <2>1, <3>1
  <2> QED
    BY <2>3, <2>4, <2>5, <2>6, <2>7, <2>8
<1> QED
  BY <1>4, <1>5, <1>6 DEF AskedOnlyUnanswered, ConflictMeansOtherText, Unanswered, RightlyRefused

LEMMA OneProcessStep ==
    ASSUME OneProcessOnly
    PROVE  OInv /\ [Next]_vars => OInv'
<1> SUFFICES ASSUME OInv, [Next]_vars PROVE (AskedOnlyUnanswered /\ ConflictMeansOtherText)'
  BY StepKeepsLocks DEF OInv
<1>1. ASSUME NEW d \in Callers, UNCHANGED messages,
             \/ pc'[d] = pc[d] /\ call'[d] = call[d]
             \/ pc'[d] = "idle"
             \/ pc'[d] \in {"lock", "append", "release"} /\ pc[d] # "idle" /\ call'[d] = call[d]
             \/ pc'[d] = "lock" /\ call'[d].outcome = "none"
      PROVE  Unanswered(d)' /\ RightlyRefused(d)'
  BY <1>1 DEF OInv, AskedOnlyUnanswered, ConflictMeansOtherText, Unanswered,
              RightlyRefused, Answered, Stored
<1>2. ASSUME UNCHANGED messages,
             \A d \in Callers :
                \/ pc'[d] = pc[d] /\ call'[d] = call[d]
                \/ pc'[d] = "idle"
                \/ pc'[d] \in {"lock", "append", "release"} /\ pc[d] # "idle" /\ call'[d] = call[d]
                \/ pc'[d] = "lock" /\ call'[d].outcome = "none"
      PROVE  (AskedOnlyUnanswered /\ ConflictMeansOtherText)'
  BY <1>1, <1>2 DEF AskedOnlyUnanswered, ConflictMeansOtherText, Unanswered, RightlyRefused
<1>3. ASSUME NEW c \in Callers, Arrives(c) PROVE (AskedOnlyUnanswered /\ ConflictMeansOtherText)'
  <2>1. /\ UNCHANGED messages
        /\ \A d \in Callers \ {c} : pc'[d] = pc[d] /\ call'[d] = call[d]
        /\ pc'[c] = "lock" /\ call'[c].outcome = "none"
    BY <1>3 DEF Arrives, Begin, NewCall, store, OInv, LInv, TypeOK, CallsFit
  <2> QED
    BY <1>2, <2>1
<1>4. ASSUME NEW c \in Callers, TakeLock(c) \/ Unlock(c) \/ Release(c)
      PROVE  (AskedOnlyUnanswered /\ ConflictMeansOtherText)'
  <2>1. /\ UNCHANGED messages
        /\ \A d \in Callers \ {c} : pc'[d] = pc[d] /\ call'[d] = call[d]
        /\ \/ pc'[c] = "idle"
           \/ pc'[c] \in {"append", "release"} /\ pc[c] # "idle" /\ call'[c] = call[c]
    BY <1>4 DEF TakeLock, Unlock, Release, store, OInv, LInv, TypeOK, CallsFit
  <2> QED
    BY <1>2, <2>1
<1>5. ASSUME NEW i \in DOMAIN memories, Forget(i)
      PROVE  (AskedOnlyUnanswered /\ ConflictMeansOtherText)'
  BY <1>2, <1>5 DEF Forget
<1>6. ASSUME NEW p \in Processes, Crash(p)
      PROVE  (AskedOnlyUnanswered /\ ConflictMeansOtherText)'
  <2>1. /\ UNCHANGED messages
        /\ \A d \in Callers : pc'[d] = "idle" \/ (pc'[d] = pc[d] /\ call'[d] = call[d])
    BY <1>6 DEF Crash, store
  <2> QED
    BY <1>2, <2>1
<1>7. CASE UNCHANGED vars
  BY <1>2, <1>7 DEF vars
<1> QED
  BY <1>3, <1>4, <1>5, <1>6, <1>7, OneProcessBody DEF Next, Proceeds

LEMMA OneProcessAlways ==
    ASSUME OneProcessOnly
    PROVE  Spec => []OInv
<1>1. Init => OInv
  BY InitLocks DEF OInv, Init, AskedOnlyUnanswered, ConflictMeansOtherText
<1>2. OInv /\ [Next]_vars => OInv'
  BY OneProcessStep
<1> QED
  BY <1>1, <1>2, PTL DEF Spec

\* In one process the model is asked about a key only while the key has no
\* answer: duplicates, retries and crashes never pay for one twice.
THEOREM AskedOnce ==
    ASSUME OneProcessOnly
    PROVE  Spec => []AskedOnlyUnanswered
<1>1. OInv => AskedOnlyUnanswered
  BY DEF OInv
<1> QED
  BY <1>1, OneProcessAlways, PTL

\* In one process a call is refused as a conflict only when its key was used
\* for another text: saving an answer never runs into another answer.
THEOREM ConflictsAreReal ==
    ASSUME OneProcessOnly
    PROVE  Spec => []ConflictMeansOtherText
<1>1. OInv => ConflictMeansOtherText
  BY DEF OInv
<1> QED
  BY <1>1, OneProcessAlways, PTL

-----------------------------------------------------------------------------
(* One process, no more memories than list_memories returns: a text is     *)
(* remembered at most once per key it was sent under.                      *)

ActiveOf(t) == {i \in DOMAIN memories : memories[i].text = t /\ memories[i].active}
Rememberers(t) == {c \in Callers : pc[c] = "remember" /\ call[c].text = t}
QuestionsOf(t) ==
    {i \in DOMAIN messages : messages[i].role = "user" /\ messages[i].content = t}

\* The memories of a text and the calls about to add one are covered together
\* by the keys it was sent under.
Covered(t) ==
    Cardinality(ActiveOf(t)) + Cardinality(Rememberers(t)) <= Cardinality(QuestionsOf(t))

RInv == FInv /\ Len(memories) <= MaxMemories /\ \A t \in Texts : Covered(t)

CountsFit ==
    \A t \in Texts :
        /\ IsFiniteSet(ActiveOf(t)) /\ Cardinality(ActiveOf(t)) \in Nat
        /\ IsFiniteSet(Rememberers(t)) /\ Cardinality(Rememberers(t)) \in Nat
        /\ IsFiniteSet(QuestionsOf(t)) /\ Cardinality(QuestionsOf(t)) \in Nat

LEMMA CountsAreFit == LInv => CountsFit
<1> SUFFICES ASSUME LInv, NEW t \in Texts
             PROVE  /\ IsFiniteSet(ActiveOf(t)) /\ Cardinality(ActiveOf(t)) \in Nat
                    /\ IsFiniteSet(Rememberers(t)) /\ Cardinality(Rememberers(t)) \in Nat
                    /\ IsFiniteSet(QuestionsOf(t)) /\ Cardinality(QuestionsOf(t)) \in Nat
  BY DEF CountsFit
<1>1. /\ ActiveOf(t) \in SUBSET (1 .. Len(memories)) /\ Len(memories) \in Nat
      /\ QuestionsOf(t) \in SUBSET (1 .. Len(messages)) /\ Len(messages) \in Nat
      /\ Rememberers(t) \in SUBSET Callers
  BY DEF ActiveOf, QuestionsOf, Rememberers, LInv, TypeOK
<1>2. IsFiniteSet(1 .. Len(memories)) /\ IsFiniteSet(1 .. Len(messages))
  BY <1>1, FS_Interval
<1>3. IsFiniteSet(ActiveOf(t)) /\ IsFiniteSet(QuestionsOf(t)) /\ IsFiniteSet(Rememberers(t))
  BY <1>1, <1>2, FS_Subset, SendAssumption
<1> QED
  BY <1>3, FS_CardinalityType

LEMMA CountsFitNext == LInv' => CountsFit'
BY CountsAreFit, PTL

\* Steps that add neither a memory nor a call about to save one.
LEMMA CoveredStays ==
    ASSUME RInv, LInv', NEW t \in Texts,
           ActiveOf(t)' \subseteq ActiveOf(t), Rememberers(t)' \subseteq Rememberers(t),
           QuestionsOf(t) \subseteq QuestionsOf(t)'
    PROVE  Covered(t)'
<1>1. CountsFit /\ CountsFit'
  BY CountsAreFit, CountsFitNext DEF RInv, FInv
<1>2. /\ Cardinality(ActiveOf(t)') <= Cardinality(ActiveOf(t))
      /\ Cardinality(Rememberers(t)') <= Cardinality(Rememberers(t))
      /\ Cardinality(QuestionsOf(t)) <= Cardinality(QuestionsOf(t)')
  BY <1>1, FS_Subset DEF CountsFit
<1> QED
  BY <1>1, <1>2 DEF CountsFit, RInv, Covered

\* Calls that promote the same text at the same time have keys of their own.
LEMMA QuestionsApart ==
    ASSUME OneProcessOnly, FInv, NEW t \in Texts, NEW S \in SUBSET Callers,
           \A d \in S : pc[d] \in {"recall", "remember"} /\ call[d].text = t
    PROVE  Cardinality(S) <= Cardinality(QuestionsOf(t))
<1> DEFINE f == [d \in S |-> CHOOSE i \in QuestionsOf(t) : messages[i].key = call[d].key]
<1>1. \A d \in S : \E i \in QuestionsOf(t) : messages[i].key = call[d].key
  BY DEF FInv, CallsFollow, Follows, AskedSteps, Said, Stored, QuestionsOf
<1>2. \A d \in S : f[d] \in QuestionsOf(t) /\ messages[f[d]].key = call[d].key
  BY <1>1
<1>3. f \in [S -> QuestionsOf(t)]
  BY <1>2
<1>4. \A d, b \in S : f[d] = f[b] => d = b
  <2> SUFFICES ASSUME NEW d \in S, NEW b \in S, f[d] = f[b] PROVE d = b
    OBVIOUS
  <2>1. call[d].key = call[b].key
    BY <1>2
  <2> QED
    BY <2>1, AloneInside DEF Inside, FInv
<1>5. /\ IsFiniteSet(S) /\ Cardinality(S) \in Nat
      /\ IsFiniteSet(QuestionsOf(t)) /\ Cardinality(QuestionsOf(t)) \in Nat
  BY CountsAreFit, SendAssumption, FS_Subset, FS_CardinalityType DEF FInv, CountsFit
<1> HIDE DEF f
<1> QED
  BY <1>3, <1>4, <1>5, FS_PigeonHole

\* With so few memories, list_memories returns every active one.
LEMMA EveryMemoryRecalled ==
    ASSUME LInv, Len(memories) <= MaxMemories, MaxMemories <= RecallLimit,
           NEW t \in Texts, ~Known(t)
    PROVE  ActiveOf(t) = {}
<1> SUFFICES ASSUME NEW i \in ActiveOf(t) PROVE i \in Recalled /\ memories[i].text = t
  BY DEF Known
<1> DEFINE later == {j \in DOMAIN memories : j > i /\ memories[j].active}
<1>1. /\ i \in 1 .. Len(memories) /\ Len(memories) \in Nat
      /\ memories[i].active /\ memories[i].text = t
  BY DEF ActiveOf, LInv, TypeOK
<1>2. later \in SUBSET ((i + 1) .. Len(memories))
  BY <1>1
<1>3. /\ IsFiniteSet((i + 1) .. Len(memories))
      /\ Cardinality((i + 1) .. Len(memories)) <= Len(memories) - 1
  <2>1. i + 1 \in Int /\ Len(memories) \in Int /\ i \in Nat /\ 1 <= i /\ i <= Len(memories)
    BY <1>1
  <2>2. /\ IsFiniteSet((i + 1) .. Len(memories))
        /\ Cardinality((i + 1) .. Len(memories))
            = IF i + 1 > Len(memories) THEN 0 ELSE Len(memories) - (i + 1) + 1
    BY <2>1, FS_Interval
  <2> QED
    BY <2>1, <2>2
<1>4. Cardinality(later) <= Cardinality((i + 1) .. Len(memories)) /\ Cardinality(later) \in Nat
  BY <1>2, <1>3, FS_Subset, FS_CardinalityType
<1>5. Cardinality((i + 1) .. Len(memories)) \in Nat
  BY <1>3, FS_CardinalityType
<1>6. Cardinality(later) < RecallLimit
  <2> HIDE DEF later
  <2> QED
    BY <1>1, <1>3, <1>4, <1>5, SendAssumption
<1> QED
  BY <1>1, <1>6 DEF Recalled

LEMMA QuestionsStay ==
    ASSUME LInv, UNCHANGED messages \/ \E m : LogGrows(m), NEW t
    PROVE  QuestionsOf(t) \subseteq QuestionsOf(t)'
BY LogKeeps DEF QuestionsOf

\* What the other threads are about to save.
LEMMA RemembersStay ==
    ASSUME NEW c \in Callers, pc'[c] # "remember",
           \A d \in Callers \ {c} : pc'[d] = pc[d] /\ call'[d] = call[d], NEW t
    PROVE  Rememberers(t)' = Rememberers(t) \ {c}
BY DEF Rememberers

LEMMA RecallCovers ==
    ASSUME OneProcessOnly, MaxMemories <= RecallLimit, RInv, LInv',
           NEW c \in Callers, Recall(c), NEW t \in Texts
    PROVE  Covered(t)'
<1>1. /\ pc[c] = "recall" /\ UNCHANGED <<messages, memories, call>>
      /\ pc' = [pc EXCEPT ![c] = IF Known(call[c].text) THEN "finish" ELSE "remember"]
  BY DEF Recall, Goes, UserWords, store
<1>2. /\ ActiveOf(t)' = ActiveOf(t) /\ QuestionsOf(t)' = QuestionsOf(t)
      /\ \A d \in Callers \ {c} : pc'[d] = pc[d] /\ call'[d] = call[d]
      /\ call'[c] = call[c]
  BY <1>1 DEF ActiveOf, QuestionsOf, RInv, FInv, LInv, TypeOK
<1>3. CASE ~Known(t) /\ call[c].text = t
  <2>1. ActiveOf(t) = {} /\ Cardinality(ActiveOf(t)') = 0
    BY <1>2, <1>3, EveryMemoryRecalled, FS_EmptySet DEF RInv, FInv
  <2>2. \A d \in Rememberers(t)' : pc[d] \in {"recall", "remember"} /\ call[d].text = t
    BY <1>1, <1>2, <1>3 DEF Rememberers
  <2>3. PICK S \in SUBSET Callers : S = Rememberers(t)'
    BY DEF Rememberers
  <2>4. Cardinality(S) <= Cardinality(QuestionsOf(t))
    BY <2>2, <2>3, QuestionsApart DEF RInv
  <2>5. Cardinality(S) \in Nat /\ Cardinality(QuestionsOf(t)) \in Nat
    BY <2>3, CountsAreFit, CountsFitNext DEF RInv, FInv, CountsFit
  <2> QED
    BY <1>2, <2>1, <2>3, <2>4, <2>5 DEF Covered
<1>4. CASE ~(~Known(t) /\ call[c].text = t)
  <2>1. Rememberers(t)' \subseteq Rememberers(t)
    BY <1>1, <1>2, <1>4 DEF Rememberers, RInv, FInv, LInv, TypeOK
  <2> QED
    BY <1>2, <2>1, CoveredStays
<1> QED
  BY <1>3, <1>4

LEMMA RememberCovers ==
    ASSUME RInv, LInv', NEW c \in Callers, Remember(c), NEW t \in Texts
    PROVE  Covered(t)' /\ Len(memories') <= MaxMemories
<1>1. PICK w \in Texts :
        /\ w = call[c].text /\ pc[c] = "remember" /\ Len(memories) < MaxMemories
        /\ memories' = Append(memories, [text |-> w, active |-> TRUE])
        /\ pc' = [pc EXCEPT ![c] = "finish"] /\ UNCHANGED <<messages, call>>
  BY BodyStepType DEF Remember, Goes, UserWords, Inside, RInv, FInv
<1>2. /\ memories \in Seq(Memory) /\ Len(memories) \in Nat
      /\ pc'[c] = "finish" /\ \A d \in Callers \ {c} : pc'[d] = pc[d] /\ call'[d] = call[d]
  BY <1>1 DEF RInv, FInv, LInv, TypeOK
<1>3. Len(memories') <= MaxMemories
  BY <1>1, <1>2, SendAssumption
<1>4. QuestionsOf(t)' = QuestionsOf(t) /\ Rememberers(t)' = Rememberers(t) \ {c}
  BY <1>1, <1>2, RemembersStay DEF QuestionsOf
<1>5. ActiveOf(t)' = IF t = w THEN ActiveOf(t) \cup {Len(memories) + 1} ELSE ActiveOf(t)
  <2>1. /\ DOMAIN memories = 1 .. Len(memories)
        /\ DOMAIN memories' = 1 .. Len(memories) + 1
        /\ \A i \in DOMAIN memories : memories'[i] = memories[i]
        /\ memories'[Len(memories) + 1] = [text |-> w, active |-> TRUE]
    BY <1>1, <1>2
  <2>2. DOMAIN memories' = DOMAIN memories \cup {Len(memories) + 1}
    BY <1>2, <2>1
  <2> QED
    BY <2>1, <2>2 DEF ActiveOf
<1>6. CASE t # w
  <2>1. ActiveOf(t)' \subseteq ActiveOf(t) /\ Rememberers(t)' \subseteq Rememberers(t)
    BY <1>4, <1>5, <1>6
  <2> QED
    BY <1>3, <1>4, <2>1, CoveredStays
<1>7. CASE t = w
  <2>1. CountsFit
    BY CountsAreFit DEF RInv, FInv
  <2>2. c \in Rememberers(t) /\ Len(memories) + 1 \notin ActiveOf(t)
    BY <1>1, <1>2, <1>7 DEF Rememberers, ActiveOf
  <2>3. Cardinality(Rememberers(t)') = Cardinality(Rememberers(t)) - 1
    BY <1>4, <2>1, <2>2, FS_RemoveElement DEF CountsFit
  <2>4. Cardinality(ActiveOf(t)') = Cardinality(ActiveOf(t)) + 1
    BY <1>5, <1>7, <2>1, <2>2, FS_AddElement DEF CountsFit
  <2>5. Cardinality(QuestionsOf(t)') = Cardinality(QuestionsOf(t))
    BY <1>4
  <2>6. /\ Cardinality(ActiveOf(t)) \in Nat /\ Cardinality(Rememberers(t)) \in Nat
        /\ Cardinality(QuestionsOf(t)) \in Nat
    BY <2>1 DEF CountsFit
  <2>7. Cardinality(ActiveOf(t)) + Cardinality(Rememberers(t)) <= Cardinality(QuestionsOf(t))
    BY DEF RInv, Covered
  <2> QED
    BY <1>3, <2>3, <2>4, <2>5, <2>6, <2>7 DEF Covered
<1> QED
  BY <1>3, <1>6, <1>7

LEMMA RememberedStep ==
    ASSUME OneProcessOnly, MaxMemories <= RecallLimit
    PROVE  RInv /\ FInv' /\ [Next]_vars => RInv'
<1> SUFFICES ASSUME RInv, FInv', [Next]_vars
             PROVE  Len(memories') <= MaxMemories /\ \A t \in Texts : Covered(t)'
  BY DEF RInv
<1>l. LInv /\ LInv'
  BY DEF RInv, FInv
\* A thread that does something else.
<1>1. ASSUME NEW c \in Callers, UNCHANGED memories,
             UNCHANGED messages \/ \E m : LogGrows(m),
             pc'[c] # "remember",
             \A d \in Callers \ {c} : pc'[d] = pc[d] /\ call'[d] = call[d]
      PROVE  Len(memories') <= MaxMemories /\ \A t \in Texts : Covered(t)'
  <2> SUFFICES ASSUME NEW t \in Texts PROVE Covered(t)'
    BY <1>1 DEF RInv
  <2>1. ActiveOf(t)' = ActiveOf(t)
    BY <1>1 DEF ActiveOf
  <2>2. Rememberers(t)' \subseteq Rememberers(t) /\ QuestionsOf(t) \subseteq QuestionsOf(t)'
    BY <1>l, <1>1, RemembersStay, QuestionsStay
  <2> QED
    BY <1>l, <2>1, <2>2, CoveredStays
<1>2. ASSUME NEW c \in Callers, Arrives(c) \/ TakeLock(c) \/ Unlock(c) \/ Release(c)
      PROVE  Len(memories') <= MaxMemories /\ \A t \in Texts : Covered(t)'
  <2>1. /\ UNCHANGED <<messages, memories>> /\ pc'[c] # "remember"
        /\ \A d \in Callers \ {c} : pc'[d] = pc[d] /\ call'[d] = call[d]
    BY <1>l, <1>2 DEF Arrives, Begin, TakeLock, Unlock, Release, store, LInv, TypeOK, CallsFit
  <2> QED
    BY <1>1, <2>1
<1>3. ASSUME NEW c \in Callers,
             \/ AppendUser(c) \/ Lookup(c) \/ \E a \in Answers : Complete(c, a)
             \/ SaveAnswer(c) \/ Cite(c) \/ PromotionFails(c) \/ Finish(c) \/ StoreFails(c)
      PROVE  Len(memories') <= MaxMemories /\ \A t \in Texts : Covered(t)'
  <2>1. BodyStep(c)
    BY <1>l, <1>3, AppendUserBody, LookupBody, CompleteBody, SaveAnswerBody, OtherBody
  <2>2. \A d \in Callers \ {c} : pc'[d] = pc[d] /\ call'[d] = call[d]
    BY <1>l, <2>1 DEF BodyStep, Carries, LInv, TypeOK
  <2>3. UNCHANGED messages \/ \E m : LogGrows(m)
    BY <1>l, <1>3, BodyLog, OtherBody
  <2>4. UNCHANGED memories /\ pc'[c] # "remember"
    BY <1>l, <1>3 DEF AppendUser, Lookup, Complete, SaveAnswer, Cite, PromotionFails, Finish,
                      StoreFails, Goes, Ends, AfterAnswer, store, LInv, TypeOK
  <2> QED
    BY <1>1, <2>2, <2>3, <2>4
<1>4. ASSUME NEW c \in Callers, Recall(c)
      PROVE  Len(memories') <= MaxMemories /\ \A t \in Texts : Covered(t)'
  BY <1>l, <1>4, RecallCovers DEF Recall, store, RInv
<1>5. ASSUME NEW c \in Callers, Remember(c)
      PROVE  Len(memories') <= MaxMemories /\ \A t \in Texts : Covered(t)'
  <2>1. Len(memories') <= MaxMemories
    <3>1. call[c].text \in Texts
      BY <1>l, <1>5, BodyStepType DEF Remember, Inside
    <3> QED
      BY <1>l, <1>5, <3>1, RememberCovers
  <2> QED
    BY <1>l, <1>5, <2>1, RememberCovers
<1>6. ASSUME UNCHANGED messages, Len(memories') <= MaxMemories,
             \A t \in Texts : ActiveOf(t)' \subseteq ActiveOf(t),
             \A d \in Callers : pc'[d] = "idle" \/ (pc'[d] = pc[d] /\ call'[d] = call[d])
      PROVE  Len(memories') <= MaxMemories /\ \A t \in Texts : Covered(t)'
  <2>1. \A t \in Texts : Rememberers(t)' \subseteq Rememberers(t)
    BY <1>6 DEF Rememberers
  <2>2. \A t \in Texts : QuestionsOf(t) \subseteq QuestionsOf(t)'
    BY <1>6 DEF QuestionsOf
  <2> QED
    BY <1>l, <1>6, <2>1, <2>2, CoveredStays
<1>7. ASSUME NEW i \in DOMAIN memories, Forget(i)
      PROVE  Len(memories') <= MaxMemories /\ \A t \in Texts : Covered(t)'
  <2> DEFINE m == [memories[i] EXCEPT !.active = FALSE]
  <2>1. memories \in Seq(Memory)
    BY <1>l DEF LInv, TypeOK
  <2>2. memories' = [memories EXCEPT ![i] = m] /\ memories[i] \in Memory
    BY <1>7, <2>1 DEF Forget
  <2>3. m.active = FALSE
    BY <2>2 DEF Memory
  <2>4. /\ DOMAIN memories' = DOMAIN memories /\ Len(memories') = Len(memories)
        /\ ~memories'[i].active
        /\ \A j \in DOMAIN memories \ {i} : memories'[j] = memories[j]
    <3> HIDE DEF m
    <3> QED
      BY <2>1, <2>2, <2>3
  <2>5. \A t \in Texts : ActiveOf(t)' \subseteq ActiveOf(t)
    BY <2>4 DEF ActiveOf
  <2> QED
    BY <1>6, <1>7, <2>4, <2>5 DEF Forget, RInv
<1>8. ASSUME NEW p \in Processes, Crash(p)
      PROVE  Len(memories') <= MaxMemories /\ \A t \in Texts : Covered(t)'
  <2>1. /\ UNCHANGED <<messages, memories>>
        /\ \A d \in Callers : pc'[d] = "idle" \/ (pc'[d] = pc[d] /\ call'[d] = call[d])
    BY <1>8 DEF Crash, store
  <2> QED
    BY <1>6, <2>1 DEF RInv, ActiveOf
<1>9. CASE UNCHANGED vars
  BY <1>6, <1>9 DEF vars, RInv, ActiveOf
<1> QED
  BY <1>2, <1>3, <1>4, <1>5, <1>7, <1>8, <1>9 DEF Next, Proceeds

\* In one process, with no more memories than list_memories returns, a text is
\* remembered at most once per key it was sent under, although the check and the
\* save of a promotion are apart and retries promote again.
THEOREM RememberedOnce ==
    ASSUME OneProcessOnly, MaxMemories <= RecallLimit
    PROVE  Spec => []RememberedOncePerKey
<1>1. Init => RInv
  <2> SUFFICES ASSUME Init PROVE RInv
    OBVIOUS
  <2>1. FInv
    BY InitLocks DEF FInv, CallsFollow, Follows, Returning, Init, AskedSteps, ToldSteps
  <2>2. \A t \in Texts : ActiveOf(t) = {} /\ Rememberers(t) = {} /\ QuestionsOf(t) = {}
    BY DEF Init, ActiveOf, Rememberers, QuestionsOf
  <2>3. \A t \in Texts : Covered(t)
    BY <2>2, FS_EmptySet DEF Covered
  <2> QED
    BY <2>1, <2>3, SendAssumption DEF RInv, Init
<1>2. RInv /\ FInv' /\ [Next]_vars => RInv'
  BY RememberedStep
<1>3. RInv => RememberedOncePerKey
  <2> SUFFICES ASSUME RInv, NEW t \in Texts
               PROVE  Cardinality(ActiveOf(t)) <= Cardinality(QuestionsOf(t))
    BY DEF RememberedOncePerKey, ActiveOf, QuestionsOf
  <2> QED
    BY CountsAreFit DEF RInv, FInv, CountsFit, Covered
<1> QED
  BY <1>1, <1>2, <1>3, FollowsAlways, PTL DEF Spec

=============================================================================
