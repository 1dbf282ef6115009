---------------------- MODULE AttachmentAuthorization ----------------------
(***************************************************************************)
(* The life of an attachment authorization                                 *)
(* (app/contracts/authorization.py, its routes in app/contracts/api.py).   *)
(*                                                                         *)
(* The service keeps no state: each operation is a few calls on a store    *)
(* outside the repository, which saves, lists, reads and changes the       *)
(* status of authorizations and appends audit events, each call on its     *)
(* own. It is taken to refuse what ALLOWED_TRANSITIONS does not list.      *)
(* Between two calls of one operation other operations run, time passes,   *)
(* and the operation may end: a call raises or the process dies.           *)
(*                                                                         *)
(* Nothing runs when a deadline passes: it is noticed by whoever asks      *)
(* next. What an authorization says of its file is left out.               *)
(***************************************************************************)
EXTENDS Naturals, Sequences

CONSTANTS
    Callers,     \* requests that run at a time
    Assets,      \* the project's asset rows: a sequence of Asset, the order they are read in
    Keys,        \* (source_table, source_attach_id_hash)
    Lifetime,    \* of a draft, 24 hours
    MaxDrafts,   \* bound: authorizations
    MaxCalls,    \* bound: operations
    MaxTime      \* bound: the clock

\* fit: an attachment candidate of an allowed table with a reference; plain: its
\* address is not redacted, which the draft refuses.
Asset == [key : Keys, fit : BOOLEAN, plain : BOOLEAN]
\* A file is registered once.
ASSUME AuthorizationAssumption ==
    /\ Assets \in Seq(Asset)
    /\ \A m, n \in DOMAIN Assets : Assets[m].key = Assets[n].key => m = n
    /\ Lifetime \in Nat /\ MaxDrafts \in Nat /\ MaxTime \in Nat /\ MaxCalls \in Nat

VARIABLES
    auth,     \* the authorizations, oldest first
    events,   \* how often each event is in the trail of each; blocked attempts up to once
    clock,    \* current_time_text
    call,     \* the operation of each caller
    calls,    \* how many were begun
    broken    \* ghost: authorizations of which an operation did not end

authorizationVars == <<auth, events, clock, call, calls, broken>>

Statuses == {"draft", "approved", "rejected", "expired"}
Events == {"created", "approved", "rejected", "expired", "blocked_download_attempt"}
CallSteps == {"idle", "save", "created", "changed", "check", "block", "told"}
Operations == {"none", "create", "from_assets", "change", "can_retrieve", "preflight"}
Authorization == [key : Keys, status : Statuses, expires : Nat]
\* todo: the rows still to make drafts of, in order; seen: the status that was read; valid: the
\* answer; late is a ghost: whether it was over when the call began.
Call == [op : Operations, step : CallSteps, todo : SUBSET (DOMAIN Assets), id : Nat,
         seen : Statuses, valid : BOOLEAN, late : BOOLEAN]
Idle == [op |-> "none", step |-> "idle", todo |-> {}, id |-> 0,
         seen |-> "draft", valid |-> FALSE, late |-> FALSE]
Ids == DOMAIN auth

AuthorizationTypeOK ==
    /\ auth \in Seq(Authorization)
    /\ events \in [Ids -> [Events -> Nat]]
    /\ clock \in Nat
    /\ call \in [Callers -> Call]
    /\ calls \in 0 .. MaxCalls
    /\ broken \subseteq Ids

AuthorizationInit ==
    /\ auth = <<>>
    /\ events = <<>>
    /\ clock = 0
    /\ call = [c \in Callers |-> Idle]
    /\ calls = 0
    /\ broken = {}

\* Mutant: a draft that was approved in time is in time.
DraftsExpire(i) == auth[i].expires < clock /\ auth[i].status = "draft"

\* _is_expired: the deadline itself is still in time.
IsExpired(i) == auth[i].expires < clock

Tick ==
    /\ clock < MaxTime
    /\ clock' = clock + 1
    /\ UNCHANGED <<auth, events, call, calls, broken>>

CallBegins(c) ==
    /\ call[c].step = "idle"
    /\ calls < MaxCalls
    /\ calls' = calls + 1

-----------------------------------------------------------------------------
(* Drafts.                                                                 *)

\* Begins with the rows to make drafts of, or fails on the first one.
Make(c, op, todo) ==
    /\ CallBegins(c)
    /\ todo # {}
    /\ call' = [call EXCEPT ![c] = [Idle EXCEPT !.op = op, !.step = "save", !.todo = todo]]
    /\ UNCHANGED <<auth, events, clock, broken>>

\* POST /attachments/authorizations: no look at what there is.
CreateDraft(c, n) == Assets[n].fit /\ Make(c, "create", {n})

\* Whatever became of them.
ExistingKeys == {auth[i].key : i \in Ids}

\* create_drafts_from_local_assets: keys and rows are read once, at the start.
DraftsFromAssets(c) ==
    Make(c, "from_assets",
         {n \in DOMAIN Assets : Assets[n].fit /\ Assets[n].key \notin ExistingKeys})

\* AttachmentAuthorization.create_draft; what it refuses ends the call, and with
\* it the drafts behind.
PassesAssertions(asset) == asset.fit /\ ~asset.plain

SaveDraft(c) ==
    /\ call[c].step = "save"
    /\ Len(auth) < MaxDrafts
    /\ \E n \in call[c].todo :
        /\ \A m \in call[c].todo : n <= m
        /\ PassesAssertions(Assets[n])
        /\ auth' = Append(auth, [key |-> Assets[n].key, status |-> "draft",
                                 expires |-> clock + Lifetime])
        /\ events' = Append(events, [e \in Events |-> 0])
        /\ call' = [call EXCEPT ![c].step = "created", ![c].todo = @ \ {n},
                                ![c].id = Len(auth) + 1]
    /\ UNCHANGED <<clock, calls, broken>>

\* add_attachment_authorization_audit_event
Record(i, event) ==
    events' = [events EXCEPT ![i][event] =
                  IF event = "blocked_download_attempt" THEN 1 ELSE @ + 1]

AuditCreated(c) ==
    /\ call[c].step = "created"
    /\ Record(call[c].id, "created")
    /\ call' = [call EXCEPT ![c] = IF @.todo = {} THEN Idle
                                   ELSE [@ EXCEPT !.step = "save"]]
    /\ UNCHANGED <<auth, clock, calls, broken>>

-----------------------------------------------------------------------------
(* Decisions.                                                              *)

\* ALLOWED_TRANSITIONS; nothing under src sets USED.
MayBecome(from, to) ==
    \/ from = "draft" /\ to \in {"approved", "rejected", "expired"}
    \/ from = "approved" /\ to = "expired"

SetStatus(i, to) ==
    /\ MayBecome(auth[i].status, to)
    /\ auth' = [auth EXCEPT ![i].status = to]

\* approve, reject, expire. Overdue drafts are not told from others.
Decide(c, i, to) ==
    /\ CallBegins(c)
    /\ SetStatus(i, to)
    /\ call' = [call EXCEPT ![c] = [Idle EXCEPT !.op = "change", !.step = "changed", !.id = i,
                                                !.seen = to]]
    /\ UNCHANGED <<events, clock, broken>>

AuditChange(c) ==
    /\ call[c].step = "changed"
    /\ Record(call[c].id, call[c].seen)
    /\ call' = [call EXCEPT ![c] =
                    CASE @.op = "change"       -> Idle
                      [] @.op = "can_retrieve" -> [@ EXCEPT !.step = "told"]
                      [] @.op = "preflight"    -> [@ EXCEPT !.step = "block"]]
    /\ UNCHANGED <<auth, clock, calls, broken>>

-----------------------------------------------------------------------------
(* can_retrieve and preflight_retrieval.                                   *)

Ask(c, i, op) ==
    /\ CallBegins(c)
    /\ call' = [call EXCEPT ![c] =
                    [Idle EXCEPT !.op = op, !.step = "check", !.id = i, !.seen = auth[i].status,
                                 !.late = auth[i].expires < clock \/ auth[i].status \in {"rejected", "expired"}]]
    /\ UNCHANGED <<auth, events, clock, broken>>

\* Mutant: the store is told, the trail is not.
ExpireQuietly(c) ==
    /\ call[c].step = "check"
    /\ IsExpired(call[c].id)
    /\ call[c].seen = "approved"
    /\ SetStatus(call[c].id, "expired")
    /\ call' = [call EXCEPT ![c].step = IF call[c].op = "preflight" THEN "block" ELSE "told"]
    /\ UNCHANGED <<events, clock, calls, broken>>

\* Overdue and read as approved: expire() first, whose refusal ends the call.
NoticeExpiry(c) ==
    /\ call[c].step = "check"
    /\ IsExpired(call[c].id)
    /\ call[c].seen = "approved"
    /\ SetStatus(call[c].id, "expired")
    /\ call' = [call EXCEPT ![c].step = "changed", ![c].seen = "expired"]
    /\ UNCHANGED <<events, clock, calls, broken>>

\* Overdue and never approved, which can_retrieve leaves without a trace.
FindOverdue(c) ==
    /\ call[c].step = "check"
    /\ IsExpired(call[c].id)
    /\ call[c].seen # "approved"
    /\ call' = [call EXCEPT ![c].step = IF call[c].op = "can_retrieve" THEN "told" ELSE "block"]
    /\ UNCHANGED <<auth, events, clock, calls, broken>>

FindInTime(c) ==
    /\ call[c].step = "check"
    /\ ~IsExpired(call[c].id)
    /\ call' = [call EXCEPT ![c].valid = (call[c].seen = "approved"),
                            ![c].step  = IF call[c].seen = "approved" /\ call[c].op = "can_retrieve"
                                         THEN "told" ELSE "block"]
    /\ UNCHANGED <<auth, events, clock, calls, broken>>

\* A preflight is always recorded as blocked: downloads are not enabled.
AuditBlocked(c) ==
    /\ call[c].step = "block"
    /\ Record(call[c].id, "blocked_download_attempt")
    /\ call' = [call EXCEPT ![c].step = "told"]
    /\ UNCHANGED <<auth, clock, calls, broken>>

Return(c) ==
    /\ call[c].step = "told"
    /\ call' = [call EXCEPT ![c] = Idle]
    /\ UNCHANGED <<auth, events, clock, calls, broken>>

\* A store call raises, a draft is refused, or the process dies.
BreaksOff(c) ==
    /\ call[c].step \notin {"idle", "told"}
    /\ call' = [call EXCEPT ![c] = Idle]
    /\ broken' = broken \cup {i \in {call[c].id} : call[c].step \in {"created", "changed"}}
    /\ UNCHANGED <<auth, events, clock, calls>>

AuthorizationNext ==
    \/ Tick
    \/ \E c \in Callers :
        \/ \E n \in DOMAIN Assets : CreateDraft(c, n)
        \/ DraftsFromAssets(c) \/ SaveDraft(c) \/ AuditCreated(c)
        \/ \E i \in Ids, to \in Statuses : Decide(c, i, to)
        \/ \E i \in Ids, op \in {"can_retrieve", "preflight"} : Ask(c, i, op)
        \/ AuditChange(c) \/ NoticeExpiry(c) \/ FindOverdue(c) \/ FindInTime(c)
        \/ AuditBlocked(c) \/ Return(c) \/ BreaksOff(c)

AuthorizationSpec == AuthorizationInit /\ [][AuthorizationNext]_authorizationVars
-----------------------------------------------------------------------------

\* A call that begins when an authorization is past its deadline, rejected or
\* expired is not told that it is valid, whatever is decided or noticed while
\* the call runs; and nobody is told so of one that was never approved
\* (can_retrieve, preflight_retrieval).
OverIsOver ==
    \A c \in Callers :
        call[c].step = "told" /\ call[c].valid =>
            ~call[c].late /\ auth[call[c].id].status \in {"approved", "expired"}

\* Status and trail are written by two calls of an outside store. Once nothing is
\* under way on an authorization and nothing broke off, the trail names every
\* status it has gone through, each once, and no other (create_draft, approve,
\* reject, expire, and the expiry noticed by the checks).
TrailIsComplete ==
    \A i \in Ids :
        LET times(event) == events[i][event]
            quiet == i \notin broken
                     /\ \A c \in Callers : call[c].id = i => call[c].step \notin {"created", "changed"}
        IN  /\ \A event \in Events \ {"blocked_download_attempt"} : times(event) <= 1
            /\ quiet => /\ times("created") = 1
                        /\ \A s \in {"rejected", "expired"} :
                                times(s) = 1 <=> auth[i].status = s
                        /\ times("approved") = 1 => auth[i].status \in {"approved", "expired"}
                        /\ auth[i].status = "approved" => times("approved") = 1

=============================================================================
