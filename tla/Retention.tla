----------------------------- MODULE Retention -----------------------------
(***************************************************************************)
(* services/retention_service.py: what the purge of old rows takes away    *)
(* beside the services that still use them (sign-in sessions, chats, tool  *)
(* calls, tasks, job runs), and services/storage_migration_service.py,     *)
(* which refuses to plan a migration while rows refer to rows that are     *)
(* gone.  Ages are free: any row that nobody touches may be old.           *)
(***************************************************************************)
EXTENDS OperationAccess, Sequences, Functions

CONSTANTS
    Chats,          \* ids of chat sessions
    Policies,       \* the retention policies in use
    MaxMessages,    \* bound: messages of a chat, rows of a table
    MaxRuns         \* bound: previews and purges

ASSUME RetentionAssumption ==
    IsFiniteSet(Chats) /\ MaxMessages \in Nat /\ MaxRuns \in Nat

VARIABLES
    chats,          \* chat_sessions, with how many chat_messages refer to each
    chatting,       \* requests under way in a chat: ensure_session has run
    rows,           \* the tables of the simple policies: open and finished rows
    retentionRuns,  \* rows of retention_runs
    purgeAudits,    \* audit events of purges
    preview,        \* a preview between its blocks
    plan,           \* a migration plan between its blocks
    gone            \* history: rows that are no longer there, by table

retentionVars == <<accessVars, chats, chatting, rows, retentionRuns, purgeAudits, preview, plan, gone>>

AllPolicies == {"expired_auth_sessions", "inactive_chat_history", "completed_tool_calls",
                "openalgo_snapshots", "retrieval_events", "job_runs", "terminal_work_tasks"}
SimplePolicies == Policies \ {"expired_auth_sessions", "inactive_chat_history"}
\* Those that ask whether a row is finished, not only how old it is.
Statused == {"completed_tool_calls", "terminal_work_tasks"}

\* A policy deletes from one table, but the one of chats from two.
Counted == (Policies \ {"inactive_chat_history"}) \cup {"chat_sessions", "chat_messages"}
Nothing == [c \in Counted |-> 0]

RetentionTypeOK ==
    /\ AccessTypeOK
    /\ chats \in [Chats -> [there : BOOLEAN, messages : 0..MaxMessages]]
    /\ chatting \in [Chats -> BOOLEAN]
    /\ rows \in [SimplePolicies -> [open : 0..MaxMessages, over : 0..MaxMessages]]
    /\ \A n \in DOMAIN retentionRuns : retentionRuns[n].mode \in {"preview", "execute"}
    /\ purgeAudits \in 0..MaxRuns
    /\ preview \in {"idle", "record"}
    /\ plan \in {"idle", "orphans", "written", "refused"}
    /\ gone \in [Counted -> Nat]

RetentionInit ==
    /\ AccessInit
    /\ chats = [c \in Chats |-> [there |-> FALSE, messages |-> 0]]
    /\ chatting = [c \in Chats |-> FALSE]
    /\ rows = [p \in SimplePolicies |-> [open |-> 0, over |-> 0]]
    /\ retentionRuns = <<>>
    /\ purgeAudits = 0
    /\ preview = "idle" /\ plan = "idle"
    /\ gone = Nothing

(***************************************************************************)
(* The services that write these tables.                                   *)
(***************************************************************************)
\* ensure_session: insert or ignore, and touch.
TouchChat(c) ==
    /\ ~chatting[c]
    /\ chats' = [chats EXCEPT ![c].there = TRUE]
    /\ chatting' = [chatting EXCEPT ![c] = TRUE]
    /\ UNCHANGED <<accessVars, rows, retentionRuns, purgeAudits, preview, plan, gone>>

AppendToChat(c) ==
    /\ chatting[c] /\ chats[c].messages < MaxMessages
    /\ chats' = [chats EXCEPT ![c].messages = @ + 1]
    /\ UNCHANGED <<accessVars, chatting, rows, retentionRuns, purgeAudits, preview, plan, gone>>

LeaveChat(c) ==
    /\ chatting[c]
    /\ chatting' = [chatting EXCEPT ![c] = FALSE]
    /\ UNCHANGED <<accessVars, chats, rows, retentionRuns, purgeAudits, preview, plan, gone>>

RowOpens(p) ==
    /\ rows[p].open + rows[p].over < MaxMessages
    /\ rows' = [rows EXCEPT ![p].open = @ + 1]
    /\ UNCHANGED <<accessVars, chats, chatting, retentionRuns, purgeAudits, preview, plan, gone>>

RowFinishes(p) ==
    /\ rows[p].open > 0
    /\ rows' = [rows EXCEPT ![p] = [open |-> @.open - 1, over |-> @.over + 1]]
    /\ UNCHANGED <<accessVars, chats, chatting, retentionRuns, purgeAudits, preview, plan, gone>>

(***************************************************************************)
(* What is old by now: sessions past their end, chats nobody is in (their  *)
(* updated_at is that of the last ensure_session), rows the policy's       *)
(* condition admits.                                                       *)
(***************************************************************************)
DeadTokens == {t \in AuthTokens : authSessions[t].user # NoUser /\ ~Honoured(t)}
MutInactiveChats == {c \in Chats : chats[c].there}
InactiveChats == {c \in Chats : chats[c].there /\ ~chatting[c]}
MutPurgeable(p) == rows[p]
Purgeable(p) == [open |-> IF p \in Statused THEN 0 ELSE rows[p].open, over |-> rows[p].over]

\* An age for every row: how many of each table are beyond the cutoff.
Ages ==
    LET counts == [open : 0..MaxMessages, over : 0..MaxMessages]
    IN [tokens : SUBSET DeadTokens, inactive : SUBSET InactiveChats,
        rows : {r \in [SimplePolicies -> counts] : \A p \in SimplePolicies :
                  r[p].open <= Purgeable(p).open /\ r[p].over <= Purgeable(p).over}]

Beyond(age, selected) ==
    [tokens   |-> IF "expired_auth_sessions" \in selected THEN age.tokens ELSE {},
     inactive |-> IF "inactive_chat_history" \in selected THEN age.inactive ELSE {},
     rows     |-> [p \in SimplePolicies |->
                     IF p \in selected THEN age.rows[p] ELSE [open |-> 0, over |-> 0]]]

MessagesOf(inactive) == SumFunctionOnSet([c \in Chats |-> chats[c].messages], inactive)

\* The counts of chat messages are those of chats.
MutCounts(b) ==
    [c \in Counted |->
        CASE c = "expired_auth_sessions" -> Cardinality(b.tokens)
          [] c \in {"chat_sessions", "chat_messages"} -> Cardinality(b.inactive)
          [] OTHER -> b.rows[c].open + b.rows[c].over]

Counts(b) ==
    [c \in Counted |->
        CASE c = "expired_auth_sessions" -> Cardinality(b.tokens)
          [] c = "chat_sessions" -> Cardinality(b.inactive)
          [] c = "chat_messages" -> MessagesOf(b.inactive)
          [] OTHER -> b.rows[c].open + b.rows[c].over]

(***************************************************************************)
(* preview and execute.                                                    *)
(***************************************************************************)
StartPreview ==
    /\ preview = "idle" /\ Len(retentionRuns) < MaxRuns
    /\ preview' = "record"
    /\ UNCHANGED <<accessVars, chats, chatting, rows, retentionRuns, purgeAudits, plan, gone>>

RecordPreview ==
    /\ preview = "record" /\ Len(retentionRuns) < MaxRuns
    /\ preview' = "idle"
    /\ retentionRuns' = Append(retentionRuns, [mode |-> "preview", deleted |-> Nothing])
    /\ UNCHANGED <<accessVars, chats, chatting, rows, purgeAudits, plan, gone>>

\* One transaction: the deletions, its row and its audit event, or none of them.
Execute(selected, age) ==
    LET b == Beyond(age, selected) counts == Counts(b)
    IN /\ Len(retentionRuns) < MaxRuns
       /\ authSessions' = [t \in AuthTokens |-> IF t \in b.tokens THEN NoSession ELSE authSessions[t]]
       /\ chats' = [c \in Chats |-> IF c \in b.inactive THEN [there |-> FALSE, messages |-> 0] ELSE chats[c]]
       /\ rows' = [p \in SimplePolicies |->
                      [open |-> rows[p].open - b.rows[p].open, over |-> rows[p].over - b.rows[p].over]]
       /\ retentionRuns' = Append(retentionRuns, [mode |-> "execute", deleted |-> counts])
       /\ purgeAudits' = purgeAudits + 1
       /\ gone' = [c \in Counted |-> gone[c] +
                     CASE c = "expired_auth_sessions" -> Cardinality(b.tokens)
                       [] c = "chat_sessions" -> Cardinality(b.inactive)
                       [] c = "chat_messages" -> MessagesOf(b.inactive)
                       [] OTHER -> b.rows[c].open + b.rows[c].over]
       \* A token is 24 random bytes: its like is not issued again.
       /\ loggedOut' = loggedOut \cup b.tokens
       /\ UNCHANGED <<request, chatting, preview, plan>>

(***************************************************************************)
(* StorageMigrationService.generate: the schema, then the references, in a *)
(* block each, then the plan.                                              *)
(***************************************************************************)
Orphans == {c \in Chats : chats[c].messages > 0 /\ ~chats[c].there}

ReadSchema ==
    /\ plan # "orphans"
    /\ plan' = "orphans"
    /\ UNCHANGED <<accessVars, chats, chatting, rows, retentionRuns, purgeAudits, preview, gone>>

WritePlan ==
    /\ plan = "orphans"
    /\ plan' = IF Orphans = {} THEN "written" ELSE "refused"
    /\ UNCHANGED <<accessVars, chats, chatting, rows, retentionRuns, purgeAudits, preview, gone>>

RetentionStep ==
    \/ \E c \in Chats : TouchChat(c) \/ AppendToChat(c) \/ LeaveChat(c)
    \/ \E p \in SimplePolicies : RowOpens(p) \/ RowFinishes(p)
    \/ StartPreview \/ RecordPreview
    \/ \E age \in Ages : \E selected \in (SUBSET Policies) \ {{}} : Execute(selected, age)
    \/ ReadSchema \/ WritePlan

SignInStep ==
    /\ SessionStep
    /\ UNCHANGED <<chats, chatting, rows, retentionRuns, purgeAudits, preview, plan, gone>>

RetentionNext == RetentionStep \/ SignInStep

RetentionSpec == RetentionInit /\ [][RetentionNext]_retentionVars

(***************************************************************************)
(* Properties                                                              *)
(***************************************************************************)
\* No message outlives its chat, not even one that is being written while the
\* purge runs; so the migration plan, which refuses a database with such rows, is
\* never refused.
NoOrphanMessages == Orphans = {} /\ plan # "refused"

\* What is gone is on record, row for row: the purges add up to all that was
\* deleted, a preview deletes nothing, and every purge left its audit event.
PurgesAreAccounted ==
    /\ \A c \in Counted :
          gone[c] = SumFunction([n \in DOMAIN retentionRuns |-> retentionRuns[n].deleted[c]])
    /\ purgeAudits = Cardinality({n \in DOMAIN retentionRuns : retentionRuns[n].mode = "execute"})

\* Purging leaves no loose ends and no unexplained gaps.
PurgesAreClean == RetentionTypeOK /\ NoOrphanMessages /\ PurgesAreAccounted

\* The purge spares what is in use: a session that still opens doors, a chat with
\* a request under way, a tool call or task that is not over.
PurgeSparesTheLiving ==
    [][Len(retentionRuns') > Len(retentionRuns) =>
          /\ \A t \in AuthTokens : Honoured(t) => Honoured(t)'
          /\ \A c \in Chats : chatting[c] => chats'[c] = chats[c]
          /\ \A p \in SimplePolicies \cap Statused : rows'[p].open = rows[p].open]_retentionVars
=============================================================================
