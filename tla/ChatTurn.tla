----------------------------- MODULE ChatTurn -----------------------------
(***************************************************************************)
(* One request to POST /chat, block by block: services/chat_service.py     *)
(* with conversation_service.py, tool_execution_service.py and the tool    *)
(* registry.  What the orchestrator selects is free: a language model may  *)
(* answer anything (IntentRouting has the deterministic router).           *)
(***************************************************************************)
EXTENDS Naturals, Sequences, FiniteSets, SequencesExt

CONSTANTS
    ChatSessions,
    Turns,          \* requests to the chat endpoint
    Tools,          \* names in the registry
    ReadOnlyTools,  \* those whose side effects are none or read-only
    Invented,       \* a name the registry does not know
    ChatRoles,
    AllowedTools,   \* role -> names of allowed_for_role
    Identifiers,    \* of stored records, as messages mention them
    NoIdentifier, NoChatSession, NoRole,
    Decisions,      \* what the orchestrator may select: sequences of invocations
    MaxCompound,    \* invocations of one message (4 in the code)
    MaxRaises       \* bound: blocks that raise and processes that die

ASSUME ChatAssumption ==
    /\ Invented \notin Tools
    /\ AllowedTools \in [ChatRoles -> SUBSET Tools]
    /\ NoIdentifier \notin Identifiers
    /\ MaxCompound \in Nat /\ MaxRaises \in Nat

VARIABLES
    chatSessions,   \* rows of chat_sessions
    chatMessages,   \* rows of chat_messages
    toolCalls,      \* rows of tool_calls: status of the n-th call of a turn
    toolAudit,      \* audit events of tool calls: <<turn, n, action>>
    turns,          \* the requests
    acted,          \* history: <<turn, n>> whose handler returned
    raises

chatVars == <<chatSessions, chatMessages, toolCalls, toolAudit, turns, acted, raises>>

\* An invocation names a tool and perhaps a record, and its arguments may not
\* validate.
Invocations == [tool : Tools \cup {Invented}, id : Identifiers \cup {NoIdentifier}, valid : BOOLEAN]

Messages == [session : ChatSessions, turn : Turns, role : {"user", "assistant"}, ids : SUBSET Identifiers]

CallKeys == Turns \X (1..MaxCompound)
NoCall == "none"
ToolCallStatuses == {NoCall, "running", "succeeded", "failed"}

\* The session and role of a turn, the identifiers of its message and of the
\* history it read, what it still has to call, and what the client was told.
NewTurn == [pc |-> "new", session |-> NoChatSession, role |-> NoRole, asked |-> {}, seen |-> {},
            calls |-> <<>>, n |-> 0, intent |-> "none", outcome |-> "none"]
TurnPcs == {"new", "history", "append", "select", "call", "audit", "handle", "close", "report", "store", "done"}
Intents == {"none", "direct", "clarification", "compound_request_rejected", "tool"}
Outcomes == {"none", "answered", "safe_failure", "invalid", "lost"}

TurnRecords == [pc : TurnPcs, session : ChatSessions \cup {NoChatSession}, role : ChatRoles \cup {NoRole},
                asked : SUBSET Identifiers, seen : SUBSET Identifiers, calls : Seq(Invocations),
                n : 0..MaxCompound, intent : Intents, outcome : Outcomes]

ChatTypeOK ==
    /\ chatSessions \subseteq ChatSessions
    /\ chatMessages \subseteq Messages
    /\ toolCalls \in [CallKeys -> ToolCallStatuses]
    /\ toolAudit \subseteq CallKeys \X {"started", "succeeded", "failed"}
    /\ turns \in [Turns -> TurnRecords]
    /\ acted \subseteq CallKeys
    /\ raises \in 0..MaxRaises

ChatInit ==
    /\ chatSessions = {} /\ chatMessages = {}
    /\ toolCalls = [k \in CallKeys |-> NoCall]
    /\ toolAudit = {}
    /\ turns = [t \in Turns |-> NewTurn]
    /\ acted = {}
    /\ raises = 0

TurnAt(t, pc) == turns[t].pc = pc
Becomes(t, turn) == turns' = [turns EXCEPT ![t] = turn]
Key(t) == <<t, turns[t].n>>
Current(t) == turns[t].calls[turns[t].n]
Under(t) == turns[t].pc \notin {"new", "done"}

(***************************************************************************)
(* ensure_session, history, append.                                        *)
(***************************************************************************)
EnsureSession(t, s, role, ids) ==
    /\ TurnAt(t, "new")
    /\ chatSessions' = chatSessions \cup {s}
    /\ Becomes(t, [NewTurn EXCEPT !.pc = "history", !.session = s, !.role = role, !.asked = ids])
    /\ UNCHANGED <<chatMessages, toolCalls, toolAudit, acted, raises>>

ReadHistory(t) ==
    /\ TurnAt(t, "history")
    /\ Becomes(t, [turns[t] EXCEPT !.pc = "append",
                   !.seen = UNION {m.ids : m \in {x \in chatMessages : x.session = turns[t].session}}])
    /\ UNCHANGED <<chatSessions, chatMessages, toolCalls, toolAudit, acted, raises>>

AppendMessage(t, role, ids) ==
    chatMessages' = chatMessages \cup {[session |-> turns[t].session, turn |-> t, role |-> role, ids |-> ids]}

AppendUser(t) ==
    /\ TurnAt(t, "append")
    /\ AppendMessage(t, "user", turns[t].asked)
    /\ Becomes(t, [turns[t] EXCEPT !.pc = "select"])
    /\ UNCHANGED <<chatSessions, toolCalls, toolAudit, acted, raises>>

(***************************************************************************)
(* select_tool, then the tests a selection has to pass, in the code's      *)
(* order.  None of this touches the database.                              *)
(***************************************************************************)
\* _invocations_for drops repetitions.
Distinct(calls) ==
    FoldLeft(LAMBDA seen, c : IF c \in ToSet(seen) THEN seen ELSE Append(seen, c), <<>>, calls)

\* What the orchestrator selects are invocations, with and without repetitions.
ASSUME SelectionAssumption == \A d \in Decisions : Distinct(d) \in Seq(Invocations)

Active(t, tool) == tool \in AllowedTools[turns[t].role]
MutTooMany(calls) == Len(calls) > MaxCompound + 1
TooMany(calls) == Len(calls) > MaxCompound

AllKnown(t, calls) == \A c \in ToSet(calls) : Active(t, c.tool)
MutMixesWrites(calls) == Len(calls) > 1 /\ calls[1].tool \notin ReadOnlyTools
MixesWrites(calls) == Len(calls) > 1 /\ \E c \in ToSet(calls) : c.tool \notin ReadOnlyTools

MutIdentified(t, calls) == calls[1].id = NoIdentifier \/ calls[1].id \in turns[t].asked \cup turns[t].seen

\* _identifier_clarification: every identifier must stand in the message or in
\* the history.
Identified(t, calls) ==
    \A c \in ToSet(calls) : c.id = NoIdentifier \/ c.id \in turns[t].asked \cup turns[t].seen

Ends(t, outcome) == Becomes(t, [turns[t] EXCEPT !.pc = "done", !.outcome = outcome])
Answers(t, intent) == Becomes(t, [turns[t] EXCEPT !.pc = "store", !.intent = intent])
RejectCompound(t) == Answers(t, "compound_request_rejected")
Clarify(t) == Answers(t, "clarification")

SelectTool(t, decision) ==
    /\ TurnAt(t, "select")
    /\ LET calls == Distinct(decision)
       IN CASE calls = <<>> -> Answers(t, "direct")
            [] calls # <<>> /\ TooMany(calls) -> RejectCompound(t)
            [] Len(calls) \in 2..MaxCompound /\ ~AllKnown(t, calls) -> Ends(t, "safe_failure")
            [] calls # <<>> /\ ~TooMany(calls) /\ (Len(calls) > 1 => AllKnown(t, calls)) /\ MixesWrites(calls)
                 -> RejectCompound(t)
            [] OTHER -> IF Identified(t, calls)
                        THEN Becomes(t, [turns[t] EXCEPT !.pc = "call", !.calls = calls, !.n = 1,
                                                         !.intent = "tool"])
                        ELSE Clarify(t)
    /\ UNCHANGED <<chatSessions, chatMessages, toolCalls, toolAudit, acted, raises>>

(***************************************************************************)
(* tool_execution_service.execute, once for every invocation.              *)
(***************************************************************************)
MutAddCall(t) ==
    /\ TurnAt(t, "call")
    /\ \/ ~Current(t).valid /\ Ends(t, "invalid") /\ UNCHANGED toolCalls
       \/ /\ Current(t).valid
          /\ toolCalls' = [toolCalls EXCEPT ![Key(t)] = "running"]
          /\ Becomes(t, [turns[t] EXCEPT !.pc = "audit"])
    /\ UNCHANGED <<chatSessions, chatMessages, toolAudit, acted, raises>>

\* registry.get and validate come first; the row is the first block.
AddCall(t) ==
    /\ TurnAt(t, "call")
    /\ \/ ~Active(t, Current(t).tool) /\ Ends(t, "safe_failure") /\ UNCHANGED toolCalls
       \/ Active(t, Current(t).tool) /\ ~Current(t).valid /\ Ends(t, "invalid") /\ UNCHANGED toolCalls
       \/ /\ Active(t, Current(t).tool) /\ Current(t).valid
          /\ toolCalls' = [toolCalls EXCEPT ![Key(t)] = "running"]
          /\ Becomes(t, [turns[t] EXCEPT !.pc = "audit"])
    /\ UNCHANGED <<chatSessions, chatMessages, toolAudit, acted, raises>>

AuditStarted(t) ==
    /\ TurnAt(t, "audit")
    /\ toolAudit' = toolAudit \cup {<<Key(t), "started">>}
    /\ Becomes(t, [turns[t] EXCEPT !.pc = "handle"])
    /\ UNCHANGED <<chatSessions, chatMessages, toolCalls, acted, raises>>

\* The handler returns or raises; either way its row is closed next.
RunHandler(t) ==
    /\ TurnAt(t, "handle")
    /\ Becomes(t, [turns[t] EXCEPT !.pc = "close"])
    /\ acted' \in {acted, acted \cup {Key(t)}}
    /\ UNCHANGED <<chatSessions, chatMessages, toolCalls, toolAudit, raises>>

MutCallResult(t) == "succeeded"
CallResult(t) == IF Key(t) \in acted THEN "succeeded" ELSE "failed"

CloseCall(t) ==
    /\ TurnAt(t, "close")
    /\ toolCalls' = [toolCalls EXCEPT ![Key(t)] = CallResult(t)]
    /\ Becomes(t, [turns[t] EXCEPT !.pc = "report"])
    /\ UNCHANGED <<chatSessions, chatMessages, toolAudit, acted, raises>>

\* A compound request goes on to its next check, whether this one failed or not.
AfterCall(turn) ==
    IF turn.n < Len(turn.calls) THEN [turn EXCEPT !.pc = "call", !.n = @ + 1] ELSE [turn EXCEPT !.pc = "store"]

AuditClosed(t) ==
    /\ TurnAt(t, "report")
    /\ toolAudit' = toolAudit \cup {<<Key(t), CallResult(t)>>}
    /\ Becomes(t, AfterCall(turns[t]))
    /\ UNCHANGED <<chatSessions, chatMessages, toolCalls, acted, raises>>

(***************************************************************************)
(* The answer may mention anything, what the model made up included.       *)
(***************************************************************************)
StoreAssistant(t, ids) ==
    /\ TurnAt(t, "store")
    /\ AppendMessage(t, "assistant", ids)
    /\ Ends(t, "answered")
    /\ UNCHANGED <<chatSessions, toolCalls, toolAudit, acted, raises>>

\* A block cannot open the file, or the model or a renderer raises: the endpoint
\* answers 502.
TurnRaises(t) ==
    /\ Under(t) /\ ~TurnAt(t, "handle")
    /\ raises < MaxRaises /\ raises' = raises + 1
    /\ Ends(t, "safe_failure")
    /\ UNCHANGED <<chatSessions, chatMessages, toolCalls, toolAudit, acted>>

\* The process dies with every request in it.
ProcessDies ==
    /\ raises < MaxRaises /\ raises' = raises + 1
    /\ \E t \in Turns : Under(t)
    /\ turns' = [t \in Turns |-> IF Under(t) THEN [turns[t] EXCEPT !.pc = "done", !.outcome = "lost"] ELSE turns[t]]
    /\ UNCHANGED <<chatSessions, chatMessages, toolCalls, toolAudit, acted>>

TurnStep(t) ==
    \/ \E s \in ChatSessions, role \in ChatRoles, ids \in SUBSET Identifiers : EnsureSession(t, s, role, ids)
    \/ ReadHistory(t) \/ AppendUser(t)
    \/ \E d \in Decisions : SelectTool(t, d)
    \/ AddCall(t) \/ AuditStarted(t) \/ RunHandler(t) \/ CloseCall(t) \/ AuditClosed(t)
    \/ \E ids \in SUBSET Identifiers : StoreAssistant(t, ids)

ChatNext == \/ \E t \in Turns : TurnStep(t) \/ TurnRaises(t)
            \/ ProcessDies

ChatSpec == ChatInit /\ [][ChatNext]_chatVars

(***************************************************************************)
(* Properties                                                              *)
(***************************************************************************)
Tool(k) == turns[k[1]].calls[k[2]].tool

\* Whatever the model selects, and wherever a request ends: a tool that ran was
\* allowed to the caller's role, had every record it names mentioned in the
\* conversation before, and, if it changes anything, was the only one of its turn.
TurnsKeepTheirGates ==
    \A k \in acted :
        LET turn == turns[k[1]] call == turn.calls[k[2]]
        IN /\ call.tool \in AllowedTools[turn.role]
           /\ call.id # NoIdentifier => call.id \in turn.asked \cup turn.seen
           /\ call.tool \notin ReadOnlyTools => Len(turn.calls) = 1
           /\ Len(turn.calls) <= MaxCompound

\* Nothing runs off the record: a tool that ran has its row and its started event,
\* and a row or an event that speaks of success belongs to a handler that returned.
ActsAreOnRecord ==
    /\ \A k \in acted : toolCalls[k] # NoCall /\ <<k, "started">> \in toolAudit
    /\ \A k \in CallKeys :
          /\ toolCalls[k] = "succeeded" => k \in acted
          /\ toolCalls[k] = "failed" => k \notin acted
          /\ <<k, "succeeded">> \in toolAudit => toolCalls[k] = "succeeded"
          /\ <<k, "failed">> \in toolAudit => toolCalls[k] = "failed"

\* An answered turn has its question and its answer in the session and left no
\* call open.
AnsweredTurnsAreStored ==
    \A t \in Turns : turns[t].outcome = "answered" =>
        /\ {m.role : m \in {x \in chatMessages : x.turn = t /\ x.session = turns[t].session}}
              = {"user", "assistant"}
        /\ \A n \in 1..MaxCompound : toolCalls[<<t, n>>] # "running"

\* No selection of a model gets past the gates of a turn.
GatesHold == ChatTypeOK /\ TurnsKeepTheirGates

\* The record of a turn is complete: its messages, its calls and their events.
TurnsAreOnRecord == ActsAreOnRecord /\ AnsweredTurnsAreStored

\* What the endpoint says of every exception: no trading action was completed
\* (api.py:1036: "failed before a trading action could be completed").
SafeFailureMeansNoAction ==
    \A k \in acted : turns[k[1]].outcome = "safe_failure" => Tool(k) \in ReadOnlyTools
=============================================================================
