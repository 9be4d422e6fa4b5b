------------------------- MODULE ConversationProofs -------------------------
(***************************************************************************)
(* Proofs about a conversation and what it stands on, for any number of    *)
(* turns, sessions, roles, records, requests, tables of rules, datasets    *)
(* and readers: the gates and the record of a chat turn (ChatTurn), the    *)
(* limits of the HTTP middleware (RequestLimits), the router of intents    *)
(* (IntentRouting) and the store of market data with its manifests         *)
(* (MarketData). Each has an inductive invariant of its own.               *)
(***************************************************************************)
EXTENDS ChatTurn, RequestLimits, IntentRouting, MarketData, SequenceTheorems, SumTheorems

-----------------------------------------------------------------------------
(***************************************************************************)
(* A chat turn. A step moves one turn, or ends several. TurnFrame says     *)
(* what the other turns keep; each action then has a lemma about the turn  *)
(* it moves.                                                               *)
(***************************************************************************)
Early == {"new", "history", "append", "select"}
Calling == {"call", "audit", "handle", "close", "report"}

\* What has passed the tests of a selection.
Gated(turn) ==
    turn.calls # <<>> =>
        /\ Len(turn.calls) <= MaxCompound
        /\ \A k \in 1..Len(turn.calls) :
              /\ turn.calls[k].id # NoIdentifier => turn.calls[k].id \in turn.asked \cup turn.seen
              /\ Len(turn.calls) > 1 => turn.calls[k].tool \in ReadOnlyTools

\* Where a turn is, and what that says of its calls and their events.
TurnOK(t) ==
    LET turn == turns[t] IN
    /\ Gated(turn)
    /\ turn.pc # "new" => turn.session \in ChatSessions /\ turn.role \in ChatRoles
    /\ turn.pc \in Early => turn.n = 0 /\ turn.calls = <<>>
    /\ turn.pc \in Calling => turn.n \in 1..Len(turn.calls)
    /\ turn.pc \in Calling \ {"call"} => Current(t).tool \in AllowedTools[turn.role]
    /\ turn.pc \in {"handle", "close", "report"} => <<Key(t), "started">> \in toolAudit
    /\ turn.pc \in {"audit", "handle", "close"} => toolCalls[Key(t)] = "running"
    /\ turn.pc \in {"audit", "handle"} => Key(t) \notin acted
    /\ turn.pc = "report" => toolCalls[Key(t)] = CallResult(t)
    /\ turn.pc # "done" => turn.outcome = "none"

\* What has not been reached has left no row; what is open is the present call.
CallsOK(t) ==
    \A n \in 1..MaxCompound :
        /\ n > turns[t].n => toolCalls[<<t, n>>] = NoCall
        /\ n = turns[t].n /\ turns[t].pc = "call" => toolCalls[<<t, n>>] = NoCall
        /\ toolCalls[<<t, n>>] = "running" =>
              \/ n = turns[t].n /\ turns[t].pc \in {"audit", "handle", "close"}
              \/ turns[t].pc = "done" /\ turns[t].outcome # "answered"

\* A call that ran was one of its turn, and allowed.
ActedOK(k) ==
    LET turn == turns[k[1]] IN
    /\ k[2] \in 1..Len(turn.calls)
    /\ turn.calls[k[2]].tool \in AllowedTools[turn.role]

\* The question is stored before the tools are selected, the answer at the end.
Said(t, role) ==
    \E m \in chatMessages : m.turn = t /\ m.session = turns[t].session /\ m.role = role

StoredOK(t) ==
    /\ turns[t].pc \in Calling \cup {"select", "store"} => Said(t, "user")
    /\ turns[t].outcome = "answered" => Said(t, "user") /\ Said(t, "assistant")

ChatInv ==
    /\ ChatTypeOK
    /\ \A t \in Turns : TurnOK(t) /\ CallsOK(t) /\ StoredOK(t)
    /\ \A k \in acted : ActedOK(k)
    /\ ActsAreOnRecord

-----------------------------------------------------------------------------
(* Frames *)

\* The rows of a turn: its calls, their events, the history of what ran.
SameRows(u) ==
    \A n \in 1..MaxCompound :
        /\ toolCalls'[<<u, n>>] = toolCalls[<<u, n>>]
        /\ <<u, n>> \in acted' <=> <<u, n>> \in acted

\* A turn that does not move, and whose rows nobody touches, is as it was.
LEMMA TurnFrame ==
    ASSUME ChatInv, NEW u \in Turns, turns'[u] = turns[u], SameRows(u),
           chatMessages \subseteq chatMessages', toolAudit \subseteq toolAudit'
    PROVE  TurnOK(u)' /\ CallsOK(u)' /\ StoredOK(u)'
<1>1. TurnOK(u) /\ CallsOK(u) /\ StoredOK(u) /\ turns[u] \in TurnRecords
  BY DEF ChatInv, ChatTypeOK
<1>2. turns[u].pc \in Calling => turns[u].n \in 1..MaxCompound
  <2>1. turns[u].n \in 0..MaxCompound
    BY <1>1 DEF TurnRecords
  <2>. QED
    BY <1>1, <2>1, ChatAssumption DEF TurnOK
<1>3. TurnOK(u)'
  BY <1>1, <1>2 DEF TurnOK, Gated, Current, Key, CallResult, SameRows, Calling, Early
<1>4. CallsOK(u)'
  BY <1>1 DEF CallsOK, SameRows
<1>5. StoredOK(u)'
  BY <1>1 DEF StoredOK, Said
<1>. QED
  BY <1>3, <1>4, <1>5

\* A call that ran stays one of its turn if the turn keeps its calls and role.
LEMMA ActedFrame ==
    ASSUME ChatInv, NEW k \in acted,
           turns'[k[1]].calls = turns[k[1]].calls, turns'[k[1]].role = turns[k[1]].role
    PROVE  ActedOK(k)'
  BY DEF ChatInv, ActedOK

\* The turn a call that ran belongs to is past its selection.
LEMMA ActedIsLate ==
    ASSUME ChatInv, NEW k \in acted
    PROVE  /\ k[1] \in Turns /\ k[2] \in 1..MaxCompound /\ k = <<k[1], k[2]>>
           /\ turns[k[1]].pc \notin Early
<1>1. k[1] \in Turns /\ k[2] \in 1..MaxCompound /\ k = <<k[1], k[2]>>
  BY DEF ChatInv, ChatTypeOK, CallKeys
<1>2. toolCalls[k] # NoCall
  BY DEF ChatInv, ActsAreOnRecord
<1>3. turns[k[1]].n # 0
  BY <1>1, <1>2, ChatAssumption DEF ChatInv, CallsOK
<1>. QED
  BY <1>1, <1>3 DEF ChatInv, TurnOK

\* A step that moves turn t alone.
Alone(t) ==
    /\ turns' = [turns EXCEPT ![t] = turns'[t]]
    /\ turns'[t] \in TurnRecords
    /\ \A u \in Turns \ {t} : SameRows(u)
    /\ chatMessages \subseteq chatMessages' /\ toolAudit \subseteq toolAudit'

LEMMA AloneKeeps ==
    ASSUME ChatInv, NEW t \in Turns, Alone(t), ChatTypeOK', ActsAreOnRecord',
           TurnOK(t)', CallsOK(t)', StoredOK(t)',
           turns[t].pc \in Early
              \/ (turns'[t].calls = turns[t].calls /\ turns'[t].role = turns[t].role),
           \A n \in 1..MaxCompound : <<t, n>> \in acted' /\ <<t, n>> \notin acted
                                       => ActedOK(<<t, n>>)'
    PROVE  ChatInv'
<1>1. turns \in [Turns -> TurnRecords]
  BY DEF ChatInv, ChatTypeOK
<1>2. \A u \in Turns \ {t} : turns'[u] = turns[u]
  BY <1>1 DEF Alone
<1>3. \A u \in Turns : TurnOK(u)' /\ CallsOK(u)' /\ StoredOK(u)'
  BY <1>2, TurnFrame DEF Alone
<1>4. ASSUME NEW k \in acted'
      PROVE  ActedOK(k)'
  <2>1. k[1] \in Turns /\ k[2] \in 1..MaxCompound /\ k = <<k[1], k[2]>>
    BY DEF ChatTypeOK, CallKeys
  <2>2. CASE k \in acted
    <3>1. turns[k[1]].pc \notin Early
      BY <2>2, ActedIsLate
    <3>2. turns'[k[1]].calls = turns[k[1]].calls /\ turns'[k[1]].role = turns[k[1]].role
      BY <1>2, <2>1, <3>1
    <3>. QED
      BY <2>2, <3>2, ActedFrame
  <2>3. CASE k \notin acted
    <3>1. k[1] = t
      BY <2>1, <2>3 DEF Alone, SameRows
    <3>. QED
      BY <2>1, <2>3, <3>1
  <2>. QED
    BY <2>2, <2>3
<1>. QED
  BY <1>3, <1>4 DEF ChatInv

\* The record of a turn that moves: a complete turn with some columns changed.
LEMMA Moved ==
    ASSUME ChatInv, NEW t \in Turns, NEW r \in TurnRecords, Becomes(t, r)
    PROVE  /\ turns' \in [Turns -> TurnRecords] /\ turns'[t] = r
           /\ turns' = [turns EXCEPT ![t] = turns'[t]]
  BY DEF Becomes, ChatInv, ChatTypeOK

LEMMA TurnIs ==
    ASSUME ChatInv, NEW t \in Turns
    PROVE  /\ turns[t] \in TurnRecords
           /\ TurnOK(t) /\ CallsOK(t) /\ StoredOK(t)
           /\ turns[t].pc \in Calling => /\ turns[t].n \in 1..MaxCompound
                                         /\ turns[t].n <= Len(turns[t].calls)
                                         /\ Key(t) \in CallKeys
<1>1. turns[t] \in TurnRecords /\ TurnOK(t) /\ CallsOK(t) /\ StoredOK(t)
  BY DEF ChatInv, ChatTypeOK
<1>2. turns[t].n \in 0..MaxCompound
  BY <1>1 DEF TurnRecords
<1>3. turns[t].pc \in Calling => turns[t].n \in 1..Len(turns[t].calls)
  BY <1>1 DEF TurnOK
<1>4. Len(turns[t].calls) \in Nat
  BY <1>1 DEF TurnRecords
<1>. QED
  BY <1>1, <1>2, <1>3, <1>4, ChatAssumption DEF Key, CallKeys

-----------------------------------------------------------------------------
(* The steps of a turn *)

\* What a step leaves alone beside the turns.
RowsKept == UNCHANGED <<chatSessions, chatMessages, toolCalls, toolAudit, acted>>

\* A turn that ends without an answer.
LEMMA EndsKeeps ==
    ASSUME ChatInv, NEW t \in Turns, NEW outcome \in {"safe_failure", "invalid"},
           turns[t].pc # "new", Ends(t, outcome), RowsKept, raises' \in 0..MaxRaises
    PROVE  ChatInv'
<1> DEFINE r == [turns[t] EXCEPT !.pc = "done", !.outcome = outcome]
<1>1. turns[t] \in TurnRecords /\ TurnOK(t) /\ CallsOK(t)
  BY TurnIs
<1>2. r \in TurnRecords
  BY <1>1 DEF TurnRecords, TurnPcs, Outcomes
<1>3. turns' \in [Turns -> TurnRecords] /\ turns'[t] = r
      /\ turns' = [turns EXCEPT ![t] = turns'[t]]
  BY <1>2, Moved DEF Ends
<1>4. /\ r.pc = "done" /\ r.outcome = outcome /\ r.calls = turns[t].calls /\ r.role = turns[t].role
      /\ r.n = turns[t].n /\ r.asked = turns[t].asked /\ r.seen = turns[t].seen
      /\ r.session = turns[t].session
  BY <1>1 DEF TurnRecords
<1>5. ChatTypeOK' /\ ActsAreOnRecord'
  BY <1>3 DEF RowsKept, ChatInv, ChatTypeOK, ActsAreOnRecord
<1>6. TurnOK(t)' /\ CallsOK(t)' /\ StoredOK(t)'
  BY <1>1, <1>3, <1>4 DEF TurnOK, CallsOK, StoredOK, Gated, Early, Calling, RowsKept
<1>7. Alone(t)
  BY <1>2, <1>3 DEF Alone, SameRows, RowsKept
<1>. QED
  BY <1>3, <1>4, <1>5, <1>6, <1>7, AloneKeeps DEF RowsKept

\* A turn before its first call: no row of it exists, so it may become anything
\* that has no call behind it.
LEMMA EarlyKeeps ==
    ASSUME ChatInv, NEW t \in Turns, turns[t].pc \in Early,
           NEW r \in TurnRecords, Becomes(t, r),
           UNCHANGED <<toolCalls, toolAudit, acted, raises>>,
           chatSessions' \subseteq ChatSessions, chatMessages' \subseteq Messages,
           chatMessages \subseteq chatMessages',
           r.outcome = "none", r.session \in ChatSessions, r.role \in ChatRoles,
           \/ r.pc \in Early /\ r.n = 0 /\ r.calls = <<>>
           \/ r.pc = "store" /\ r.n = 0 /\ r.calls = <<>>
           \/ r.pc = "call" /\ r.n = 1 /\ r.calls # <<>> /\ Gated(r),
           r.pc \in Calling \cup {"select", "store"} => Said(t, "user")'
    PROVE  ChatInv'
<1>1. turns[t] \in TurnRecords /\ TurnOK(t) /\ CallsOK(t)
  BY TurnIs
<1>2. turns' \in [Turns -> TurnRecords] /\ turns'[t] = r
      /\ turns' = [turns EXCEPT ![t] = turns'[t]]
  BY Moved
<1>3. \A n \in 1..MaxCompound : toolCalls[<<t, n>>] = NoCall /\ <<t, n>> \notin acted
  <2>1. \A n \in 1..MaxCompound : toolCalls[<<t, n>>] = NoCall
    BY <1>1, ChatAssumption DEF TurnOK, CallsOK
  <2>. QED
    BY <2>1 DEF ChatInv, ActsAreOnRecord
<1>4. ChatTypeOK' /\ ActsAreOnRecord'
  BY <1>2 DEF ChatInv, ChatTypeOK, ActsAreOnRecord
<1>5. TurnOK(t)'
  <2>1. r.pc = "call" => r.n \in 1..Len(r.calls)
    <3>1. r.calls \in Seq(Invocations)
      BY DEF TurnRecords
    <3>2. r.calls # <<>> => Len(r.calls) \in Nat /\ Len(r.calls) >= 1
      BY <3>1
    <3>3. r.pc = "call" => r.n = 1 /\ r.calls # <<>>
      BY DEF Early
    <3>. QED
      BY <3>2, <3>3
  <2>2. Gated(r)
    BY DEF Gated
  <2>. QED
    BY <1>2, <2>1, <2>2 DEF TurnOK, Early, Calling, Gated
<1>6. CallsOK(t)'
  BY <1>2, <1>3 DEF CallsOK, NoCall
<1>7. StoredOK(t)'
  BY <1>2 DEF StoredOK
<1>8. Alone(t)
  BY <1>2 DEF Alone, SameRows
<1>. QED
  BY <1>2, <1>4, <1>5, <1>6, <1>7, <1>8, AloneKeeps

LEMMA EnsureSessionKeeps ==
    ASSUME ChatInv, NEW t \in Turns, NEW s \in ChatSessions, NEW role \in ChatRoles,
           NEW ids \in SUBSET Identifiers, EnsureSession(t, s, role, ids)
    PROVE  ChatInv'
<1> DEFINE r == [NewTurn EXCEPT !.pc = "history", !.session = s, !.role = role, !.asked = ids]
<1>1. /\ r \in TurnRecords /\ r.pc = "history" /\ r.n = 0 /\ r.calls = <<>>
      /\ r.outcome = "none" /\ r.session = s /\ r.role = role
  <2>1. <<>> \in Seq(Invocations) /\ 0 \in 0..MaxCompound
    BY ChatAssumption
  <2>2. /\ NewTurn \in TurnRecords /\ NewTurn.n = 0 /\ NewTurn.calls = <<>>
        /\ NewTurn.outcome = "none"
    BY <2>1 DEF NewTurn, TurnRecords, TurnPcs, Intents, Outcomes
  <2>. QED
    BY <2>2 DEF TurnRecords, TurnPcs
<1>2. chatSessions' \subseteq ChatSessions /\ chatMessages \subseteq Messages
  BY DEF EnsureSession, ChatInv, ChatTypeOK
<1>. QED
  BY <1>1, <1>2, EarlyKeeps DEF EnsureSession, TurnAt, Early, Calling

LEMMA ReadHistoryKeeps ==
    ASSUME ChatInv, NEW t \in Turns, ReadHistory(t)
    PROVE  ChatInv'
<1> DEFINE seen == UNION {m.ids : m \in {x \in chatMessages : x.session = turns[t].session}}
           r == [turns[t] EXCEPT !.pc = "append", !.seen = seen]
<1>1. turns[t] \in TurnRecords /\ TurnOK(t) /\ turns[t].pc = "history"
  BY TurnIs DEF ReadHistory, TurnAt
<1>2. seen \in SUBSET Identifiers
  BY DEF ChatInv, ChatTypeOK, Messages
<1>3. /\ r \in TurnRecords /\ r.pc = "append" /\ r.n = turns[t].n /\ r.calls = turns[t].calls
      /\ r.outcome = turns[t].outcome /\ r.session = turns[t].session /\ r.role = turns[t].role
  BY <1>1, <1>2 DEF TurnRecords, TurnPcs
<1>4. turns[t].outcome = "none"
  BY <1>1 DEF TurnOK
<1>. QED
  BY <1>1, <1>3, <1>4, EarlyKeeps DEF ReadHistory, TurnOK, Early, Calling, ChatInv, ChatTypeOK

LEMMA AppendUserKeeps ==
    ASSUME ChatInv, NEW t \in Turns, AppendUser(t)
    PROVE  ChatInv'
<1> DEFINE r == [turns[t] EXCEPT !.pc = "select"]
           m == [session |-> turns[t].session, turn |-> t, role |-> "user", ids |-> turns[t].asked]
<1>1. turns[t] \in TurnRecords /\ TurnOK(t) /\ turns[t].pc = "append"
  BY TurnIs DEF AppendUser, TurnAt
<1>2. /\ turns[t].n = 0 /\ turns[t].calls = <<>> /\ turns[t].outcome = "none"
      /\ turns[t].session \in ChatSessions /\ turns[t].role \in ChatRoles
  BY <1>1 DEF TurnOK, Early
<1>3. /\ r \in TurnRecords /\ r.pc = "select" /\ r.n = turns[t].n /\ r.calls = turns[t].calls
      /\ r.outcome = turns[t].outcome /\ r.session = turns[t].session /\ r.role = turns[t].role
  BY <1>1 DEF TurnRecords, TurnPcs
<1>4. /\ m \in Messages /\ m.turn = t /\ m.session = turns[t].session /\ m.role = "user"
      /\ chatMessages' = chatMessages \cup {m}
  BY <1>1, <1>2 DEF AppendUser, AppendMessage, Messages, TurnRecords
<1>5. turns'[t] = r
  BY <1>3, Moved DEF AppendUser
<1>6. Said(t, "user")'
  BY <1>3, <1>4, <1>5 DEF Said
<1>7. chatMessages' \subseteq Messages /\ chatMessages \subseteq chatMessages'
      /\ chatSessions' \subseteq ChatSessions
  BY <1>4 DEF AppendUser, ChatInv, ChatTypeOK
<1>. QED
  BY <1>1, <1>2, <1>3, <1>6, <1>7, EarlyKeeps DEF AppendUser, Early, Calling

\* A selection that calls no tool: the turn answers at once.
LEMMA AnswersKeeps ==
    ASSUME ChatInv, NEW t \in Turns, turns[t].pc = "select",
           NEW intent \in Intents, Answers(t, intent), RowsKept, raises' = raises
    PROVE  ChatInv'
<1> DEFINE r == [turns[t] EXCEPT !.pc = "store", !.intent = intent]
<1>1. turns[t] \in TurnRecords /\ TurnOK(t) /\ StoredOK(t)
  BY TurnIs
<1>2. /\ turns[t].n = 0 /\ turns[t].calls = <<>> /\ turns[t].outcome = "none"
      /\ turns[t].session \in ChatSessions /\ turns[t].role \in ChatRoles
  BY <1>1 DEF TurnOK, Early
<1>3. /\ r \in TurnRecords /\ r.pc = "store" /\ r.n = turns[t].n /\ r.calls = turns[t].calls
      /\ r.outcome = turns[t].outcome /\ r.session = turns[t].session /\ r.role = turns[t].role
  BY <1>1 DEF TurnRecords, TurnPcs
<1>4. turns'[t] = r
  BY <1>3, Moved DEF Answers
<1>5. Said(t, "user")'
  BY <1>1, <1>3, <1>4 DEF Said, StoredOK, RowsKept
<1>6. chatMessages' \subseteq Messages /\ chatSessions' \subseteq ChatSessions
  BY DEF RowsKept, ChatInv, ChatTypeOK
<1>. QED
  BY <1>2, <1>3, <1>5, <1>6, EarlyKeeps DEF Answers, RowsKept, Early

\* What a selection may do: answer, end, or begin calls that passed every test.
LEMMA Selection ==
    ASSUME NEW t, NEW decision, SelectTool(t, decision), Distinct(decision) \in Seq(Invocations)
    PROVE  \/ \E intent \in Intents : Answers(t, intent)
           \/ Ends(t, "safe_failure")
           \/ /\ Distinct(decision) # <<>>
              /\ ~TooMany(Distinct(decision)) /\ ~MixesWrites(Distinct(decision))
              /\ Identified(t, Distinct(decision))
              /\ Becomes(t, [turns[t] EXCEPT !.pc = "call", !.calls = Distinct(decision), !.n = 1,
                                             !.intent = "tool"])
<1> DEFINE calls == Distinct(decision)
           Begins == Becomes(t, [turns[t] EXCEPT !.pc = "call", !.calls = calls, !.n = 1,
                                                 !.intent = "tool"])
<1>1. Len(calls) \in Nat
  OBVIOUS
<1>2. CASE calls = <<>>
  <2>1. Answers(t, "direct")
    BY <1>2 DEF SelectTool
  <2>. QED
    BY <2>1 DEF Intents
<1>3. CASE calls # <<>> /\ TooMany(calls)
  <2>1. ~(Len(calls) \in 2..MaxCompound)
    BY <1>1, <1>3, ChatAssumption DEF TooMany
  <2>2. RejectCompound(t)
    BY <1>3, <2>1 DEF SelectTool
  <2>. QED
    BY <2>2 DEF RejectCompound, Intents
<1>4. CASE calls # <<>> /\ ~TooMany(calls) /\ Len(calls) > 1 /\ ~AllKnown(t, calls)
  <2>1. Len(calls) \in 2..MaxCompound
    BY <1>1, <1>4, ChatAssumption DEF TooMany
  <2>2. Ends(t, "safe_failure")
    BY <1>4, <2>1 DEF SelectTool
  <2>. QED
    BY <2>2
<1>5. CASE calls # <<>> /\ ~TooMany(calls) /\ (Len(calls) > 1 => AllKnown(t, calls))
  <2>1. ~(Len(calls) \in 2..MaxCompound /\ ~AllKnown(t, calls))
    BY <1>1, <1>5, ChatAssumption
  <2>2. CASE MixesWrites(calls)
    <3>1. RejectCompound(t)
      BY <1>5, <2>1, <2>2 DEF SelectTool
    <3>. QED
      BY <3>1 DEF RejectCompound, Intents
  <2>3. CASE ~MixesWrites(calls)
    <3>1. IF Identified(t, calls) THEN Begins ELSE Clarify(t)
      BY <1>5, <2>1, <2>3 DEF SelectTool
    <3>. QED
      BY <1>5, <2>3, <3>1 DEF Clarify, Intents
  <2>. QED
    BY <2>2, <2>3
<1>. QED
  BY <1>2, <1>3, <1>4, <1>5

LEMMA SelectToolKeeps ==
    ASSUME ChatInv, NEW t \in Turns, NEW decision \in Decisions, SelectTool(t, decision)
    PROVE  ChatInv'
<1> DEFINE calls == Distinct(decision)
           r == [turns[t] EXCEPT !.pc = "call", !.calls = calls, !.n = 1, !.intent = "tool"]
<1>1. calls \in Seq(Invocations)
  BY SelectionAssumption
<1>2. turns[t].pc = "select" /\ RowsKept /\ raises' = raises
  BY DEF SelectTool, TurnAt, RowsKept
<1>3. CASE \E intent \in Intents : Answers(t, intent)
  BY <1>2, <1>3, AnswersKeeps
<1>4. CASE Ends(t, "safe_failure")
  <2>1. raises' \in 0..MaxRaises
    BY <1>2 DEF ChatInv, ChatTypeOK
  <2>. QED
    BY <1>2, <1>4, <2>1, EndsKeeps
<1>5. CASE /\ calls # <<>> /\ ~TooMany(calls) /\ ~MixesWrites(calls)
           /\ Identified(t, calls) /\ Becomes(t, r)
  <2>1. turns[t] \in TurnRecords /\ TurnOK(t) /\ StoredOK(t)
    BY TurnIs
  <2>2. /\ turns[t].n = 0 /\ turns[t].calls = <<>> /\ turns[t].outcome = "none"
        /\ turns[t].session \in ChatSessions /\ turns[t].role \in ChatRoles
    BY <1>2, <2>1 DEF TurnOK, Early
  <2>3. Len(calls) \in 1..MaxCompound
    <3>1. Len(calls) \in Nat /\ Len(calls) >= 1
      BY <1>1, <1>5
    <3>. QED
      BY <1>5, <3>1, ChatAssumption DEF TooMany
  <2>4. 1 \in 0..MaxCompound
    BY <2>3, ChatAssumption
  <2>5. /\ r \in TurnRecords /\ r.pc = "call" /\ r.n = 1 /\ r.calls = calls
        /\ r.outcome = turns[t].outcome /\ r.session = turns[t].session /\ r.role = turns[t].role
        /\ r.asked = turns[t].asked /\ r.seen = turns[t].seen
    BY <1>1, <2>1, <2>4 DEF TurnRecords, TurnPcs, Intents
  <2>6. Gated(r)
    <3>1. ASSUME NEW k \in 1..Len(calls)
          PROVE  calls[k] \in ToSet(calls)
      BY <1>1 DEF ToSet
    <3>2. \A k \in 1..Len(calls) :
             /\ calls[k].id # NoIdentifier => calls[k].id \in turns[t].asked \cup turns[t].seen
             /\ Len(calls) > 1 => calls[k].tool \in ReadOnlyTools
      BY <1>5, <3>1 DEF Identified, MixesWrites
    <3>3. Len(calls) <= MaxCompound
      BY <2>3
    <3>. QED
      BY <2>5, <3>2, <3>3 DEF Gated
  <2>7. Said(t, "user")'
    <3>1. turns'[t] = r
      BY <1>5, <2>5, Moved
    <3>. QED
      BY <1>2, <2>1, <2>5, <3>1 DEF Said, StoredOK, RowsKept
  <2>8. chatMessages' \subseteq Messages /\ chatSessions' \subseteq ChatSessions
    BY <1>2 DEF RowsKept, ChatInv, ChatTypeOK
  <2>. QED
    BY <1>2, <1>5, <2>2, <2>5, <2>6, <2>7, <2>8, EarlyKeeps DEF RowsKept, Early
<1>. QED
  BY <1>1, <1>3, <1>4, <1>5, Selection

-----------------------------------------------------------------------------
(* The steps of a call *)

\* The rest of a turn's record, which none of these steps touches.
SameTurn(r, turn) ==
    /\ r.calls = turn.calls /\ r.role = turn.role /\ r.session = turn.session
    /\ r.asked = turn.asked /\ r.seen = turn.seen

\* The status of other calls, and whether they ran.
OthersKept(key) ==
    \A k \in CallKeys : k # key => toolCalls'[k] = toolCalls[k] /\ (k \in acted' <=> k \in acted)

LEMMA CallStepKeeps ==
    ASSUME ChatInv, NEW t \in Turns, NEW r \in TurnRecords, Becomes(t, r),
           SameTurn(r, turns[t]), OthersKept(Key(t)),
           chatSessions' = chatSessions, chatMessages' = chatMessages, raises' = raises,
           toolCalls' \in [CallKeys -> ToolCallStatuses], acted' \subseteq CallKeys,
           toolAudit \subseteq toolAudit',
           toolAudit' \subseteq CallKeys \X {"started", "succeeded", "failed"},
           ActsAreOnRecord', TurnOK(t)', CallsOK(t)',
           turns[t].pc \in Calling, r.outcome # "answered",
           \A n \in 1..MaxCompound : <<t, n>> \in acted' /\ <<t, n>> \notin acted
                                       => ActedOK(<<t, n>>)'
    PROVE  ChatInv'
<1>1. turns' \in [Turns -> TurnRecords] /\ turns'[t] = r
      /\ turns' = [turns EXCEPT ![t] = turns'[t]]
  BY Moved
<1>2. ChatTypeOK'
  BY <1>1 DEF ChatInv, ChatTypeOK
<1>3. StoredOK(t)'
  <2>1. StoredOK(t)
    BY TurnIs
  <2>. QED
    BY <1>1, <2>1 DEF StoredOK, Said, SameTurn
<1>4. \A u \in Turns \ {t} : SameRows(u)
  BY DEF OthersKept, SameRows, Key, CallKeys
<1>5. Alone(t)
  BY <1>1, <1>4 DEF Alone
<1>. QED
  BY <1>1, <1>2, <1>3, <1>5, AloneKeeps DEF SameTurn

\* A call without a row has no events but perhaps its start, and did not run.
LEMMA NoRow ==
    ASSUME ChatInv, NEW k \in CallKeys, toolCalls[k] \in {NoCall, "running"}
    PROVE  <<k, "succeeded">> \notin toolAudit /\ <<k, "failed">> \notin toolAudit
  BY DEF ChatInv, ActsAreOnRecord, NoCall

LEMMA AddCallKeeps ==
    ASSUME ChatInv, NEW t \in Turns, AddCall(t)
    PROVE  ChatInv'
<1> DEFINE r == [turns[t] EXCEPT !.pc = "audit"]
<1>1. turns[t] \in TurnRecords /\ TurnOK(t) /\ CallsOK(t) /\ turns[t].pc = "call"
      /\ turns[t].n \in 1..MaxCompound /\ Key(t) \in CallKeys
  BY TurnIs DEF AddCall, TurnAt, Calling
<1>2. ASSUME NEW outcome \in {"safe_failure", "invalid"}, Ends(t, outcome), UNCHANGED toolCalls
      PROVE  ChatInv'
  <2>1. RowsKept /\ raises' \in 0..MaxRaises
    BY <1>2 DEF AddCall, RowsKept, ChatInv, ChatTypeOK
  <2>. QED
    BY <1>1, <1>2, <2>1, EndsKeeps
<1>3. CASE /\ Active(t, Current(t).tool)
           /\ toolCalls' = [toolCalls EXCEPT ![Key(t)] = "running"]
           /\ Becomes(t, r)
  <2>1. r \in TurnRecords /\ SameTurn(r, turns[t]) /\ r.pc = "audit" /\ r.n = turns[t].n
        /\ r.outcome = turns[t].outcome /\ r.outcome = "none"
    BY <1>1 DEF TurnRecords, TurnPcs, SameTurn, TurnOK
  <2>2. turns'[t] = r
    BY <1>3, <2>1, Moved
  <2>3. toolCalls \in [CallKeys -> ToolCallStatuses] /\ toolCalls[Key(t)] = NoCall
    BY <1>1 DEF ChatInv, ChatTypeOK, CallsOK, Key
  <2>4. Key(t) \notin acted /\ <<Key(t), "succeeded">> \notin toolAudit
        /\ <<Key(t), "failed">> \notin toolAudit
    BY <1>1, <2>3, NoRow DEF ChatInv, ActsAreOnRecord
  <2>5. /\ toolCalls' \in [CallKeys -> ToolCallStatuses] /\ toolCalls'[Key(t)] = "running"
        /\ \A k \in CallKeys : k # Key(t) => toolCalls'[k] = toolCalls[k]
    BY <1>1, <1>3, <2>3 DEF ToolCallStatuses
  <2>6. UNCHANGED <<chatSessions, chatMessages, toolAudit, acted, raises>>
    BY DEF AddCall
  <2>7. ActsAreOnRecord'
    BY <2>4, <2>5, <2>6 DEF ChatInv, ChatTypeOK, ActsAreOnRecord, NoCall
  <2>8. TurnOK(t)'
    BY <1>1, <1>3, <2>1, <2>2, <2>4, <2>5, <2>6
       DEF TurnOK, Gated, SameTurn, Early, Calling, Active, Current, Key
  <2>9. CallsOK(t)'
    BY <1>1, <2>1, <2>2, <2>5 DEF CallsOK, Key, CallKeys, NoCall
  <2>. QED
    BY <1>1, <1>3, <2>1, <2>4, <2>5, <2>6, <2>7, <2>8, <2>9, CallStepKeeps
       DEF OthersKept, ChatInv, ChatTypeOK, Calling
<1>. QED
  BY <1>2, <1>3 DEF AddCall

LEMMA AuditStartedKeeps ==
    ASSUME ChatInv, NEW t \in Turns, AuditStarted(t)
    PROVE  ChatInv'
<1> DEFINE r == [turns[t] EXCEPT !.pc = "handle"]
<1>1. turns[t] \in TurnRecords /\ TurnOK(t) /\ CallsOK(t) /\ turns[t].pc = "audit"
      /\ turns[t].n \in 1..MaxCompound /\ Key(t) \in CallKeys
  BY TurnIs DEF AuditStarted, TurnAt, Calling
<1>2. r \in TurnRecords /\ SameTurn(r, turns[t]) /\ r.pc = "handle" /\ r.n = turns[t].n
      /\ r.outcome = turns[t].outcome /\ r.outcome = "none"
  BY <1>1 DEF TurnRecords, TurnPcs, SameTurn, TurnOK
<1>3. Becomes(t, r) /\ turns'[t] = r
  BY <1>2, Moved DEF AuditStarted
<1>4. /\ toolAudit' = toolAudit \cup {<<Key(t), "started">>}
      /\ UNCHANGED <<chatSessions, chatMessages, toolCalls, acted, raises>>
  BY DEF AuditStarted
<1>5. ActsAreOnRecord'
  BY <1>4 DEF ChatInv, ActsAreOnRecord
<1>6. TurnOK(t)'
  BY <1>1, <1>2, <1>3, <1>4 DEF TurnOK, Gated, SameTurn, Early, Calling, Current, Key
<1>7. CallsOK(t)'
  BY <1>1, <1>2, <1>3, <1>4 DEF CallsOK
<1>8. /\ toolAudit \subseteq toolAudit' /\ acted' \subseteq CallKeys
      /\ toolAudit' \subseteq CallKeys \X {"started", "succeeded", "failed"}
      /\ toolCalls' \in [CallKeys -> ToolCallStatuses] /\ OthersKept(Key(t))
  BY <1>1, <1>4 DEF OthersKept, ChatInv, ChatTypeOK
<1>. QED
  BY <1>1, <1>2, <1>3, <1>4, <1>5, <1>6, <1>7, <1>8, CallStepKeeps DEF Calling

LEMMA RunHandlerKeeps ==
    ASSUME ChatInv, NEW t \in Turns, RunHandler(t)
    PROVE  ChatInv'
<1> DEFINE r == [turns[t] EXCEPT !.pc = "close"]
<1>1. turns[t] \in TurnRecords /\ TurnOK(t) /\ CallsOK(t) /\ turns[t].pc = "handle"
      /\ turns[t].n \in 1..MaxCompound /\ Key(t) \in CallKeys
  BY TurnIs DEF RunHandler, TurnAt, Calling
<1>2. r \in TurnRecords /\ SameTurn(r, turns[t]) /\ r.pc = "close" /\ r.n = turns[t].n
      /\ r.outcome = turns[t].outcome /\ r.outcome = "none"
  BY <1>1 DEF TurnRecords, TurnPcs, SameTurn, TurnOK
<1>3. Becomes(t, r) /\ turns'[t] = r
  BY <1>2, Moved DEF RunHandler
<1>4. /\ acted' \in {acted, acted \cup {Key(t)}}
      /\ UNCHANGED <<chatSessions, chatMessages, toolCalls, toolAudit, raises>>
  BY DEF RunHandler
<1>5. /\ toolCalls[Key(t)] = "running" /\ <<Key(t), "started">> \in toolAudit
      /\ turns[t].n \in 1..Len(turns[t].calls) /\ Current(t).tool \in AllowedTools[turns[t].role]
  BY <1>1 DEF TurnOK, Calling
<1>6. ActsAreOnRecord'
  BY <1>1, <1>4, <1>5 DEF ChatInv, ActsAreOnRecord, NoCall
<1>7. TurnOK(t)'
  BY <1>1, <1>2, <1>3, <1>4 DEF TurnOK, Gated, SameTurn, Early, Calling, Current, Key
<1>8. CallsOK(t)'
  BY <1>1, <1>2, <1>3, <1>4 DEF CallsOK
<1>9. \A n \in 1..MaxCompound : <<t, n>> \in acted' /\ <<t, n>> \notin acted => ActedOK(<<t, n>>)'
  <2>1. ASSUME NEW n \in 1..MaxCompound, <<t, n>> \in acted', <<t, n>> \notin acted
        PROVE  n = turns[t].n
    BY <1>4, <2>1 DEF Key
  <2>. QED
    BY <1>2, <1>3, <1>5, <2>1 DEF ActedOK, Current, SameTurn
<1>10. acted' \subseteq CallKeys /\ OthersKept(Key(t))
       /\ toolCalls \in [CallKeys -> ToolCallStatuses]
       /\ toolAudit \subseteq CallKeys \X {"started", "succeeded", "failed"}
  BY <1>1, <1>4 DEF OthersKept, ChatInv, ChatTypeOK
<1>. QED
  BY <1>1, <1>2, <1>3, <1>4, <1>6, <1>7, <1>8, <1>9, <1>10, CallStepKeeps DEF Calling

LEMMA CloseCallKeeps ==
    ASSUME ChatInv, NEW t \in Turns, CloseCall(t)
    PROVE  ChatInv'
<1> DEFINE r == [turns[t] EXCEPT !.pc = "report"]
<1>1. turns[t] \in TurnRecords /\ TurnOK(t) /\ CallsOK(t) /\ turns[t].pc = "close"
      /\ turns[t].n \in 1..MaxCompound /\ Key(t) \in CallKeys
  BY TurnIs DEF CloseCall, TurnAt, Calling
<1>2. r \in TurnRecords /\ SameTurn(r, turns[t]) /\ r.pc = "report" /\ r.n = turns[t].n
      /\ r.outcome = turns[t].outcome /\ r.outcome = "none"
  BY <1>1 DEF TurnRecords, TurnPcs, SameTurn, TurnOK
<1>3. Becomes(t, r) /\ turns'[t] = r
  BY <1>2, Moved DEF CloseCall
<1>4. /\ toolCalls' = [toolCalls EXCEPT ![Key(t)] = CallResult(t)]
      /\ UNCHANGED <<chatSessions, chatMessages, toolAudit, acted, raises>>
  BY DEF CloseCall
<1>5. /\ toolCalls \in [CallKeys -> ToolCallStatuses] /\ toolCalls[Key(t)] = "running"
      /\ <<Key(t), "started">> \in toolAudit
  BY <1>1 DEF ChatInv, ChatTypeOK, TurnOK
<1>6. CallResult(t) \in {"succeeded", "failed"}
      /\ (CallResult(t) = "succeeded" <=> Key(t) \in acted)
  BY DEF CallResult
<1>7. /\ toolCalls' \in [CallKeys -> ToolCallStatuses] /\ toolCalls'[Key(t)] = CallResult(t)
      /\ \A k \in CallKeys : k # Key(t) => toolCalls'[k] = toolCalls[k]
  BY <1>1, <1>4, <1>5, <1>6 DEF ToolCallStatuses
<1>8. <<Key(t), "succeeded">> \notin toolAudit /\ <<Key(t), "failed">> \notin toolAudit
  BY <1>1, <1>5, NoRow
<1>9. ActsAreOnRecord'
  BY <1>4, <1>5, <1>6, <1>7, <1>8 DEF ChatInv, ChatTypeOK, ActsAreOnRecord, NoCall
<1>10. TurnOK(t)'
  BY <1>1, <1>2, <1>3, <1>4, <1>5, <1>7
     DEF TurnOK, Gated, SameTurn, Early, Calling, Current, Key, CallResult
<1>11. CallsOK(t)'
  BY <1>1, <1>2, <1>3, <1>6, <1>7 DEF CallsOK, Key, CallKeys, NoCall
<1>. QED
  BY <1>1, <1>2, <1>3, <1>4, <1>7, <1>9, <1>10, <1>11, CallStepKeeps
     DEF OthersKept, ChatInv, ChatTypeOK, Calling

LEMMA AuditClosedKeeps ==
    ASSUME ChatInv, NEW t \in Turns, AuditClosed(t)
    PROVE  ChatInv'
<1> DEFINE r == AfterCall(turns[t])
<1>1. turns[t] \in TurnRecords /\ TurnOK(t) /\ CallsOK(t) /\ turns[t].pc = "report"
      /\ turns[t].n \in 1..MaxCompound /\ turns[t].n <= Len(turns[t].calls) /\ Key(t) \in CallKeys
  BY TurnIs DEF AuditClosed, TurnAt, Calling
<1>2. Len(turns[t].calls) \in Nat /\ Len(turns[t].calls) <= MaxCompound
  <2>1. Len(turns[t].calls) \in Nat /\ turns[t].calls # <<>>
    BY <1>1 DEF TurnRecords
  <2>. QED
    BY <1>1, <2>1 DEF TurnOK, Gated
<1>3. /\ r \in TurnRecords /\ SameTurn(r, turns[t]) /\ r.outcome = turns[t].outcome
      /\ r.outcome = "none"
      /\ \/ turns[t].n < Len(turns[t].calls) /\ r.pc = "call" /\ r.n = turns[t].n + 1
         \/ r.pc = "store" /\ r.n = turns[t].n
  <2>1. turns[t].outcome = "none"
    BY <1>1 DEF TurnOK
  <2>2. CASE turns[t].n < Len(turns[t].calls)
    <3>1. turns[t].n + 1 \in 0..MaxCompound
      BY <1>1, <1>2, <2>2, ChatAssumption
    <3>2. r = [turns[t] EXCEPT !.pc = "call", !.n = turns[t].n + 1]
      BY <1>1, <2>2 DEF AfterCall
    <3>. QED
      BY <1>1, <2>1, <2>2, <3>1, <3>2 DEF TurnRecords, TurnPcs, SameTurn
  <2>3. CASE ~(turns[t].n < Len(turns[t].calls))
    <3>1. r = [turns[t] EXCEPT !.pc = "store"]
      BY <2>3 DEF AfterCall
    <3>. QED
      BY <1>1, <2>1, <3>1 DEF TurnRecords, TurnPcs, SameTurn
  <2>. QED
    BY <2>2, <2>3
<1>4. Becomes(t, r) /\ turns'[t] = r
  BY <1>3, Moved DEF AuditClosed
<1>5. /\ toolAudit' = toolAudit \cup {<<Key(t), CallResult(t)>>}
      /\ UNCHANGED <<chatSessions, chatMessages, toolCalls, acted, raises>>
  BY DEF AuditClosed
<1>6. toolCalls[Key(t)] = CallResult(t) /\ CallResult(t) \in {"succeeded", "failed"}
  BY <1>1 DEF TurnOK, CallResult
<1>7. ActsAreOnRecord'
  BY <1>5, <1>6 DEF ChatInv, ActsAreOnRecord
<1>8. TurnOK(t)'
  <2>1. r.pc = "call" => r.n \in 1..Len(r.calls)
    BY <1>1, <1>2, <1>3 DEF SameTurn
  <2>2. Gated(r)
    BY <1>1, <1>3 DEF TurnOK, Gated, SameTurn
  <2>3. r.session \in ChatSessions /\ r.role \in ChatRoles
    BY <1>1, <1>3 DEF TurnOK, SameTurn
  <2>. QED
    BY <1>3, <1>4, <2>1, <2>2, <2>3 DEF TurnOK, Gated, Early, Calling
<1>9. CallsOK(t)'
  <2>1. toolCalls[<<t, turns[t].n>>] # "running"
    BY <1>6 DEF Key
  <2>2. \A n \in 1..MaxCompound : toolCalls[<<t, n>>] # "running"
    BY <1>1, <2>1 DEF CallsOK
  <2>3. \A n \in 1..MaxCompound : n > turns[t].n => toolCalls[<<t, n>>] = NoCall
    BY <1>1 DEF CallsOK
  <2>4. \A n \in 1..MaxCompound : n >= r.n /\ r.n = turns[t].n + 1 => n > turns[t].n
    BY <1>1
  <2>. QED
    BY <1>1, <1>3, <1>4, <1>5, <2>2, <2>3, <2>4 DEF CallsOK
<1>10. /\ toolAudit \subseteq toolAudit' /\ acted' \subseteq CallKeys
       /\ toolAudit' \subseteq CallKeys \X {"started", "succeeded", "failed"}
       /\ toolCalls' \in [CallKeys -> ToolCallStatuses] /\ OthersKept(Key(t))
  BY <1>1, <1>5, <1>6 DEF OthersKept, ChatInv, ChatTypeOK
<1>. QED
  BY <1>1, <1>3, <1>4, <1>5, <1>7, <1>8, <1>9, <1>10, CallStepKeeps DEF Calling

LEMMA StoreAssistantKeeps ==
    ASSUME ChatInv, NEW t \in Turns, NEW ids \in SUBSET Identifiers, StoreAssistant(t, ids)
    PROVE  ChatInv'
<1> DEFINE r == [turns[t] EXCEPT !.pc = "done", !.outcome = "answered"]
           m == [session |-> turns[t].session, turn |-> t, role |-> "assistant", ids |-> ids]
<1>1. turns[t] \in TurnRecords /\ TurnOK(t) /\ CallsOK(t) /\ StoredOK(t) /\ turns[t].pc = "store"
  BY TurnIs DEF StoreAssistant, TurnAt
<1>2. r \in TurnRecords /\ SameTurn(r, turns[t]) /\ r.pc = "done" /\ r.n = turns[t].n
      /\ r.outcome = "answered"
  BY <1>1 DEF TurnRecords, TurnPcs, Outcomes, SameTurn
<1>3. turns' \in [Turns -> TurnRecords] /\ turns'[t] = r
      /\ turns' = [turns EXCEPT ![t] = turns'[t]]
  BY <1>2, Moved DEF StoreAssistant, Ends
<1>4. /\ m \in Messages /\ m.turn = t /\ m.session = turns[t].session /\ m.role = "assistant"
      /\ chatMessages' = chatMessages \cup {m}
      /\ UNCHANGED <<chatSessions, toolCalls, toolAudit, acted, raises>>
  BY <1>1 DEF StoreAssistant, AppendMessage, Messages, TurnOK
<1>5. ChatTypeOK' /\ ActsAreOnRecord'
  BY <1>3, <1>4 DEF ChatInv, ChatTypeOK, ActsAreOnRecord
<1>6. TurnOK(t)'
  BY <1>1, <1>2, <1>3 DEF TurnOK, Gated, SameTurn, Early, Calling
<1>7. CallsOK(t)'
  BY <1>1, <1>2, <1>3, <1>4 DEF CallsOK
<1>8. StoredOK(t)'
  <2>1. Said(t, "user")
    BY <1>1 DEF StoredOK
  <2>2. Said(t, "user")' /\ Said(t, "assistant")'
    BY <1>2, <1>3, <1>4, <2>1 DEF Said, SameTurn
  <2>. QED
    BY <2>2 DEF StoredOK
<1>9. Alone(t)
  BY <1>2, <1>3, <1>4 DEF Alone, SameRows
<1>. QED
  BY <1>2, <1>3, <1>4, <1>5, <1>6, <1>7, <1>8, <1>9, AloneKeeps DEF SameTurn

LEMMA TurnRaisesKeeps ==
    ASSUME ChatInv, NEW t \in Turns, TurnRaises(t)
    PROVE  ChatInv'
<1>1. raises' \in 0..MaxRaises
  BY ChatAssumption DEF TurnRaises, ChatInv, ChatTypeOK
<1>. QED
  BY <1>1, EndsKeeps DEF TurnRaises, Under, RowsKept

LEMMA ProcessDiesKeeps ==
    ASSUME ChatInv, ProcessDies
    PROVE  ChatInv'
<1>1. turns \in [Turns -> TurnRecords] /\ RowsKept
  BY DEF ProcessDies, RowsKept, ChatInv, ChatTypeOK
<1>2. raises' \in 0..MaxRaises
  <2>1. raises \in 0..MaxRaises
    BY DEF ChatInv, ChatTypeOK
  <2>2. raises < MaxRaises /\ raises' = raises + 1
    BY DEF ProcessDies
  <2>. QED
    BY <2>1, <2>2, ChatAssumption
<1>3. ASSUME NEW t \in Turns
      PROVE  turns'[t] \in TurnRecords /\ TurnOK(t)' /\ CallsOK(t)' /\ StoredOK(t)'
             /\ turns'[t].calls = turns[t].calls /\ turns'[t].role = turns[t].role
  <2> DEFINE r == [turns[t] EXCEPT !.pc = "done", !.outcome = "lost"]
  <2>1. CASE Under(t)
    <3>1. turns'[t] = r
      BY <2>1 DEF ProcessDies
    <3>2. turns[t] \in TurnRecords /\ TurnOK(t) /\ CallsOK(t)
      BY TurnIs
    <3>3. r \in TurnRecords /\ SameTurn(r, turns[t]) /\ r.pc = "done" /\ r.n = turns[t].n
          /\ r.outcome = "lost"
      BY <3>2 DEF TurnRecords, TurnPcs, Outcomes, SameTurn
    <3>4. TurnOK(t)'
      BY <2>1, <3>1, <3>2, <3>3 DEF TurnOK, Gated, SameTurn, Early, Calling, Under
    <3>5. CallsOK(t)' /\ StoredOK(t)'
      BY <1>1, <3>1, <3>2, <3>3 DEF CallsOK, StoredOK, Calling, RowsKept
    <3>. QED
      BY <3>1, <3>3, <3>4, <3>5 DEF SameTurn
  <2>2. CASE ~Under(t)
    <3>1. turns'[t] = turns[t]
      BY <2>2 DEF ProcessDies
    <3>. QED
      BY <1>1, <3>1, TurnFrame DEF SameRows, RowsKept
  <2>. QED
    BY <2>1, <2>2
<1>4. turns' \in [Turns -> TurnRecords]
  BY <1>3 DEF ProcessDies
<1>5. ChatTypeOK' /\ ActsAreOnRecord'
  BY <1>1, <1>2, <1>4 DEF RowsKept, ChatInv, ChatTypeOK, ActsAreOnRecord
<1>6. \A k \in acted' : ActedOK(k)'
  <2>1. ASSUME NEW k \in acted
        PROVE  ActedOK(k)'
    BY <1>3, ActedIsLate, ActedFrame
  <2>. QED
    BY <1>1, <2>1 DEF RowsKept
<1>. QED
  BY <1>3, <1>5, <1>6 DEF ChatInv

-----------------------------------------------------------------------------
(* The invariant *)

LEMMA ChatInitInv ==
    ASSUME ChatInit
    PROVE  ChatInv
<1>1. NewTurn \in TurnRecords
  <2>1. <<>> \in Seq(Invocations) /\ 0 \in 0..MaxCompound
    BY ChatAssumption
  <2>. QED
    BY <2>1 DEF NewTurn, TurnRecords, TurnPcs, Intents, Outcomes
<1>2. ChatTypeOK
  BY <1>1, ChatAssumption DEF ChatInit, ChatTypeOK, ToolCallStatuses
<1>3. ASSUME NEW t \in Turns
      PROVE  TurnOK(t) /\ CallsOK(t) /\ StoredOK(t)
  <2>1. turns[t] = NewTurn
    BY DEF ChatInit
  <2>2. \A n \in 1..MaxCompound : toolCalls[<<t, n>>] = NoCall
    BY DEF ChatInit, CallKeys
  <2>. QED
    BY <2>1, <2>2 DEF NewTurn, TurnOK, CallsOK, StoredOK, Gated, Early, Calling, NoCall
<1>4. ActsAreOnRecord /\ \A k \in acted : ActedOK(k)
  BY DEF ChatInit, ActsAreOnRecord, NoCall
<1>. QED
  BY <1>2, <1>3, <1>4 DEF ChatInv

LEMMA ChatNextInv ==
    ASSUME ChatInv, [ChatNext]_chatVars
    PROVE  ChatInv'
<1>1. ASSUME NEW t \in Turns, TurnStep(t)
      PROVE  ChatInv'
  BY <1>1, EnsureSessionKeeps, ReadHistoryKeeps, AppendUserKeeps, SelectToolKeeps, AddCallKeeps,
     AuditStartedKeeps, RunHandlerKeeps, CloseCallKeeps, AuditClosedKeeps, StoreAssistantKeeps
     DEF TurnStep
<1>2. CASE UNCHANGED chatVars
  BY <1>2 DEF chatVars, ChatInv, ChatTypeOK, TurnOK, CallsOK, StoredOK, Said, ActedOK,
              ActsAreOnRecord, Gated, Current, Key, CallResult
<1>. QED
  BY <1>1, <1>2, TurnRaisesKeeps, ProcessDiesKeeps DEF ChatNext

LEMMA ChatSpecInv == ChatSpec => []ChatInv
  BY ChatInitInv, ChatNextInv, PTL DEF ChatSpec

\* Whatever is selected, and wherever a turn raises or is lost, no tool runs that
\* the caller's role may not use, that names a record the conversation never
\* mentioned, or that changes something beside another call.
THEOREM TurnsGated == ChatSpec => []GatesHold
<1>1. ASSUME ChatInv
      PROVE  GatesHold
  <2>1. ASSUME NEW k \in acted
        PROVE  LET turn == turns[k[1]] call == turn.calls[k[2]]
               IN /\ call.tool \in AllowedTools[turn.role]
                  /\ call.id # NoIdentifier => call.id \in turn.asked \cup turn.seen
                  /\ call.tool \notin ReadOnlyTools => Len(turn.calls) = 1
                  /\ Len(turn.calls) <= MaxCompound
    <3>1. k[1] \in Turns
      BY <1>1, ActedIsLate
    <3>2. turns[k[1]] \in TurnRecords /\ TurnOK(k[1])
      BY <1>1, <3>1, TurnIs
    <3>3. ActedOK(k)
      BY <1>1 DEF ChatInv
    <3>4. Len(turns[k[1]].calls) \in Nat
      BY <3>2 DEF TurnRecords
    <3>5. Len(turns[k[1]].calls) >= 1 /\ turns[k[1]].calls # <<>>
      BY <3>3, <3>4 DEF ActedOK
    <3>6. k[2] \in 1..Len(turns[k[1]].calls)
          /\ turns[k[1]].calls[k[2]].tool \in AllowedTools[turns[k[1]].role]
      BY <3>3 DEF ActedOK
    <3>7. Gated(turns[k[1]])
      BY <3>2 DEF TurnOK
    <3>8. /\ Len(turns[k[1]].calls) <= MaxCompound
          /\ turns[k[1]].calls[k[2]].id # NoIdentifier
                => turns[k[1]].calls[k[2]].id \in turns[k[1]].asked \cup turns[k[1]].seen
          /\ Len(turns[k[1]].calls) > 1 => turns[k[1]].calls[k[2]].tool \in ReadOnlyTools
      BY <3>5, <3>6, <3>7 DEF Gated
    <3>9. \A n \in Nat : n >= 1 => n = 1 \/ n > 1
      OBVIOUS
    <3>. QED
      BY <3>4, <3>5, <3>6, <3>8, <3>9
  <2>. QED
    BY <1>1, <2>1 DEF GatesHold, TurnsKeepTheirGates, ChatInv
<1>. QED
  BY <1>1, ChatSpecInv, PTL

\* Every tool that ran has its row and its events, no row or event speaks of a
\* success that did not happen, and an answered turn is stored whole.
THEOREM TurnsRecorded == ChatSpec => []TurnsAreOnRecord
<1>1. ASSUME ChatInv
      PROVE  TurnsAreOnRecord
  <2>1. ASSUME NEW t \in Turns, turns[t].outcome = "answered"
        PROVE  /\ {m.role : m \in {x \in chatMessages : x.turn = t /\ x.session = turns[t].session}}
                     = {"user", "assistant"}
               /\ \A n \in 1..MaxCompound : toolCalls[<<t, n>>] # "running"
    <3>1. TurnOK(t) /\ CallsOK(t) /\ StoredOK(t)
      BY <1>1, TurnIs
    <3>2. turns[t].pc = "done"
      BY <2>1, <3>1 DEF TurnOK
    <3>3. Said(t, "user") /\ Said(t, "assistant")
      BY <2>1, <3>1 DEF StoredOK
    <3>4. \A m \in chatMessages : m.role \in {"user", "assistant"}
      BY <1>1 DEF ChatInv, ChatTypeOK, Messages
    <3>. QED
      BY <2>1, <3>1, <3>2, <3>3, <3>4 DEF Said, CallsOK
  <2>. QED
    BY <1>1, <2>1 DEF TurnsAreOnRecord, AnsweredTurnsAreStored, ChatInv
<1>. QED
  BY <1>1, ChatSpecInv, PTL

-----------------------------------------------------------------------------
(***************************************************************************)
(* The limits: the deque of a client is the end of what was let through,   *)
(* so its length counts the window; the bytes of a body are counted as     *)
(* they come.                                                              *)
(***************************************************************************)
\* The deque keeps the end of what was let through, oldest first, and all of it that
\* the window of any later request reaches.
DequeIsTheEnd ==
    /\ Len(events) <= Len(admitted)
    /\ \A n \in 1..Len(admitted) : admitted[n] <= clock
    /\ \A m, n \in 1..Len(admitted) : m <= n => admitted[m] <= admitted[n]
    /\ \A n \in 1..(Len(admitted) - Len(events)) : admitted[n] + Window <= clock
    /\ \A n \in 1..Len(events) : events[n] = admitted[n + (Len(admitted) - Len(events))]

BodyIsCounted ==
    /\ BodyRead = body.consumed
    /\ body.pc # "tooLarge" => body.sent = body.consumed
    /\ body.consumed <= MaxBytes

RefusedBefore == \A t \in refused : t <= clock

LimitInv == LimitTypeOK /\ RefusedBefore /\ DequeIsTheEnd /\ WindowIsExact /\ BodyIsCounted

-----------------------------------------------------------------------------
\* The loop that pops from the deque stops.
LEMMA LoopStops ==
    ASSUME LimitTypeOK
    PROVE  Popped(clock) \in 0..Len(events) /\ Stops(clock, Popped(clock))
<1> DEFINE L == Len(events)
           T == {k \in Nat : k <= L => \A n \in 1..k : events[n] + Window <= clock}
<1>1. L \in Nat /\ clock \in Nat /\ Window \in Nat /\ \A n \in 1..L : events[n] \in Nat
  BY LimitAssumption, LenProperties, ElementOfSeq DEF LimitTypeOK
<1> SUFFICES \E k \in 0..L : Stops(clock, k)
  BY DEF Popped
<1> SUFFICES ASSUME \A k \in 0..L : ~Stops(clock, k) PROVE FALSE
  OBVIOUS
<1>2. 0 \in T
  OBVIOUS
<1>3. ASSUME NEW k \in Nat, k \in T PROVE k + 1 \in T
  <2>1. CASE k + 1 <= L
    <3>1. k \in 0..L /\ \A n \in 1..k : events[n] + Window <= clock
      BY <1>1, <1>3, <2>1
    <3>2. ~(k < L => events[k + 1] + Window > clock)
      BY <3>1 DEF Stops
    <3>3. events[k + 1] + Window <= clock
      BY <1>1, <3>2
    <3>4. \A n \in 1..(k + 1) : n \in 1..k \/ n = k + 1
      BY <1>3
    <3> QED
      BY <3>1, <3>3, <3>4, <1>3
  <2>2. CASE ~(k + 1 <= L)
    BY <2>2, <1>3
  <2> QED
    BY <2>1, <2>2
<1>4. L \in T
  <2> HIDE DEF T
  <2> QED
    BY <1>1, <1>2, <1>3, NaturalsByStep
<1>5. Stops(clock, L)
  BY <1>1, <1>4 DEF Stops
<1> QED
  BY <1>1, <1>5

\* What is left of the deque when the loop stops is what the window reaches: the last
\* Len(Recent) requests let through.
LEMMA RecentIsTheWindow ==
    ASSUME LimitTypeOK, DequeIsTheEnd
    PROVE  /\ Recent(clock) \in Seq(0..MaxClock)
           /\ Len(Recent(clock)) \in 0..Len(admitted)
           /\ \A n \in 1..(Len(admitted) - Len(Recent(clock))) : admitted[n] + Window <= clock
           /\ \A n \in 1..Len(Recent(clock)) :
                 Recent(clock)[n] = admitted[n + (Len(admitted) - Len(Recent(clock)))]
           /\ Through(clock) = (Len(admitted) - Len(Recent(clock)) + 1)..Len(admitted)
<1> DEFINE k == Popped(clock)
           L == Len(events)
           A == Len(admitted)
           R == Recent(clock)
<1>1. /\ k \in 0..L /\ L \in Nat /\ A \in Nat /\ L <= A /\ clock \in Nat /\ Window \in Nat
      /\ \A n \in 1..k : events[n] + Window <= clock
      /\ k < L => events[k + 1] + Window > clock
  BY LoopStops, LimitAssumption, LenProperties DEF LimitTypeOK, DequeIsTheEnd, Stops
<1>2. /\ \A n \in 1..A : admitted[n] \in Nat
      /\ \A n \in 1..L : events[n] \in 0..MaxClock
  BY LimitAssumption, LenProperties, ElementOfSeq DEF LimitTypeOK
<1>3. /\ R \in Seq(0..MaxClock) /\ Len(R) = L - k
      /\ \A n \in 1..(L - k) : R[n] = events[k + n]
  <2>1. k + 1 \in 1..(L + 1) /\ L \in k..L
    BY <1>1
  <2>2. \A n \in (k + 1)..L : events[n] \in 0..MaxClock
    <3> HIDE DEF k
    <3> QED
      BY <1>1, <1>2
  <2> HIDE DEF k
  <2>3. SubSeq(events, k + 1, L) \in Seq(0..MaxClock) /\ Len(SubSeq(events, k + 1, L)) = L - k
    BY <1>1, <2>1, <2>2, SubSeqProperties DEF LimitTypeOK
  <2>4. \A n \in 1..(L - k) : SubSeq(events, k + 1, L)[n] = events[k + n]
    BY <1>1, <2>1, <2>2, SubSeqProperties DEF LimitTypeOK
  <2> QED
    BY <2>3, <2>4 DEF Recent, k
<1>4. \A n \in 1..L : events[n] = admitted[n + (A - L)]
  BY DEF DequeIsTheEnd
<1>5. \A n \in 1..(L - k) : R[n] = admitted[n + (A - (L - k))]
  <2> SUFFICES ASSUME NEW n \in 1..(L - k) PROVE R[n] = admitted[n + (A - (L - k))]
    OBVIOUS
  <2> HIDE DEF k, R
  <2>1. k + n \in 1..L /\ (k + n) + (A - L) = n + (A - (L - k))
    BY <1>1
  <2> QED
    BY <1>3, <1>4, <2>1
<1>6. \A n \in 1..(A - (L - k)) : admitted[n] + Window <= clock
  <2> SUFFICES ASSUME NEW n \in 1..(A - (L - k)) PROVE admitted[n] + Window <= clock
    OBVIOUS
  <2> HIDE DEF k, R
  <2>1. CASE n <= A - L
    BY <1>1, <2>1 DEF DequeIsTheEnd
  <2>2. CASE n > A - L
    <3>1. n - (A - L) \in 1..k /\ n - (A - L) \in 1..L /\ (n - (A - L)) + (A - L) = n
      BY <1>1, <2>2
    <3> QED
      BY <1>1, <1>4, <3>1
  <2> QED
    BY <1>1, <2>1, <2>2
<1>7. \A n \in (A - (L - k) + 1)..A : admitted[n] <= clock /\ admitted[n] + Window > clock
  <2> SUFFICES ASSUME NEW n \in (A - (L - k) + 1)..A
               PROVE  admitted[n] <= clock /\ admitted[n] + Window > clock
    OBVIOUS
  <2> HIDE DEF k, R
  <2>1. k < L /\ n \in 1..A /\ k + 1 \in 1..L /\ (k + 1) + (A - L) \in 1..A /\ (k + 1) + (A - L) <= n
    BY <1>1
  <2>2. admitted[(k + 1) + (A - L)] <= admitted[n] /\ admitted[n] <= clock
    BY <2>1 DEF DequeIsTheEnd
  <2>3. admitted[(k + 1) + (A - L)] + Window > clock
    BY <1>1, <1>4, <2>1
  <2>4. admitted[n] \in Nat /\ admitted[(k + 1) + (A - L)] \in Nat
    BY <1>2, <2>1
  <2> QED
    BY <1>1, <2>2, <2>3, <2>4
<1>8. Through(clock) = (A - (L - k) + 1)..A
  <2>1. DOMAIN admitted = 1..A
    BY LenProperties DEF LimitTypeOK
  <2> HIDE DEF k, R
  <2>2. \A n \in 1..A : n \in 1..(A - (L - k)) \/ n \in (A - (L - k) + 1)..A
    BY <1>1
  <2>3. \A n \in (A - (L - k) + 1)..A : n \in 1..A
    BY <1>1
  <2>4. \A n \in 1..(A - (L - k)) : ~(admitted[n] + Window > clock)
    <3> SUFFICES ASSUME NEW n \in 1..(A - (L - k)) PROVE ~(admitted[n] + Window > clock)
      OBVIOUS
    <3>1. n \in 1..A
      BY <1>1
    <3> QED
      BY <1>1, <1>2, <1>6, <3>1
  <2> QED
    BY <1>7, <2>1, <2>2, <2>3, <2>4 DEF Through
<1>9. Len(R) \in 0..A
  <2> HIDE DEF k, R
  <2> QED
    BY <1>1, <1>3
<1> QED
  <2> HIDE DEF k
  <2>1. Len(Recent(clock)) = L - k
    BY <1>3
  <2> QED
    BY <1>3, <1>5, <1>6, <1>8, <1>9, <2>1

\* A window holds finitely many.
LEMMA ThroughIsFinite ==
    ASSUME LimitTypeOK, NEW t \in Nat
    PROVE  Through(t) \subseteq 1..Len(admitted) /\ IsFiniteSet(Through(t)) /\ Cardinality(Through(t)) \in Nat
<1>1. DOMAIN admitted = 1..Len(admitted) /\ Len(admitted) \in Nat
  BY LenProperties DEF LimitTypeOK
<1>2. Through(t) \subseteq 1..Len(admitted)
  BY <1>1 DEF Through
<1>3. IsFiniteSet(1..Len(admitted))
  BY <1>1, FS_Interval
<1> QED
  BY <1>2, <1>3, FS_Subset, FS_CardinalityType

\* So many of them as the deque keeps.
LEMMA RecentCounted ==
    ASSUME LimitTypeOK, DequeIsTheEnd
    PROVE  Cardinality(Through(clock)) = Len(Recent(clock))
<1> DEFINE A == Len(admitted)
           R == Len(Recent(clock))
<1>1. A \in Nat /\ R \in 0..A /\ Through(clock) = (A - R + 1)..A
  BY RecentIsTheWindow, LenProperties DEF LimitTypeOK
<1> HIDE DEF A, R
<1>2. Cardinality((A - R + 1)..A) = IF A - R + 1 > A THEN 0 ELSE A - (A - R + 1) + 1
  BY <1>1, FS_Interval
<1> QED
  BY <1>1, <1>2 DEF R

\* A chunk more.
LEMMA SumOfOneMore ==
    ASSUME NEW s \in Seq(Chunks), NEW c \in Chunks
    PROVE  /\ SumFunctionOnSet(Append(s, c), DOMAIN Append(s, c)) = SumFunctionOnSet(s, DOMAIN s) + c
           /\ SumFunctionOnSet(s, DOMAIN s) \in Nat
<1> DEFINE n == Len(s)
           a == Append(s, c)
<1>1. /\ n \in Nat /\ DOMAIN s = 1..n /\ DOMAIN a = 1..(n + 1) /\ c \in Nat
      /\ \A i \in 1..n : s[i] \in Nat /\ a[i] = s[i]
      /\ a[n + 1] = c
  <2>1. n \in Nat /\ DOMAIN s = 1..n /\ c \in Nat /\ \A i \in 1..n : s[i] \in Nat
    BY LimitAssumption, LenProperties, ElementOfSeq
  <2>2. a \in Seq(Chunks) /\ Len(a) = n + 1 /\ a[n + 1] = c /\ \A i \in 1..n : a[i] = s[i]
    BY AppendProperties
  <2>3. DOMAIN a = 1..(n + 1)
    BY <2>2, LenProperties
  <2> QED
    BY <2>1, <2>2, <2>3
<1> HIDE DEF n, a
<1>2. IsFiniteSet(1..n) /\ IsFiniteSet(1..(n + 1))
  BY <1>1, FS_Interval
<1>3. \A i \in 1..(n + 1) : a[i] \in Int
  <2>1. \A i \in 1..(n + 1) : i \in 1..n \/ i = n + 1
    BY <1>1
  <2> QED
    BY <1>1, <2>1
<1>4. n + 1 \in 1..(n + 1) /\ (1..(n + 1)) \ {n + 1} = 1..n
  BY <1>1
<1>5. SumFunctionOnSet(a, 1..(n + 1)) = a[n + 1] + SumFunctionOnSet(a, 1..n)
  <2> DEFINE I == 1..(n + 1)
  <2>1. IsFiniteSet(I) /\ n + 1 \in I /\ I \ {n + 1} = 1..n /\ \A i \in I : a[i] \in Int
    BY <1>2, <1>3, <1>4
  <2> HIDE DEF I
  <2>2. SumFunctionOnSet(a, I) = a[n + 1] + SumFunctionOnSet(a, I \ {n + 1})
    BY <2>1, SumTakes
  <2> QED
    BY <2>1, <2>2 DEF I
<1>6. SumFunctionOnSet(a, 1..n) = SumFunctionOnSet(s, 1..n)
  <2>1. \A i \in 1..n : s[i] \in Int /\ a[i] = s[i]
    BY <1>1
  <2> QED
    BY <1>2, <2>1, SumAgrees
<1>7. SumFunctionOnSet(s, 1..n) \in Nat
  BY <1>1, <1>2, SumIsNat
<1>8. SumFunctionOnSet(a, DOMAIN a) = SumFunctionOnSet(s, DOMAIN s) + c
  BY <1>1, <1>5, <1>6, <1>7
<1> QED
  BY <1>1, <1>7, <1>8 DEF a

\* Nothing has been admitted at the start.
LEMMA LimitsStart == LimitInit => LimitInv
<1> SUFFICES ASSUME LimitInit PROVE LimitInv
  OBVIOUS
<1>0. \A S : <<>> \in Seq(S)
  BY EmptySeq
<1>1. LimitTypeOK
  BY <1>0, LimitAssumption DEF LimitInit, LimitTypeOK, NoBody, RequestBodies, BodyPcs
<1>2. Len(admitted) = 0 /\ Len(events) = 0
  BY EmptySeq DEF LimitInit
<1>3. RefusedBefore /\ DequeIsTheEnd
  BY <1>2 DEF LimitInit, RefusedBefore, DequeIsTheEnd
<1>4. WindowIsExact
  <2>1. \A t \in Nat : Through(t) = {}
    BY DEF LimitInit, Through
  <2> QED
    BY <2>1, FS_EmptySet, LimitAssumption DEF LimitInit, WindowIsExact
<1>5. BodyIsCounted
  <2>1. DOMAIN body.buffered = {}
    BY DEF LimitInit, NoBody
  <2>2. BodyRead = 0
    BY <2>1, SumOfNone DEF BodyRead
  <2> QED
    BY <2>2, LimitAssumption DEF LimitInit, NoBody, BodyIsCounted
<1> QED
  BY <1>1, <1>3, <1>4, <1>5 DEF LimitInv

\* As time passes requests leave the window, and none comes into it.
LEMMA TickKeeps ==
    ASSUME LimitInv, Tick
    PROVE  LimitInv'
<1>1. LimitTypeOK'
  BY LimitAssumption DEF LimitInv, LimitTypeOK, Tick
<1>2. clock \in Nat /\ Window \in Nat /\ Len(admitted) \in Nat /\ Len(events) \in Nat
      /\ \A n \in 1..Len(admitted) : admitted[n] \in Nat
  BY LimitAssumption, LenProperties, ElementOfSeq DEF LimitInv, LimitTypeOK
<1>3. RefusedBefore'
  BY <1>2, LimitAssumption DEF LimitInv, RefusedBefore, Tick, LimitTypeOK
<1>4. DequeIsTheEnd'
  <2>1. \A n \in 1..Len(admitted) : admitted[n] <= clock + 1
    BY <1>2 DEF LimitInv, DequeIsTheEnd
  <2>2. \A n \in 1..(Len(admitted) - Len(events)) : n \in 1..Len(admitted)
    BY <1>2
  <2>3. \A n \in 1..(Len(admitted) - Len(events)) : admitted[n] + Window <= clock + 1
    BY <1>2, <2>2 DEF LimitInv, DequeIsTheEnd
  <2> QED
    BY <2>1, <2>3 DEF LimitInv, DequeIsTheEnd, Tick
<1>5. WindowIsExact'
  <2>1. \A t : Through(t)' = Through(t)
    BY DEF Through, Tick
  <2>2. Through(clock + 1) \subseteq Through(clock)
    <3>1. DOMAIN admitted = 1..Len(admitted)
      BY LenProperties DEF LimitInv, LimitTypeOK
    <3> QED
      BY <1>2, <3>1 DEF Through, LimitInv, DequeIsTheEnd
  <2>3. /\ Cardinality(Through(clock + 1)) <= Cardinality(Through(clock))
        /\ Cardinality(Through(clock)) \in Nat /\ Cardinality(Through(clock + 1)) \in Nat
    <3>1. clock + 1 \in Nat
      BY <1>2
    <3>2. IsFiniteSet(Through(clock)) /\ Cardinality(Through(clock)) \in Nat /\ Cardinality(Through(clock + 1)) \in Nat
      BY <1>2, <3>1, ThroughIsFinite DEF LimitInv
    <3> QED
      BY <2>2, <3>2, FS_Subset
  <2>4. Cardinality(Through(clock)) <= Limit
    BY <1>2 DEF LimitInv, WindowIsExact
  <2>5. Cardinality(Through(clock + 1)) <= Limit
    BY <2>3, <2>4, LimitAssumption
  <2>6. \A t \in 0..(clock + 1) : t \in 0..clock \/ t = clock + 1
    BY <1>2
  <2>7. \A t \in 0..(clock + 1) : Cardinality(Through(t)) <= Limit
    BY <2>5, <2>6 DEF LimitInv, WindowIsExact
  <2> QED
    BY <2>1, <2>7 DEF LimitInv, WindowIsExact, Tick
<1>6. BodyIsCounted'
  BY DEF LimitInv, BodyIsCounted, BodyRead, Tick
<1> QED
  BY <1>1, <1>3, <1>4, <1>5, <1>6 DEF LimitInv

\* A request that is refused leaves the deque pruned.
LEMMA RefusalKeeps ==
    ASSUME LimitInv, Len(Recent(clock)) >= Limit,
           events' = Recent(clock), refused' = refused \cup {clock}, UNCHANGED <<clock, admitted, body>>
    PROVE  LimitInv'
<1>1. clock \in 0..MaxClock /\ clock \in Nat /\ Limit \in Nat
  BY LimitAssumption DEF LimitInv, LimitTypeOK
<1>2. LimitTypeOK'
  BY <1>1, RecentIsTheWindow DEF LimitInv, LimitTypeOK
<1>3. RefusedBefore'
  BY <1>1 DEF LimitInv, RefusedBefore
<1>4. DequeIsTheEnd'
  <2>1. Len(Recent(clock)) <= Len(admitted)
    BY RecentIsTheWindow, LenProperties DEF LimitInv, LimitTypeOK
  <2> QED
    BY <2>1, RecentIsTheWindow DEF LimitInv, DequeIsTheEnd
<1>5. WindowIsExact'
  <2>1. \A t : Through(t)' = Through(t)
    BY DEF Through
  <2>2. Cardinality(Through(clock)) = Limit
    <3>1. Cardinality(Through(clock)) <= Limit /\ Cardinality(Through(clock)) \in Nat
      BY <1>1, ThroughIsFinite DEF LimitInv, WindowIsExact
    <3> QED
      BY <1>1, <3>1, RecentCounted DEF LimitInv
  <2> QED
    BY <2>1, <2>2 DEF LimitInv, WindowIsExact
<1>6. BodyIsCounted'
  BY DEF LimitInv, BodyIsCounted, BodyRead
<1> QED
  BY <1>2, <1>3, <1>4, <1>5, <1>6 DEF LimitInv

\* The body of a request that is let through.
LEMMA FreshBody ==
    ASSUME NEW d \in {NoLength} \cup Nat, NEW b \in Seq(Chunks), NEW z \in Nat, NEW q,
           q = [pc |-> "declared", declared |-> d, consumed |-> z, buffered |-> b, sent |-> z]
    PROVE  /\ q \in RequestBodies
           /\ q.pc = "declared" /\ q.buffered = b /\ q.consumed = z /\ q.sent = z
BY DEF RequestBodies, BodyPcs

\* A request that is let through is the last of every window it is in.
LEMMA AdmissionKeeps ==
    ASSUME LimitInv, Len(Recent(clock)) < Limit, NEW declared \in {NoLength} \cup (0..(MaxBytes + 1)),
           events' = Append(Recent(clock), clock), admitted' = Append(admitted, clock),
           body' = [NoBody EXCEPT !.pc = "declared", !.declared = declared], UNCHANGED <<clock, refused>>
    PROVE  LimitInv'
<1> DEFINE A == Len(admitted)
           R == Len(Recent(clock))
           Rec == Recent(clock)
<1>1. /\ clock \in 0..MaxClock /\ clock \in Nat /\ Limit \in Nat /\ Window \in Nat \ {0} /\ A \in Nat
      /\ R \in 0..A
      /\ Rec \in Seq(0..MaxClock) /\ admitted \in Seq(0..MaxClock)
      /\ \A n \in 1..A : admitted[n] \in Nat /\ admitted[n] <= clock
      /\ \A n \in 1..(A - R) : admitted[n] + Window <= clock
      /\ \A n \in 1..R : Rec[n] = admitted[n + (A - R)]
      /\ Through(clock) = (A - R + 1)..A
  BY LimitAssumption, LenProperties, ElementOfSeq, RecentIsTheWindow DEF LimitInv, LimitTypeOK, DequeIsTheEnd
<1>2. /\ events' \in Seq(0..MaxClock) /\ Len(events') = R + 1 /\ events'[R + 1] = clock
      /\ \A n \in 1..R : events'[n] = Rec[n]
  <2> HIDE DEF Rec
  <2> QED
    BY <1>1, AppendProperties DEF Rec
<1>3. /\ admitted' \in Seq(0..MaxClock) /\ Len(admitted') = A + 1 /\ admitted'[A + 1] = clock
      /\ \A n \in 1..A : admitted'[n] = admitted[n]
  BY <1>1, AppendProperties
<1>4. body' \in RequestBodies /\ body'.pc = "declared" /\ body'.buffered = <<>> /\ body'.consumed = 0 /\ body'.sent = 0
  <2>1. <<>> \in Seq(Chunks) /\ declared \in {NoLength} \cup Nat
    BY LimitAssumption, EmptySeq
  <2>2. body' = [pc |-> "declared", declared |-> declared, consumed |-> 0, buffered |-> <<>>, sent |-> 0]
    BY DEF NoBody
  <2>3. 0 \in Nat
    OBVIOUS
  <2> DEFINE empty == <<>>
             fresh == [pc |-> "declared", declared |-> declared, consumed |-> 0, buffered |-> empty, sent |-> 0]
  <2>4. empty \in Seq(Chunks) /\ body' = fresh
    BY <2>1, <2>2
  <2> HIDE DEF empty
  <2>5. /\ fresh \in RequestBodies
        /\ fresh.pc = "declared" /\ fresh.buffered = empty /\ fresh.consumed = 0 /\ fresh.sent = 0
    BY <2>1, <2>3, <2>4, FreshBody
  <2> HIDE DEF fresh
  <2> QED
    BY <2>4, <2>5 DEF empty
<1>5. LimitTypeOK'
  BY <1>1, <1>2, <1>3, <1>4 DEF LimitInv, LimitTypeOK
<1>6. RefusedBefore'
  BY DEF LimitInv, RefusedBefore
<1> HIDE DEF Rec, A, R
<1>20. A \in Nat /\ R \in Nat /\ clock \in Nat
  BY <1>1
<1>21. /\ \A n \in 1..(A + 1) : n \in 1..A \/ n = A + 1
       /\ \A n \in 1..(R + 1) : n \in 1..R \/ n = R + 1
       /\ (A + 1) - (R + 1) = A - R /\ (R + 1) + (A - R) = A + 1
       /\ \A t \in Nat : t < clock => ~(clock <= t)
  BY <1>20
<1>7. DequeIsTheEnd'
  <2>1. \A n \in 1..(A + 1) : n \in 1..A \/ n = A + 1
    BY <1>21
  <2>2. Len(events') <= Len(admitted')
    BY <1>1, <1>2, <1>3
  <2>3. \A n \in 1..(A + 1) : admitted'[n] <= clock
    BY <1>1, <1>3, <2>1
  <2>4. \A m, n \in 1..(A + 1) : m <= n => admitted'[m] <= admitted'[n]
    <3> SUFFICES ASSUME NEW m \in 1..(A + 1), NEW n \in 1..(A + 1), m <= n
                 PROVE  admitted'[m] <= admitted'[n]
      OBVIOUS
    <3>1. CASE n = A + 1
      BY <1>3, <2>3, <3>1
    <3>2. CASE n \in 1..A
      <4>1. m \in 1..A
        BY <1>1, <3>2
      <4>2. admitted[m] <= admitted[n]
        BY <3>2, <4>1 DEF LimitInv, DequeIsTheEnd, A
      <4> QED
        BY <1>3, <3>2, <4>1, <4>2
    <3> QED
      BY <2>1, <3>1, <3>2
  <2>5. \A n \in 1..((A + 1) - (R + 1)) : admitted'[n] + Window <= clock
    <3>1. \A n \in 1..((A + 1) - (R + 1)) : n \in 1..(A - R) /\ n \in 1..A
      BY <1>1
    <3> QED
      BY <1>1, <1>3, <3>1
  <2>6. \A n \in 1..(R + 1) : events'[n] = admitted'[n + ((A + 1) - (R + 1))]
    <3> SUFFICES ASSUME NEW n \in 1..(R + 1) PROVE events'[n] = admitted'[n + ((A + 1) - (R + 1))]
      OBVIOUS
    <3>1. CASE n = R + 1
      BY <1>2, <1>3, <1>21, <3>1
    <3>2. CASE n \in 1..R
      <4>1. n + (A - R) \in 1..A
        BY <1>1, <3>2
      <4>2. events'[n] = Rec[n] /\ Rec[n] = admitted[n + (A - R)]
        BY <1>1, <1>2, <3>2
      <4>3. admitted'[n + (A - R)] = admitted[n + (A - R)]
        BY <1>3, <4>1
      <4> QED
        BY <1>21, <4>2, <4>3
    <3> QED
      BY <1>21, <3>1, <3>2
  <2> QED
    BY <1>2, <1>3, <2>2, <2>3, <2>4, <2>5, <2>6 DEF DequeIsTheEnd
<1>8. DOMAIN admitted = 1..A /\ DOMAIN admitted' = 1..(A + 1)
  BY <1>1, <1>3, LenProperties DEF A
<1>9. \A t \in Nat : t < clock => Through(t)' = Through(t)
  <2> SUFFICES ASSUME NEW t \in Nat, t < clock PROVE Through(t)' = Through(t)
    OBVIOUS
  <2>1. ~(admitted'[A + 1] <= t)
    BY <1>3, <1>21
  <2>2. \A n \in 1..(A + 1) : n \in 1..A \/ n = A + 1
    BY <1>21
  <2>3. \A n \in 1..A : n \in 1..(A + 1)
    BY <1>1
  <2> QED
    BY <1>3, <1>8, <2>1, <2>2, <2>3 DEF Through
<1>10. Through(clock)' = (A - R + 1)..(A + 1)
  <2>1. clock <= clock /\ clock + Window > clock
    BY <1>1
  <2>2. \A n \in 1..(A + 1) : n \in 1..A \/ n = A + 1
    BY <1>21
  <2>3. \A n : n \in (A - R + 1)..(A + 1) <=> n \in (A - R + 1)..A \/ n = A + 1
    BY <1>1
  <2>4. \A n : n \in (A - R + 1)..A <=> n \in 1..A /\ admitted[n] <= clock /\ admitted[n] + Window > clock
    BY <1>1, <1>8 DEF Through
  <2>5. Through(clock)' = {n \in 1..(A + 1) : admitted'[n] <= clock /\ admitted'[n] + Window > clock}
    BY <1>8 DEF Through
  <2>6. \A n \in 1..(A + 1) : admitted'[n] <= clock /\ admitted'[n] + Window > clock
            <=> n \in (A - R + 1)..A \/ n = A + 1
    BY <1>3, <2>1, <2>2, <2>4
  <2>7. \A n \in (A - R + 1)..(A + 1) : n \in 1..(A + 1)
    BY <1>1
  <2> QED
    BY <2>3, <2>5, <2>6, <2>7
<1>11. WindowIsExact'
  <2>1. Cardinality((A - R + 1)..(A + 1)) = R + 1
    <3>1. Cardinality((A - R + 1)..(A + 1)) = IF A - R + 1 > A + 1 THEN 0 ELSE (A + 1) - (A - R + 1) + 1
      <4>1. A - R + 1 \in Int /\ A + 1 \in Int
        BY <1>1
      <4> QED
        BY <4>1, FS_Interval
    <3> QED
      BY <1>1, <3>1
  <2>2. R + 1 <= Limit
    BY <1>1 DEF R
  <2>3. clock \notin refused
    <3>1. Cardinality(Through(clock)) = R
      BY RecentCounted DEF LimitInv, R
    <3> QED
      BY <1>1, <2>2, <3>1 DEF LimitInv, WindowIsExact
  <2>4. \A t \in 0..clock : t = clock \/ (t \in Nat /\ t < clock)
    BY <1>1
  <2>5. \A t \in 0..clock : Cardinality(Through(t)') <= Limit
    BY <1>9, <1>10, <2>1, <2>2, <2>4 DEF LimitInv, WindowIsExact
  <2>6. \A t \in refused : t \in Nat /\ t < clock
    BY <1>1, <2>3, LimitAssumption DEF LimitInv, RefusedBefore, LimitTypeOK
  <2>7. \A t \in refused : Cardinality(Through(t)') = Limit
    BY <1>9, <2>6 DEF LimitInv, WindowIsExact
  <2> QED
    BY <2>5, <2>7 DEF WindowIsExact
<1>12. BodyIsCounted'
  <2>1. DOMAIN (body'.buffered) = {}
    BY <1>4
  <2>2. BodyRead' = 0
    BY <2>1, SumOfNone DEF BodyRead
  <2> QED
    BY <1>4, <2>2, LimitAssumption DEF BodyIsCounted
<1> QED
  BY <1>5, <1>6, <1>7, <1>11, <1>12 DEF LimitInv

\* What only concerns the body of the request.
LEMMA BodyStep ==
    ASSUME LimitInv, body' \in RequestBodies, BodyIsCounted', UNCHANGED <<clock, events, admitted, refused>>
    PROVE  LimitInv'
<1>1. LimitTypeOK' /\ RefusedBefore' /\ DequeIsTheEnd'
  BY DEF LimitInv, LimitTypeOK, RefusedBefore, DequeIsTheEnd
<1>2. WindowIsExact'
  <2>1. \A t : Through(t)' = Through(t)
    BY DEF Through
  <2> QED
    BY <2>1 DEF LimitInv, WindowIsExact
<1> QED
  BY <1>1, <1>2 DEF LimitInv

\* The declared length is compared with the limit.
LEMMA TestKeeps ==
    ASSUME LimitInv, TestDeclared
    PROVE  LimitInv'
<1>1. PICK pc \in {"tooLarge", "reading"} : body' = [body EXCEPT !.pc = pc]
  BY DEF TestDeclared
<1>2. body \in RequestBodies /\ body.pc = "declared"
  BY DEF LimitInv, LimitTypeOK, TestDeclared
<1>3. /\ body' \in RequestBodies /\ body'.pc = pc
      /\ body'.buffered = body.buffered /\ body'.consumed = body.consumed /\ body'.sent = body.sent
  BY <1>1, <1>2 DEF RequestBodies, BodyPcs
<1>4. BodyIsCounted'
  BY <1>2, <1>3 DEF LimitInv, BodyIsCounted, BodyRead
<1> QED
  BY <1>3, <1>4, BodyStep DEF TestDeclared

\* A chunk of the body comes in, and is kept or refused.
LEMMA ReceiveKeeps ==
    ASSUME LimitInv, NEW size \in Chunks, NEW more \in BOOLEAN, ReceiveChunk(size, more)
    PROVE  LimitInv'
<1> DEFINE consumed == body.consumed + size
<1>1. /\ body \in RequestBodies /\ body.pc = "reading" /\ size \in Nat
      /\ body.consumed \in Nat /\ body.sent \in Nat /\ body.buffered \in Seq(Chunks)
      /\ body.sent = body.consumed /\ BodyRead = body.consumed /\ body.consumed <= MaxBytes
  BY LimitAssumption DEF LimitInv, LimitTypeOK, RequestBodies, BodyIsCounted, ReceiveChunk
<1>2. consumed \in Nat /\ body.sent + size = consumed /\ body.sent + size \in Nat
  BY <1>1
<1> HIDE DEF consumed
<1>3. CASE ~Fits(consumed)
  <2>1. body' = [body EXCEPT !.pc = "tooLarge", !.sent = @ + size]
    BY <1>3 DEF ReceiveChunk, consumed
  <2>2. /\ body' \in RequestBodies /\ body'.pc = "tooLarge"
        /\ body'.buffered = body.buffered /\ body'.consumed = body.consumed
    BY <1>1, <1>2, <2>1 DEF RequestBodies, BodyPcs
  <2>3. BodyIsCounted'
    BY <1>1, <2>2 DEF BodyIsCounted, BodyRead
  <2> QED
    BY <2>2, <2>3, BodyStep DEF ReceiveChunk
<1>4. CASE Fits(consumed)
  <2>1. PICK pc \in {"reading", "handled"} :
            body' = [body EXCEPT !.pc = pc, !.consumed = consumed, !.sent = @ + size, !.buffered = Append(@, size)]
    BY <1>4 DEF ReceiveChunk, consumed
  <2>2. Append(body.buffered, size) \in Seq(Chunks)
    BY <1>1, AppendProperties
  <2>3. /\ body' \in RequestBodies /\ body'.pc = pc
        /\ body'.buffered = Append(body.buffered, size) /\ body'.consumed = consumed /\ body'.sent = body.sent + size
    <3> DEFINE b == Append(body.buffered, size)
               v == body.sent + size
    <3>1. body' = [body EXCEPT !.pc = pc, !.consumed = consumed, !.sent = v, !.buffered = b]
      BY <2>1
    <3>2. v \in Nat /\ b \in Seq(Chunks)
      BY <1>2, <2>2
    <3> HIDE DEF b, v
    <3>3. body' \in RequestBodies /\ body'.pc = pc /\ body'.buffered = b /\ body'.consumed = consumed /\ body'.sent = v
      BY <1>1, <1>2, <3>1, <3>2 DEF RequestBodies, BodyPcs
    <3> QED
      BY <3>3 DEF b, v
  <2>4. BodyRead' = BodyRead + size
    BY <1>1, <2>3, SumOfOneMore DEF BodyRead
  <2>5. BodyIsCounted'
    BY <1>1, <1>2, <1>4, <2>3, <2>4 DEF BodyIsCounted, Fits, consumed
  <2> QED
    BY <2>3, <2>5, BodyStep DEF ReceiveChunk
<1> QED
  BY <1>3, <1>4

\* Every step of the limiter keeps the invariant.
LEMMA LimitStep == LimitInv /\ [LimitNext]_limitVars => LimitInv'
<1> SUFFICES ASSUME LimitInv, [LimitNext]_limitVars PROVE LimitInv'
  OBVIOUS
<1>1. CASE UNCHANGED limitVars
  <2>1. body' \in RequestBodies /\ BodyIsCounted'
    BY <1>1 DEF LimitInv, LimitTypeOK, BodyIsCounted, BodyRead, limitVars
  <2> QED
    BY <1>1, <2>1, BodyStep DEF limitVars
<1>2. CASE Tick
  BY <1>2, TickKeeps
<1>3. ASSUME NEW declared \in {NoLength} \cup (0..(MaxBytes + 1)), RateLimit(declared) PROVE LimitInv'
  <2>1. Len(Recent(clock)) \in Nat /\ Limit \in Nat
    BY RecentIsTheWindow, LenProperties, LimitAssumption DEF LimitInv, LimitTypeOK
  <2>2. CASE Len(Recent(clock)) >= Limit
    <3>1. events' = Recent(clock) /\ refused' = refused \cup {clock} /\ UNCHANGED <<clock, admitted, body>>
      BY <1>3, <2>2 DEF RateLimit
    <3> QED
      BY <2>2, <3>1, RefusalKeeps
  <2>3. CASE Len(Recent(clock)) < Limit
    <3>0. ~(Len(Recent(clock)) >= Limit)
      BY <2>1, <2>3
    <3>1. /\ events' = Append(Recent(clock), clock) /\ admitted' = Append(admitted, clock)
          /\ body' = [NoBody EXCEPT !.pc = "declared", !.declared = declared] /\ UNCHANGED <<clock, refused>>
      BY <1>3, <3>0 DEF RateLimit
    <3> QED
      BY <2>3, <3>1, AdmissionKeeps
  <2> QED
    BY <2>1, <2>2, <2>3
<1>4. CASE TestDeclared
  BY <1>4, TestKeeps
<1>5. ASSUME NEW size \in Chunks, NEW more \in BOOLEAN, ReceiveChunk(size, more) PROVE LimitInv'
  BY <1>5, ReceiveKeeps
<1> QED
  BY <1>1, <1>2, <1>3, <1>4, <1>5 DEF LimitNext

\* The window is exact wherever it is laid, and the application's body bounded, for
\* any limit, window and sizes.
THEOREM LimitsKept == LimitSpec => []LimitsHold
<1>1. LimitInv => LimitsHold
  <2> SUFFICES ASSUME LimitInv PROVE BodiesAreBounded
    BY DEF LimitInv, LimitsHold
  <2> QED
    BY DEF LimitInv, BodyIsCounted, BodiesAreBounded
<1> QED
  BY <1>1, LimitsStart, LimitStep, PTL DEF LimitSpec

-----------------------------------------------------------------------------
(***************************************************************************)
(* The router. Its rules are a table: FitRules are those that call nothing *)
(* their asker may not, and a table that refuses first does so with any    *)
(* rules after.                                                            *)
(***************************************************************************)
\* A rule that is fit to select: what it calls is in its gate or everyone's, and what
\* it calls together only reads.
IsRule(r) ==
    \E c, u, n, l, g, t : \E p \in {"none", "final", "draft"} :
        r = [cue |-> c, unless |-> u, needs |-> n, lacks |-> l, gate |-> g, tools |-> t, reply |-> p]

IsFit(r) ==
    /\ IsRule(r)
    /\ \A role \in RouterRoles : r.gate \subseteq ToolsFor[role] =>
          \A i \in DOMAIN r.tools : r.tools[i] \in ToolsFor[role]
    /\ Len(r.tools) > 1 => Len(r.tools) <= 4 /\ \A i \in DOMAIN r.tools : r.tools[i] \in ReadOnly

RuleGroups == {OpeningRules, OrderRules, StrategyRules, AccountRules, PersonaRules, WatchRules, DocumentRules,
               ResearchRules, IntentRules, RunRules, LiveRules, BacktestRules, ClosingRules}

FitRules == {r \in UNION {{g[i] : i \in DOMAIN g} : g \in RuleGroups} : IsFit(r)}

\* Cascades that begin with the platform's own refusals.
Refusal(r) == r.tools = <<>> /\ r.reply = "final"

RefusingFirst ==
    {rs \in Seq(FitRules) :
        /\ Len(rs) >= 4
        /\ \A i \in 1..4 : Refusal(rs[i])
        /\ rs[2] = Says("bypass safety", "final")
        /\ rs[3] = Says("off topic", "final")
        /\ rs[4] = Says("open advice", "final")}

-----------------------------------------------------------------------------
\* A rule with one tool that its gate holds, or that is everyone's.
LEMMA SingleIsFit ==
    ASSUME NEW cue, NEW t, NEW gate,
           \A role \in RouterRoles : gate \subseteq ToolsFor[role] => t \in ToolsFor[role]
    PROVE  IsFit(Rule(cue, gate, <<t>>, "none"))
<1> DEFINE ts == <<t>>
           r == [cue |-> cue, unless |-> {}, needs |-> {}, lacks |-> {}, gate |-> gate, tools |-> ts, reply |-> "none"]
<1>1. Len(ts) = 1 /\ \A i \in DOMAIN ts : ts[i] = t
  OBVIOUS
<1> HIDE DEF ts
<1>2. r.gate = gate /\ r.tools = ts /\ IsRule(r)
  BY DEF IsRule
<1> HIDE DEF r
<1>3. IsFit(r)
  BY <1>1, <1>2 DEF IsFit
<1> QED
  BY <1>3 DEF r, ts, Rule

\* A rule that acts is fit: its tool is in its gate.
LEMMA ActsFit == \A cue, t : IsFit(Acts(cue, t))
<1> SUFFICES ASSUME NEW cue, NEW t PROVE IsFit(Rule(cue, {t}, <<t>>, "none"))
  BY DEF Acts
<1> QED
  BY SingleIsFit

\* A rule that reads with a tool of every role is fit, whoever asks.
LEMMA ReadsFit ==
    ASSUME NEW cue, NEW t, \A role \in RouterRoles : t \in ToolsFor[role]
    PROVE  IsFit(Reads(cue, t))
BY SingleIsFit DEF Reads

\* A rule that only replies.
LEMMA RepliesFit ==
    ASSUME NEW cue, NEW gate, NEW reply \in {"final", "draft"}
    PROVE  /\ IsFit(Rule(cue, gate, <<>>, reply))
           /\ Rule(cue, gate, <<>>, reply).tools = <<>>
           /\ Rule(cue, gate, <<>>, reply).reply = reply
<1> DEFINE ts == <<>>
           r == [cue |-> cue, unless |-> {}, needs |-> {}, lacks |-> {}, gate |-> gate, tools |-> ts, reply |-> reply]
<1>1. Len(ts) = 0 /\ DOMAIN ts = {}
  OBVIOUS
<1> HIDE DEF ts
<1>2. r.gate = gate /\ r.tools = ts /\ r.reply = reply /\ IsRule(r)
  BY DEF IsRule
<1> HIDE DEF r
<1>3. IsFit(r)
  BY <1>1, <1>2 DEF IsFit
<1> QED
  BY <1>2, <1>3 DEF r, ts, Rule

\* A rule that only answers calls nothing.
LEMMA SaysFit ==
    \A cue : \A reply \in {"final", "draft"} :
        IsFit(Says(cue, reply)) /\ Says(cue, reply).tools = <<>> /\ Says(cue, reply).reply = reply
<1> SUFFICES ASSUME NEW cue, NEW reply \in {"final", "draft"}
             PROVE  /\ IsFit(Rule(cue, {}, <<>>, reply))
                    /\ Rule(cue, {}, <<>>, reply).tools = <<>> /\ Rule(cue, {}, <<>>, reply).reply = reply
  BY DEF Says
<1> QED
  BY RepliesFit

\* A rule that asks for what is missing calls nothing.
LEMMA AsksFit == \A cue, t : IsFit(Asks(cue, t))
<1> SUFFICES ASSUME NEW cue, NEW t PROVE IsFit(Rule(cue, {t}, <<>>, "draft"))
  BY DEF Asks
<1> QED
  BY RepliesFit

\* A veto, a fact needed or a fact lacked changes nothing in that.
LEMMA QualifiedFit == \A r, s : IsFit(r) => IsFit(Unless(r, s)) /\ IsFit(Needs(r, s)) /\ IsFit(Lacks(r, s))
<1> SUFFICES ASSUME NEW r, NEW s, IsFit(r) PROVE IsFit(Unless(r, s)) /\ IsFit(Needs(r, s)) /\ IsFit(Lacks(r, s))
  OBVIOUS
<1>1. PICK c, u, n, l, g, t : \E p \in {"none", "final", "draft"} :
          r = [cue |-> c, unless |-> u, needs |-> n, lacks |-> l, gate |-> g, tools |-> t, reply |-> p]
  BY DEF IsFit, IsRule
<1>2. PICK p \in {"none", "final", "draft"} :
          r = [cue |-> c, unless |-> u, needs |-> n, lacks |-> l, gate |-> g, tools |-> t, reply |-> p]
  BY <1>1
<1>3. /\ Unless(r, s) = [cue |-> c, unless |-> s, needs |-> n, lacks |-> l, gate |-> g, tools |-> t, reply |-> p]
      /\ Needs(r, s) = [cue |-> c, unless |-> u, needs |-> s, lacks |-> l, gate |-> g, tools |-> t, reply |-> p]
      /\ Lacks(r, s) = [cue |-> c, unless |-> u, needs |-> n, lacks |-> s, gate |-> g, tools |-> t, reply |-> p]
  BY <1>2 DEF Unless, Needs, Lacks
<1>4. IsRule(Unless(r, s)) /\ IsRule(Needs(r, s)) /\ IsRule(Lacks(r, s))
  BY <1>3 DEF IsRule
<1>5. /\ r.gate = g /\ r.tools = t
      /\ Unless(r, s).gate = g /\ Unless(r, s).tools = t
      /\ Needs(r, s).gate = g /\ Needs(r, s).tools = t
      /\ Lacks(r, s).gate = g /\ Lacks(r, s).tools = t
  BY <1>2, <1>3
<1> QED
  BY <1>4, <1>5 DEF IsFit

\* A group whose rules are all fit.
LEMMA GroupFit ==
    ASSUME NEW g \in RuleGroups, NEW n \in Nat, g = [i \in 1..n |-> g[i]], \A i \in 1..n : IsFit(g[i])
    PROVE  g \in Seq(FitRules)
<1>1. \A i \in 1..n : g[i] \in FitRules
  BY DEF FitRules
<1>2. [i \in 1..n |-> g[i]] \in Seq(FitRules)
  BY <1>1
<1> QED
  BY <1>2

\* A rule with two tools.
LEMMA PairIsFit ==
    ASSUME NEW cue, NEW gate, NEW t \in ReadOnly, NEW u \in ReadOnly, t \in gate, u \in gate
    PROVE  IsFit(Rule(cue, gate, <<t, u>>, "none"))
<1> DEFINE ts == <<t, u>>
           r == [cue |-> cue, unless |-> {}, needs |-> {}, lacks |-> {}, gate |-> gate, tools |-> ts, reply |-> "none"]
<1>1. Len(ts) = 2 /\ \A i \in DOMAIN ts : ts[i] = t \/ ts[i] = u
  OBVIOUS
<1> HIDE DEF ts
<1>2. r.gate = gate /\ r.tools = ts /\ IsRule(r)
  BY DEF IsRule
<1> HIDE DEF r
<1>3. IsFit(r)
  BY <1>1, <1>2 DEF IsFit
<1> QED
  BY <1>3 DEF r, ts, Rule

\* The rules of OpeningRules are fit.
LEMMA OpeningFit == OpeningRules \in Seq(FitRules)
<1>2. /\ IsFit(OpeningRules[1]) /\ IsFit(OpeningRules[2]) /\ IsFit(OpeningRules[3])
      /\ IsFit(OpeningRules[4]) /\ IsFit(OpeningRules[5]) /\ IsFit(OpeningRules[6])
  BY ActsFit, SaysFit, AsksFit, QualifiedFit DEF OpeningRules
<1>3. OpeningRules = [i \in 1..6 |-> OpeningRules[i]]
  BY DEF OpeningRules
<1>4. \A i \in 1..6 : IsFit(OpeningRules[i])
  BY <1>2
<1> QED
  BY <1>3, <1>4, GroupFit DEF RuleGroups

\* The rules of OrderRules are fit.
LEMMA OrderFit == OrderRules \in Seq(FitRules)
<1>1. IsFit(Rule("datasets and strategies", {"list_datasets", "list_strategies"}, <<"list_datasets", "list_strategies">>, "none"))
  BY PairIsFit, RoutingAssumption
<1>2. /\ IsFit(OrderRules[1]) /\ IsFit(OrderRules[2]) /\ IsFit(OrderRules[3])
      /\ IsFit(OrderRules[4]) /\ IsFit(OrderRules[5]) /\ IsFit(OrderRules[6])
      /\ IsFit(OrderRules[7]) /\ IsFit(OrderRules[8]) /\ IsFit(OrderRules[9])
  BY <1>1, ActsFit, SaysFit, AsksFit, QualifiedFit DEF OrderRules
<1>3. OrderRules = [i \in 1..9 |-> OrderRules[i]]
  BY DEF OrderRules
<1>4. \A i \in 1..9 : IsFit(OrderRules[i])
  BY <1>2
<1> QED
  BY <1>3, <1>4, GroupFit DEF RuleGroups

\* The rules of StrategyRules are fit.
LEMMA StrategyFit == StrategyRules \in Seq(FitRules)
<1>2. /\ IsFit(StrategyRules[1]) /\ IsFit(StrategyRules[2]) /\ IsFit(StrategyRules[3])
      /\ IsFit(StrategyRules[4]) /\ IsFit(StrategyRules[5]) /\ IsFit(StrategyRules[6])
  BY ActsFit, SaysFit, AsksFit, QualifiedFit DEF StrategyRules
<1>3. StrategyRules = [i \in 1..6 |-> StrategyRules[i]]
  BY DEF StrategyRules
<1>4. \A i \in 1..6 : IsFit(StrategyRules[i])
  BY <1>2
<1> QED
  BY <1>3, <1>4, GroupFit DEF RuleGroups

\* The rules of AccountRules are fit.
LEMMA AccountFit == AccountRules \in Seq(FitRules)
<1>2. /\ IsFit(AccountRules[1]) /\ IsFit(AccountRules[2]) /\ IsFit(AccountRules[3])
      /\ IsFit(AccountRules[4]) /\ IsFit(AccountRules[5]) /\ IsFit(AccountRules[6])
      /\ IsFit(AccountRules[7]) /\ IsFit(AccountRules[8])
  BY ActsFit, SaysFit, AsksFit, QualifiedFit DEF AccountRules
<1>3. AccountRules = [i \in 1..8 |-> AccountRules[i]]
  BY DEF AccountRules
<1>4. \A i \in 1..8 : IsFit(AccountRules[i])
  BY <1>2
<1> QED
  BY <1>3, <1>4, GroupFit DEF RuleGroups

\* The rules of PersonaRules are fit.
LEMMA PersonaFit == PersonaRules \in Seq(FitRules)
<1>1. \A cue : IsFit(Rule(cue, {"list_strategy_personas", "get_strategy_persona"}, <<"get_strategy_persona">>, "none"))
  BY SingleIsFit
<1>2. /\ IsFit(PersonaRules[1]) /\ IsFit(PersonaRules[2]) /\ IsFit(PersonaRules[3])
      /\ IsFit(PersonaRules[4]) /\ IsFit(PersonaRules[5]) /\ IsFit(PersonaRules[6])
  BY <1>1, ActsFit, SaysFit, AsksFit, QualifiedFit DEF PersonaRules
<1>3. PersonaRules = [i \in 1..6 |-> PersonaRules[i]]
  BY DEF PersonaRules
<1>4. \A i \in 1..6 : IsFit(PersonaRules[i])
  BY <1>2
<1> QED
  BY <1>3, <1>4, GroupFit DEF RuleGroups

\* The rules of WatchRules are fit.
LEMMA WatchFit == WatchRules \in Seq(FitRules)
<1>2. /\ IsFit(WatchRules[1]) /\ IsFit(WatchRules[2]) /\ IsFit(WatchRules[3])
      /\ IsFit(WatchRules[4]) /\ IsFit(WatchRules[5]) /\ IsFit(WatchRules[6])
      /\ IsFit(WatchRules[7]) /\ IsFit(WatchRules[8]) /\ IsFit(WatchRules[9])
      /\ IsFit(WatchRules[10]) /\ IsFit(WatchRules[11])
  BY ActsFit, SaysFit, AsksFit, QualifiedFit DEF WatchRules
<1>3. WatchRules = [i \in 1..11 |-> WatchRules[i]]
  BY DEF WatchRules
<1>4. \A i \in 1..11 : IsFit(WatchRules[i])
  BY <1>2
<1> QED
  BY <1>3, <1>4, GroupFit DEF RuleGroups

\* The rules of DocumentRules are fit.
LEMMA DocumentFit == DocumentRules \in Seq(FitRules)
<1>2. /\ IsFit(DocumentRules[1]) /\ IsFit(DocumentRules[2]) /\ IsFit(DocumentRules[3])
      /\ IsFit(DocumentRules[4]) /\ IsFit(DocumentRules[5]) /\ IsFit(DocumentRules[6])
  BY ActsFit, SaysFit, AsksFit, QualifiedFit DEF DocumentRules
<1>3. DocumentRules = [i \in 1..6 |-> DocumentRules[i]]
  BY DEF DocumentRules
<1>4. \A i \in 1..6 : IsFit(DocumentRules[i])
  BY <1>2
<1> QED
  BY <1>3, <1>4, GroupFit DEF RuleGroups

\* The rules of ResearchRules are fit.
LEMMA ResearchFit == ResearchRules \in Seq(FitRules)
<1>2. /\ IsFit(ResearchRules[1]) /\ IsFit(ResearchRules[2]) /\ IsFit(ResearchRules[3])
      /\ IsFit(ResearchRules[4]) /\ IsFit(ResearchRules[5]) /\ IsFit(ResearchRules[6])
      /\ IsFit(ResearchRules[7])
  BY ActsFit, SaysFit, AsksFit, QualifiedFit DEF ResearchRules
<1>3. ResearchRules = [i \in 1..7 |-> ResearchRules[i]]
  BY DEF ResearchRules
<1>4. \A i \in 1..7 : IsFit(ResearchRules[i])
  BY <1>2
<1> QED
  BY <1>3, <1>4, GroupFit DEF RuleGroups

\* The rules of IntentRules are fit.
LEMMA IntentFit == IntentRules \in Seq(FitRules)
<1>1. /\ IsFit(Reads("freshness", "assess_dataset_freshness"))
      /\ IsFit(Reads("documentation", "search_knowledge"))
      /\ IsFit(Reads("risk", "get_risk_decisions"))
  BY ReadsFit, RoutingAssumption
<1>2. /\ IsFit(IntentRules[1]) /\ IsFit(IntentRules[2]) /\ IsFit(IntentRules[3])
      /\ IsFit(IntentRules[4]) /\ IsFit(IntentRules[5]) /\ IsFit(IntentRules[6])
      /\ IsFit(IntentRules[7]) /\ IsFit(IntentRules[8]) /\ IsFit(IntentRules[9])
      /\ IsFit(IntentRules[10]) /\ IsFit(IntentRules[11])
  BY <1>1, ActsFit, SaysFit, AsksFit, QualifiedFit DEF IntentRules
<1>3. IntentRules = [i \in 1..11 |-> IntentRules[i]]
  BY DEF IntentRules
<1>4. \A i \in 1..11 : IsFit(IntentRules[i])
  BY <1>2
<1> QED
  BY <1>3, <1>4, GroupFit DEF RuleGroups

\* The rules of RunRules are fit.
LEMMA RunFit == RunRules \in Seq(FitRules)
<1>2. /\ IsFit(RunRules[1]) /\ IsFit(RunRules[2]) /\ IsFit(RunRules[3])
      /\ IsFit(RunRules[4]) /\ IsFit(RunRules[5]) /\ IsFit(RunRules[6])
      /\ IsFit(RunRules[7]) /\ IsFit(RunRules[8]) /\ IsFit(RunRules[9])
  BY ActsFit, SaysFit, AsksFit, QualifiedFit DEF RunRules
<1>3. RunRules = [i \in 1..9 |-> RunRules[i]]
  BY DEF RunRules
<1>4. \A i \in 1..9 : IsFit(RunRules[i])
  BY <1>2
<1> QED
  BY <1>3, <1>4, GroupFit DEF RuleGroups

\* The rules of LiveRules are fit.
LEMMA LiveFit == LiveRules \in Seq(FitRules)
<1>1. /\ IsFit(Reads("orders", "get_order_timeline"))
      /\ IsFit(Reads("performance", "get_performance"))
  BY ReadsFit, RoutingAssumption
<1>2. /\ IsFit(LiveRules[1]) /\ IsFit(LiveRules[2]) /\ IsFit(LiveRules[3])
      /\ IsFit(LiveRules[4]) /\ IsFit(LiveRules[5]) /\ IsFit(LiveRules[6])
      /\ IsFit(LiveRules[7])
  BY <1>1, ActsFit, SaysFit, AsksFit, QualifiedFit DEF LiveRules
<1>3. LiveRules = [i \in 1..7 |-> LiveRules[i]]
  BY DEF LiveRules
<1>4. \A i \in 1..7 : IsFit(LiveRules[i])
  BY <1>2
<1> QED
  BY <1>3, <1>4, GroupFit DEF RuleGroups

\* The rules of BacktestRules are fit.
LEMMA BacktestFit == BacktestRules \in Seq(FitRules)
<1>1. /\ IsFit(Reads("run id", "get_backtest_result"))
      /\ IsFit(Reads("strategies", "list_strategies"))
      /\ IsFit(Reads("dataset id", "get_dataset_detail"))
      /\ IsFit(Reads("datasets", "list_datasets"))
  BY ReadsFit, RoutingAssumption
<1>2. /\ IsFit(BacktestRules[1]) /\ IsFit(BacktestRules[2]) /\ IsFit(BacktestRules[3])
      /\ IsFit(BacktestRules[4]) /\ IsFit(BacktestRules[5]) /\ IsFit(BacktestRules[6])
      /\ IsFit(BacktestRules[7]) /\ IsFit(BacktestRules[8]) /\ IsFit(BacktestRules[9])
      /\ IsFit(BacktestRules[10])
  BY <1>1, ActsFit, SaysFit, AsksFit, QualifiedFit DEF BacktestRules
<1>3. BacktestRules = [i \in 1..10 |-> BacktestRules[i]]
  BY DEF BacktestRules
<1>4. \A i \in 1..10 : IsFit(BacktestRules[i])
  BY <1>2
<1> QED
  BY <1>3, <1>4, GroupFit DEF RuleGroups

\* The rules of ClosingRules are fit.
LEMMA ClosingFit == ClosingRules \in Seq(FitRules)
<1>1. IsFit(Rule("one against another", {"get_market_quote"}, <<"get_market_quote", "get_market_quote">>, "none"))
  BY PairIsFit, RoutingAssumption
<1>2. /\ IsFit(ClosingRules[1]) /\ IsFit(ClosingRules[2]) /\ IsFit(ClosingRules[3])
      /\ IsFit(ClosingRules[4]) /\ IsFit(ClosingRules[5]) /\ IsFit(ClosingRules[6])
      /\ IsFit(ClosingRules[7]) /\ IsFit(ClosingRules[8]) /\ IsFit(ClosingRules[9])
  BY <1>1, ActsFit, SaysFit, AsksFit, QualifiedFit DEF ClosingRules
<1>3. ClosingRules = [i \in 1..9 |-> ClosingRules[i]]
  BY DEF ClosingRules
<1>4. \A i \in 1..9 : IsFit(ClosingRules[i])
  BY <1>2
<1> QED
  BY <1>3, <1>4, GroupFit DEF RuleGroups

\* The cascade begins with the refusals.
LEMMA OpeningRefuses == OpeningRules \in RefusingFirst
<1>1. OpeningRules \in Seq(FitRules)
  BY OpeningFit
<1>2. Len(OpeningRules) = 6
  BY DEF OpeningRules
<1>3. /\ OpeningRules[1] = Says("greeting", "final")
      /\ OpeningRules[2] = Says("bypass safety", "final")
      /\ OpeningRules[3] = Says("off topic", "final")
      /\ OpeningRules[4] = Says("open advice", "final")
  BY DEF OpeningRules
<1>4. \A i \in 1..4 : Refusal(OpeningRules[i])
  <2>1. \A i \in 1..4 : i = 1 \/ i = 2 \/ i = 3 \/ i = 4
    OBVIOUS
  <2>2. \A c : Refusal(Says(c, "final"))
    BY SaysFit DEF Refusal
  <2> QED
    BY <1>3, <2>1, <2>2
<1>5. Len(OpeningRules) >= 4
  BY <1>2
<1> QED
  BY <1>1, <1>3, <1>4, <1>5 DEF RefusingFirst

\* A table that refuses first still does with any rules after it.
LEMMA StillRefusesFirst ==
    \A rs \in RefusingFirst, ts \in Seq(FitRules) : rs \o ts \in RefusingFirst
<1> SUFFICES ASSUME NEW rs \in RefusingFirst, NEW ts \in Seq(FitRules) PROVE rs \o ts \in RefusingFirst
  OBVIOUS
<1>1. rs \in Seq(FitRules) /\ Len(rs) >= 4 /\ Len(rs) \in Nat /\ Len(ts) \in Nat
  BY LenProperties DEF RefusingFirst
<1>2. /\ rs \o ts \in Seq(FitRules) /\ Len(rs \o ts) = Len(rs) + Len(ts)
      /\ \A i \in 1..(Len(rs) + Len(ts)) : (rs \o ts)[i] = IF i <= Len(rs) THEN rs[i] ELSE ts[i - Len(rs)]
  BY <1>1, ConcatProperties
<1>3. \A i \in 1..4 : i \in 1..(Len(rs) + Len(ts)) /\ i <= Len(rs)
  BY <1>1
<1>4. \A i \in 1..4 : (rs \o ts)[i] = rs[i]
  BY <1>2, <1>3
<1>5. Len(rs \o ts) >= 4
  BY <1>1, <1>2
<1>6. 2 \in 1..4 /\ 3 \in 1..4 /\ 4 \in 1..4
  OBVIOUS
<1> DEFINE both == rs \o ts
<1>7. both \in Seq(FitRules) /\ Len(both) >= 4 /\ \A i \in 1..4 : both[i] = rs[i]
  BY <1>2, <1>4, <1>5
<1> HIDE DEF both
<1>8. both \in RefusingFirst
  BY <1>6, <1>7 DEF RefusingFirst
<1> QED
  BY <1>8 DEF both

\* The table of the router refuses first.
LEMMA RulesRefuseFirst == Rules \in RefusingFirst
<1> DEFINE R1 == OpeningRules \o OrderRules \o StrategyRules \o AccountRules
           R2 == R1 \o PersonaRules \o WatchRules \o DocumentRules
           R3 == R2 \o ResearchRules \o IntentRules \o RunRules
           R4 == R3 \o LiveRules \o BacktestRules \o ClosingRules
<1>1. R1 \in RefusingFirst
  BY OpeningRefuses, StillRefusesFirst, OrderFit, StrategyFit, AccountFit
<1>2. R2 \in RefusingFirst
  <2> HIDE DEF R1
  <2> QED
    BY <1>1, StillRefusesFirst, PersonaFit, WatchFit, DocumentFit
<1>3. R3 \in RefusingFirst
  <2> HIDE DEF R2
  <2> QED
    BY <1>2, StillRefusesFirst, ResearchFit, IntentFit, RunFit
<1>4. R4 \in RefusingFirst
  <2> HIDE DEF R3
  <2> QED
    BY <1>3, StillRefusesFirst, LiveFit, BacktestFit, ClosingFit
<1> QED
  BY <1>4 DEF Rules

\* The places of the table are numbers, and what is there is a rule.
LEMMA RulesNumbered ==
    /\ \A i \in DOMAIN Rules : i \in Nat /\ i >= 1
    /\ 2 \in DOMAIN Rules /\ 3 \in DOMAIN Rules /\ 4 \in DOMAIN Rules
<1> DEFINE n == Len(Rules)
<1>1. n \in Nat /\ n >= 4 /\ DOMAIN Rules = 1..n
  BY RulesRefuseFirst, LenProperties DEF RefusingFirst
<1> HIDE DEF n
<1>2. (\A i \in 1..n : i \in Nat /\ i >= 1) /\ 2 \in 1..n /\ 3 \in 1..n /\ 4 \in 1..n
  BY <1>1
<1> QED
  BY <1>1, <1>2

\* A set of naturals with a member has a least one.
LEMMA LeastIsLeast ==
    ASSUME NEW S \in SUBSET Nat, S # {}
    PROVE  Min(S) \in S /\ \A k \in S : Min(S) <= k
<1>1. \E m \in S : \A k \in S : m <= k
  <2> SUFFICES ASSUME \A m \in S : \E k \in S : ~(m <= k) PROVE FALSE
    OBVIOUS
  <2> DEFINE T == {n \in Nat : \A k \in S : n <= k}
  <2>1. 0 \in T
    OBVIOUS
  <2>2. \A n \in Nat : n \in T => n + 1 \in T
    OBVIOUS
  <2>3. Nat \subseteq T
    <3> HIDE DEF T
    <3> QED
      BY <2>1, <2>2, NaturalsByStep
  <2>4. PICK k \in S : TRUE
    OBVIOUS
  <2>5. k + 1 \in T
    BY <2>3
  <2> QED
    BY <2>5
<1> QED
  BY <1>1 DEF Min

\* What the rules select is nothing but the closest action, or what a fit rule that
\* fires says; and nothing but a refusal where the refusals' cues are.
LEMMA SelectionIsFit ==
    ASSUME NEW q
    PROVE  \/ SelectByRules(q) = ClosestAction
           \/ \E r \in FitRules : Fires(r, q) /\ SelectByRules(q) = Decision(r.tools, r.reply)
<1> DEFINE firing == {i \in DOMAIN Rules : Fires(Rules[i], q)}
<1>1. Rules \in Seq(FitRules) /\ DOMAIN Rules = 1..Len(Rules) /\ Len(Rules) \in Nat
  BY RulesRefuseFirst, LenProperties DEF RefusingFirst
<1>2. CASE firing # {}
  <2>1. firing \in SUBSET Nat
    BY <1>1
  <2>2. Min(firing) \in firing
    <3> HIDE DEF firing
    <3> QED
      BY <1>2, <2>1, LeastIsLeast
  <2>3. Rules[Min(firing)] \in FitRules
    BY <1>1, <2>2, ElementOfSeq
  <2> QED
    BY <1>2, <2>2, <2>3 DEF SelectByRules
<1>3. CASE firing = {}
  BY <1>3 DEF SelectByRules
<1> QED
  BY <1>2, <1>3

\* A question of a guarded kind fires one of the refusing rules.
LEMMA RefusalsFire ==
    ASSUME NEW q, NEW c \in {"bypass safety", "off topic", "open advice"}, c \in q.cues
    PROVE  Fires(Says(c, "final"), q)
BY DEF Fires, Says, Rule

\* The first place at which a rule fires, when one of the first does, is among them.
LEMMA AmongTheFirst == \A m \in Nat : \A k \in {2, 3, 4} : m >= 1 /\ m <= k => m \in 1..4
OBVIOUS

\* The first rule that fires for such a message is a refusal.
LEMMA BypassIsRefused ==
    ASSUME NEW q, q.cues \cap {"bypass safety", "off topic", "open advice"} # {}
    PROVE  SelectByRules(q) = Decision(<<>>, "final")
<1> DEFINE firing == {i \in DOMAIN Rules : Fires(Rules[i], q)}
<1>1. /\ Rules \in Seq(FitRules) /\ DOMAIN Rules = 1..Len(Rules) /\ Len(Rules) \in Nat /\ Len(Rules) >= 4
      /\ \A i \in 1..4 : Refusal(Rules[i])
      /\ Rules[2] = Says("bypass safety", "final") /\ Rules[3] = Says("off topic", "final")
      /\ Rules[4] = Says("open advice", "final")
  BY RulesRefuseFirst, LenProperties DEF RefusingFirst
<1>2. \E k \in {2, 3, 4} : k \in firing
  <2>1. 2 \in DOMAIN Rules /\ 3 \in DOMAIN Rules /\ 4 \in DOMAIN Rules
    BY RulesNumbered
  <2> QED
    BY <1>1, <2>1, RefusalsFire
<1>3. firing \in SUBSET Nat /\ firing # {}
  <2>1. \A i \in DOMAIN Rules : i \in Nat
    BY RulesNumbered
  <2> QED
    BY <1>2, <2>1
<1>4. Min(firing) \in firing /\ \A k \in firing : Min(firing) <= k
  <2> HIDE DEF firing
  <2> QED
    BY <1>3, LeastIsLeast
<1>5. Min(firing) \in 1..4
  <2>1. Min(firing) \in DOMAIN Rules
    BY <1>4
  <2>2. Min(firing) \in Nat /\ Min(firing) >= 1
    BY <2>1, RulesNumbered
  <2>3. PICK k \in {2, 3, 4} : Min(firing) <= k
    BY <1>2, <1>4
  <2> HIDE DEF firing
  <2> QED
    BY <2>2, <2>3, AmongTheFirst
<1> QED
  BY <1>1, <1>3, <1>5 DEF SelectByRules, Refusal

-----------------------------------------------------------------------------
\* Where the routing stands, the rules have spoken: their decision is carried along,
\* and no model is asked about a message they settle.
RulesFirst ==
    /\ route.pc \in {"rules", "fallback"} => Provider # "openai"
    /\ route.pc \in {"model", "fallback"} /\ Provider # "openai" =>
          route.decision = SelectByRules(ask) /\ ~Settled(SelectByRules(ask))
    /\ route.pc = "done" /\ route.by = "rules" => route.decision = SelectByRules(ask)
    /\ route.pc = "done" /\ Provider # "openai" => route.by = "rules" \/ ~Settled(SelectByRules(ask))

RouteShaped == \E p, d, b : route = [pc |-> p, decision |-> d, by |-> b]

RouteInv == RouteTypeOK /\ RouteShaped /\ RulesFirst

\* The question before there is one.
LEMMA NoAskTyped == NoAsk.role \in RouterRoles /\ NoAsk.cues \subseteq Cues /\ NoAsk.facts \subseteq Facts
<1>1. \E r \in RouterRoles : TRUE
  BY RoutingAssumption
<1> QED
  BY <1>1 DEF NoAsk

\* Every question that may be asked has a role, cues and facts.
LEMMA AskedTyped == \A q \in Asked : q.role \in RouterRoles /\ q.cues \subseteq Cues /\ q.facts \subseteq Facts
<1> SUFFICES ASSUME NEW q \in Asked PROVE q.role \in RouterRoles /\ q.cues \subseteq Cues /\ q.facts \subseteq Facts
  OBVIOUS
<1>1. q.role \in RouterRoles /\ q.cues \in CuePairs /\ q.facts \in FactSets
  BY DEF Asked
<1>2. q.cues \subseteq Cues
  BY <1>1 DEF CuePairs
<1>3. q.facts \subseteq Facts
  BY <1>1 DEF FactSets, Facts
<1> QED
  BY <1>1, <1>2, <1>3

\* What the rules decide, they decide in one of three ways.
LEMMA SelectionTyped == \A q : SelectByRules(q).reply \in {"none", "final", "draft"}
<1> SUFFICES ASSUME NEW q PROVE SelectByRules(q).reply \in {"none", "final", "draft"}
  OBVIOUS
<1>1. CASE SelectByRules(q) = ClosestAction
  <2>1. ClosestAction.reply = "draft"
    BY DEF ClosestAction, Decision
  <2> QED
    BY <1>1, <2>1
<1>2. CASE \E r \in FitRules : SelectByRules(q) = Decision(r.tools, r.reply)
  <2>1. PICK r \in FitRules : SelectByRules(q) = Decision(r.tools, r.reply)
    BY <1>2
  <2>2. r.reply \in {"none", "final", "draft"}
    BY DEF FitRules, IsFit, IsRule
  <2>3. Decision(r.tools, r.reply).reply = r.reply
    BY DEF Decision
  <2> QED
    BY <2>1, <2>2, <2>3
<1> QED
  BY <1>1, <1>2, SelectionIsFit

\* What the rules select is the role's to call, and compound answers only read.
LEMMA SelectionWithinRole ==
    ASSUME NEW q, q.role \in RouterRoles
    PROVE  LET tools == SelectByRules(q).tools
           IN /\ \A i \in DOMAIN tools : tools[i] \in ToolsFor[q.role]
              /\ Len(tools) > 1 => Len(tools) <= 4 /\ \A i \in DOMAIN tools : tools[i] \in ReadOnly
<1>1. CASE SelectByRules(q) = ClosestAction
  <2> DEFINE ts == ClosestAction.tools
  <2>1. DOMAIN ts = {} /\ Len(ts) = 0
    BY DEF ClosestAction, Decision
  <2> HIDE DEF ts
  <2>2. /\ \A i \in DOMAIN ts : ts[i] \in ToolsFor[q.role]
        /\ Len(ts) > 1 => Len(ts) <= 4 /\ \A i \in DOMAIN ts : ts[i] \in ReadOnly
    BY <2>1
  <2> QED
    BY <1>1, <2>2 DEF ts
<1>2. CASE \E r \in FitRules : Fires(r, q) /\ SelectByRules(q) = Decision(r.tools, r.reply)
  <2>1. PICK r \in FitRules : Fires(r, q) /\ SelectByRules(q) = Decision(r.tools, r.reply)
    BY <1>2
  <2>2. SelectByRules(q).tools = r.tools
    BY <2>1 DEF Decision
  <2>3. r.gate \subseteq ToolsFor[q.role] /\ IsFit(r)
    BY <2>1 DEF Fires, FitRules
  <2> QED
    BY <2>2, <2>3 DEF IsFit
<1> QED
  BY <1>1, <1>2, SelectionIsFit

\* The fields of a decision.
LEMMA DecisionFields == \A t, p : Decision(t, p).tools = t /\ Decision(t, p).reply = p
BY DEF Decision

\* The fields of a refusal.
LEMMA RefusalFields ==
    ASSUME NEW d, d = Decision(<<>>, "final")
    PROVE  d.tools = <<>> /\ d.reply = "final"
<1>1. PICK none : none = <<>>
  OBVIOUS
<1>2. d = Decision(none, "final")
  BY <1>1
<1>3. d.tools = none /\ d.reply = "final"
  BY <1>2, DecisionFields
<1> QED
  BY <1>1, <1>3

\* A message is dealt with.
LEMMA DecideFields ==
    ASSUME NEW d, NEW by, Decide(d, by)
    PROVE  route'.pc = "done" /\ route'.decision = d /\ route'.by = by /\ RouteShaped'
BY DEF Decide, RouteShaped

\* It goes on to a model.
LEMMA GoesOnFields ==
    ASSUME RouteShaped, NEW pc, route' = [route EXCEPT !.pc = pc]
    PROVE  route'.pc = pc /\ route'.decision = route.decision /\ route'.by = route.by /\ RouteShaped'
<1>1. PICK p, d, b : route = [pc |-> p, decision |-> d, by |-> b]
  BY DEF RouteShaped
<1>2. route' = [pc |-> pc, decision |-> d, by |-> b]
  BY <1>1
<1> QED
  BY <1>1, <1>2 DEF RouteShaped

\* The fields of a question before it is routed.
LEMMA FreshFields ==
    /\ NoRoute.pc = "free" /\ NoRoute.decision = ClosestAction /\ NoRoute.by = "none"
    /\ \A pc : LET r == [NoRoute EXCEPT !.pc = pc]
               IN /\ r.pc = pc /\ r.decision = ClosestAction /\ r.by = "none"
                  /\ r = [pc |-> pc, decision |-> ClosestAction, by |-> "none"]
    /\ ClosestAction.reply = "draft"
BY DEF NoRoute, ClosestAction, Decision

\* Nothing is decided at the start.
LEMMA RouteStart == RouteInit => RouteInv
<1> SUFFICES ASSUME RouteInit PROVE RouteInv
  OBVIOUS
<1>1. route.pc = "free" /\ route.decision = ClosestAction /\ route.by = "none"
  BY FreshFields DEF RouteInit
<1>2. RouteShaped
  BY DEF RouteInit, NoRoute, RouteShaped
<1>3. RouteTypeOK
  BY <1>1, NoAskTyped, FreshFields DEF RouteInit, RouteTypeOK, RoutePcs
<1>4. RulesFirst
  BY <1>1 DEF RulesFirst
<1> QED
  BY <1>2, <1>3, <1>4 DEF RouteInv

\* Every step of the router keeps the invariant.
LEMMA RouteStep == RouteInv /\ [RouteNext]_routeVars => RouteInv'
<1> SUFFICES ASSUME RouteInv, [RouteNext]_routeVars PROVE RouteInv'
  OBVIOUS
<1> USE DEF RouteInv
<1>0. Provider \in {"offline", "groq", "openai"}
  BY RoutingAssumption
<1>1. CASE UNCHANGED routeVars
  BY <1>1 DEF routeVars, RouteTypeOK, RouteShaped, RulesFirst
<1>2. ASSUME NEW q \in Asked, route.pc = "free", Say(q) PROVE RouteInv'
  <2>1. PICK pc \in {"model", "rules"} : pc = (IF Provider = "openai" THEN "model" ELSE "rules")
    OBVIOUS
  <2>2. route' = [NoRoute EXCEPT !.pc = pc]
    BY <1>2, <2>1 DEF Say
  <2>3. /\ route'.pc = pc /\ route'.decision = ClosestAction /\ route'.by = "none"
        /\ RouteShaped'
    BY <2>2, FreshFields DEF RouteShaped
  <2>4. RouteTypeOK'
    BY <1>2, <2>3, AskedTyped, FreshFields DEF Say, RouteTypeOK, RoutePcs
  <2>5. RulesFirst'
    BY <2>1, <2>3 DEF RulesFirst
  <2> QED
    BY <2>3, <2>4, <2>5
<1>3. CASE RunRulesFirst
  <2> DEFINE d == SelectByRules(ask)
  <2>0. ask' = ask /\ primaryRateLimited' = primaryRateLimited /\ route.pc = "rules" /\ d' = d
    BY <1>3 DEF RunRulesFirst, SelectByRules, Rules
  <2>1. d.reply \in {"none", "final", "draft"}
    BY SelectionTyped
  <2>2. CASE Provider = "offline" \/ Settled(d)
    <3>1. Decide(d, "rules")
      BY <1>3, <2>2 DEF RunRulesFirst
    <3>2. route'.pc = "done" /\ route'.decision = d /\ route'.by = "rules" /\ RouteShaped'
      BY <3>1, DecideFields
    <3> HIDE DEF d
    <3>3. RouteTypeOK'
      BY <2>0, <2>1, <3>2 DEF RouteTypeOK, RoutePcs
    <3>4. RulesFirst'
      BY <2>0, <3>2 DEF RulesFirst, d
    <3> QED
      BY <3>2, <3>3, <3>4
  <2>3. CASE ~(Provider = "offline" \/ Settled(d))
    <3>1. PICK pc \in {"fallback", "model"} : route' = [route EXCEPT !.pc = pc, !.decision = d]
      BY <1>3, <2>3 DEF RunRulesFirst
    <3>2. route'.pc = pc /\ route'.decision = d /\ route'.by = route.by /\ RouteShaped'
      <4>1. PICK p, e, b : route = [pc |-> p, decision |-> e, by |-> b]
        BY DEF RouteShaped
      <4> HIDE DEF d
      <4>2. route' = [pc |-> pc, decision |-> d, by |-> b]
        BY <3>1, <4>1
      <4> QED
        BY <4>1, <4>2 DEF RouteShaped
    <3> HIDE DEF d
    <3>3. RouteTypeOK'
      BY <2>0, <2>1, <3>2 DEF RouteTypeOK, RoutePcs
    <3>4. Provider # "openai"
      BY <2>0 DEF RulesFirst
    <3>5. RulesFirst'
      BY <2>0, <2>3, <3>2, <3>4 DEF RulesFirst, d
    <3> QED
      BY <3>2, <3>3, <3>5
  <2> QED
    BY <2>2, <2>3
\* A model decides, or its routing ends without it.
<1>4. ASSUME NEW d, NEW by \in {"model", "raised", "fallback"}, d.reply \in {"none", "final", "draft", "model"},
             route.pc \in {"model", "fallback"}, Decide(d, by), ask' = ask,
             primaryRateLimited' = primaryRateLimited
      PROVE  RouteInv'
  <2>1. route'.pc = "done" /\ route'.decision = d /\ route'.by = by /\ RouteShaped'
    BY <1>4, DecideFields
  <2>2. RouteTypeOK'
    BY <1>4, <2>1 DEF RouteTypeOK, RoutePcs
  <2>3. RulesFirst'
    BY <1>4, <2>1 DEF RulesFirst
  <2> QED
    BY <2>1, <2>2, <2>3
\* The rules' decision stands.
<1>5. ASSUME route.pc \in {"model", "fallback"}, Provider # "openai", Decide(route.decision, "rules"),
             ask' = ask, primaryRateLimited' = primaryRateLimited
      PROVE  RouteInv'
  <2>1. route'.pc = "done" /\ route'.decision = route.decision /\ route'.by = "rules" /\ RouteShaped'
    BY <1>5, DecideFields
  <2>2. RouteTypeOK'
    BY <1>5, <2>1 DEF RouteTypeOK, RoutePcs
  <2>3. RulesFirst'
    BY <1>5, <2>1 DEF RulesFirst
  <2> QED
    BY <2>1, <2>2, <2>3
<1>6. ASSUME NEW tools, ModelAnswers(tools) PROVE RouteInv'
  <2>1. PICK p \in {"model", "none"} : Decide(Decision(tools, p), "model")
    BY <1>6 DEF ModelAnswers
  <2>2. route.pc \in {"model", "fallback"} /\ ask' = ask /\ primaryRateLimited' = primaryRateLimited
    BY <1>6 DEF ModelAnswers
  <2>3. Decision(tools, p).reply \in {"none", "final", "draft", "model"}
    BY DecisionFields
  <2> QED
    BY <1>4, <2>1, <2>2, <2>3
<1>7. ClosestAction.reply \in {"none", "final", "draft", "model"}
  BY FreshFields
<1>8. CASE ModelRateLimited
  <2>1. route.pc = "model" /\ ask' = ask
    BY <1>8 DEF ModelRateLimited
  <2>2. CASE Provider = "groq" /\ HasFallbackModel
    <3>1. primaryRateLimited' = TRUE /\ route' = [route EXCEPT !.pc = "fallback"]
      BY <1>8, <2>2 DEF ModelRateLimited
    <3>2. route'.pc = "fallback" /\ route'.decision = route.decision /\ route'.by = route.by /\ RouteShaped'
      BY <3>1, GoesOnFields
    <3>3. RouteTypeOK'
      BY <2>1, <3>1, <3>2 DEF RouteTypeOK, RoutePcs
    <3>4. RulesFirst'
      BY <2>1, <2>2, <3>2 DEF RulesFirst
    <3> QED
      BY <3>2, <3>3, <3>4
  <2>3. CASE Provider = "groq" /\ ~HasFallbackModel
    <3>1. Decide(route.decision, "rules") /\ primaryRateLimited' = primaryRateLimited
      BY <1>8, <2>3 DEF ModelRateLimited
    <3> QED
      BY <1>5, <2>1, <2>3, <3>1
  <2>4. CASE Provider # "groq"
    <3>1. Decide(ClosestAction, "raised") /\ primaryRateLimited' = primaryRateLimited
      BY <1>8, <2>4 DEF ModelRateLimited
    <3> QED
      BY <1>4, <1>7, <2>1, <3>1
  <2> QED
    BY <2>2, <2>3, <2>4
<1>9. CASE ModelFails
  <2>1. route.pc = "model" /\ ask' = ask /\ primaryRateLimited' = primaryRateLimited
    BY <1>9 DEF ModelFails
  <2>2. CASE Provider = "groq"
    <3>1. Decide(route.decision, "rules")
      BY <1>9, <2>2 DEF ModelFails
    <3> QED
      BY <1>5, <2>1, <2>2, <3>1
  <2>3. CASE Provider # "groq"
    <3>1. Decide(ClosestAction, "raised")
      BY <1>9, <2>3 DEF ModelFails
    <3> QED
      BY <1>4, <1>7, <2>1, <3>1
  <2> QED
    BY <2>2, <2>3
<1>10. CASE ModelRaises
  <2>1. route.pc = "model" /\ ask' = ask /\ primaryRateLimited' = primaryRateLimited /\ Decide(ClosestAction, "raised")
    BY <1>10 DEF ModelRaises
  <2> QED
    BY <1>4, <1>7, <2>1
<1>11. CASE FallbackAnswers
  <2>1. route.pc = "fallback" /\ ask' = ask /\ primaryRateLimited' = primaryRateLimited
    BY <1>11 DEF FallbackAnswers
  <2>2. CASE Decide(Decision(<<>>, "model"), "fallback")
    <3>1. \A t : Decision(t, "model").reply \in {"none", "final", "draft", "model"}
      BY DecisionFields
    <3>2. PICK t : Decide(Decision(t, "model"), "fallback")
      BY <2>2
    <3> QED
      BY <1>4, <2>1, <3>1, <3>2
  <2>3. CASE Decide(route.decision, "rules")
    <3>1. Provider # "openai"
      BY <2>1 DEF RulesFirst
    <3> QED
      BY <1>5, <2>1, <2>3, <3>1
  <2> QED
    BY <1>11, <2>2, <2>3 DEF FallbackAnswers
<1>12. CASE NextMessage
  <2>1. route' = NoRoute /\ ask' = NoAsk /\ primaryRateLimited' = primaryRateLimited
    BY <1>12 DEF NextMessage
  <2>2. RouteShaped'
    BY <2>1 DEF NoRoute, RouteShaped
  <2>3. RouteTypeOK'
    BY <2>1, NoAskTyped, FreshFields DEF RouteTypeOK, RoutePcs
  <2>4. RulesFirst'
    BY <2>1, FreshFields DEF RulesFirst
  <2> QED
    BY <2>2, <2>3, <2>4
<1> QED
  BY <1>1, <1>2, <1>3, <1>6, <1>8, <1>9, <1>10, <1>11, <1>12 DEF RouteNext

\* Whatever a message asks for, whoever sends it and whichever provider routes it, the
\* refusals come first, and the rules select only what the role may call.
THEOREM RoutingKept == RouteSpec => []RoutingIsSafe
<1>1. RouteInv => RoutingIsSafe
  <2> SUFFICES ASSUME RouteInv PROVE RoutingIsSafe
    OBVIOUS
  <2>1. RouteTypeOK /\ RulesFirst
    BY DEF RouteInv
  <2>2. BypassReachesNothing
    <3> SUFFICES ASSUME ask.cues \cap {"bypass safety", "off topic", "open advice"} # {}, route.pc = "done",
                        Provider # "openai"
                 PROVE  route.by = "rules" /\ route.decision.tools = <<>> /\ route.decision.reply = "final"
      BY DEF BypassReachesNothing
    <3>1. SelectByRules(ask) = Decision(<<>>, "final")
      BY BypassIsRefused
    <3>2. SelectByRules(ask).tools = <<>> /\ SelectByRules(ask).reply = "final"
      BY <3>1, RefusalFields
    <3>3. Settled(SelectByRules(ask))
      BY <3>2 DEF Settled
    <3> QED
      BY <2>1, <3>2, <3>3 DEF RulesFirst
  <2>3. RulesSelectWithinRole
    <3> SUFFICES ASSUME route.pc = "done", route.by = "rules" PROVE RulesSelectWithinRole
      BY DEF RulesSelectWithinRole
    <3>1. route.decision = SelectByRules(ask) /\ ask.role \in RouterRoles
      BY <2>1 DEF RulesFirst, RouteTypeOK
    <3> QED
      BY <3>1, SelectionWithinRole DEF RulesSelectWithinRole
  <2> QED
    BY <2>1, <2>2, <2>3 DEF RoutingIsSafe
<1> QED
  BY <1>1, RouteStart, RouteStep, PTL DEF RouteSpec

-----------------------------------------------------------------------------
(***************************************************************************)
(* Market data: what is catalogued has its rows, and a manifest names      *)
(* sources that were registered with the contents it digested.             *)
(***************************************************************************)
RowSet == [source : Sources, bar : UNION Contents]

\* What a request holds at each place: what it loaded is what the digest was taken of.
Placed ==
    \A r \in Readers :
        LET q == reader[r] IN
        /\ q.at = "derive" => q.symbol \in Tickers /\ q.dataset \in DatasetIds /\ q.read \in Contents
        /\ q.at = "fetch" => q.symbol \in Tickers
        /\ q.at \in {"assess", "load", "attach", "start"} => q.dataset \in DatasetIds
        /\ q.at \in {"attach", "start"} =>
              q.source \in registry /\ q.source.dataset = q.dataset /\ q.read = q.source.bars
        /\ q.lineage # NoData =>
              q.at = "start" /\ q.lineage \in registry /\ q.lineage.symbol = q.source.symbol

\* A stored row is one the digest of its source covers.
Covered == \A t \in rows : t.bar \in t.source.bars

DataInv == DataTypeOK /\ Placed /\ Covered /\ CatalogueHasItsRows /\ ManifestsAreTraceable

-----------------------------------------------------------------------------
\* Nothing is stored in the beginning.
LEMMA DataInitKeeps == DataInit => DataInv
<1> SUFFICES ASSUME DataInit PROVE DataInv
  OBVIOUS
<1>1. /\ DOMAIN catalog = {} /\ rows = {} /\ registry = {} /\ reports = {} /\ manifests = {}
      /\ reader = [r \in Readers |-> NothingAsked]
  BY DEF DataInit
<1>2. NothingAsked \in Requests /\ NothingAsked.at = "idle" /\ NothingAsked.lineage = NoData
  BY DEF NothingAsked, Requests, Places
<1>3. DataTypeOK
  BY <1>1, <1>2 DEF DataTypeOK
<1>4. Placed
  BY <1>1, <1>2 DEF Placed
<1>5. Covered /\ CatalogueHasItsRows /\ ManifestsAreTraceable
  BY <1>1 DEF Covered, CatalogueHasItsRows, ManifestsAreTraceable, Catalogued
<1> QED
  BY <1>3, <1>4, <1>5 DEF DataInv

\* Every import, of a chain or not: the rows that go are of the same dataset, those of
\* the source that is named from now on are stored.
LEMMA Imported ==
    ASSUME DataInv, NEW src \in Sources, NEW gone \in SUBSET rows, NEW entry, entry.source = src,
           \A t \in gone : t.source.dataset = src.dataset,
           src.dataset \in Chains \/ (Catalogued(src.dataset) => RowsOf(catalog[src.dataset].source) \subseteq gone),
           NEW stays \in SUBSET gone, \A t \in stays : src.dataset \in Chains /\ t.bar \notin src.bars,
           rows' = ((rows \ gone) \union stays) \union {Row(src, b) : b \in src.bars},
           registry' = registry \union {src}, reports' = reports \union {src},
           catalog' = Upsert(src.dataset, entry)
    PROVE  /\ CatalogueHasItsRows' /\ Covered'
           /\ rows' \subseteq RowSet /\ registry' \subseteq Sources /\ reports' \subseteq registry'
           /\ DOMAIN catalog' \subseteq DatasetIds /\ \A d \in DOMAIN catalog' : catalog'[d].source \in Sources
<1> DEFINE new == {Row(src, b) : b \in src.bars}
           at == src.dataset
<1>1. /\ src.bars \in Contents /\ at \in DatasetIds
      /\ \A t \in new : t \in RowSet /\ t.source = src /\ t.bar \in src.bars
      /\ \A b \in src.bars : \E t \in new : t.bar = b
  <2>1. src.bars \in Contents /\ at \in DatasetIds
    BY DEF Sources
  <2>2. \A b \in src.bars : Row(src, b) \in RowSet /\ Row(src, b).source = src /\ Row(src, b).bar = b
    BY <2>1 DEF Row, RowSet
  <2> QED
    BY <2>1, <2>2
<1> HIDE DEF new
<1>2. rows' = ((rows \ gone) \union stays) \union new
  BY DEF new
<1>3. rows \subseteq RowSet /\ registry \subseteq Sources /\ reports \subseteq registry
  BY DEF DataInv, DataTypeOK, RowSet
<1>4. rows' \subseteq RowSet /\ registry' \subseteq Sources /\ reports' \subseteq registry'
  BY <1>1, <1>2, <1>3
<1>5. /\ DOMAIN catalog' = DOMAIN catalog \union {at} /\ catalog'[at] = entry
      /\ \A d \in DOMAIN catalog : d # at => catalog'[d] = catalog[d]
  BY DEF Upsert
<1>6. DOMAIN catalog' \subseteq DatasetIds /\ \A d \in DOMAIN catalog' : catalog'[d].source \in Sources
  BY <1>1, <1>5 DEF DataInv, DataTypeOK
<1>7. Covered'
  BY <1>1, <1>2 DEF DataInv, Covered
<1>8. ASSUME NEW d \in DatasetIds, Catalogued(d)'
      PROVE  /\ {t.bar : t \in {u \in rows' : u.source = catalog'[d].source}} = catalog'[d].source.bars
             /\ catalog'[d].source \in registry' \intersect reports'
             /\ catalog'[d].source.dataset = d
  <2>1. CASE d = at
    <3>1. catalog'[d].source = src
      BY <1>5, <2>1
    <3>2. \A u \in rows' : u.source = src => u.bar \in src.bars
      BY <1>7 DEF Covered
    <3>3. \A b \in src.bars : \E u \in rows' : u.source = src /\ u.bar = b
      BY <1>1, <1>2
    <3>4. {t.bar : t \in {u \in rows' : u.source = src}} = src.bars
      BY <3>2, <3>3
    <3> QED
      BY <2>1, <3>1, <3>4
  <2>2. CASE d # at
    <3> DEFINE s == catalog[d].source
    <3>1. d \in DOMAIN catalog /\ catalog'[d].source = s
      BY <1>5, <1>8, <2>2 DEF Catalogued
    <3>2. /\ {r.bar : r \in {u \in rows : u.source = s}} = s.bars
          /\ s \in registry \intersect reports /\ s.dataset = d
      BY <3>1 DEF DataInv, CatalogueHasItsRows, Catalogued, BarsOf, RowsOf
    <3> HIDE DEF s
    <3>3. \A u : u.source = s => (u \in rows' <=> u \in rows)
      BY <1>1, <1>2, <2>2, <3>2
    <3>4. {u \in rows' : u.source = s} = {u \in rows : u.source = s}
      BY <3>3
    <3> QED
      BY <3>1, <3>2, <3>4
  <2> QED
    BY <2>1, <2>2
<1>9. ASSUME NEW d \in DatasetIds, d \notin Chains, NEW t \in rows', t.source.dataset = d
      PROVE  Catalogued(d)' /\ t.source = catalog'[d].source
  <2>1. CASE t \in new
    BY <1>1, <1>5, <1>9, <2>1 DEF Catalogued
  <2>2. CASE t \in rows /\ t \notin gone
    <3>1. Catalogued(d) /\ t.source = catalog[d].source
      BY <1>9, <2>2 DEF DataInv, CatalogueHasItsRows
    <3>2. d # at
      BY <1>9, <2>2, <3>1 DEF RowsOf
    <3> QED
      BY <1>5, <3>1, <3>2 DEF Catalogued
  <2>3. CASE t \in stays
    BY <1>9, <2>3
  <2> QED
    BY <1>2, <2>1, <2>2, <2>3
<1>10. CatalogueHasItsRows'
  BY <1>8, <1>9 DEF CatalogueHasItsRows, BarsOf, RowsOf, Catalogued
<1> QED
  BY <1>4, <1>6, <1>7, <1>10

\* The governed imports, which three handlers make.
LEMMA StoresKeep ==
    ASSUME DataInv, NEW table \in {"market_ohlcv", "market_features"}, NEW d \in DatasetIds, NEW s \in Tickers,
           NEW bars \in Contents, Stores(table, d, s, bars)
    PROVE  /\ CatalogueHasItsRows' /\ Covered'
           /\ rows' \subseteq RowSet /\ registry' \subseteq Sources /\ reports' \subseteq registry'
           /\ DOMAIN catalog' \subseteq DatasetIds /\ \A e \in DOMAIN catalog' : catalog'[e].source \in Sources
           /\ registry \subseteq registry'
<1> DEFINE src == [table |-> table, dataset |-> d, symbol |-> s, bars |-> bars]
           entry == Entry(src, Cardinality(bars), Max(bars))
           gone == Replaced(d)
<1>1. /\ rows' = (rows \ gone) \union {Row(src, b) : b \in bars}
      /\ registry' = registry \union {src} /\ reports' = reports \union {src}
      /\ catalog' = Upsert(d, entry)
  BY DEF Stores, Registered
<1>2. src \in Sources /\ src.dataset = d /\ src.bars = bars
  BY DEF Sources, Tables
<1>3. entry.source = src
  BY DEF Entry
<1>4. /\ gone \subseteq rows /\ \A t \in gone : t.source.dataset = d
      /\ Catalogued(d) => RowsOf(catalog[d].source) \subseteq gone
  BY DEF Replaced, RowsOf, DataInv, CatalogueHasItsRows
<1> HIDE DEF src, entry, gone
<1>5. PICK none \in SUBSET gone : none = {}
  OBVIOUS
<1>6. /\ rows' = ((rows \ gone) \union none) \union {Row(src, b) : b \in src.bars}
      /\ \A t \in none : src.dataset \in Chains /\ t.bar \notin src.bars
  BY <1>1, <1>2, <1>5
<1>7. gone \in SUBSET rows /\ (src.dataset \in Chains \/ (Catalogued(src.dataset) => RowsOf(catalog[src.dataset].source) \subseteq gone))
      /\ (\A t \in gone : t.source.dataset = src.dataset) /\ catalog' = Upsert(src.dataset, entry)
  BY <1>1, <1>2, <1>4
<1> QED
  BY <1>1, <1>2, <1>3, <1>6, <1>7, Imported

\* A chain of options is ingested: the bars that were there stay, and the chain is catalogued with all.
LEMMA IngestKeeps ==
    ASSUME DataInv, NEW d \in DatasetIds, NEW s \in Tickers, NEW bars \in Contents, IngestOptions(d, s, bars)
    PROVE  /\ CatalogueHasItsRows' /\ Covered'
           /\ rows' \subseteq RowSet /\ registry' \subseteq Sources /\ reports' \subseteq registry'
           /\ DOMAIN catalog' \subseteq DatasetIds /\ \A e \in DOMAIN catalog' : catalog'[e].source \in Sources
           /\ registry \subseteq registry' /\ UNCHANGED <<reader, manifests>>
<1> DEFINE src == [table |-> "options_ohlcv", dataset |-> d, symbol |-> s, bars |-> bars]
           gone == {r \in rows : r.source.table = src.table /\ r.source.dataset = d /\ r.source.symbol = s}
           stays == {r \in gone : r.bar \notin bars}
           chain == stays \union {Row(src, b) : b \in bars}
           entry == Entry(src, Cardinality(chain), Max({r.bar : r \in chain}))
<1>1. /\ rows' = (rows \ gone) \union chain /\ d \in Chains
      /\ registry' = registry \union {src} /\ reports' = reports \union {src}
      /\ catalog' = Upsert(d, entry) /\ UNCHANGED <<reader, manifests>>
  BY DEF IngestOptions, Registered
<1>2. src \in Sources /\ src.dataset = d /\ src.bars = bars
  BY DEF Sources, Tables
<1>3. entry.source = src
  BY DEF Entry
<1>4. /\ gone \subseteq rows /\ \A t \in gone : t.source.dataset = d
      /\ stays \subseteq gone /\ \A t \in stays : t.bar \notin bars
  OBVIOUS
<1>5. chain = stays \union {Row(src, b) : b \in bars}
  OBVIOUS
<1> HIDE DEF src, entry, gone, stays, chain
<1>6. rows' = ((rows \ gone) \union stays) \union {Row(src, b) : b \in src.bars}
  BY <1>1, <1>2, <1>5
<1> QED
  BY <1>1, <1>2, <1>3, <1>4, <1>6, Imported

\* What was traceable stays so while the registry only grows.
LEMMA RequestsKept ==
    ASSUME DataInv, registry \subseteq registry', UNCHANGED reader
    PROVE  Placed' /\ reader' \in [Readers -> Requests]
BY DEF DataInv, Placed, DataTypeOK

\* A manifest stays traceable while sources are only added to the registry.
LEMMA ManifestsKept ==
    ASSUME DataInv, registry \subseteq registry', UNCHANGED manifests
    PROVE  ManifestsAreTraceable' /\ manifests' \subseteq Manifests
BY DEF DataInv, ManifestsAreTraceable, DataTypeOK

\* One request moves on.
LEMMA RequestMoves ==
    ASSUME DataInv, registry \subseteq registry', NEW r \in Readers, NEW q \in Requests,
           reader' = [reader EXCEPT ![r] = q],
           q.at = "derive" => q.symbol \in Tickers /\ q.dataset \in DatasetIds /\ q.read \in Contents,
           q.at = "fetch" => q.symbol \in Tickers,
           q.at \in {"assess", "load", "attach", "start"} => q.dataset \in DatasetIds,
           q.at \in {"attach", "start"} =>
              q.source \in registry' /\ q.source.dataset = q.dataset /\ q.read = q.source.bars,
           q.lineage # NoData => q.at = "start" /\ q.lineage \in registry' /\ q.lineage.symbol = q.source.symbol
    PROVE  Placed' /\ reader' \in [Readers -> Requests]
<1>1. reader \in [Readers -> Requests]
  BY DEF DataInv, DataTypeOK
<1>2. /\ reader' \in [Readers -> Requests] /\ reader'[r] = q
      /\ \A p \in Readers : p # r => reader'[p] = reader[p]
  BY <1>1
<1>3. ASSUME NEW p \in Readers
      PROVE  LET z == reader'[p] IN
             /\ z.at = "derive" => z.symbol \in Tickers /\ z.dataset \in DatasetIds /\ z.read \in Contents
             /\ z.at = "fetch" => z.symbol \in Tickers
             /\ z.at \in {"assess", "load", "attach", "start"} => z.dataset \in DatasetIds
             /\ z.at \in {"attach", "start"} =>
                   z.source \in registry' /\ z.source.dataset = z.dataset /\ z.read = z.source.bars
             /\ z.lineage # NoData =>
                   z.at = "start" /\ z.lineage \in registry' /\ z.lineage.symbol = z.source.symbol
  <2>1. CASE p = r
    BY <1>2, <2>1
  <2>2. CASE p # r
    BY <1>2, <2>2 DEF DataInv, Placed
  <2> QED
    BY <2>1, <2>2
<1> QED
  BY <1>2, <1>3 DEF Placed

\* Nothing is asked any more.
LEMMA RequestEnds ==
    ASSUME DataInv, registry \subseteq registry', NEW r \in Readers, reader' = [reader EXCEPT ![r] = NothingAsked]
    PROVE  Placed' /\ reader' \in [Readers -> Requests]
<1>1. NothingAsked \in Requests /\ NothingAsked.at = "idle" /\ NothingAsked.lineage = NoData
  BY DEF NothingAsked, Requests, Places
<1> QED
  BY <1>1, RequestMoves

\* An import, of candles, features or options.
LEMMA ImportKeeps ==
    ASSUME DataInv, Import
    PROVE  DataInv'
<1> SUFFICES ASSUME NEW d \in DatasetIds, NEW s \in Tickers, NEW bars \in Contents,
                    ImportCandles(d, s, bars) \/ ImportFeatures(d, s, bars) \/ IngestOptions(d, s, bars)
             PROVE  DataInv'
  BY DEF Import
<1>1. /\ CatalogueHasItsRows' /\ Covered'
      /\ rows' \subseteq RowSet /\ registry' \subseteq Sources /\ reports' \subseteq registry'
      /\ DOMAIN catalog' \subseteq DatasetIds /\ \A e \in DOMAIN catalog' : catalog'[e].source \in Sources
      /\ registry \subseteq registry' /\ UNCHANGED <<reader, manifests>>
  <2>1. CASE ImportCandles(d, s, bars)
    BY <2>1, StoresKeep DEF ImportCandles
  <2>2. CASE ImportFeatures(d, s, bars)
    BY <2>2, StoresKeep DEF ImportFeatures
  <2>3. CASE IngestOptions(d, s, bars)
    BY <2>3, IngestKeeps
  <2> QED
    BY <2>1, <2>2, <2>3
<1>2. Placed' /\ reader' \in [Readers -> Requests] /\ ManifestsAreTraceable' /\ manifests' \subseteq Manifests
  BY <1>1, RequestsKept, ManifestsKept
<1> QED
  BY <1>1, <1>2 DEF DataInv, DataTypeOK, RowSet

\* What a chain's rows hold is what its digest covers, so that what is derived is an import.
LEMMA DeriveKeeps ==
    ASSUME DataInv, Derive
    PROVE  DataInv'
<1> SUFFICES ASSUME NEW r \in Readers, (\E d, f \in DatasetIds : DeriveRead(r, d, f)) \/ DeriveStore(r)
             PROVE  DataInv'
  BY DEF Derive
<1>0. reader[r] \in Requests /\ registry \subseteq Sources
  BY DEF DataInv, DataTypeOK
<1>1. ASSUME NEW d \in DatasetIds, NEW f \in DatasetIds, DeriveRead(r, d, f) PROVE DataInv'
  <2> DEFINE q == [NothingAsked EXCEPT !.at = "derive", !.dataset = f, !.symbol = catalog[d].source.symbol,
                                       !.read = BarsOf(catalog[d].source)]
  <2>1. reader' = [reader EXCEPT ![r] = q] /\ Catalogued(d) /\ UNCHANGED <<catalog, rows, registry, reports, manifests>>
    BY <1>1 DEF DeriveRead, stores
  <2>2. catalog[d].source \in Sources /\ BarsOf(catalog[d].source) = catalog[d].source.bars
    BY <2>1 DEF DataInv, DataTypeOK, CatalogueHasItsRows, Catalogued
  <2>3. catalog[d].source.symbol \in Tickers /\ catalog[d].source.bars \in Contents /\ catalog[d].source.bars \in SUBSET Nat
    BY <2>2, MDAssumption DEF Sources
  <2>4. /\ q \in Requests /\ q.at = "derive" /\ q.dataset = f /\ q.symbol = catalog[d].source.symbol
        /\ q.read = catalog[d].source.bars /\ q.lineage = NoData
    BY <2>2, <2>3 DEF NothingAsked, Requests, Places
  <2> HIDE DEF q
  <2>5. Placed' /\ reader' \in [Readers -> Requests]
    BY <2>1, <2>3, <2>4, RequestMoves
  <2>6. ManifestsAreTraceable' /\ manifests' \subseteq Manifests
    BY <2>1, ManifestsKept
  <2> QED
    BY <2>1, <2>5, <2>6 DEF DataInv, DataTypeOK, Covered, CatalogueHasItsRows, Catalogued, BarsOf, RowsOf
<1>2. ASSUME DeriveStore(r) PROVE DataInv'
  <2>1. /\ reader[r].dataset \in DatasetIds /\ reader[r].symbol \in Tickers /\ reader[r].read \in Contents
        /\ Stores("market_features", reader[r].dataset, reader[r].symbol, reader[r].read)
        /\ reader' = [reader EXCEPT ![r] = NothingAsked] /\ UNCHANGED manifests
    BY <1>2 DEF DeriveStore, DataInv, Placed
  <2>2. /\ CatalogueHasItsRows' /\ Covered'
        /\ rows' \subseteq RowSet /\ registry' \subseteq Sources /\ reports' \subseteq registry'
        /\ DOMAIN catalog' \subseteq DatasetIds /\ \A e \in DOMAIN catalog' : catalog'[e].source \in Sources
        /\ registry \subseteq registry'
    BY <2>1, StoresKeep
  <2>3. Placed' /\ reader' \in [Readers -> Requests] /\ ManifestsAreTraceable' /\ manifests' \subseteq Manifests
    BY <2>1, <2>2, RequestEnds, ManifestsKept
  <2> QED
    BY <2>2, <2>3 DEF DataInv, DataTypeOK, RowSet
<1> QED
  BY <1>1, <1>2

\* The steps of a request, from what it asks for to its manifest.
LEMMA AskKeeps ==
    ASSUME DataInv, NEW r \in Readers, NEW f \in DatasetIds \union {NoData},
           \/ \E d \in DatasetIds : AskByDataset(r, d, f)
           \/ \E s \in Tickers : AskBySymbol(r, s, f)
    PROVE  DataInv'
<1>1. PICK q \in Requests :
         /\ reader' = [reader EXCEPT ![r] = q] /\ q.lineage = NoData
         /\ \/ q.at = "assess" /\ q.dataset \in DatasetIds
            \/ q.at = "fetch" /\ q.symbol \in Tickers
  <2>1. ASSUME NEW d \in DatasetIds, AskByDataset(r, d, f)
        PROVE  \E q \in Requests :
                  /\ reader' = [reader EXCEPT ![r] = q] /\ q.lineage = NoData
                  /\ q.at = "assess" /\ q.dataset \in DatasetIds
    <3> DEFINE q == [NothingAsked EXCEPT !.at = "assess", !.dataset = d, !.feature = f]
    <3>1. reader' = [reader EXCEPT ![r] = q]
      BY <2>1 DEF AskByDataset
    <3>2. q \in Requests /\ q.lineage = NoData /\ q.at = "assess" /\ q.dataset = d
      BY DEF NothingAsked, Requests, Places
    <3> HIDE DEF q
    <3> QED
      BY <3>1, <3>2
  <2>2. ASSUME NEW s \in Tickers, AskBySymbol(r, s, f)
        PROVE  \E q \in Requests :
                  /\ reader' = [reader EXCEPT ![r] = q] /\ q.lineage = NoData
                  /\ \/ q.at = "assess" /\ q.dataset \in DatasetIds
                     \/ q.at = "fetch" /\ q.symbol \in Tickers
    <3>1. ASSUME NEW d \in Newest(s), reader' = [reader EXCEPT ![r] =
                     [NothingAsked EXCEPT !.at = "assess", !.symbol = s, !.dataset = d, !.feature = f]]
          PROVE  \E q \in Requests :
                    /\ reader' = [reader EXCEPT ![r] = q] /\ q.lineage = NoData
                    /\ q.at = "assess" /\ q.dataset \in DatasetIds
      <4> DEFINE q == [NothingAsked EXCEPT !.at = "assess", !.symbol = s, !.dataset = d, !.feature = f]
      <4>1. d \in DatasetIds
        BY DEF Newest, DataInv, DataTypeOK
      <4>2. q \in Requests /\ q.lineage = NoData /\ q.at = "assess" /\ q.dataset = d
        BY <4>1 DEF NothingAsked, Requests, Places
      <4>3. reader' = [reader EXCEPT ![r] = q]
        BY <3>1
      <4> HIDE DEF q
      <4> QED
        BY <4>1, <4>2, <4>3
    <3>2. ASSUME reader' = [reader EXCEPT ![r] = [NothingAsked EXCEPT !.at = "fetch", !.symbol = s, !.feature = f]]
          PROVE  \E q \in Requests :
                    /\ reader' = [reader EXCEPT ![r] = q] /\ q.lineage = NoData
                    /\ q.at = "fetch" /\ q.symbol \in Tickers
      <4> DEFINE q == [NothingAsked EXCEPT !.at = "fetch", !.symbol = s, !.feature = f]
      <4>2. q \in Requests /\ q.lineage = NoData /\ q.at = "fetch" /\ q.symbol = s
        BY DEF NothingAsked, Requests, Places
      <4>3. reader' = [reader EXCEPT ![r] = q]
        BY <3>2
      <4> HIDE DEF q
      <4> QED
        BY <4>2, <4>3
    <3> QED
      BY <2>2, <3>1, <3>2 DEF AskBySymbol
  <2> QED
    BY <2>1, <2>2
<1>2. UNCHANGED <<catalog, rows, registry, reports, manifests>>
  BY DEF AskByDataset, AskBySymbol, stores
<1>3. Placed' /\ reader' \in [Readers -> Requests]
  BY <1>1, <1>2, RequestMoves
<1>4. ManifestsAreTraceable' /\ manifests' \subseteq Manifests
  BY <1>2, ManifestsKept
<1> QED
  BY <1>2, <1>3, <1>4 DEF DataInv, DataTypeOK, Covered, CatalogueHasItsRows, Catalogued, BarsOf, RowsOf

\* The fetch of a missing dataset catalogues what it brought.
LEMMA FetchKeeps ==
    ASSUME DataInv, NEW r \in Readers, NEW d \in DatasetIds, NEW bars \in Contents, Fetch(r, d, bars)
    PROVE  DataInv'
<1> DEFINE q == [reader[r] EXCEPT !.at = "assess", !.dataset = d]
<1>1. /\ reader[r].at = "fetch" /\ Stores("market_ohlcv", d, reader[r].symbol, bars)
      /\ reader' = [reader EXCEPT ![r] = q] /\ UNCHANGED manifests
  <2>1. /\ reader[r].at = "fetch" /\ Stores("market_ohlcv", d, reader[r].symbol, bars)
        /\ reader' = [reader EXCEPT ![r].at = "assess", ![r].dataset = d] /\ UNCHANGED manifests
    BY DEF Fetch
  <2>2. reader \in [Readers -> Requests]
    BY DEF DataInv, DataTypeOK
  <2> QED
    BY <2>1, <2>2
<1>2. reader[r] \in Requests /\ reader[r].symbol \in Tickers /\ reader[r].lineage = NoData
  BY <1>1 DEF DataInv, DataTypeOK, Placed
<1>3. q \in Requests /\ q.at = "assess" /\ q.dataset = d /\ q.lineage = NoData
  BY <1>2 DEF Requests, Places
<1> HIDE DEF q
<1>4. /\ CatalogueHasItsRows' /\ Covered'
      /\ rows' \subseteq RowSet /\ registry' \subseteq Sources /\ reports' \subseteq registry'
      /\ DOMAIN catalog' \subseteq DatasetIds /\ \A e \in DOMAIN catalog' : catalog'[e].source \in Sources
      /\ registry \subseteq registry'
  BY <1>1, <1>2, StoresKeep
<1>5. Placed' /\ reader' \in [Readers -> Requests] /\ ManifestsAreTraceable' /\ manifests' \subseteq Manifests
  BY <1>1, <1>3, <1>4, RequestMoves, ManifestsKept
<1> QED
  BY <1>4, <1>5 DEF DataInv, DataTypeOK, RowSet

\* Assess, load, attach: what is read is what the catalogue names at that moment.
LEMMA LoadKeeps ==
    ASSUME DataInv, NEW r \in Readers, Assess(r) \/ LoadPrices(r) \/ AttachFeatures(r)
    PROVE  DataInv'
<1>0. reader \in [Readers -> Requests] /\ reader[r] \in Requests /\ registry \subseteq Sources
  BY DEF DataInv, DataTypeOK
<1>1. UNCHANGED <<catalog, rows, registry, reports, manifests>>
  BY DEF Assess, LoadPrices, AttachFeatures, stores
<1>2. Placed' /\ reader' \in [Readers -> Requests]
  <2>1. CASE Assess(r)
    <3> DEFINE q == [reader[r] EXCEPT !.at = "load"]
    <3>1. reader[r].at = "assess" /\ reader' = [reader EXCEPT ![r] = q]
      BY <1>0, <2>1 DEF Assess
    <3>2. q \in Requests /\ q.at = "load" /\ q.dataset = reader[r].dataset /\ q.lineage = reader[r].lineage
      BY <1>0 DEF Requests, Places
    <3> HIDE DEF q
    <3>3. reader[r].dataset \in DatasetIds /\ reader[r].lineage = NoData
      BY <3>1 DEF DataInv, Placed
    <3> QED
      BY <1>1, <3>1, <3>2, <3>3, RequestMoves
  <2>2. CASE LoadPrices(r)
    <3> DEFINE d == reader[r].dataset
               src == catalog[d].source
               to == IF reader[r].feature = NoData THEN "start" ELSE "attach"
               q == [reader[r] EXCEPT !.at = to, !.source = src, !.read = PricesRead(src)]
    <3>1. /\ reader[r].at = "load" /\ Catalogued(d) /\ src \in registry /\ reader' = [reader EXCEPT ![r] = q]
      BY <1>0, <2>2 DEF LoadPrices
    <3>2. d \in DatasetIds /\ reader[r].lineage = NoData
      BY <3>1 DEF DataInv, Placed
    <3>3. PricesRead(src) = src.bars /\ src.dataset = d
      BY <3>1, <3>2 DEF DataInv, CatalogueHasItsRows, PricesRead
    <3>4. src \in Sources /\ src.bars \in SUBSET Nat
      BY <1>0, <3>1, MDAssumption DEF Sources
    <3> HIDE DEF src
    <3>5. /\ q \in Requests /\ q.at \in {"attach", "start"} /\ q.source = src /\ q.read = src.bars
          /\ q.dataset = d /\ q.lineage = NoData
      BY <1>0, <3>2, <3>3, <3>4 DEF Requests, Places
    <3> HIDE DEF q, d
    <3> QED
      BY <1>1, <3>1, <3>2, <3>3, <3>5, RequestMoves
  <2>3. CASE AttachFeatures(r)
    <3> DEFINE src == catalog[reader[r].feature].source
               q == [reader[r] EXCEPT !.at = "start", !.lineage = src]
    <3>1. /\ reader[r].at = "attach" /\ src \in registry /\ reader[r].source.symbol = src.symbol
          /\ reader' = [reader EXCEPT ![r] = q]
      BY <1>0, <2>3 DEF AttachFeatures, SameInstrument
    <3>2. /\ reader[r].dataset \in DatasetIds /\ reader[r].source \in registry
          /\ reader[r].source.dataset = reader[r].dataset /\ reader[r].read = reader[r].source.bars
      BY <3>1 DEF DataInv, Placed
    <3> HIDE DEF src
    <3>3. src \in Sources
      BY <1>0, <3>1
    <3>4. /\ q \in Requests /\ q.at = "start" /\ q.source = reader[r].source /\ q.read = reader[r].read
          /\ q.dataset = reader[r].dataset /\ q.lineage = src
      BY <1>0, <3>3 DEF Requests, Places
    <3> HIDE DEF q
    <3> QED
      BY <1>1, <3>1, <3>2, <3>4, RequestMoves
  <2> QED
    BY <2>1, <2>2, <2>3
<1>3. ManifestsAreTraceable' /\ manifests' \subseteq Manifests
  BY <1>1, ManifestsKept
<1> QED
  BY <1>1, <1>2, <1>3 DEF DataInv, DataTypeOK, Covered, CatalogueHasItsRows, Catalogued, BarsOf, RowsOf

\* A request that is over holds nothing.
LEMMA RequestDone ==
    ASSUME DataInv, NEW r \in Readers, WriteManifest(r) \/ Refuse(r)
    PROVE  DataInv'
<1>1. reader' = [reader EXCEPT ![r] = NothingAsked] /\ UNCHANGED <<catalog, rows, registry, reports>>
  BY DEF WriteManifest, Refuse, stores
<1>2. Placed' /\ reader' \in [Readers -> Requests]
  BY <1>1, RequestEnds
<1>3. ManifestsAreTraceable' /\ manifests' \subseteq Manifests
  <2>1. CASE Refuse(r)
    BY <1>1, <2>1, ManifestsKept DEF Refuse
  <2>2. CASE WriteManifest(r)
    <3> DEFINE q == reader[r]
               m == [dataset |-> q.dataset, source |-> q.source, read |-> q.read, lineage |-> q.lineage]
    <3>1. q.at = "start" /\ manifests' = manifests \union {m}
      BY <2>2 DEF WriteManifest
    <3>2. /\ q.dataset \in DatasetIds /\ q.source \in registry /\ q.source.dataset = q.dataset
          /\ q.read = q.source.bars
          /\ q.lineage # NoData => q.lineage \in registry /\ q.lineage.symbol = q.source.symbol
      BY <3>1 DEF DataInv, Placed
    <3>3. q.source \in Sources /\ q.lineage \in Sources \union {NoData} /\ q.read \in Contents
      BY <3>2 DEF DataInv, DataTypeOK, Requests, Sources
    <3> HIDE DEF q
    <3>4. /\ m \in Manifests /\ m.dataset = q.dataset /\ m.source = q.source /\ m.read = q.read
          /\ m.lineage = q.lineage
      BY <3>2, <3>3 DEF Manifests
    <3> HIDE DEF m
    <3> QED
      BY <1>1, <3>1, <3>2, <3>4 DEF DataInv, DataTypeOK, ManifestsAreTraceable
  <2> QED
    BY <2>1, <2>2
<1> QED
  BY <1>1, <1>2, <1>3 DEF DataInv, DataTypeOK, Covered, CatalogueHasItsRows, Catalogued, BarsOf, RowsOf

\* Every step of the store and its readers keeps the invariant.
LEMMA DataStep == DataInv /\ [DataNext]_dataVars => DataInv'
<1> SUFFICES ASSUME DataInv, [DataNext]_dataVars PROVE DataInv'
  OBVIOUS
<1>1. ASSUME NEW r \in Readers,
             \/ \E d \in DatasetIds, f \in DatasetIds \union {NoData} : AskByDataset(r, d, f)
             \/ \E s \in Tickers, f \in DatasetIds \union {NoData} : AskBySymbol(r, s, f)
             \/ \E d \in DatasetIds, bars \in Contents : Fetch(r, d, bars)
             \/ Assess(r) \/ LoadPrices(r) \/ AttachFeatures(r) \/ WriteManifest(r) \/ Refuse(r)
      PROVE  DataInv'
  BY <1>1, AskKeeps, FetchKeeps, LoadKeeps, RequestDone
<1>2. CASE UNCHANGED dataVars
  BY <1>2 DEF dataVars, DataInv, DataTypeOK, Placed, Covered, CatalogueHasItsRows, ManifestsAreTraceable,
     Catalogued, BarsOf, RowsOf
<1> QED
  BY <1>1, <1>2, ImportKeeps, DeriveKeeps DEF DataNext, Request

\* The catalogue can be trusted, whatever imports came before, for any datasets, chains,
\* contents and requests.
THEOREM WholeCatalogue == DataSpec => []CatalogueIsWhole
<1>1. DataInv => CatalogueIsWhole
  BY DEF DataInv, CatalogueIsWhole
<1> QED
  BY <1>1, DataInitKeeps, DataStep, PTL DEF DataSpec

\* A manifest tells the truth whenever it was written, however the datasets changed while
\* the request was served.
THEOREM TraceableManifests == DataSpec => []ManifestsAreTraceable
<1>1. DataInv => ManifestsAreTraceable
  BY DEF DataInv
<1> QED
  BY <1>1, DataInitKeeps, DataStep, PTL DEF DataSpec
=============================================================================
