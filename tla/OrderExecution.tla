--------------------------- MODULE OrderExecution ---------------------------
(***************************************************************************)
(* Order intents, their approvals, the local order records and the broker: *)
(* services/sandbox_execution_service.py with services/order_service.py    *)
(* and the order calls of infrastructure/openalgo.py.                      *)
(*                                                                         *)
(* Every connect() .. close() block of the code holds the database lock    *)
(* for its duration and is one action; between two blocks, and around      *)
(* every HTTP call, the other request threads run.  A request thread is a  *)
(* process of Procs, and its pc names the block it executes next.          *)
(***************************************************************************)
EXTENDS Naturals, FiniteSets

CONSTANTS
    Intents,        \* intent ids the service may generate
    Decisions,      \* persisted risk decisions
    Brokers,        \* order ids the broker may hand out
    Procs,          \* request threads of the API process
    NoIntent, NoDecision, NoBroker,   \* NULL of the three id columns
    Quantities,     \* quantities a caller may ask for
    ApprovedQty,    \* risk_decisions.approved_quantity (0: not approved)
    LiveDecisions,  \* decisions evaluated in LIVE mode, the others SEMI_AUTO
    Configs,        \* configurations a (re)start may load
    Working,        \* statuses of a broker order that may still trade
    Faults          \* the kinds of fault that may happen

FaultKinds == {"abandon", "restart", "lost", "garbled", "toggle"}

ASSUME OEAssumption ==
    /\ NoIntent \notin Intents
    /\ NoDecision \notin Decisions
    /\ NoBroker \notin Brokers
    /\ Quantities \subseteq Nat \ {0}
    /\ ApprovedQty \in [Decisions -> Nat]
    /\ LiveDecisions \subseteq Decisions
    /\ Configs \subseteq [live : BOOLEAN, approval : BOOLEAN]
    /\ Working \subseteq {"open", "pending"}
    /\ Faults \subseteq FaultKinds

VARIABLES
    intent,     \* order_intents
    approval,   \* approval_requests.status of each intent
    order,      \* order_events, keyed by run_id:decision_id
    fill,       \* trade_fills, keyed by the order: the quantity, 0 if no row
    book,       \* the broker's order book
    analyzer,   \* whether the broker is in analyzer (paper) mode
    config,     \* allow_live_trading and require_paper_approval
    proc        \* what each request thread is doing

stored == <<intent, approval, order, fill>>
vars == <<intent, approval, order, fill, book, analyzer, config, proc>>

-----------------------------------------------------------------------------
(* Records and statuses *)

IntentStatus == {"absent", "pending_approval", "approved", "rejected",
                 "submitting", "submitted", "open", "pending", "filled",
                 "cancelled", "failed", "submission_uncertain"}
ApprovalStatus == {"none", "pending", "approved", "rejected"}
OrderStatus == {"none", "created", "submitted", "filled", "rejected",
                "cancelled", "failed"}
BrokerStatus == {"none", "open", "pending", "complete", "rejected", "cancelled"}

ProcPC == {"idle", "start", "check", "find", "insert", "claim", "recheck",
           "post", "answer", "mark", "transition", "write", "finish", "poll",
           "compare", "fill", "cancel"}

IntentRows == [status : IntentStatus, decision : Decisions \cup {NoDecision},
               qty : Nat, broker : Brokers \cup {NoBroker}]
OrderRows == [status : OrderStatus, qty : Nat]
BookEntries == [intent : Intents \cup {NoIntent}, qty : Nat, live : BOOLEAN,
                status : BrokerStatus]
Threads == [op : {"none", "submit", "reconcile", "cancel"}, pc : ProcPC,
            i : Intents \cup {NoIntent}, b : Brokers \cup {NoBroker},
            to : IntentStatus \cup {"none"}]

NoIntentRow == [status |-> "absent", decision |-> NoDecision, qty |-> 0,
                broker |-> NoBroker]
NoOrder == [status |-> "none", qty |-> 0]
NoBookEntry == [intent |-> NoIntent, qty |-> 0, live |-> FALSE,
                status |-> "none"]
Idle == [op |-> "none", pc |-> "idle", i |-> NoIntent, b |-> NoBroker,
         to |-> "none"]

\* Statuses from which reconcile and cancel accept an intent.
Tracked == {"submitted", "open", "pending"}

\* A Python exception after the claim: the status it leaves on the intent.
Unplaced == {"failed", "submission_uncertain"}

\* VALID_TRANSITIONS, on the statuses this service gives an order.
ValidTransitions ==
    [created   |-> {"submitted", "rejected", "cancelled", "failed"},
     submitted |-> {"filled", "rejected", "cancelled", "failed"},
     filled    |-> {}, rejected |-> {}, cancelled |-> {}, failed |-> {},
     none      |-> {}]

TerminalOrder == {s \in OrderStatus : ValidTransitions[s] = {}} \ {"none"}

IsLive(i) == intent[i].decision \in LiveDecisions
Placed(i) == {b \in Brokers : book[b].intent = i}
OrderTarget(to) == IF to = "submission_uncertain" THEN "failed" ELSE to

\* Mutants of Reconciled: the broker's own word is stored; a rejection is
\* taken for a fill.
MutReconciledRaw == [complete |-> "complete", rejected |-> "rejected",
                     cancelled |-> "cancelled", open |-> "open",
                     pending |-> "pending"]
MutReconciledRejectFills ==
    [complete |-> "filled", rejected |-> "filled", cancelled |-> "cancelled",
     open |-> "open", pending |-> "pending"]

\* The intent status and the order status reconcile maps a broker status to.
Reconciled == [complete |-> "filled", rejected |-> "rejected",
               cancelled |-> "cancelled", open |-> "open",
               pending |-> "pending"]

\* Mutant of AsksApproval: the live path forgets its mandatory approval.
MutAsksApproval(d) == config.approval

\* Whether an intent of this decision gets an approval row.
AsksApproval(d) == config.approval \/ d \in LiveDecisions

\* Mutant of MaySubmit: the configuration was tested when it was prepared.
MutMaySubmit(i) == intent[i].status = "approved"

\* submit's status test and live gate.
MaySubmit(i) == intent[i].status = "approved" /\ (IsLive(i) => config.live)

\* Mutants of Claimable: the UPDATE takes an intent another thread has
\* claimed; it takes one whose outcome is uncertain.
MutClaimable(i) == intent[i].status \in {"approved", "submitting"}
MutClaimableRetry(i) == intent[i].status \in {"approved", "submission_uncertain"}

\* The WHERE clause of _claim_submission.
Claimable(i) == intent[i].status = "approved"

Goto(p, pc) == proc' = [proc EXCEPT ![p].pc = pc]
Steer(p, pc, to) == proc' = [proc EXCEPT ![p].pc = pc, ![p].to = to]
Leave(p) == proc' = [proc EXCEPT ![p] = Idle]
At(p, pc) == proc[p].pc = pc

-----------------------------------------------------------------------------
Init ==
    /\ intent = [i \in Intents |-> NoIntentRow]
    /\ approval = [i \in Intents |-> "none"]
    /\ order = [d \in Decisions |-> NoOrder]
    /\ fill = [d \in Decisions |-> 0]
    /\ book = [b \in Brokers |-> NoBookEntry]
    /\ analyzer \in BOOLEAN
    /\ config \in Configs
    /\ proc = [p \in Procs |-> Idle]

(* prepare_intent.  The idempotency key is the decision and the order's    *)
(* parameters; a repeated key returns the stored intent, and two           *)
(* concurrent inserts of one key meet on the unique index, so the insert   *)
(* is the only effect.  The scope checks on symbol, exchange, side and     *)
(* signal age only make the caller's request fail.                         *)
PrepareIntent(i, d, q) ==
    LET ask == AsksApproval(d) IN
    /\ intent[i].status = "absent"
    /\ d \in LiveDecisions => config.live
    /\ q <= ApprovedQty[d]
    /\ \A j \in Intents : ~(intent[j].decision = d /\ intent[j].qty = q)
    /\ intent' = [intent EXCEPT ![i] =
            [status |-> IF ask THEN "pending_approval" ELSE "approved",
             decision |-> d, qty |-> q, broker |-> NoBroker]]
    /\ approval' = [approval EXCEPT ![i] = IF ask THEN "pending" ELSE "none"]
    /\ UNCHANGED <<order, fill, book, analyzer, config, proc>>

(* decide: one connection, so the status test and both updates are atomic. *)
DecideEffect(i, verdict) ==
    /\ approval[i] = "pending"
    /\ approval' = [approval EXCEPT ![i] = verdict]
    /\ intent' = IF intent[i].status = "pending_approval"
                 THEN [intent EXCEPT ![i].status = verdict] ELSE intent
    /\ UNCHANGED <<order, fill, book, analyzer, config>>

Decide(i) ==
    /\ \E verdict \in {"approved", "rejected"} : DecideEffect(i, verdict)
    /\ UNCHANGED proc

(* approve_from_chat: decide, then submit in the same thread. *)
ApproveFromChat(p, i) ==
    /\ At(p, "idle")
    /\ DecideEffect(i, "approved")
    /\ proc' = [proc EXCEPT ![p] = [op |-> "submit", pc |-> "start", i |-> i,
                                    b |-> NoBroker, to |-> "none"]]

-----------------------------------------------------------------------------
(* submit *)

SubmitRequest(p, i) ==
    /\ At(p, "idle")
    /\ intent[i].status # "absent"
    /\ proc' = [proc EXCEPT ![p] = [op |-> "submit", pc |-> "start", i |-> i,
                                    b |-> NoBroker, to |-> "none"]]
    /\ UNCHANGED <<stored, book, analyzer, config>>

\* get_intent and the live gate; allow_live_trading is fixed for the process.
SubmitRead(p) ==
    /\ At(p, "start")
    /\ IF MaySubmit(proc[p].i) THEN Goto(p, "check") ELSE Leave(p)
    /\ UNCHANGED <<stored, book, analyzer, config>>

\* analyzer_status for paper, _assert_live_provider_ready for live.
CheckProvider(p) ==
    /\ At(p, "check")
    /\ IF analyzer = ~IsLive(proc[p].i) THEN Goto(p, "find") ELSE Leave(p)
    /\ UNCHANGED <<stored, book, analyzer, config>>

\* create_order looks the idempotency key up in one connection ...
FindOrder(p) ==
    /\ At(p, "find")
    /\ Goto(p, IF order[intent[proc[p].i].decision].status = "none"
               THEN "insert" ELSE "claim")
    /\ UNCHANGED <<stored, book, analyzer, config>>

\* ... and inserts in another: the loser of a race violates the unique index.
InsertOrder(p) ==
    LET i == proc[p].i
        d == intent[i].decision
    IN  /\ At(p, "insert")
        /\ \/ /\ order[d].status = "none"
              /\ order' = [order EXCEPT ![d] =
                              [status |-> "created", qty |-> intent[i].qty]]
              /\ Goto(p, "claim")
           \/ /\ order[d].status # "none"
              /\ Leave(p)
              /\ UNCHANGED order
        /\ UNCHANGED <<intent, approval, fill, book, analyzer, config>>

\* _claim_submission: UPDATE .. WHERE status = 'approved' RETURNING.
ClaimSubmission(p) ==
    LET i == proc[p].i IN
    /\ At(p, "claim")
    /\ \/ /\ Claimable(i)
          /\ intent' = [intent EXCEPT ![i].status = "submitting"]
          /\ Goto(p, IF IsLive(i) THEN "post" ELSE "recheck")
       \/ /\ ~Claimable(i)
          /\ Leave(p)
          /\ UNCHANGED intent
    /\ UNCHANGED <<approval, order, fill, book, analyzer, config>>

\* place_sandbox_order asks for the analyzer mode a second time; an answer
\* other than analyze is an OpenAlgoResponseError, a lost one is not.
RecheckAnalyzer(p) ==
    /\ At(p, "recheck")
    /\ \/ analyzer /\ Goto(p, "post")
       \/ /\ ~analyzer
          /\ Steer(p, "mark", "failed")
       \/ /\ "lost" \in Faults
          /\ Steer(p, "mark", "submission_uncertain")
    /\ UNCHANGED <<stored, book, analyzer, config>>

\* POST /api/v1/placeorder reaches the broker: it accepts the order in the
\* mode it is in, or refuses it (or never sees it).
BrokerHandles(p) ==
    /\ At(p, "post")
    /\ \/ \E b \in Brokers, s \in Working :
            /\ book[b].status = "none"
            /\ book' = [book EXCEPT ![b] =
                   [intent |-> proc[p].i, qty |-> intent[proc[p].i].qty,
                    live |-> ~analyzer, status |-> s]]
            /\ proc' = [proc EXCEPT ![p].pc = "answer", ![p].b = b]
       \/ Goto(p, "answer") /\ UNCHANGED book
    /\ UNCHANGED <<stored, analyzer, config>>

\* Mutant of ReceiveAnswer: a lost answer escapes the except branches.
MutReceiveAnswerUncaught(p) ==
    /\ At(p, "answer")
    /\ \/ Steer(p, "mark", "failed")
       \/ Leave(p)
    /\ UNCHANGED <<stored, book, analyzer, config>>

\* What the caller makes of the answer (_post and the checks after it).
ReceiveAnswer(p) ==
    LET b == proc[p].b
        confirmed == b # NoBroker /\ book[b].live = IsLive(proc[p].i)
    IN  /\ At(p, "answer")
        /\ \/ confirmed /\ Steer(p, "transition", "submitted")
           \/ /\ ~confirmed \/ "garbled" \in Faults
              /\ Steer(p, "mark", "failed")
           \/ /\ "lost" \in Faults
              /\ Steer(p, "mark", "submission_uncertain")
        /\ UNCHANGED <<stored, book, analyzer, config>>

\* The except branches write the intent first, the order afterwards.
MarkUnplaced(p) ==
    /\ At(p, "mark")
    /\ intent' = [intent EXCEPT ![proc[p].i].status = proc[p].to]
    /\ Goto(p, "transition")
    /\ UNCHANGED <<approval, order, fill, book, analyzer, config>>

-----------------------------------------------------------------------------
(* OrderService.transition: read and check in one connection, write        *)
(* unconditionally in the next.                                            *)

TransitionRead(p) ==
    LET s == order[intent[proc[p].i].decision].status IN
    /\ At(p, "transition")
    /\ IF OrderTarget(proc[p].to) \in ValidTransitions[s]
       THEN Goto(p, "write") ELSE Leave(p)
    /\ UNCHANGED <<stored, book, analyzer, config>>

TransitionWrite(p) ==
    LET d == intent[proc[p].i].decision IN
    /\ At(p, "write")
    /\ order' = [order EXCEPT ![d].status = OrderTarget(proc[p].to)]
    /\ IF proc[p].to \in Unplaced THEN Leave(p) ELSE Goto(p, "finish")
    /\ UNCHANGED <<intent, approval, fill, book, analyzer, config>>

\* _set_intent_status: no guard on the status it overwrites; the broker id
\* is given by submit only.
SetIntentStatus(p) ==
    LET i == proc[p].i IN
    /\ At(p, "finish")
    /\ intent' = [intent EXCEPT
                    ![i].status = proc[p].to,
                    ![i].broker = IF proc[p].op = "submit" THEN proc[p].b ELSE @]
    /\ Leave(p)
    /\ UNCHANGED <<approval, order, fill, book, analyzer, config>>

-----------------------------------------------------------------------------
(* reconcile and cancel *)

\* Both read the intent first and refuse one the broker does not track.
TrackedRequest(p, i, op, pc) ==
    /\ At(p, "idle")
    /\ intent[i].status \in Tracked
    /\ intent[i].broker # NoBroker
    /\ proc' = [proc EXCEPT ![p] = [op |-> op, pc |-> pc, i |-> i,
                                    b |-> intent[i].broker, to |-> "none"]]
    /\ UNCHANGED <<stored, book, analyzer, config>>

ReconcileRequest(p, i) == TrackedRequest(p, i, "reconcile", "poll")
CancelRequest(p, i) == TrackedRequest(p, i, "cancel", "cancel")

\* order_status and its mapping; a working order leaves the order row alone.
PollBroker(p) ==
    LET s == book[proc[p].b].status IN
    /\ At(p, "poll")
    /\ Steer(p, IF s \in Working THEN "finish" ELSE "compare", Reconciled[s])
    /\ UNCHANGED <<stored, book, analyzer, config>>

\* Mutant of CompareOrder: only a fill is carried over to the order.
MutCompareOrder(p) ==
    /\ At(p, "compare")
    /\ Goto(p, IF proc[p].to = "filled" THEN "fill" ELSE "finish")
    /\ UNCHANGED <<stored, book, analyzer, config>>

\* The order is read and compared with the broker's verdict.
CompareOrder(p) ==
    LET to == proc[p].to
        s == order[intent[proc[p].i].decision].status
    IN  /\ At(p, "compare")
        /\ Goto(p, IF s = to THEN "finish"
                   ELSE IF to = "filled" THEN "fill" ELSE "transition")
        /\ UNCHANGED <<stored, book, analyzer, config>>

\* record_simulated_fill: INSERT OR IGNORE keyed by the order, before the
\* transition is attempted.  Its CREATED branch cannot be taken: an intent
\* is tracked only after its order left CREATED (FillsAreReal).
RecordFill(p) ==
    LET d == intent[proc[p].i].decision IN
    /\ At(p, "fill")
    /\ fill' = IF fill[d] = 0 THEN [fill EXCEPT ![d] = order[d].qty] ELSE fill
    /\ Goto(p, "transition")
    /\ UNCHANGED <<intent, approval, order, book, analyzer, config>>

\* Mutant of CancelAtBroker: the broker's refusal is not looked at.
MutCancelAtBroker(p) ==
    LET b == proc[p].b IN
    /\ At(p, "cancel")
    /\ book' = IF book[b].status \in Working
               THEN [book EXCEPT ![b].status = "cancelled"] ELSE book
    /\ Steer(p, "transition", "cancelled")
    /\ UNCHANGED <<stored, analyzer, config>>

\* cancel_order: the broker cancels a working order and refuses any other;
\* a lost or malformed answer raises after the broker has acted.
CancelAtBroker(p) ==
    LET b == proc[p].b IN
    /\ At(p, "cancel")
    /\ \/ /\ book[b].status \in Working
          /\ book' = [book EXCEPT ![b].status = "cancelled"]
          /\ \/ Steer(p, "transition", "cancelled")
             \/ Faults \cap {"lost", "garbled"} # {} /\ Leave(p)
       \/ /\ book[b].status \notin Working
          /\ Leave(p)
          /\ UNCHANGED book
    /\ UNCHANGED <<stored, analyzer, config>>

-----------------------------------------------------------------------------
(* The broker on its own, and faults *)

BrokerMoves(b) ==
    /\ book[b].status \in Working
    /\ \E s \in (Working \cup {"complete", "rejected", "cancelled"})
                    \ {book[b].status} :
          book' = [book EXCEPT ![b].status = s]
    /\ UNCHANGED <<stored, analyzer, config, proc>>

\* emergency_action("cancel_all"): only the broker's book changes.
EmergencyCancel ==
    /\ \E b \in Brokers : book[b].status \in Working
    /\ book' = [b \in Brokers |->
                  IF book[b].status \in Working
                  THEN [book[b] EXCEPT !.status = "cancelled"] ELSE book[b]]
    /\ UNCHANGED <<stored, analyzer, config, proc>>

\* Someone switches the broker's mode.
ToggleAnalyzer ==
    /\ "toggle" \in Faults
    /\ analyzer' = ~analyzer
    /\ UNCHANGED <<stored, book, config, proc>>

\* A thread dies between two blocks: connect() gave up, or an HTTP call
\* raised outside the try.
Abandon(p) ==
    /\ "abandon" \in Faults
    /\ ~At(p, "idle")
    /\ Leave(p)
    /\ UNCHANGED <<stored, book, analyzer, config>>

\* The API process stops and starts again, perhaps with other settings.
Restart ==
    /\ "restart" \in Faults
    /\ proc' = [p \in Procs |-> Idle]
    /\ config' \in Configs
    /\ UNCHANGED <<stored, book, analyzer>>

-----------------------------------------------------------------------------
\* What a running thread does next.
ThreadStep(p) ==
    \/ SubmitRead(p) \/ CheckProvider(p) \/ FindOrder(p) \/ InsertOrder(p)
    \/ ClaimSubmission(p) \/ RecheckAnalyzer(p) \/ BrokerHandles(p)
    \/ ReceiveAnswer(p) \/ MarkUnplaced(p)
    \/ TransitionRead(p) \/ TransitionWrite(p) \/ SetIntentStatus(p)
    \/ PollBroker(p) \/ CompareOrder(p) \/ RecordFill(p) \/ CancelAtBroker(p)

\* What a user asks for.
Request(p, i) ==
    \/ ApproveFromChat(p, i) \/ SubmitRequest(p, i)
    \/ ReconcileRequest(p, i) \/ CancelRequest(p, i)

Next ==
    \/ \E i \in Intents, d \in Decisions, q \in Quantities : PrepareIntent(i, d, q)
    \/ \E i \in Intents : Decide(i)
    \/ \E p \in Procs, i \in Intents : Request(p, i)
    \/ \E p \in Procs : ThreadStep(p) \/ Abandon(p)
    \/ \E b \in Brokers : BrokerMoves(b)
    \/ EmergencyCancel \/ ToggleAnalyzer \/ Restart

Spec == Init /\ [][Next]_vars

(* A request thread runs to its end: every HTTP call has a 10 s timeout    *)
(* (OpenAlgoClient.timeout_seconds) and connect() a bounded retry.  Users, *)
(* the broker and faults owe nothing.                                      *)
FairSpec == Spec /\ \A p \in Procs : WF_vars(ThreadStep(p))

-----------------------------------------------------------------------------
(* Properties *)

\* The type invariant: every row and every thread has the columns and the
\* statuses the code can write.
TypeOK ==
    /\ intent \in [Intents -> IntentRows]
    /\ approval \in [Intents -> ApprovalStatus]
    /\ order \in [Decisions -> OrderRows]
    /\ fill \in [Decisions -> Nat]
    /\ book \in [Brokers -> BookEntries]
    /\ analyzer \in BOOLEAN
    /\ config \in Configs
    /\ proc \in [Procs -> Threads]

\* However many threads submit an intent, and wherever one of them dies, the
\* broker never holds two orders of it (the atomic claim).
AtMostOneOrderPerIntent ==
    \A b, c \in Brokers :
        book[b].intent = book[c].intent /\ book[b].intent # NoIntent => b = c

\* What reached the broker was authorised: a human approved it, or approval
\* was not asked for when it was prepared, which a live intent cannot avoid.
\* And an order of a live intent is posted only while live trading is enabled,
\* whatever was configured when it was prepared and approved.
OnlyAuthorisedOrdersPlaced ==
    /\ \A b \in Brokers :
          LET i == book[b].intent IN
          i # NoIntent => \/ approval[i] = "approved"
                          \/ approval[i] = "none" /\ ~IsLive(i)
    /\ \A p \in Procs : At(p, "post") /\ IsLive(proc[p].i) => config.live

\* An intent the platform reports filled or cancelled is so at the broker,
\* however late the thread that wrote it read the broker's answer.
SettledAgreesWithBroker ==
    \A i \in Intents :
        /\ intent[i].status = "filled" => book[intent[i].broker].status = "complete"
        /\ intent[i].status = "cancelled" => book[intent[i].broker].status = "cancelled"

\* A fill is recorded only for a decision the broker traded on, and by a
\* thread whose order has left CREATED, as RecordFill takes for granted.
FillsAreReal ==
    /\ \A d \in Decisions :
          fill[d] > 0 => \E b \in Brokers : /\ book[b].status = "complete"
                                            /\ intent[book[b].intent].decision = d
    /\ \A p \in Procs : At(p, "fill") =>
          order[intent[proc[p].i].decision].status \notin {"none", "created"}

\* The local order never lags an intent that left the broker's hands: the
\* order row is written first, so the intent's verdict is already in it.
OrderPrecedesIntent ==
    \A i \in Intents :
        LET s == order[intent[i].decision].status IN
        /\ intent[i].status \in {"filled", "cancelled"} => s = intent[i].status
        /\ intent[i].status \in Tracked => s \notin {"none", "created", "failed"}

\* No thread, however stale, takes an intent out of failed or
\* submission_uncertain: such a submission is never tried again.
UnplacedIsFinal ==
    [][\A i \in Intents : intent[i].status \in Unplaced
                            => intent'[i].status = intent[i].status]_vars

\* What reaches the broker was authorised, and the rows that say so are well
\* formed, whatever threads, faults and restarts came in between.
OrdersAuthorised == TypeOK /\ OnlyAuthorisedOrdersPlaced

\* However threads race and die, and though intents share an order row, the
\* broker holds one order of an intent at most and what the platform records
\* as traded was traded.
OrdersAndFillsAreReal == AtMostOneOrderPerIntent /\ FillsAreReal

\* With one intent on a decision the platform's books agree with the broker's:
\* settled intents are settled there, and the order row is never behind.
BooksAgree == SettledAgreesWithBroker /\ OrderPrecedesIntent

\* What is over stays over: neither a stale thread nor a slow answer reopens a
\* submission that was given up or rewrites a terminal order.
OrdersStayFinal ==
    [][/\ \A i \in Intents : intent[i].status \in Unplaced
                               => intent'[i].status = intent[i].status
       /\ \A d \in Decisions : order[d].status \in TerminalOrder
                               => order'[d].status = order[d].status]_vars

\* A claimed intent always gets an outcome.
SubmittingResolves ==
    \A i \in Intents : intent[i].status = "submitting"
                        ~> intent[i].status # "submitting"

\* A failed intent left no order behind at the broker.
FailedMeansNotPlaced ==
    \A i \in Intents : intent[i].status = "failed" => Placed(i) = {}

-----------------------------------------------------------------------------
(* The contract this module implements *)

Phase(i) ==
    LET s == intent[i].status IN
    CASE s = "absent" -> "absent"
      [] s = "pending_approval" -> "waiting"
      [] s = "approved" -> "authorised"
      [] s = "rejected" /\ approval[i] = "rejected" -> "refused"
      [] OTHER -> "consumed"

Contract == INSTANCE SubmissionContract WITH
    phase <- [i \in Intents |-> Phase(i)],
    sent <- [i \in Intents |-> Placed(i)]

\* Every behaviour of the service is one the contract allows.
ImplementsContract == Contract!Spec

-----------------------------------------------------------------------------
(* The inductive invariant behind the proofs of OrderExecutionProofs *)

\* Thread p owns the only claim of its intent: it may still place the order,
\* or has yet to record what became of it.
HoldsClaim(p) ==
    /\ proc[p].op = "submit"
    /\ \/ proc[p].pc \in {"recheck", "post", "answer", "mark"}
       \/ proc[p].pc \in {"transition", "write", "finish"} /\ proc[p].to = "submitted"

\* Statuses an intent takes once its order is tracked.
Handled == Tracked \cup {"filled", "rejected", "cancelled"}

\* Where a submitting thread can be, and with what.
SubmitterOK(p) ==
    LET r == proc[p] IN
    /\ r.i \in Intents
    /\ intent[r.i].status # "absent"
    /\ r.pc \in {"start", "check", "find", "insert", "claim", "recheck", "post",
                 "answer", "mark", "transition", "write", "finish"}
    /\ r.pc \in {"recheck", "post"} => Placed(r.i) = {}
    /\ r.b # NoBroker => book[r.b].status # "none"
    /\ r.pc = "mark" => r.to \in Unplaced
    /\ r.pc \in {"transition", "write"} => r.to \in Unplaced \cup {"submitted"}
    /\ r.pc = "finish" => r.to = "submitted"
    /\ HoldsClaim(p) => intent[r.i].status = "submitting"
    /\ r.pc \in {"transition", "write", "finish"} /\ r.to = "submitted"
          => r.b \in Brokers /\ book[r.b].status # "none"

\* Where a reconciling or cancelling thread can be, and with what.
TrackerOK(p) ==
    LET r == proc[p] IN
    /\ r.i \in Intents
    /\ r.b \in Brokers
    /\ book[r.b].status # "none"
    /\ intent[r.i].status \in Handled
    /\ approval[r.i] # "rejected"
    /\ r.pc \in {"poll", "cancel", "compare", "fill", "transition", "write", "finish"}
    /\ r.pc \in {"compare", "fill", "transition", "write"}
          => r.to \in {"filled", "rejected", "cancelled"}
    /\ r.pc = "finish" => r.to \in Handled \ {"submitted"}

ThreadOK(p) ==
    \/ proc[p] = Idle
    \/ proc[p].op = "submit" /\ SubmitterOK(p)
    \/ proc[p].op \in {"reconcile", "cancel"} /\ TrackerOK(p)

ThreadsOK == \A p \in Procs : ThreadOK(p)

ClaimsAreExclusive ==
    \A p, q \in Procs :
        HoldsClaim(p) /\ HoldsClaim(q) /\ proc[p].i = proc[q].i => p = q

IntentsOK ==
    \A i \in Intents :
        /\ intent[i].status # "absent" => intent[i].decision \in Decisions
        /\ intent[i].broker # NoBroker => book[intent[i].broker].status # "none"
        /\ approval[i] = "pending" <=> intent[i].status = "pending_approval"
        /\ approval[i] = "rejected" => intent[i].status = "rejected"
        /\ intent[i].status = "absent" => approval[i] = "none"

BookOK ==
    \A b \in Brokers :
        /\ book[b].status \in Working \cup {"none", "complete", "rejected", "cancelled"}
        /\ book[b].status = "none" <=> book[b].intent = NoIntent
        /\ book[b].status # "none" =>
              /\ intent[book[b].intent].status \notin
                     {"absent", "pending_approval", "approved"}
              /\ approval[book[b].intent] # "rejected"

\* An invariant of every behaviour, and inductive.
ExecutionInv ==
    /\ TypeOK
    /\ ThreadsOK
    /\ ClaimsAreExclusive
    /\ IntentsOK
    /\ BookOK
    /\ AtMostOneOrderPerIntent
=============================================================================
