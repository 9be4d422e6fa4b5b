-------------------------- MODULE OrderBooksProofs --------------------------
(***************************************************************************)
(* Proofs that the platform's books are the broker's, for any number of    *)
(* threads, intents, decisions and broker orders, and with every fault.    *)
(*                                                                         *)
(* FillInv adds to ExecutionInv what a thread knows of the broker's order  *)
(* it follows and that its order row was submitted; BooksInv adds, when a  *)
(* decision has one intent, what it knows of the broker's verdict and of   *)
(* the order's status.  BookKept, OrderChange, IntentChange and            *)
(* PresentKept say what a step can do to the rows; with them a step is a   *)
(* matter of the one thread and the one intent that move.                  *)
(***************************************************************************)
EXTENDS OrderExecutionProofs

\* The order row of an intent's decision has been submitted.
PastCreated(d) == order[d].status \notin {"none", "created"}

\* A broker order has traded for a decision.
Traded(d) == \E b \in Brokers : /\ book[b].status = "complete"
                                /\ intent[book[b].intent].decision = d

\* What a thread knows of its broker order and of its order row.
ThreadFollows(p) ==
    LET r == proc[p] IN
    r # Idle =>
        /\ r.b # NoBroker => book[r.b].intent = r.i
        /\ r.pc = "fill" => r.to = "filled"
        /\ r.pc \in {"compare", "fill"} /\ r.to = "filled" => book[r.b].status = "complete"
        /\ r.op \in {"reconcile", "cancel"} \/ r.pc = "finish"
              => PastCreated(intent[r.i].decision)

IntentFollows(i) ==
    /\ intent[i].broker # NoBroker => book[intent[i].broker].intent = i
    /\ intent[i].status \in Tracked => PastCreated(intent[i].decision)

FillInv ==
    /\ \A p \in Procs : ThreadFollows(p)
    /\ \A i \in Intents : IntentFollows(i)
    /\ \A d \in Decisions : fill[d] > 0 => Traded(d)

-----------------------------------------------------------------------------
(* The broker's book, step by step *)

\* Statuses the broker does not take back.
Finished == {"complete", "rejected", "cancelled"}

(* An order of the book keeps its intent, and a finished one is final.     *)
LEMMA BookKept ==
    ASSUME ExecutionInv, [Next]_vars, NEW b \in Brokers
    PROVE  /\ book[b].status # "none" => book'[b].intent = book[b].intent
           /\ book[b].status \in Finished => book'[b].status = book[b].status
<1>1. book[b].status # "none" => book'[b].intent = book[b].intent
  <2>1. book[b].status # "none" => book[b].intent # NoIntent
    BY DEF ExecutionInv, BookOK
  <2>. QED
    BY <2>1, StepShape DEF SameOrders, IntentStep, OrderStep
<1>2. SUFFICES ASSUME book[b].status \in Finished
               PROVE  book'[b].status = book[b].status
  BY <1>1
<1>3. book[b].status \notin Working
  BY <1>2, OEAssumption DEF Finished
<1>4. book \in [Brokers -> BookEntries]
  BY DEF ExecutionInv, TypeOK
<1>5. ASSUME NEW c \in Brokers, c # b, NEW entry, book' = [book EXCEPT ![c] = entry]
      PROVE  book'[b].status = book[b].status
  BY <1>2, <1>4, <1>5
<1>6. ASSUME NEW c \in Brokers, BrokerMoves(c)
      PROVE  book'[b].status = book[b].status
  BY <1>2, <1>3, <1>4, <1>6 DEF BrokerMoves
<1>7. CASE EmergencyCancel
  BY <1>2, <1>3, <1>7 DEF EmergencyCancel
<1>8. ASSUME NEW p \in Procs, BrokerHandles(p)
      PROVE  book'[b].status = book[b].status
  BY <1>2, <1>4, <1>8 DEF BrokerHandles, Finished
<1>9. ASSUME NEW p \in Procs, CancelAtBroker(p)
      PROVE  book'[b].status = book[b].status
  BY <1>2, <1>3, <1>4, <1>9 DEF CancelAtBroker
<1>10. CASE book' = book
  BY <1>2, <1>10
<1>11. ASSUME NEW p \in Procs, ThreadStep(p), ~BrokerHandles(p), ~CancelAtBroker(p)
       PROVE  book' = book
  BY <1>11 DEF ThreadStep, SubmitRead, CheckProvider, FindOrder, InsertOrder, ClaimSubmission,
     RecheckAnalyzer, ReceiveAnswer, MarkUnplaced, TransitionRead, TransitionWrite,
     SetIntentStatus, PollBroker, CompareOrder, RecordFill
<1>12. ASSUME NEW p \in Procs, NEW i \in Intents, Request(p, i)
       PROVE  book' = book
  BY <1>12 DEF Request, ApproveFromChat, DecideEffect, SubmitRequest, ReconcileRequest,
     CancelRequest, TrackedRequest
<1>13. ASSUME \/ \E i \in Intents, d \in Decisions, q \in Quantities : PrepareIntent(i, d, q)
              \/ \E i \in Intents : Decide(i)
              \/ \E p \in Procs : Abandon(p)
              \/ ToggleAnalyzer \/ Restart \/ UNCHANGED vars
       PROVE  book' = book
  BY <1>13 DEF PrepareIntent, Decide, DecideEffect, Abandon, ToggleAnalyzer, Restart, vars
<1>. QED
  BY <1>6, <1>7, <1>8, <1>9, <1>10, <1>11, <1>12, <1>13 DEF Next

-----------------------------------------------------------------------------
(* The order rows, step by step *)

\* The row a thread's write gives an order: the verdict of its operation.
LEMMA WrittenStatus ==
    ASSUME ExecutionInv, NEW p \in Procs, TransitionWrite(p)
    PROVE  LET d == intent[proc[p].i].decision IN
           /\ proc[p].i \in Intents /\ d \in Decisions
           /\ order' = [order EXCEPT ![d].status = OrderTarget(proc[p].to)]
           /\ OrderTarget(proc[p].to) \notin {"none", "created"}
<1>1. \/ proc[p].op = "submit" /\ SubmitterOK(p)
      \/ proc[p].op \in {"reconcile", "cancel"} /\ TrackerOK(p)
  BY WriterAt DEF TransitionWrite, At
<1>2. /\ proc[p].i \in Intents /\ intent[proc[p].i].status # "absent"
      /\ proc[p].to \in Unplaced \cup {"submitted", "filled", "rejected", "cancelled"}
  BY <1>1 DEF SubmitterOK, TrackerOK, Handled, Tracked, TransitionWrite, At
<1>3. intent[proc[p].i].decision \in Decisions
  BY <1>2 DEF ExecutionInv, IntentsOK
<1>. QED
  BY <1>2, <1>3 DEF TransitionWrite, OrderTarget, Unplaced

(* What a step does to an order row: it leaves the status, a thread inserts *)
(* the row, or one writes its verdict.                                     *)
LEMMA OrderChange ==
    ASSUME ExecutionInv, [Next]_vars, NEW d \in Decisions
    PROVE  \/ order'[d].status = order[d].status
           \/ /\ order[d].status = "none" /\ order'[d].status = "created"
              /\ \E p \in Procs : InsertOrder(p) /\ d = intent[proc[p].i].decision
           \/ \E p \in Procs : /\ TransitionWrite(p)
                               /\ d = intent[proc[p].i].decision
                               /\ order'[d].status = OrderTarget(proc[p].to)
<1>1. order \in [Decisions -> OrderRows]
  BY DEF ExecutionInv, TypeOK
<1>2. ASSUME NEW p \in Procs, TransitionWrite(p)
      PROVE  order'[d].status = IF d = intent[proc[p].i].decision
                                THEN OrderTarget(proc[p].to) ELSE order[d].status
  BY <1>1, <1>2 DEF TransitionWrite, OrderRows
<1>3. ASSUME NEW p \in Procs, InsertOrder(p)
      PROVE  \/ order'[d].status = order[d].status
             \/ /\ order[d].status = "none" /\ order'[d].status = "created"
                /\ d = intent[proc[p].i].decision
  BY <1>1, <1>3 DEF InsertOrder
<1>4. ASSUME NEW p \in Procs, ThreadStep(p), ~TransitionWrite(p), ~InsertOrder(p)
      PROVE  order' = order
  BY <1>4 DEF ThreadStep, SubmitRead, CheckProvider, FindOrder, ClaimSubmission,
     RecheckAnalyzer, BrokerHandles, ReceiveAnswer, MarkUnplaced, TransitionRead,
     SetIntentStatus, PollBroker, CompareOrder, RecordFill, CancelAtBroker, stored
<1>5. ASSUME NEW p \in Procs, NEW i \in Intents, Request(p, i)
      PROVE  order' = order
  BY <1>5 DEF Request, ApproveFromChat, DecideEffect, SubmitRequest, ReconcileRequest,
     CancelRequest, TrackedRequest, stored
<1>6. ASSUME \/ \E i \in Intents, e \in Decisions, q \in Quantities : PrepareIntent(i, e, q)
             \/ \E i \in Intents : Decide(i)
             \/ \E p \in Procs : Abandon(p)
             \/ \E b \in Brokers : BrokerMoves(b)
             \/ EmergencyCancel \/ ToggleAnalyzer \/ Restart \/ UNCHANGED vars
      PROVE  order' = order
  BY <1>6 DEF PrepareIntent, Decide, DecideEffect, Abandon, BrokerMoves, EmergencyCancel,
     ToggleAnalyzer, Restart, stored, vars
<1>. QED
  BY <1>2, <1>3, <1>4, <1>5, <1>6 DEF Next

(* An order that was submitted is never taken back to CREATED.             *)
LEMMA OrdersKept ==
    ASSUME ExecutionInv, [Next]_vars, NEW d \in Decisions, PastCreated(d)
    PROVE  PastCreated(d)'
  BY OrderChange, WrittenStatus DEF PastCreated

-----------------------------------------------------------------------------
(* The threads *)

\* A thread at work has an intent that exists, and an order that is booked.
LEMMA AtWork ==
    ASSUME ExecutionInv, NEW p \in Procs, proc[p] # Idle
    PROVE  /\ proc[p].i \in Intents /\ intent[proc[p].i].status # "absent"
           /\ intent[proc[p].i].decision \in Decisions
           /\ proc[p].b # NoBroker => /\ proc[p].b \in Brokers
                                      /\ book[proc[p].b].status # "none"
<1>1. proc[p].b \in Brokers \cup {NoBroker}
  BY DEF ExecutionInv, TypeOK, Threads
<1>2. SubmitterOK(p) \/ TrackerOK(p)
  BY DEF ExecutionInv, ThreadsOK, ThreadOK
<1>3. proc[p].i \in Intents /\ intent[proc[p].i].status # "absent"
  BY <1>2 DEF SubmitterOK, TrackerOK, Handled, Tracked
<1>4. proc[p].b # NoBroker => book[proc[p].b].status # "none"
  BY <1>2 DEF SubmitterOK, TrackerOK
<1>. QED
  BY <1>1, <1>3, <1>4 DEF ExecutionInv, IntentsOK

(* Only a thread at work steps.                                            *)
LEMMA StepAtWork ==
    ASSUME NEW p \in Procs, ThreadStep(p)
    PROVE  proc[p] # Idle
<1>1. CASE \/ SubmitRead(p) \/ CheckProvider(p) \/ FindOrder(p) \/ InsertOrder(p)
           \/ ClaimSubmission(p) \/ RecheckAnalyzer(p) \/ BrokerHandles(p)
  BY <1>1 DEF SubmitRead, CheckProvider, FindOrder, InsertOrder, ClaimSubmission,
     RecheckAnalyzer, BrokerHandles, At, Idle
<1>2. CASE \/ ReceiveAnswer(p) \/ MarkUnplaced(p) \/ TransitionRead(p)
           \/ TransitionWrite(p) \/ SetIntentStatus(p)
  BY <1>2 DEF ReceiveAnswer, MarkUnplaced, TransitionRead, TransitionWrite,
     SetIntentStatus, At, Idle
<1>3. CASE PollBroker(p) \/ CompareOrder(p) \/ RecordFill(p) \/ CancelAtBroker(p)
  BY <1>3 DEF PollBroker, CompareOrder, RecordFill, CancelAtBroker, At, Idle
<1>. QED
  BY <1>1, <1>2, <1>3 DEF ThreadStep

(* A thread that stays with its operation, intent and order follows them   *)
(* as before; only its pc and its verdict need looking at.                 *)
LEMMA Follows ==
    ASSUME ExecutionInv, [Next]_vars, NEW p \in Procs, proc[p] # Idle, ThreadFollows(p),
           proc'[p].op = proc[p].op, proc'[p].i = proc[p].i, proc'[p].b = proc[p].b,
           proc'[p].pc = "fill" => proc'[p].to = "filled",
           proc'[p].pc \in {"compare", "fill"} /\ proc'[p].to = "filled" =>
              /\ proc[p].b \in Brokers
              /\ book[proc[p].b].status = "complete",
           proc'[p].pc = "finish" =>
              \/ proc[p].op \in {"reconcile", "cancel"}
              \/ PastCreated(intent[proc[p].i].decision)
              \/ order'[intent[proc[p].i].decision].status \notin {"none", "created"}
    PROVE  ThreadFollows(p)'
<1> DEFINE d == intent[proc[p].i].decision
<1>1. /\ proc[p].i \in Intents /\ intent'[proc[p].i].decision = d /\ d \in Decisions
      /\ proc[p].b # NoBroker => /\ proc[p].b \in Brokers
                                 /\ book[proc[p].b].status # "none"
  BY AtWork, DecisionKept
<1>2. proc'[p].b # NoBroker => book'[proc'[p].b].intent = proc'[p].i
  BY <1>1, BookKept DEF ThreadFollows
<1>3. proc'[p].pc \in {"compare", "fill"} /\ proc'[p].to = "filled"
        => book'[proc'[p].b].status = "complete"
  BY BookKept DEF Finished
<1>4. proc'[p].op \in {"reconcile", "cancel"} \/ proc'[p].pc = "finish"
        => PastCreated(d)'
  <2>1. PastCreated(d) => PastCreated(d)'
    BY <1>1, OrdersKept
  <2>2. proc[p].op \in {"reconcile", "cancel"} => PastCreated(d)
    BY DEF ThreadFollows
  <2>3. d' = d
    BY <1>1
  <2>. QED
    BY <2>1, <2>2, <2>3 DEF PastCreated
<1>. QED
  BY <1>1, <1>2, <1>3, <1>4 DEF ThreadFollows, PastCreated

(* Every step of a running thread. *)
LEMMA MoverFollows ==
    ASSUME ExecutionInv, FillInv, [Next]_vars, NEW p \in Procs, ThreadStep(p)
    PROVE  ThreadFollows(p)'
<1>1. proc \in [Procs -> Threads] /\ ThreadFollows(p)
  BY DEF ExecutionInv, TypeOK, FillInv
<1>2. CASE Leave(p)
  BY <1>1, <1>2, LeaveFacts DEF ThreadFollows
<1>3. proc[p] # Idle
  BY StepAtWork
<1>4. ASSUME NEW pc \in ProcPC \ {"fill", "compare", "finish"}, Goto(p, pc)
      PROVE  ThreadFollows(p)'
  BY <1>1, <1>3, <1>4, GotoFacts, Follows
<1>5. ASSUME NEW pc \in ProcPC \ {"fill", "compare", "finish"}, NEW to \in IntentStatus,
             Steer(p, pc, to)
      PROVE  ThreadFollows(p)'
  BY <1>1, <1>3, <1>5, SteerFacts, Follows
<1>6. CASE \/ SubmitRead(p) \/ CheckProvider(p) \/ FindOrder(p) \/ InsertOrder(p)
           \/ ClaimSubmission(p) \/ MarkUnplaced(p) \/ TransitionRead(p) \/ RecordFill(p)
  <2>1. \/ Leave(p)
        \/ \E pc \in {"check", "find", "insert", "claim", "post", "recheck", "transition",
                      "write"} : Goto(p, pc)
    BY <1>6 DEF SubmitRead, CheckProvider, FindOrder, InsertOrder, ClaimSubmission,
       MarkUnplaced, TransitionRead, RecordFill
  <2>. QED
    BY <1>2, <1>4, <2>1 DEF ProcPC
<1>7. CASE RecheckAnalyzer(p) \/ ReceiveAnswer(p) \/ CancelAtBroker(p)
  <2>1. \/ Leave(p) \/ Goto(p, "post")
        \/ \E pc \in {"mark", "transition"},
              to \in {"failed", "submission_uncertain", "submitted", "cancelled"} :
              Steer(p, pc, to)
    BY <1>7 DEF RecheckAnalyzer, ReceiveAnswer, CancelAtBroker
  <2>. QED
    BY <1>2, <1>4, <1>5, <2>1 DEF ProcPC, IntentStatus
<1>8. CASE BrokerHandles(p)
  <2>1. CASE Goto(p, "answer")
    BY <1>4, <2>1 DEF ProcPC
  <2>2. ASSUME NEW b \in Brokers, NEW s \in Working,
               book' = [book EXCEPT ![b] =
                   [intent |-> proc[p].i, qty |-> intent[proc[p].i].qty,
                    live |-> ~analyzer, status |-> s]],
               proc' = [proc EXCEPT ![p].pc = "answer", ![p].b = b]
        PROVE  ThreadFollows(p)'
    <3>1. /\ proc'[p].pc = "answer" /\ proc'[p].b = b
          /\ proc'[p].i = proc[p].i /\ proc'[p].op = proc[p].op
      BY <1>1, <2>2 DEF Threads
    <3>2. book'[b].intent = proc[p].i
      BY <2>2 DEF ExecutionInv, TypeOK
    <3>3. proc[p].op = "submit"
      BY <1>8, SubmitterAt DEF BrokerHandles, At
    <3>. QED
      BY <3>1, <3>2, <3>3 DEF ThreadFollows
  <2>. QED
    BY <1>8, <2>1, <2>2 DEF BrokerHandles
<1>9. CASE TransitionWrite(p)
  <2>1. CASE Goto(p, "finish")
    <3>1. order'[intent[proc[p].i].decision].status \notin {"none", "created"}
      <4> DEFINE d == intent[proc[p].i].decision
      <4>1. d \in Decisions /\ OrderTarget(proc[p].to) \notin {"none", "created"}
        BY <1>9, WrittenStatus
      <4>2. order'[d].status = OrderTarget(proc[p].to)
        BY <1>9, <4>1 DEF TransitionWrite, ExecutionInv, TypeOK, OrderRows
      <4>. QED
        BY <4>1, <4>2
    <3>. QED
      BY <1>1, <1>3, <2>1, <3>1, GotoFacts, Follows DEF ProcPC
  <2>. QED
    BY <1>2, <1>9, <2>1 DEF TransitionWrite
<1>10. CASE SetIntentStatus(p)
  BY <1>2, <1>10 DEF SetIntentStatus
<1>11. CASE PollBroker(p)
  <2> DEFINE s == book[proc[p].b].status
  <2>1. /\ proc[p].op \in {"reconcile", "cancel"} /\ proc[p].b \in Brokers /\ s # "none"
    BY <1>11, TrackerAt DEF PollBroker, At, TrackerOK
  <2>2. s \in {"open", "pending", "complete", "rejected", "cancelled"}
    BY <2>1, OEAssumption DEF ExecutionInv, BookOK
  <2>3. /\ Reconciled[s] \in IntentStatus
        /\ Reconciled[s] = "filled" => s = "complete"
    BY <2>2 DEF Reconciled, IntentStatus
  <2>4. PICK pc \in {"finish", "compare"} : Steer(p, pc, Reconciled[s])
    BY <1>11 DEF PollBroker
  <2>. QED
    BY <1>1, <1>3, <2>1, <2>3, <2>4, SteerFacts, Follows DEF ProcPC
<1>12. CASE CompareOrder(p)
  <2>1. proc[p].op \in {"reconcile", "cancel"} /\ proc[p].b \in Brokers
    BY <1>12, TrackerAt DEF CompareOrder, At, TrackerOK
  <2>2. proc[p].to = "filled" => book[proc[p].b].status = "complete"
    BY <1>1, <1>3, <1>12 DEF ThreadFollows, CompareOrder, At
  <2>3. PICK pc \in {"finish", "fill", "transition"} :
           Goto(p, pc) /\ (pc = "fill" => proc[p].to = "filled")
    BY <1>12 DEF CompareOrder
  <2>. QED
    BY <1>1, <1>3, <2>1, <2>2, <2>3, GotoFacts, Follows DEF ProcPC
<1>. QED
  BY <1>6, <1>7, <1>8, <1>9, <1>10, <1>11, <1>12 DEF ThreadStep

(* A thread that takes up an intent knows it as the intent row does.       *)
LEMMA StarterFollows ==
    ASSUME ExecutionInv, FillInv, [Next]_vars, NEW p \in Procs, NEW i \in Intents,
           Request(p, i)
    PROVE  /\ ThreadFollows(p)'
           /\ \A q \in Procs : q # p => proc'[q] = proc[q]
<1>1. proc \in [Procs -> Threads]
  BY DEF ExecutionInv, TypeOK
<1>2. CASE ApproveFromChat(p, i) \/ SubmitRequest(p, i)
  <2> DEFINE r == [op |-> "submit", pc |-> "start", i |-> i, b |-> NoBroker, to |-> "none"]
  <2>1. proc' = [proc EXCEPT ![p] = r]
    BY <1>2 DEF ApproveFromChat, SubmitRequest
  <2>2. proc'[p] = r /\ \A q \in Procs : q # p => proc'[q] = proc[q]
    BY <1>1, <2>1
  <2>. QED
    BY <2>2 DEF ThreadFollows
<1>3. ASSUME NEW op \in {"reconcile", "cancel"}, NEW pc \in {"poll", "cancel"},
             TrackedRequest(p, i, op, pc)
      PROVE  /\ ThreadFollows(p)'
             /\ \A q \in Procs : q # p => proc'[q] = proc[q]
  <2> DEFINE r == [op |-> op, pc |-> pc, i |-> i, b |-> intent[i].broker, to |-> "none"]
  <2>1. proc'[p] = r /\ \A q \in Procs : q # p => proc'[q] = proc[q]
    BY <1>1, <1>3 DEF TrackedRequest
  <2>2. intent' = intent /\ order' = order /\ book' = book
    BY <1>3 DEF TrackedRequest, stored
  <2>3. book[intent[i].broker].intent = i /\ PastCreated(intent[i].decision)
    BY <1>3 DEF TrackedRequest, FillInv, IntentFollows
  <2>. QED
    BY <2>1, <2>2, <2>3 DEF ThreadFollows, PastCreated
<1>. QED
  BY <1>2, <1>3 DEF Request, ReconcileRequest, CancelRequest

(* A thread that does not move follows its intent as before.               *)
LEMMA OthersFollow ==
    ASSUME ExecutionInv, FillInv, [Next]_vars, NEW q \in Procs, proc'[q] = proc[q]
    PROVE  ThreadFollows(q)'
<1>1. ThreadFollows(q)
  BY DEF FillInv
<1>2. CASE proc[q] = Idle
  BY <1>2 DEF ThreadFollows
<1>3. CASE proc[q] # Idle
  <2>1. proc[q].pc \in {"compare", "fill"} => proc[q].b \in Brokers
    BY TrackerAt DEF TrackerOK
  <2>2. proc[q].pc = "fill" => proc[q].to = "filled"
    BY <1>1, <1>3 DEF ThreadFollows
  <2>3. proc[q].pc \in {"compare", "fill"} /\ proc[q].to = "filled"
          => book[proc[q].b].status = "complete"
    BY <1>1, <1>3 DEF ThreadFollows
  <2>4. proc[q].pc = "finish" => PastCreated(intent[proc[q].i].decision)
    BY <1>1, <1>3 DEF ThreadFollows
  <2>. QED
    BY <1>1, <1>3, <2>1, <2>2, <2>3, <2>4, Follows
<1>. QED
  BY <1>2, <1>3

LEMMA ThreadsFollow ==
    ASSUME ExecutionInv, FillInv, [Next]_vars, NEW q \in Procs
    PROVE  ThreadFollows(q)'
<1>1. CASE proc'[q] = proc[q]
  BY <1>1, OthersFollow
<1>2. CASE proc'[q] = Idle
  BY <1>2 DEF ThreadFollows
<1>3. ASSUME NEW p \in Procs, ThreadStep(p)
      PROVE  ThreadFollows(q)'
  <2>1. q # p => proc'[q] = proc[q]
    BY <1>3, GateStep
  <2>. QED
    BY <1>1, <1>3, <2>1, MoverFollows
<1>4. ASSUME NEW p \in Procs, NEW i \in Intents, Request(p, i)
      PROVE  ThreadFollows(q)'
  BY <1>1, <1>4, StarterFollows
<1>5. ASSUME NEW p \in Procs, Abandon(p)
      PROVE  proc'[q] = proc[q] \/ proc'[q] = Idle
  BY <1>5, LeaveFacts DEF Abandon, ExecutionInv, TypeOK
<1>6. CASE Restart
  BY <1>2, <1>6 DEF Restart
<1>7. ASSUME \/ \E i \in Intents, d \in Decisions, n \in Quantities : PrepareIntent(i, d, n)
             \/ \E i \in Intents : Decide(i)
             \/ \E b \in Brokers : BrokerMoves(b)
             \/ EmergencyCancel \/ ToggleAnalyzer \/ UNCHANGED vars
      PROVE  proc' = proc
  BY <1>7 DEF PrepareIntent, Decide, BrokerMoves, EmergencyCancel, ToggleAnalyzer, vars
<1>. QED
  BY <1>1, <1>2, <1>3, <1>4, <1>5, <1>6, <1>7 DEF Next

-----------------------------------------------------------------------------
(* The intents *)

(* An intent whose broker id stays, and that is tracked only if it was,    *)
(* follows its order as before.                                            *)
LEMMA IntentStays ==
    ASSUME ExecutionInv, FillInv, [Next]_vars, NEW i \in Intents,
           intent'[i].broker = intent[i].broker,
           intent'[i].status \in Tracked => intent[i].status \in Tracked
    PROVE  IntentFollows(i)'
<1>1. IntentFollows(i)
  BY DEF FillInv
<1>2. ASSUME intent[i].broker # NoBroker
      PROVE  book'[intent[i].broker].intent = i
  <2>1. intent[i].broker \in Brokers /\ book[intent[i].broker].status # "none"
    BY <1>2 DEF ExecutionInv, TypeOK, IntentRows, IntentsOK
  <2>. QED
    BY <1>1, <1>2, <2>1, BookKept DEF IntentFollows
<1>3. ASSUME intent[i].status \in Tracked
      PROVE  order'[intent'[i].decision].status \notin {"none", "created"}
  <2>1. intent[i].status # "absent"
    BY <1>3 DEF Tracked
  <2>2. PICK d \in Decisions : d = intent[i].decision
    BY <2>1 DEF ExecutionInv, IntentsOK
  <2>3. PastCreated(d)
    BY <1>1, <1>3, <2>2 DEF IntentFollows
  <2>4. PastCreated(d)'
    BY <2>3, OrdersKept
  <2>. QED
    BY <2>1, <2>2, <2>4, DecisionKept DEF PastCreated
<1>. QED
  BY <1>2, <1>3 DEF IntentFollows, PastCreated

(* The last write of an operation: the order was written before it.        *)
LEMMA FinisherFollows ==
    ASSUME ExecutionInv, FillInv, [Next]_vars, NEW p \in Procs, SetIntentStatus(p),
           NEW i \in Intents, i = proc[p].i
    PROVE  IntentFollows(i)'
<1> DEFINE d == intent[i].decision
<1>1. /\ proc[p] # Idle /\ proc[p].pc = "finish" /\ ThreadFollows(p)
      /\ book' = book /\ order' = order
  BY DEF SetIntentStatus, At, Idle, FillInv
<1>2. intent[i].status # "absent"
  BY <1>1, AtWork
<1>3. PastCreated(d)
  BY <1>1 DEF ThreadFollows
<1>4. intent'[i].decision = d
  BY <1>2, DecisionKept
<1>5. intent'[i].broker = IF proc[p].op = "submit" THEN proc[p].b ELSE intent[i].broker
  BY <1>2 DEF SetIntentStatus, ExecutionInv, TypeOK, IntentRows
<1>6. CASE proc[p].op = "submit"
  BY <1>1, <1>3, <1>4, <1>5, <1>6 DEF ThreadFollows, IntentFollows, PastCreated
<1>7. CASE proc[p].op # "submit"
  <2>1. IntentFollows(i)
    BY <1>2 DEF FillInv
  <2>. QED
    BY <1>1, <1>3, <1>4, <1>5, <1>7, <2>1 DEF IntentFollows, PastCreated
<1>. QED
  BY <1>6, <1>7

(* What a step does to an intent row: nothing, prepare it, move it before  *)
(* it is tracked, or the last write of an operation.                       *)
LEMMA IntentChange ==
    ASSUME ExecutionInv, [Next]_vars, NEW j \in Intents
    PROVE  \/ intent'[j] = intent[j]
           \/ \E d \in Decisions, q \in Quantities : PrepareIntent(j, d, q)
           \/ /\ intent[j].status \in {"pending_approval", "approved", "submitting"}
              /\ intent'[j].status \in {"approved", "rejected", "submitting"} \cup Unplaced
              /\ intent'[j].broker = intent[j].broker /\ intent'[j].qty = intent[j].qty
           \/ \E p \in Procs : SetIntentStatus(p) /\ proc[p].i = j
<1>1. intent \in [Intents -> IntentRows]
  BY DEF ExecutionInv, TypeOK
<1> DEFINE Moved == /\ intent[j].status \in {"pending_approval", "approved", "submitting"}
                    /\ intent'[j].status \in {"approved", "rejected", "submitting"} \cup Unplaced
                    /\ intent'[j].broker = intent[j].broker /\ intent'[j].qty = intent[j].qty
<1>2. ASSUME NEW i \in Intents, NEW status \in {"approved", "rejected", "submitting"} \cup Unplaced,
             intent[i].status \in {"pending_approval", "approved", "submitting"},
             intent' = [intent EXCEPT ![i].status = status]
      PROVE  intent'[j] = intent[j] \/ Moved
  BY <1>1, <1>2 DEF IntentRows
<1>3. ASSUME NEW i \in Intents, NEW d \in Decisions, NEW q \in Quantities,
             PrepareIntent(i, d, q)
      PROVE  intent'[j] = intent[j] \/ i = j
  BY <1>1, <1>3 DEF PrepareIntent
<1>4. ASSUME NEW i \in Intents, NEW verdict \in {"approved", "rejected"},
             DecideEffect(i, verdict)
      PROVE  intent'[j] = intent[j] \/ Moved
  BY <1>2, <1>4 DEF DecideEffect
<1>5. ASSUME NEW p \in Procs, NEW i \in Intents, Request(p, i)
      PROVE  intent'[j] = intent[j] \/ Moved
  <2>1. ApproveFromChat(p, i) => DecideEffect(i, "approved")
    BY DEF ApproveFromChat
  <2>2. ~ApproveFromChat(p, i) => intent' = intent
    BY <1>5 DEF Request, SubmitRequest, ReconcileRequest, CancelRequest, TrackedRequest, stored
  <2>. QED
    BY <1>4, <2>1, <2>2
<1>6. ASSUME NEW p \in Procs, ThreadStep(p)
      PROVE  \/ intent'[j] = intent[j] \/ Moved
             \/ SetIntentStatus(p) /\ proc[p].i = j
  <2>1. CASE ClaimSubmission(p)
    <3>1. proc[p].i \in Intents
      BY <2>1, SubmitterAt DEF ClaimSubmission, At, SubmitterOK
    <3>. QED
      BY <1>2, <2>1, <3>1 DEF ClaimSubmission, Claimable
  <2>2. CASE MarkUnplaced(p)
    <3>1. /\ proc[p].i \in Intents /\ proc[p].to \in Unplaced
          /\ intent[proc[p].i].status = "submitting"
      BY <2>2, SubmitterAt DEF MarkUnplaced, At, SubmitterOK, HoldsClaim
    <3>. QED
      BY <1>2, <2>2, <3>1 DEF MarkUnplaced
  <2>3. CASE SetIntentStatus(p)
    BY <1>1, <2>3 DEF SetIntentStatus
  <2>4. ASSUME ~ClaimSubmission(p), ~MarkUnplaced(p), ~SetIntentStatus(p)
        PROVE  intent' = intent
    BY <1>6, <2>4 DEF ThreadStep, SubmitRead, CheckProvider, FindOrder, InsertOrder,
       RecheckAnalyzer, BrokerHandles, ReceiveAnswer, TransitionRead, TransitionWrite,
       PollBroker, CompareOrder, RecordFill, CancelAtBroker, stored
  <2>. QED
    BY <2>1, <2>2, <2>3, <2>4
<1>7. ASSUME \/ \E p \in Procs : Abandon(p)
             \/ \E b \in Brokers : BrokerMoves(b)
             \/ EmergencyCancel \/ ToggleAnalyzer \/ Restart \/ UNCHANGED vars
      PROVE  intent' = intent
  BY <1>7 DEF Abandon, BrokerMoves, EmergencyCancel, ToggleAnalyzer, Restart, stored, vars
<1>. QED
  BY <1>3, <1>4, <1>5, <1>6, <1>7 DEF Next, Decide

LEMMA IntentsFollow ==
    ASSUME ExecutionInv, FillInv, [Next]_vars, NEW j \in Intents
    PROVE  IntentFollows(j)'
<1>1. CASE \E d \in Decisions, q \in Quantities : PrepareIntent(j, d, q)
  BY <1>1 DEF PrepareIntent, ExecutionInv, TypeOK, IntentFollows, Tracked
<1>2. CASE \E p \in Procs : SetIntentStatus(p) /\ proc[p].i = j
  BY <1>2, FinisherFollows
<1>3. CASE intent'[j].broker = intent[j].broker
           /\ intent'[j].status \in {intent[j].status, "approved", "rejected", "submitting"}
                                    \cup Unplaced
  BY <1>3, IntentStays DEF Tracked, Unplaced
<1>. QED
  BY <1>1, <1>2, <1>3, IntentChange

-----------------------------------------------------------------------------
(* The fills *)

(* What has traded stays traded.                                           *)
LEMMA TradedKept ==
    ASSUME ExecutionInv, [Next]_vars, NEW d \in Decisions, Traded(d)
    PROVE  Traded(d)'
<1>1. PICK b \in Brokers : book[b].status = "complete" /\ intent[book[b].intent].decision = d
  BY DEF Traded
<1>2. book[b].intent \in Intents /\ intent[book[b].intent].status # "absent"
  BY <1>1 DEF ExecutionInv, TypeOK, BookEntries, BookOK
<1>3. book'[b].status = "complete" /\ book'[b].intent = book[b].intent
  BY <1>1, BookKept DEF Finished
<1>4. intent'[book[b].intent].decision = d
  BY <1>1, <1>2, DecisionKept
<1>. QED
  BY <1>3, <1>4 DEF Traded

(* Only reconcile records a fill, of an order it has seen complete.        *)
LEMMA FillsTraded ==
    ASSUME ExecutionInv, FillInv, [Next]_vars, NEW d \in Decisions, fill'[d] > 0
    PROVE  Traded(d)'
<1>1. CASE fill' = fill
  BY <1>1, TradedKept DEF FillInv
<1>2. ASSUME NEW p \in Procs, RecordFill(p)
      PROVE  Traded(d)'
  <2> DEFINE e == intent[proc[p].i].decision
  <2>1. /\ proc[p] # Idle /\ proc[p].pc = "fill" /\ ThreadFollows(p)
    BY <1>2 DEF RecordFill, At, Idle, FillInv
  <2>2. proc[p].b \in Brokers
    BY <2>1, TrackerAt DEF TrackerOK
  <2>3. proc[p].b # NoBroker
    BY <2>2, OEAssumption
  <2>4. book[proc[p].b].status = "complete" /\ book[proc[p].b].intent = proc[p].i
    BY <2>1, <2>3 DEF ThreadFollows
  <2>5. Traded(e)
    BY <2>2, <2>4 DEF Traded
  <2>6. CASE d = e
    BY <2>5, <2>6, TradedKept
  <2>7. CASE d # e
    <3>1. fill'[d] = fill[d]
      BY <1>2, <2>7 DEF RecordFill, ExecutionInv, TypeOK
    <3>. QED
      BY <3>1, TradedKept DEF FillInv
  <2>. QED
    BY <2>6, <2>7
<1>3. ASSUME NEW p \in Procs, ThreadStep(p), ~RecordFill(p)
      PROVE  fill' = fill
  BY <1>3 DEF ThreadStep, SubmitRead, CheckProvider, FindOrder, InsertOrder, ClaimSubmission,
     RecheckAnalyzer, BrokerHandles, ReceiveAnswer, MarkUnplaced, TransitionRead,
     TransitionWrite, SetIntentStatus, PollBroker, CompareOrder, CancelAtBroker, stored
<1>4. ASSUME NEW p \in Procs, NEW i \in Intents, Request(p, i)
      PROVE  fill' = fill
  BY <1>4 DEF Request, ApproveFromChat, DecideEffect, SubmitRequest, ReconcileRequest,
     CancelRequest, TrackedRequest, stored
<1>5. ASSUME \/ \E i \in Intents, e \in Decisions, q \in Quantities : PrepareIntent(i, e, q)
             \/ \E i \in Intents : Decide(i)
             \/ \E p \in Procs : Abandon(p)
             \/ \E b \in Brokers : BrokerMoves(b)
             \/ EmergencyCancel \/ ToggleAnalyzer \/ Restart \/ UNCHANGED vars
      PROVE  fill' = fill
  BY <1>5 DEF PrepareIntent, Decide, DecideEffect, Abandon, BrokerMoves, EmergencyCancel,
     ToggleAnalyzer, Restart, stored, vars
<1>. QED
  BY <1>1, <1>2, <1>3, <1>4, <1>5 DEF Next

-----------------------------------------------------------------------------
(* FillInv is inductive beside ExecutionInv. *)
LEMMA FillInvariance == Spec => []FillInv
<1>1. Init => FillInv
  BY DEF Init, FillInv, ThreadFollows, IntentFollows, NoIntentRow, Tracked
<1>2. ExecutionInv /\ FillInv /\ [Next]_vars => FillInv'
  BY ThreadsFollow, IntentsFollow, FillsTraded DEF FillInv
<1>. QED
  BY <1>1, <1>2, Invariance, PTL DEF Spec

(* However threads race, die and come back late, and though several        *)
(* intents share one order row: the broker holds at most one order of an   *)
(* intent, no fill is on record for a decision on which the broker did not *)
(* trade, and reconcile never records a fill on an order row that was not  *)
(* submitted, so record_simulated_fill's CREATED branch is dead for it.    *)
THEOREM FillsAndOrdersReal == Spec => []OrdersAndFillsAreReal
<1>1. ExecutionInv /\ FillInv => FillsAreReal
  <2> SUFFICES ASSUME ExecutionInv, FillInv PROVE FillsAreReal
    OBVIOUS
  <2>1. \A d \in Decisions : fill[d] > 0 => Traded(d)
    BY DEF FillInv
  <2>2. ASSUME NEW p \in Procs, At(p, "fill")
        PROVE  PastCreated(intent[proc[p].i].decision)
    <3>1. proc[p] # Idle /\ proc[p].op \in {"reconcile", "cancel"}
      BY <2>2, TrackerAt DEF At, Idle
    <3>. QED
      BY <3>1 DEF FillInv, ThreadFollows
  <2>. QED
    BY <2>1, <2>2 DEF FillsAreReal, Traded, PastCreated
<1>2. AtMostOneOrderPerIntent /\ FillsAreReal => OrdersAndFillsAreReal
  BY DEF OrdersAndFillsAreReal
<1>. QED
  BY <1>1, <1>2, Invariance, FillInvariance, NoDoubleOrder, PTL

(***************************************************************************)
(* A decision with one intent                                              *)
(***************************************************************************)
\* The quantities an intent may have: one only, so a decision has one intent.
OneQuantity == \A m, n \in Quantities : m = n

Verdicts == {"filled", "rejected", "cancelled"}

\* What a thread knows of the broker's verdict and of the order row, when no
\* other intent writes that row.
ThreadKnows(p) ==
    LET r == proc[p]
        s == order[intent[r.i].decision].status
    IN
    r # Idle =>
        /\ r.op \in {"reconcile", "cancel"} =>
              /\ r.b = intent[r.i].broker
              /\ r.to \in Verdicts => r.to = Reconciled[book[r.b].status]
        /\ r.op = "submit" /\ r.pc \in {"transition", "write"} /\ r.to \in Unplaced
              => intent[r.i].status \in Unplaced
        /\ r.pc = "write" /\ s \in TerminalOrder => s = OrderTarget(r.to)
        /\ r.pc = "finish" /\ r.to \in Verdicts => s = r.to

\* What the intent row says, the order row and the broker say too.
IntentAgrees(i) ==
    LET s == order[intent[i].decision].status IN
    intent[i].status # "absent" =>
        /\ intent[i].qty \in Quantities
        /\ s = "failed" => intent[i].status \in Unplaced
        /\ intent[i].status \in {"filled", "cancelled"} =>
              /\ s = intent[i].status
              /\ intent[i].broker # NoBroker
              /\ intent[i].status = Reconciled[book[intent[i].broker].status]

OneIntentPerDecision ==
    \A i, j \in Intents :
        /\ intent[i].status # "absent" /\ intent[j].status # "absent"
        /\ intent[i].decision = intent[j].decision
        => i = j

OrdersHaveIntents ==
    \A d \in Decisions : order[d].status # "none" =>
        \E i \in Intents : intent[i].status # "absent" /\ intent[i].decision = d

BooksInv ==
    /\ \A p \in Procs : ThreadKnows(p)
    /\ \A i \in Intents : IntentAgrees(i)
    /\ OneIntentPerDecision
    /\ OrdersHaveIntents

(* An intent that exists goes on existing, on its decision; one that was   *)
(* given up stays so; one that is tracked keeps its broker id.             *)
LEMMA PresentKept ==
    ASSUME ExecutionInv, [Next]_vars, NEW i \in Intents, intent[i].status # "absent"
    PROVE  /\ intent'[i].status # "absent" /\ intent'[i].decision = intent[i].decision
           /\ intent[i].status \in Unplaced => intent'[i].status = intent[i].status
<1>1. ASSUME NEW j \in Intents, IntentStep(j)
      PROVE  /\ intent'[i].status # "absent"
             /\ intent[i].status \in Unplaced => intent'[i].status = intent[i].status
  BY <1>1 DEF IntentStep, Created, Decided, Claimed, Resolved, Unplaced, Handled, Tracked
<1>2. /\ intent'[i].status # "absent"
      /\ intent[i].status \in Unplaced => intent'[i].status = intent[i].status
  BY <1>1, StepShape DEF SameIntents, OrderStep
<1>. QED
  BY <1>2, DecisionKept

LEMMA BrokerIdKept ==
    ASSUME ExecutionInv, [Next]_vars, NEW i \in Intents, intent[i].status \in Handled
    PROVE  intent'[i].broker = intent[i].broker
<1>1. ASSUME NEW p \in Procs, SetIntentStatus(p), proc[p].i = i
      PROVE  intent'[i].broker = intent[i].broker
  <2>1. proc[p].op # "submit"
    BY <1>1, WriterAt DEF SetIntentStatus, At, SubmitterOK, HoldsClaim, Handled, Tracked
  <2>. QED
    BY <1>1, <2>1 DEF SetIntentStatus, ExecutionInv, TypeOK, IntentRows
<1>2. ASSUME NEW d \in Decisions, NEW q \in Quantities, PrepareIntent(i, d, q)
      PROVE  FALSE
  BY <1>2 DEF PrepareIntent, Handled, Tracked
<1>. QED
  BY <1>1, <1>2, IntentChange

(* The broker's statuses and the verdicts they stand for.                  *)
LEMMA BrokerVerdict ==
    ASSUME ExecutionInv, NEW b \in Brokers, book[b].status # "none"
    PROVE  LET s == book[b].status IN
           /\ s \in Working => Reconciled[s] \notin Verdicts
           /\ Reconciled[s] \in Verdicts <=> s \in Finished
           /\ Reconciled[s] = "filled" <=> s = "complete"
           /\ Reconciled[s] = "cancelled" <=> s = "cancelled"
<1>1. book[b].status \in {"open", "pending", "complete", "rejected", "cancelled"}
  BY OEAssumption DEF ExecutionInv, BookOK
<1>. QED
  BY <1>1, OEAssumption DEF Reconciled, Verdicts, Finished

LEMMA TrackerIs ==
    ASSUME ExecutionInv, NEW p \in Procs, proc[p].op \in {"reconcile", "cancel"}
    PROVE  TrackerOK(p)
  BY DEF ExecutionInv, ThreadsOK, ThreadOK, Idle

LEMMA SubmitterIs ==
    ASSUME ExecutionInv, NEW p \in Procs, proc[p].op = "submit"
    PROVE  SubmitterOK(p)
  BY DEF ExecutionInv, ThreadsOK, ThreadOK, Idle

(* Two threads about to write the order row of one intent write the same.  *)
LEMMA WritersAgree ==
    ASSUME ExecutionInv, BooksInv, NEW p \in Procs, NEW q \in Procs,
           proc[p].pc = "write", proc[q].pc = "write", proc[p].i = proc[q].i
    PROVE  OrderTarget(proc[p].to) = OrderTarget(proc[q].to)
<1>1. proc[p] # Idle /\ proc[q] # Idle /\ ThreadKnows(p) /\ ThreadKnows(q)
  BY DEF BooksInv, Idle
<1>2. ASSUME NEW r \in {p, q}, proc[r].op = "submit"
      PROVE  \/ proc[r].to \in Unplaced /\ intent[proc[r].i].status \in Unplaced
             \/ proc[r].to = "submitted" /\ intent[proc[r].i].status = "submitting"
  <2>1. SubmitterOK(r)
    BY <1>2, SubmitterIs
  <2>2. proc[r].to \in Unplaced \cup {"submitted"}
    BY <2>1 DEF SubmitterOK
  <2>. QED
    BY <1>1, <1>2, <2>1, <2>2 DEF SubmitterOK, HoldsClaim, ThreadKnows
<1>3. ASSUME NEW r \in {p, q}, proc[r].op \in {"reconcile", "cancel"}
      PROVE  /\ intent[proc[r].i].status \in Handled /\ proc[r].to \in Verdicts
             /\ proc[r].to = Reconciled[book[intent[proc[r].i].broker].status]
  <2>1. TrackerOK(r)
    BY <1>3, TrackerIs
  <2>2. proc[r].to \in Verdicts /\ intent[proc[r].i].status \in Handled
    BY <2>1 DEF TrackerOK, Verdicts
  <2>. QED
    BY <1>1, <1>3, <2>2 DEF ThreadKnows
<1>4. proc[p].op \in {"submit", "reconcile", "cancel"}
      /\ proc[q].op \in {"submit", "reconcile", "cancel"}
  BY WriterAt
<1>5. CASE proc[p].op = "submit" /\ proc[q].op = "submit"
  BY <1>2, <1>5 DEF OrderTarget, Unplaced
<1>6. CASE proc[p].op # "submit" /\ proc[q].op # "submit"
  BY <1>3, <1>4, <1>6
<1>7. CASE (proc[p].op = "submit") # (proc[q].op = "submit")
  BY <1>2, <1>3, <1>4, <1>7 DEF Unplaced, Handled, Tracked
<1>. QED
  BY <1>5, <1>6, <1>7

(* Two intents of one decision are one.                                    *)
LEMMA SameIntent ==
    ASSUME ExecutionInv, BooksInv, NEW p \in Procs, proc[p] # Idle,
           NEW i \in Intents, intent[i].status # "absent",
           intent[i].decision = intent[proc[p].i].decision
    PROVE  proc[p].i = i
  BY AtWork DEF BooksInv, OneIntentPerDecision

(* A terminal order row stays as it is.                                    *)
LEMMA RowFinal ==
    ASSUME ExecutionInv, BooksInv, [Next]_vars, NEW d \in Decisions,
           order[d].status \in TerminalOrder
    PROVE  order'[d].status = order[d].status
<1>1. ASSUME NEW p \in Procs, TransitionWrite(p), d = intent[proc[p].i].decision
      PROVE  order[d].status = OrderTarget(proc[p].to)
  <2>1. proc[p] # Idle /\ proc[p].pc = "write"
    BY <1>1 DEF TransitionWrite, At, Idle
  <2>. QED
    BY <1>1, <2>1 DEF BooksInv, ThreadKnows
<1>2. order[d].status # "none"
  BY DEF TerminalOrder
<1>. QED
  BY <1>1, <1>2, OrderChange

(* A row is failed only by a submission that was given up.                 *)
LEMMA FailedRow ==
    ASSUME ExecutionInv, BooksInv, [Next]_vars, NEW i \in Intents,
           intent[i].status # "absent",
           order'[intent[i].decision].status = "failed"
    PROVE  intent'[i].status \in Unplaced
<1>1. SUFFICES intent[i].status \in Unplaced
  BY PresentKept
<1>2. PICK d \in Decisions : d = intent[i].decision
  BY DEF ExecutionInv, IntentsOK
<1>3. CASE order[d].status = "failed"
  BY <1>2, <1>3 DEF BooksInv, IntentAgrees
<1>4. ASSUME NEW p \in Procs, TransitionWrite(p), d = intent[proc[p].i].decision,
             OrderTarget(proc[p].to) = "failed"
      PROVE  intent[i].status \in Unplaced
  <2>1. proc[p] # Idle /\ proc[p].pc = "write"
    BY <1>4 DEF TransitionWrite, At, Idle
  <2>2. proc[p].i = i
    BY <1>2, <1>4, <2>1, SameIntent
  <2>3. proc[p].op = "submit" /\ proc[p].to \in Unplaced
    BY <1>4, <2>1, WriterAt DEF OrderTarget, SubmitterOK, TrackerOK, Unplaced
  <2>. QED
    BY <2>1, <2>2, <2>3 DEF BooksInv, ThreadKnows
<1>. QED
  BY <1>2, <1>3, <1>4, OrderChange

(* A thread that stays with its operation, intent and order knows of them  *)
(* what it knew; only its pc and its verdict need looking at.              *)
LEMMA Knows ==
    ASSUME ExecutionInv, BooksInv, [Next]_vars, NEW p \in Procs, proc[p] # Idle,
           NEW i \in Intents, i = proc[p].i,
           NEW d \in Decisions, d = intent[i].decision,
           proc'[p].op = proc[p].op, proc'[p].i = i, proc'[p].b = proc[p].b,
           proc[p].op # "submit" /\ proc'[p].to \in Verdicts =>
              \/ proc'[p].to = proc[p].to
              \/ proc'[p].to = Reconciled[book'[proc[p].b].status],
           proc[p].op = "submit" /\ proc'[p].pc \in {"transition", "write"}
           /\ proc'[p].to \in Unplaced =>
              \/ proc[p].pc \in {"transition", "write"} /\ proc'[p].to = proc[p].to
              \/ intent'[i].status \in Unplaced,
           proc'[p].pc = "write" =>
              /\ proc'[p].to = proc[p].to
              /\ proc[p].pc = "write" \/ order'[d].status \notin TerminalOrder,
           proc'[p].pc = "finish" /\ proc'[p].to \in Verdicts =>
              \/ proc[p].pc = "finish" /\ proc'[p].to = proc[p].to
              \/ order[d].status = proc'[p].to
              \/ order'[d].status = proc'[p].to
    PROVE  ThreadKnows(p)'
<1>1. ThreadKnows(p) /\ intent[i].status # "absent"
  BY AtWork DEF BooksInv
<1>2. intent'[i].decision = d
  BY <1>1, PresentKept
<1>3. ASSUME proc[p].op \in {"reconcile", "cancel"}
      PROVE  /\ proc[p].b = intent'[i].broker
             /\ proc'[p].to \in Verdicts
                  => proc'[p].to = Reconciled[book'[proc[p].b].status]
  <2>1. /\ proc[p].b \in Brokers /\ book[proc[p].b].status # "none"
        /\ intent[i].status \in Handled
    BY <1>3, TrackerIs DEF TrackerOK
  <2>2. proc[p].b = intent'[i].broker
    BY <1>1, <1>3, <2>1, BrokerIdKept DEF ThreadKnows
  <2>3. ASSUME proc'[p].to \in Verdicts, proc'[p].to = proc[p].to
        PROVE  proc'[p].to = Reconciled[book'[proc[p].b].status]
    <3>1. proc[p].to = Reconciled[book[proc[p].b].status]
      BY <1>1, <1>3, <2>3 DEF ThreadKnows
    <3>2. book[proc[p].b].status \in Finished
      BY <2>1, <2>3, <3>1, BrokerVerdict
    <3>. QED
      BY <2>1, <2>3, <3>1, <3>2, BookKept
  <2>. QED
    BY <1>3, <2>2, <2>3
<1>4. proc[p].op = "submit" /\ proc'[p].pc \in {"transition", "write"}
      /\ proc'[p].to \in Unplaced => intent'[i].status \in Unplaced
  <2>1. proc[p].op = "submit" /\ proc[p].pc \in {"transition", "write"}
        /\ proc[p].to \in Unplaced => intent[i].status \in Unplaced
    BY <1>1 DEF ThreadKnows
  <2>. QED
    BY <1>1, <2>1, PresentKept
<1>5. ASSUME proc'[p].pc = "write", order'[d].status \in TerminalOrder
      PROVE  order'[d].status = OrderTarget(proc'[p].to)
  <2>1. proc[p].pc = "write" /\ proc'[p].to = proc[p].to
    BY <1>5
  <2>2. CASE order'[d].status = order[d].status
    BY <1>1, <1>5, <2>1, <2>2 DEF ThreadKnows
  <2>3. CASE order'[d].status = "created"
    BY <1>5, <2>3 DEF TerminalOrder, ValidTransitions, OrderStatus
  <2>4. ASSUME NEW w \in Procs, TransitionWrite(w), d = intent[proc[w].i].decision,
               order'[d].status = OrderTarget(proc[w].to)
        PROVE  order'[d].status = OrderTarget(proc'[p].to)
    <3>1. proc[w] # Idle /\ proc[w].pc = "write"
      BY <2>4 DEF TransitionWrite, At, Idle
    <3>2. proc[w].i = proc[p].i
      BY <1>1, <2>4, <3>1, SameIntent
    <3>. QED
      BY <2>1, <2>4, <3>1, <3>2, WritersAgree
  <2>. QED
    BY <2>2, <2>3, <2>4, OrderChange
<1>6. ASSUME proc'[p].pc = "finish", proc'[p].to \in Verdicts
      PROVE  order'[d].status = proc'[p].to
  <2>1. \/ order[d].status = proc'[p].to
        \/ order'[d].status = proc'[p].to
    BY <1>1, <1>6 DEF ThreadKnows
  <2>2. proc'[p].to \in TerminalOrder
    BY <1>6 DEF Verdicts, TerminalOrder, ValidTransitions, OrderStatus
  <2>. QED
    BY <2>1, <2>2, RowFinal
<1>. QED
  BY <1>2, <1>3, <1>4, <1>5, <1>6 DEF ThreadKnows

(* Every step of a running thread. *)
LEMMA MoverKnows ==
    ASSUME ExecutionInv, BooksInv, [Next]_vars, NEW p \in Procs, ThreadStep(p)
    PROVE  ThreadKnows(p)'
<1>1. proc \in [Procs -> Threads]
  BY DEF ExecutionInv, TypeOK
<1>2. CASE Leave(p)
  BY <1>1, <1>2, LeaveFacts DEF ThreadKnows
<1>3. proc[p].op = "submit" /\ proc'[p].op = "submit"
      /\ proc'[p].pc \notin {"transition", "write", "finish"} => ThreadKnows(p)'
  BY DEF ThreadKnows
<1>4. CASE /\ \/ SubmitRead(p) \/ CheckProvider(p) \/ FindOrder(p) \/ InsertOrder(p)
              \/ ClaimSubmission(p)
           /\ ~Leave(p)
  <2>1. \E pc \in {"check", "find", "insert", "claim", "post", "recheck"} : Goto(p, pc)
    BY <1>4 DEF SubmitRead, CheckProvider, FindOrder, InsertOrder, ClaimSubmission
  <2>2. proc[p].op = "submit"
    BY <1>4, SubmitterAt DEF SubmitRead, CheckProvider, FindOrder, InsertOrder,
       ClaimSubmission, At
  <2>. QED
    BY <1>1, <1>3, <2>1, <2>2, GotoFacts DEF ProcPC
<1>5. CASE (RecheckAnalyzer(p) \/ BrokerHandles(p) \/ ReceiveAnswer(p)) /\ ~Leave(p)
  <2>1. proc[p].op = "submit"
    BY <1>5, SubmitterAt DEF RecheckAnalyzer, BrokerHandles, ReceiveAnswer, At
  <2>2. /\ proc'[p].op = proc[p].op
        /\ \/ proc'[p].pc \in {"post", "mark", "answer"}
           \/ proc'[p].pc = "transition" /\ proc'[p].to = "submitted"
    BY <1>1, <1>5 DEF RecheckAnalyzer, BrokerHandles, ReceiveAnswer, Goto, Steer, Threads
  <2>. QED
    BY <1>3, <2>1, <2>2 DEF ThreadKnows, Unplaced
<1> DEFINE i == proc[p].i
           d == intent[i].decision
<1>6. /\ proc[p] # Idle /\ i \in Intents /\ d \in Decisions
      /\ intent[i].status # "absent"
  BY StepAtWork, AtWork
<1>7. CASE MarkUnplaced(p)
  <2>1. proc[p].op = "submit" /\ Goto(p, "transition")
    BY <1>7, SubmitterAt DEF MarkUnplaced, At
  <2>2. intent'[i].status = proc[p].to /\ proc[p].to \in Unplaced
    BY <1>6, <1>7, SubmitterAt DEF MarkUnplaced, At, SubmitterOK, ExecutionInv, TypeOK,
       IntentRows
  <2>. QED
    BY <1>1, <1>6, <2>1, <2>2, GotoFacts DEF ThreadKnows, ProcPC
<1>8. CASE TransitionRead(p) /\ ~Leave(p)
  <2>1. /\ proc[p].pc = "transition" /\ Goto(p, "write") /\ order' = order
        /\ OrderTarget(proc[p].to) \in ValidTransitions[order[d].status]
    BY <1>8 DEF TransitionRead, At, stored
  <2>2. order'[d].status \notin TerminalOrder
    BY <2>1 DEF TerminalOrder
  <2>. QED
    BY <1>1, <1>6, <2>1, <2>2, GotoFacts, Knows DEF ProcPC
<1>9. CASE TransitionWrite(p) /\ ~Leave(p)
  <2>1. Goto(p, "finish") /\ proc[p].to \notin Unplaced
    BY <1>9 DEF TransitionWrite
  <2>2. order'[d].status = proc[p].to
    BY <1>6, <1>9, <2>1 DEF TransitionWrite, OrderTarget, Unplaced, ExecutionInv, TypeOK,
       OrderRows
  <2>. QED
    BY <1>1, <1>6, <2>1, <2>2, GotoFacts, Knows DEF ProcPC
<1>10. CASE SetIntentStatus(p)
  BY <1>2, <1>10 DEF SetIntentStatus
<1>11. CASE PollBroker(p)
  <2> DEFINE s == book[proc[p].b].status
  <2>1. /\ proc[p].op # "submit" /\ proc[p].b \in Brokers /\ s # "none" /\ book' = book
    BY <1>11, TrackerAt DEF PollBroker, At, TrackerOK
  <2>2. s \in {"open", "pending", "complete", "rejected", "cancelled"}
    BY <2>1, OEAssumption DEF ExecutionInv, BookOK
  <2>3. Reconciled[s] \in IntentStatus
    BY <2>2 DEF Reconciled, IntentStatus
  <2>4. PICK pc \in {"finish", "compare"} :
           Steer(p, pc, Reconciled[s]) /\ (pc = "finish" => s \in Working)
    BY <1>11 DEF PollBroker
  <2>5. pc = "finish" => Reconciled[s] \notin Verdicts
    BY <2>1, <2>4, BrokerVerdict
  <2>. QED
    BY <1>1, <1>6, <2>1, <2>3, <2>4, <2>5, SteerFacts, Knows DEF ProcPC
<1>12. CASE CompareOrder(p)
  <2>1. proc[p].op # "submit"
    BY <1>12, TrackerAt DEF CompareOrder, At
  <2>2. PICK pc \in {"finish", "fill", "transition"} :
           Goto(p, pc) /\ (pc = "finish" => order[d].status = proc[p].to)
    BY <1>12 DEF CompareOrder
  <2>. QED
    BY <1>1, <1>6, <2>1, <2>2, GotoFacts, Knows DEF ProcPC
<1>13. CASE RecordFill(p)
  <2>1. proc[p].op # "submit" /\ Goto(p, "transition")
    BY <1>13, TrackerAt DEF RecordFill, At
  <2>. QED
    BY <1>1, <1>6, <2>1, GotoFacts, Knows DEF ProcPC
<1>14. CASE CancelAtBroker(p) /\ ~Leave(p)
  <2>1. proc[p].op # "submit" /\ proc[p].b \in Brokers
    BY <1>14, TrackerAt DEF CancelAtBroker, At, TrackerOK
  <2>2. Steer(p, "transition", "cancelled") /\ book'[proc[p].b].status = "cancelled"
    BY <1>14, <2>1 DEF CancelAtBroker, ExecutionInv, TypeOK, BookEntries
  <2>3. Reconciled["cancelled"] = "cancelled" /\ "cancelled" \in IntentStatus
    BY DEF Reconciled, IntentStatus
  <2>. QED
    BY <1>1, <1>6, <2>1, <2>2, <2>3, SteerFacts, Knows DEF ProcPC
<1>. QED
  BY <1>2, <1>4, <1>5, <1>7, <1>8, <1>9, <1>10, <1>11, <1>12, <1>13, <1>14 DEF ThreadStep

LEMMA ThreadsKnow ==
    ASSUME ExecutionInv, BooksInv, [Next]_vars, NEW q \in Procs
    PROVE  ThreadKnows(q)'
<1>1. CASE proc'[q] = proc[q] /\ proc[q] # Idle
  <2>1. PICK i \in Intents : i = proc[q].i
    BY <1>1, AtWork
  <2>2. PICK d \in Decisions : d = intent[i].decision
    BY <1>1, <2>1, AtWork
  <2>. QED
    BY <1>1, <2>1, <2>2, Knows
<1>2. CASE proc'[q] = Idle
  BY <1>2 DEF ThreadKnows
<1>3. ASSUME NEW p \in Procs, ThreadStep(p)
      PROVE  ThreadKnows(q)'
  BY <1>1, <1>2, <1>3, GateStep, MoverKnows
<1>4. ASSUME NEW p \in Procs, NEW i \in Intents, Request(p, i)
      PROVE  ThreadKnows(q)'
  <2>1. proc \in [Procs -> Threads]
    BY DEF ExecutionInv, TypeOK
  <2>2. CASE q # p
    BY <1>1, <1>2, <1>4, <2>1, <2>2 DEF Request, ApproveFromChat, SubmitRequest,
       ReconcileRequest, CancelRequest, TrackedRequest
  <2>3. CASE q = p /\ (ApproveFromChat(p, i) \/ SubmitRequest(p, i))
    <3>1. proc'[q] = [op |-> "submit", pc |-> "start", i |-> i, b |-> NoBroker, to |-> "none"]
      BY <2>1, <2>3 DEF ApproveFromChat, SubmitRequest
    <3>. QED
      BY <3>1 DEF ThreadKnows
  <2>4. ASSUME NEW op \in {"reconcile", "cancel"}, NEW pc \in {"poll", "cancel"},
               TrackedRequest(p, i, op, pc), q = p
        PROVE  ThreadKnows(q)'
    <3>1. /\ proc'[q] = [op |-> op, pc |-> pc, i |-> i, b |-> intent[i].broker, to |-> "none"]
          /\ intent' = intent
      BY <2>1, <2>4 DEF TrackedRequest, stored
    <3>. QED
      BY <3>1 DEF ThreadKnows, Verdicts
  <2>. QED
    BY <1>4, <2>2, <2>3, <2>4 DEF Request, ReconcileRequest, CancelRequest
<1>5. ASSUME NEW p \in Procs, Abandon(p)
      PROVE  proc'[q] = proc[q] \/ proc'[q] = Idle
  BY <1>5, LeaveFacts DEF Abandon, ExecutionInv, TypeOK
<1>6. CASE Restart
  BY <1>2, <1>6 DEF Restart
<1>7. ASSUME \/ \E i \in Intents, d \in Decisions, n \in Quantities : PrepareIntent(i, d, n)
             \/ \E i \in Intents : Decide(i)
             \/ \E b \in Brokers : BrokerMoves(b)
             \/ EmergencyCancel \/ ToggleAnalyzer \/ UNCHANGED vars
      PROVE  proc' = proc
  BY <1>7 DEF PrepareIntent, Decide, BrokerMoves, EmergencyCancel, ToggleAnalyzer, vars
<1>. QED
  BY <1>1, <1>2, <1>3, <1>4, <1>5, <1>6, <1>7 DEF Next

(* The row of an intent, after any step.                                   *)
LEMMA IntentsAgree ==
    ASSUME ExecutionInv, BooksInv, [Next]_vars, OneQuantity, NEW i \in Intents
    PROVE  IntentAgrees(i)'
<1>1. CASE intent[i].status = "absent"
  <2>1. CASE intent'[i] = intent[i]
    BY <1>1, <2>1 DEF IntentAgrees
  <2>2. ASSUME NEW d \in Decisions, NEW q \in Quantities, PrepareIntent(i, d, q)
        PROVE  IntentAgrees(i)'
    <3>1. /\ intent'[i].decision = d /\ intent'[i].qty = q /\ order' = order
          /\ intent'[i].status \in {"pending_approval", "approved"}
      BY <2>2 DEF PrepareIntent, ExecutionInv, TypeOK
    <3>2. order[d].status # "failed"
      <4>1. ASSUME order[d].status = "failed" PROVE FALSE
        <5>1. PICK j \in Intents : intent[j].status # "absent" /\ intent[j].decision = d
          BY <4>1 DEF BooksInv, OrdersHaveIntents
        <5>2. intent[j].status \in Unplaced /\ intent[j].qty \in Quantities
          BY <4>1, <5>1 DEF BooksInv, IntentAgrees
        <5>. QED
          BY <2>2, <5>1, <5>2 DEF PrepareIntent, OneQuantity
      <4>. QED
        BY <4>1
    <3>. QED
      BY <3>1, <3>2 DEF IntentAgrees
  <2>3. ASSUME NEW p \in Procs, SetIntentStatus(p), proc[p].i = i
        PROVE  FALSE
    BY <1>1, <2>3, AtWork DEF SetIntentStatus, At, Idle
  <2>. QED
    BY <1>1, <2>1, <2>2, <2>3, IntentChange
<1>2. ASSUME intent[i].status # "absent"
      PROVE  IntentAgrees(i)'
  <2>1. PICK d \in Decisions : d = intent[i].decision
    BY <1>2 DEF ExecutionInv, IntentsOK
  <2>2. intent'[i].decision = d /\ IntentAgrees(i)
    BY <1>2, <2>1, PresentKept DEF BooksInv
  <2>3. order'[d].status = "failed" => intent'[i].status \in Unplaced
    BY <1>2, <2>1, FailedRow
  <2> DEFINE Agrees == /\ order'[d].status = intent'[i].status
                       /\ intent'[i].broker # NoBroker
                       /\ intent'[i].status = Reconciled[book'[intent'[i].broker].status]
  <2>4. ASSUME intent'[i] = intent[i], intent[i].status \in {"filled", "cancelled"}
        PROVE  Agrees
    <3> DEFINE b == intent[i].broker
    <3>1. /\ order[d].status = intent[i].status
          /\ b # NoBroker /\ intent[i].status = Reconciled[book[b].status]
      BY <1>2, <2>1, <2>2, <2>4 DEF IntentAgrees
    <3>2. order[d].status \in TerminalOrder
      BY <2>4, <3>1 DEF TerminalOrder, ValidTransitions, OrderStatus
    <3>3. b \in Brokers /\ book[b].status # "none"
      BY <3>1 DEF ExecutionInv, TypeOK, IntentRows, IntentsOK
    <3>4. book[b].status \in Finished
      BY <2>4, <3>1, <3>3, BrokerVerdict DEF Verdicts
    <3>. QED
      BY <2>4, <3>1, <3>2, <3>3, <3>4, RowFinal, BookKept
  <2>5. ASSUME NEW p \in Procs, SetIntentStatus(p), proc[p].i = i,
               intent'[i].status \in {"filled", "cancelled"}
        PROVE  Agrees
    <3>1. proc[p] # Idle /\ proc[p].pc = "finish" /\ order' = order /\ book' = book
      BY <2>5 DEF SetIntentStatus, At, Idle
    <3>2. /\ intent'[i].status = proc[p].to
          /\ intent'[i].broker = IF proc[p].op = "submit" THEN proc[p].b
                                 ELSE intent[i].broker
      BY <2>5 DEF SetIntentStatus, ExecutionInv, TypeOK, IntentRows
    <3>3. proc[p].op \in {"reconcile", "cancel"} /\ proc[p].b \in Brokers
      BY <2>5, <3>1, <3>2, WriterAt DEF SubmitterOK, TrackerOK
    <3>4. /\ proc[p].to = order[d].status
          /\ proc[p].b = intent[i].broker
          /\ proc[p].to = Reconciled[book[proc[p].b].status]
      BY <2>1, <2>5, <3>1, <3>2, <3>3 DEF BooksInv, ThreadKnows, Verdicts
    <3>. QED
      BY <3>1, <3>2, <3>3, <3>4, OEAssumption
  <2>6. intent'[i].status \in {"filled", "cancelled"} => Agrees
    BY <1>2, <2>4, <2>5, IntentChange DEF PrepareIntent, Unplaced
  <2>7. intent'[i].qty = intent[i].qty
    <3>1. ASSUME NEW p \in Procs, SetIntentStatus(p), proc[p].i = i
          PROVE  intent'[i].qty = intent[i].qty
      BY <3>1 DEF SetIntentStatus, ExecutionInv, TypeOK, IntentRows
    <3>. QED
      BY <1>2, <3>1, IntentChange DEF PrepareIntent
  <2>. QED
    BY <1>2, <2>2, <2>3, <2>6, <2>7 DEF IntentAgrees
<1>. QED
  BY <1>1, <1>2

(* An intent that appears in a step was prepared in it.                    *)
LEMMA Appears ==
    ASSUME ExecutionInv, [Next]_vars, NEW i \in Intents,
           intent[i].status = "absent", intent'[i].status # "absent"
    PROVE  \E d \in Decisions, q \in Quantities : PrepareIntent(i, d, q)
<1>1. ASSUME NEW p \in Procs, SetIntentStatus(p), proc[p].i = i
      PROVE  FALSE
  BY <1>1, AtWork DEF SetIntentStatus, At, Idle
<1>. QED
  BY <1>1, IntentChange

(* prepare_intent refuses a decision that has an intent already.           *)
LEMMA OneIntentKept ==
    ASSUME ExecutionInv, BooksInv, [Next]_vars, OneQuantity
    PROVE  OneIntentPerDecision'
<1>1. ASSUME NEW i \in Intents, NEW j \in Intents, i # j,
             intent[i].status = "absent", intent'[i].status # "absent",
             intent'[j].status # "absent"
      PROVE  intent'[i].decision # intent'[j].decision
  <2>1. PICK d \in Decisions, q \in Quantities : PrepareIntent(i, d, q)
    BY <1>1, Appears
  <2>2. intent'[i].decision = d /\ intent'[j] = intent[j]
    BY <1>1, <2>1 DEF PrepareIntent, ExecutionInv, TypeOK
  <2>3. intent[j].qty \in Quantities
    BY <1>1, <2>2 DEF BooksInv, IntentAgrees
  <2>4. intent[j].decision # d
    BY <2>1, <2>3 DEF PrepareIntent, OneQuantity
  <2>. QED
    BY <2>2, <2>4
<1>2. ASSUME NEW i \in Intents, NEW j \in Intents,
             intent[i].status # "absent", intent[j].status # "absent",
             intent'[i].decision = intent'[j].decision
      PROVE  i = j
  BY <1>2, PresentKept DEF BooksInv, OneIntentPerDecision
<1>. QED
  BY <1>1, <1>2 DEF OneIntentPerDecision

(* create_order is called for an intent.                                   *)
LEMMA OrdersHaveKept ==
    ASSUME ExecutionInv, BooksInv, [Next]_vars
    PROVE  OrdersHaveIntents'
<1> SUFFICES ASSUME NEW d \in Decisions, order'[d].status # "none"
             PROVE  \E i \in Intents : intent'[i].status # "absent"
                                       /\ intent'[i].decision = d
  BY DEF OrdersHaveIntents
<1>1. ASSUME NEW p \in Procs, InsertOrder(p) \/ TransitionWrite(p),
             d = intent[proc[p].i].decision
      PROVE  proc[p].i \in Intents /\ intent[proc[p].i].status # "absent"
  <2>1. At(p, "insert") \/ At(p, "write")
    BY <1>1 DEF InsertOrder, TransitionWrite
  <2>2. proc[p] # Idle
    BY <2>1 DEF At, Idle
  <2>. QED
    BY <2>2, AtWork
<1>2. \E i \in Intents : intent[i].status # "absent" /\ intent[i].decision = d
  BY <1>1, OrderChange DEF BooksInv, OrdersHaveIntents
<1>. QED
  BY <1>2, PresentKept

LEMMA BooksInvariance == ASSUME OneQuantity PROVE Spec => []BooksInv
<1>1. Init => BooksInv
  BY DEF Init, BooksInv, ThreadKnows, IntentAgrees, OneIntentPerDecision,
     OrdersHaveIntents, NoIntentRow, NoOrder
<1>2. ExecutionInv /\ BooksInv /\ [Next]_vars => BooksInv'
  BY ThreadsKnow, IntentsAgree, OneIntentKept, OrdersHaveKept DEF BooksInv
<1>. QED
  BY <1>1, <1>2, Invariance, PTL DEF Spec

(* Where a decision has one intent, the platform's books agree with the    *)
(* broker's however late an answer is read: an intent reported filled or   *)
(* cancelled is so at the broker, and the order row already says it.       *)
THEOREM BooksAgreeAlways == ASSUME OneQuantity PROVE Spec => []BooksAgree
<1>1. ExecutionInv /\ BooksInv => SettledAgreesWithBroker
  <2> SUFFICES ASSUME ExecutionInv, BooksInv, NEW i \in Intents,
                      intent[i].status \in {"filled", "cancelled"}
               PROVE  /\ intent[i].status = "filled"
                            => book[intent[i].broker].status = "complete"
                      /\ intent[i].status = "cancelled"
                            => book[intent[i].broker].status = "cancelled"
    BY DEF SettledAgreesWithBroker
  <2>1. /\ intent[i].broker # NoBroker
        /\ intent[i].status = Reconciled[book[intent[i].broker].status]
    BY DEF BooksInv, IntentAgrees
  <2>2. intent[i].broker \in Brokers /\ book[intent[i].broker].status # "none"
    BY <2>1 DEF ExecutionInv, TypeOK, IntentRows, IntentsOK
  <2>. QED
    BY <2>1, <2>2, BrokerVerdict
<1>2. FillInv /\ BooksInv => OrderPrecedesIntent
  <2> SUFFICES ASSUME FillInv, BooksInv, NEW i \in Intents
               PROVE  LET s == order[intent[i].decision].status IN
                      /\ intent[i].status \in {"filled", "cancelled"} => s = intent[i].status
                      /\ intent[i].status \in Tracked => s \notin {"none", "created", "failed"}
    BY DEF OrderPrecedesIntent
  <2>1. IntentFollows(i) /\ IntentAgrees(i)
    BY DEF FillInv, BooksInv
  <2>. QED
    BY <2>1 DEF IntentFollows, IntentAgrees, PastCreated, Tracked, Unplaced
<1>3. SettledAgreesWithBroker /\ OrderPrecedesIntent => BooksAgree
  BY DEF BooksAgree
<1>. QED
  BY <1>1, <1>2, <1>3, Invariance, FillInvariance, BooksInvariance, PTL

(* Where a decision has one intent, neither a stale thread nor a slow      *)
(* answer rewrites a terminal order, though transition checks in one block *)
(* and writes in the next; and a submission that was given up stays so.    *)
THEOREM TerminalForEver == ASSUME OneQuantity PROVE Spec => OrdersStayFinal
<1>1. ExecutionInv /\ BooksInv /\ [Next]_vars =>
        [/\ \A i \in Intents : intent[i].status \in Unplaced
                                 => intent'[i].status = intent[i].status
         /\ \A d \in Decisions : order[d].status \in TerminalOrder
                                 => order'[d].status = order[d].status]_vars
  <2> SUFFICES ASSUME ExecutionInv, BooksInv, [Next]_vars
               PROVE  /\ \A i \in Intents : intent[i].status \in Unplaced
                                              => intent'[i].status = intent[i].status
                      /\ \A d \in Decisions : order[d].status \in TerminalOrder
                                              => order'[d].status = order[d].status
    OBVIOUS
  <2>1. \A i \in Intents : intent[i].status \in Unplaced => intent[i].status # "absent"
    BY DEF Unplaced
  <2>. QED
    BY <2>1, PresentKept, RowFinal
<1>. QED
  BY <1>1, Invariance, BooksInvariance, PTL DEF Spec, OrdersStayFinal
=============================================================================
