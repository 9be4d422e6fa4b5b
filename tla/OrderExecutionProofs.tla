------------------------ MODULE OrderExecutionProofs ------------------------
(***************************************************************************)
(* Proofs about OrderExecution for any number of threads, intents,         *)
(* decisions and broker orders, and with every fault allowed.              *)
(*                                                                         *)
(* ExecutionInv is inductive: one lemma per action (XKeeps) shows that the *)
(* action keeps it.  StepShape then says what a step can do to the intents *)
(* and the broker's orders, and the remaining theorems follow from it.     *)
(***************************************************************************)
EXTENDS OrderExecution, TLAPS

-----------------------------------------------------------------------------
(* How the helpers move a thread *)

(* What the helpers do to the threads. *)
LEMMA GotoFacts ==
    ASSUME proc \in [Procs -> Threads], NEW p \in Procs, NEW pc \in ProcPC,
           Goto(p, pc)
    PROVE  /\ proc' \in [Procs -> Threads]
           /\ proc'[p].pc = pc
           /\ proc'[p].op = proc[p].op
           /\ proc'[p].i = proc[p].i
           /\ proc'[p].b = proc[p].b
           /\ proc'[p].to = proc[p].to
           /\ \A q \in Procs : q # p => proc'[q] = proc[q]
  BY DEF Goto, Threads

(* A thread moves on with a status to write.                               *)
LEMMA SteerFacts ==
    ASSUME proc \in [Procs -> Threads], NEW p \in Procs, NEW pc \in ProcPC,
           NEW to \in IntentStatus,
           Steer(p, pc, to)
    PROVE  /\ proc' \in [Procs -> Threads]
           /\ proc'[p].pc = pc
           /\ proc'[p].to = to
           /\ proc'[p].op = proc[p].op
           /\ proc'[p].i = proc[p].i
           /\ proc'[p].b = proc[p].b
           /\ \A q \in Procs : q # p => proc'[q] = proc[q]
  BY DEF Steer, Threads

(* A thread ends.                                                          *)
LEMMA LeaveFacts ==
    ASSUME proc \in [Procs -> Threads], NEW p \in Procs, Leave(p)
    PROVE  /\ proc' \in [Procs -> Threads]
           /\ proc'[p] = Idle
           /\ \A q \in Procs : q # p => proc'[q] = proc[q]
  BY DEF Leave, Idle, Threads, ProcPC

(* A thread that does not move stays well placed, if what it relies on is  *)
(* left alone.                                                             *)
LEMMA ThreadFrame ==
    ASSUME NEW q \in Procs, ThreadOK(q), proc \in [Procs -> Threads], proc'[q] = proc[q],
           \A i \in Intents : intent[i].status # "absent"
                                => intent'[i].status # "absent",
           \A i \in Intents : intent[i].status \in Handled
                => intent'[i].status \in Handled
                   /\ (approval[i] # "rejected" => approval'[i] # "rejected"),
           \A b \in Brokers : book[b].status # "none" => book'[b].status # "none",
           HoldsClaim(q) => /\ intent'[proc[q].i].status
                               = intent[proc[q].i].status
                            /\ Placed(proc[q].i) = {} => Placed(proc[q].i)' = {}
    PROVE  ThreadOK(q)'
<1>1. proc[q].b \in Brokers \cup {NoBroker}
  BY DEF Threads
<1>2. CASE proc[q] = Idle
  BY <1>2 DEF ThreadOK
<1>3. CASE proc[q].op = "submit" /\ SubmitterOK(q)
  <2>1. proc[q].b # NoBroker => book'[proc[q].b].status # "none"
    BY <1>1, <1>3 DEF SubmitterOK
  <2>2. SubmitterOK(q)'
    BY <1>3, <2>1 DEF SubmitterOK, HoldsClaim
  <2>. QED
    BY <1>3, <2>2 DEF ThreadOK
<1>4. CASE proc[q].op \in {"reconcile", "cancel"} /\ TrackerOK(q)
  BY <1>4 DEF ThreadOK, TrackerOK
<1>. QED
  BY <1>2, <1>3, <1>4 DEF ThreadOK

(* A step that moves one thread and leaves intents, approvals and the book *)
(* alone keeps the invariant if the thread itself ends well placed and     *)
(* gains no claim.                                                         *)
LEMMA MoveKeeps ==
    ASSUME ExecutionInv, NEW p \in Procs,
           UNCHANGED <<intent, approval, book>>,
           order' \in [Decisions -> OrderRows], fill' \in [Decisions -> Nat],
           analyzer' \in BOOLEAN, config' \in Configs,
           proc' \in [Procs -> Threads],
           \A q \in Procs : q # p => proc'[q] = proc[q],
           ThreadOK(p)',
           HoldsClaim(p)' => HoldsClaim(p) /\ proc'[p].i = proc[p].i
    PROVE  ExecutionInv'
<1>1. TypeOK'
  BY DEF ExecutionInv, TypeOK
<1>2. ASSUME NEW q \in Procs, q # p
      PROVE  ThreadOK(q)'
  <2>1. Placed(proc[q].i)' = Placed(proc[q].i)
    BY <1>2 DEF Placed
  <2>2. QED
    BY <1>2, <2>1, ThreadFrame DEF ExecutionInv, ThreadsOK, TypeOK
<1>3. ThreadsOK'
  BY <1>2 DEF ThreadsOK
<1>4. ClaimsAreExclusive'
  BY DEF ExecutionInv, ClaimsAreExclusive, HoldsClaim
<1>5. IntentsOK' /\ BookOK' /\ AtMostOneOrderPerIntent'
  BY DEF ExecutionInv, IntentsOK, BookOK, AtMostOneOrderPerIntent
<1>. QED
  BY <1>1, <1>3, <1>4, <1>5 DEF ExecutionInv

(* A thread's pc tells which operation it is in. *)
LEMMA SubmitterAt ==
    ASSUME ExecutionInv, NEW p \in Procs,
           proc[p].pc \in {"start", "check", "find", "insert", "claim", "recheck",
                           "post", "answer", "mark"}
    PROVE  proc[p].op = "submit" /\ SubmitterOK(p)
  BY DEF ExecutionInv, ThreadsOK, ThreadOK, TrackerOK, Idle

(* A pc of reconcile and cancel.                                           *)
LEMMA TrackerAt ==
    ASSUME ExecutionInv, NEW p \in Procs,
           proc[p].pc \in {"poll", "cancel", "compare", "fill"}
    PROVE  proc[p].op \in {"reconcile", "cancel"} /\ TrackerOK(p)
  BY DEF ExecutionInv, ThreadsOK, ThreadOK, SubmitterOK, Idle

(* A pc shared by the three operations.                                    *)
LEMMA WriterAt ==
    ASSUME ExecutionInv, NEW p \in Procs,
           proc[p].pc \in {"transition", "write", "finish"}
    PROVE  \/ proc[p].op = "submit" /\ SubmitterOK(p)
           \/ proc[p].op \in {"reconcile", "cancel"} /\ TrackerOK(p)
  BY DEF ExecutionInv, ThreadsOK, ThreadOK, Idle

(* What may change beside the thread in the next three lemmas. *)
OthersKept ==
    /\ UNCHANGED <<intent, approval, book>>
    /\ order' \in [Decisions -> OrderRows]
    /\ fill' \in [Decisions -> Nat]
    /\ analyzer' \in BOOLEAN
    /\ config' \in Configs

(* A thread that ends keeps the invariant.                                 *)
LEMMA LeaveKeeps ==
    ASSUME ExecutionInv, NEW p \in Procs, Leave(p), OthersKept
    PROVE  ExecutionInv'
<1>1. /\ proc' \in [Procs -> Threads]
      /\ proc'[p] = Idle
      /\ \A q \in Procs : q # p => proc'[q] = proc[q]
  BY LeaveFacts DEF ExecutionInv, TypeOK
<1>2. ThreadOK(p)' /\ ~HoldsClaim(p)'
  BY <1>1 DEF ThreadOK, HoldsClaim, Idle
<1>. QED
  BY <1>1, <1>2, MoveKeeps DEF OthersKept

(* A submitting thread that moves on within submit keeps it.               *)
LEMMA SubmitterMoves ==
    ASSUME ExecutionInv, NEW p \in Procs, OthersKept,
           proc[p].op = "submit", SubmitterOK(p),
           proc' \in [Procs -> Threads],
           \A q \in Procs : q # p => proc'[q] = proc[q],
           proc'[p].op = proc[p].op, proc'[p].i = proc[p].i,
           proc'[p].b = proc[p].b,
           \/ proc'[p].pc \in {"check", "find", "insert", "claim"}
           \/ proc[p].pc = "recheck" /\ proc'[p].pc = "post"
           \/ HoldsClaim(p) /\ proc'[p].pc = "mark" /\ proc'[p].to \in Unplaced
           \/ /\ HoldsClaim(p)
              /\ proc'[p].pc \in {"transition", "write", "finish"}
              /\ proc'[p].to = "submitted"
              /\ proc[p].b \in Brokers /\ book[proc[p].b].status # "none"
           \/ proc'[p].pc \in {"transition", "write"} /\ proc'[p].to \in Unplaced
    PROVE  ExecutionInv'
<1>1. Placed(proc[p].i)' = Placed(proc[p].i)
  BY DEF Placed, OthersKept
<1>2. HoldsClaim(p)' => HoldsClaim(p)
  BY DEF HoldsClaim, Unplaced
<1>3. intent' = intent /\ book' = book
  BY DEF OthersKept
<1>4. ThreadOK(p)'
  BY <1>1, <1>2, <1>3 DEF ThreadOK, SubmitterOK, Unplaced, HoldsClaim
<1>. QED
  BY <1>2, <1>4, MoveKeeps DEF OthersKept

(* So does a thread moving on within reconcile or cancel.                  *)
LEMMA TrackerMoves ==
    ASSUME ExecutionInv, NEW p \in Procs, OthersKept,
           proc[p].op \in {"reconcile", "cancel"}, TrackerOK(p),
           proc' \in [Procs -> Threads],
           \A q \in Procs : q # p => proc'[q] = proc[q],
           proc'[p].op = proc[p].op, proc'[p].i = proc[p].i,
           proc'[p].b = proc[p].b,
           \/ /\ proc'[p].pc \in {"compare", "fill", "transition", "write"}
              /\ proc'[p].to \in {"filled", "rejected", "cancelled"}
           \/ proc'[p].pc = "finish" /\ proc'[p].to \in Handled \ {"submitted"}
    PROVE  ExecutionInv'
<1>1. ~HoldsClaim(p)'
  BY DEF HoldsClaim
<1>2. intent' = intent /\ book' = book /\ approval' = approval
  BY DEF OthersKept
<1>3. ThreadOK(p)'
  BY <1>2 DEF ThreadOK, TrackerOK
<1>. QED
  BY <1>1, <1>3, MoveKeeps DEF OthersKept

(* submit reads the intent: on to the provider check, or out.              *)
LEMMA SubmitReadKeeps ==
    ASSUME ExecutionInv, NEW p \in Procs, SubmitRead(p)
    PROVE  ExecutionInv'
<1>1. OthersKept /\ (Goto(p, "check") \/ Leave(p))
  BY DEF SubmitRead, OthersKept, ExecutionInv, TypeOK, stored
<1>2. proc[p].op = "submit" /\ SubmitterOK(p)
  BY SubmitterAt DEF SubmitRead, At
<1>3. CASE Goto(p, "check")
  BY <1>1, <1>2, <1>3, GotoFacts, SubmitterMoves DEF ExecutionInv, TypeOK, ProcPC
<1>. QED
  BY <1>1, <1>3, LeaveKeeps

(* The provider check: on to the order record, or out.                     *)
LEMMA CheckProviderKeeps ==
    ASSUME ExecutionInv, NEW p \in Procs, CheckProvider(p)
    PROVE  ExecutionInv'
<1>1. OthersKept /\ (Goto(p, "find") \/ Leave(p))
  BY DEF CheckProvider, OthersKept, ExecutionInv, TypeOK, stored
<1>2. proc[p].op = "submit" /\ SubmitterOK(p)
  BY SubmitterAt DEF CheckProvider, At
<1>3. CASE Goto(p, "find")
  BY <1>1, <1>2, <1>3, GotoFacts, SubmitterMoves DEF ExecutionInv, TypeOK, ProcPC
<1>. QED
  BY <1>1, <1>3, LeaveKeeps

(* create_order looks the order up.                                        *)
LEMMA FindOrderKeeps ==
    ASSUME ExecutionInv, NEW p \in Procs, FindOrder(p)
    PROVE  ExecutionInv'
<1>1. OthersKept /\ (Goto(p, "insert") \/ Goto(p, "claim"))
  BY DEF FindOrder, OthersKept, ExecutionInv, TypeOK, stored
<1>2. proc[p].op = "submit" /\ SubmitterOK(p)
  BY SubmitterAt DEF FindOrder, At
<1>. QED
  BY <1>1, <1>2, GotoFacts, SubmitterMoves DEF ExecutionInv, TypeOK, ProcPC

(* create_order inserts it, or loses the race for the unique key.          *)
LEMMA InsertOrderKeeps ==
    ASSUME ExecutionInv, NEW p \in Procs, InsertOrder(p)
    PROVE  ExecutionInv'
<1>1. proc[p].op = "submit" /\ SubmitterOK(p)
  BY SubmitterAt DEF InsertOrder, At
<1>2. intent[proc[p].i].qty \in Nat
  BY <1>1 DEF ExecutionInv, TypeOK, SubmitterOK, IntentRows
<1>3. order' \in [Decisions -> OrderRows]
  BY <1>2 DEF InsertOrder, ExecutionInv, TypeOK, OrderRows, OrderStatus
<1>4. OthersKept /\ (Goto(p, "claim") \/ Leave(p))
  BY <1>3 DEF InsertOrder, OthersKept, ExecutionInv, TypeOK, stored
<1>5. CASE Goto(p, "claim")
  BY <1>1, <1>4, <1>5, GotoFacts, SubmitterMoves DEF ExecutionInv, TypeOK, ProcPC
<1>. QED
  BY <1>4, <1>5, LeaveKeeps

(* The second analyzer check, made by the holder of the claim.             *)
LEMMA RecheckAnalyzerKeeps ==
    ASSUME ExecutionInv, NEW p \in Procs, RecheckAnalyzer(p)
    PROVE  ExecutionInv'
<1>1. proc[p].op = "submit" /\ SubmitterOK(p) /\ HoldsClaim(p) /\ OthersKept
  BY SubmitterAt DEF RecheckAnalyzer, At, HoldsClaim, OthersKept, ExecutionInv, TypeOK, stored
<1>2. CASE Goto(p, "post")
  BY <1>1, <1>2, GotoFacts, SubmitterMoves DEF ExecutionInv, TypeOK, ProcPC, RecheckAnalyzer, At
<1>3. ASSUME NEW to \in Unplaced, Steer(p, "mark", to)
      PROVE  ExecutionInv'
  <2>1. to \in IntentStatus /\ "mark" \in ProcPC
    BY DEF Unplaced, IntentStatus, ProcPC
  <2>2. /\ proc' \in [Procs -> Threads]
        /\ proc'[p].pc = "mark" /\ proc'[p].to = to /\ proc'[p].op = proc[p].op
        /\ proc'[p].i = proc[p].i /\ proc'[p].b = proc[p].b
        /\ \A q \in Procs : q # p => proc'[q] = proc[q]
    BY <1>3, <2>1, SteerFacts DEF ExecutionInv, TypeOK
  <2>3. QED
    BY <1>1, <2>2, SubmitterMoves
<1>. QED
  BY <1>2, <1>3 DEF RecheckAnalyzer, Unplaced

(* The broker's answer, whatever is made of it.                            *)
LEMMA ReceiveAnswerKeeps ==
    ASSUME ExecutionInv, NEW p \in Procs, ReceiveAnswer(p)
    PROVE  ExecutionInv'
<1>1. proc[p].op = "submit" /\ SubmitterOK(p) /\ HoldsClaim(p) /\ OthersKept
  BY SubmitterAt DEF ReceiveAnswer, At, HoldsClaim, OthersKept, ExecutionInv, TypeOK, stored
<1>2. ASSUME NEW to \in Unplaced, Steer(p, "mark", to)
      PROVE  ExecutionInv'
  <2>1. to \in IntentStatus /\ "mark" \in ProcPC
    BY DEF Unplaced, IntentStatus, ProcPC
  <2>2. /\ proc' \in [Procs -> Threads]
        /\ proc'[p].pc = "mark" /\ proc'[p].to = to /\ proc'[p].op = proc[p].op
        /\ proc'[p].i = proc[p].i /\ proc'[p].b = proc[p].b
        /\ \A q \in Procs : q # p => proc'[q] = proc[q]
    BY <1>2, <2>1, SteerFacts DEF ExecutionInv, TypeOK
  <2>3. QED
    BY <1>1, <2>2, SubmitterMoves
<1>3. ASSUME proc[p].b # NoBroker,
             Steer(p, "transition", "submitted")
      PROVE  ExecutionInv'
  <2>1. proc[p].b \in Brokers /\ book[proc[p].b].status # "none"
    BY <1>1, <1>3 DEF ExecutionInv, TypeOK, Threads, SubmitterOK, ReceiveAnswer, At
  <2>2. "submitted" \in IntentStatus /\ "transition" \in ProcPC
    BY DEF IntentStatus, ProcPC
  <2>3. /\ proc' \in [Procs -> Threads]
        /\ proc'[p].pc = "transition" /\ proc'[p].to = "submitted"
        /\ proc'[p].op = proc[p].op
        /\ proc'[p].i = proc[p].i /\ proc'[p].b = proc[p].b
        /\ \A q \in Procs : q # p => proc'[q] = proc[q]
    BY <1>3, <2>2, SteerFacts DEF ExecutionInv, TypeOK
  <2>4. QED
    BY <1>1, <2>1, <2>3, SubmitterMoves
<1>. QED
  BY <1>2, <1>3 DEF ReceiveAnswer, Unplaced

(* transition reads and checks, for either kind of thread.                 *)
LEMMA TransitionReadKeeps ==
    ASSUME ExecutionInv, NEW p \in Procs, TransitionRead(p)
    PROVE  ExecutionInv'
<1>1. OthersKept /\ (Goto(p, "write") \/ Leave(p))
  BY DEF TransitionRead, OthersKept, ExecutionInv, TypeOK, stored
<1>2. CASE Goto(p, "write") /\ proc[p].op = "submit" /\ SubmitterOK(p)
  <2>1. \/ proc[p].to \in Unplaced
        \/ /\ HoldsClaim(p) /\ proc[p].to = "submitted"
           /\ proc[p].b \in Brokers /\ book[proc[p].b].status # "none"
    BY <1>2 DEF SubmitterOK, HoldsClaim, TransitionRead, At
  <2>2. QED
    BY <1>1, <1>2, <2>1, GotoFacts, SubmitterMoves DEF ExecutionInv, TypeOK, ProcPC
<1>3. CASE Goto(p, "write") /\ proc[p].op \in {"reconcile", "cancel"} /\ TrackerOK(p)
  <2>1. proc[p].to \in {"filled", "rejected", "cancelled"}
    BY <1>3 DEF TrackerOK, TransitionRead, At
  <2>2. QED
    BY <1>1, <1>3, <2>1, GotoFacts, TrackerMoves DEF ExecutionInv, TypeOK, ProcPC
<1>. QED
  BY <1>1, <1>2, <1>3, WriterAt, LeaveKeeps DEF TransitionRead, At

(* transition writes, for either kind of thread.                           *)
LEMMA TransitionWriteKeeps ==
    ASSUME ExecutionInv, NEW p \in Procs, TransitionWrite(p)
    PROVE  ExecutionInv'
<1> DEFINE d == intent[proc[p].i].decision
<1>1. OrderTarget(proc[p].to) \in OrderStatus
  BY WriterAt DEF SubmitterOK, TrackerOK, OrderTarget, OrderStatus, Unplaced, TransitionWrite, At
<1>2. order' \in [Decisions -> OrderRows]
  BY <1>1 DEF TransitionWrite, ExecutionInv, TypeOK, OrderRows
<1>3. OthersKept
  BY <1>2 DEF TransitionWrite, OthersKept, ExecutionInv, TypeOK, stored
<1>4. CASE proc[p].to \in Unplaced
  BY <1>3, <1>4, LeaveKeeps DEF TransitionWrite
<1>5. CASE proc[p].to \notin Unplaced /\ proc[p].op = "submit" /\ SubmitterOK(p)
  <2>1. /\ Goto(p, "finish") /\ HoldsClaim(p) /\ proc[p].to = "submitted"
        /\ proc[p].b \in Brokers /\ book[proc[p].b].status # "none"
    BY <1>5 DEF TransitionWrite, SubmitterOK, HoldsClaim, At
  <2>2. QED
    BY <1>3, <1>5, <2>1, GotoFacts, SubmitterMoves DEF ExecutionInv, TypeOK, ProcPC
<1>6. CASE proc[p].to \notin Unplaced /\ proc[p].op \in {"reconcile", "cancel"} /\ TrackerOK(p)
  <2>1. Goto(p, "finish") /\ proc[p].to \in Handled \ {"submitted"}
    BY <1>6 DEF TransitionWrite, TrackerOK, Handled, At
  <2>2. QED
    BY <1>3, <1>6, <2>1, GotoFacts, TrackerMoves DEF ExecutionInv, TypeOK, ProcPC
<1>. QED
  BY <1>4, <1>5, <1>6, WriterAt DEF TransitionWrite, At

(* reconcile maps the broker's status; it is one Reconciled knows.         *)
LEMMA PollBrokerKeeps ==
    ASSUME ExecutionInv, NEW p \in Procs, PollBroker(p)
    PROVE  ExecutionInv'
<1> DEFINE s == book[proc[p].b].status
           pc == IF s \in Working THEN "finish" ELSE "compare"
           to == Reconciled[s]
<1>1. proc[p].op \in {"reconcile", "cancel"} /\ TrackerOK(p) /\ OthersKept
  BY TrackerAt DEF PollBroker, At, OthersKept, ExecutionInv, TypeOK, stored
<1>2. s \in Working \cup {"complete", "rejected", "cancelled"}
  BY <1>1 DEF TrackerOK, ExecutionInv, BookOK
<1>3. \/ pc = "finish" /\ to \in Handled \ {"submitted"}
      \/ pc = "compare" /\ to \in {"filled", "rejected", "cancelled"}
  <2>1. CASE s \in Working
    <3>1. s \in {"open", "pending"}
      BY <2>1, OEAssumption
    <3>2. Reconciled[s] = s
      BY <3>1 DEF Reconciled
    <3>3. QED
      BY <2>1, <3>1, <3>2 DEF Handled, Tracked
  <2>2. CASE s \in {"complete", "rejected", "cancelled"}
    <3>1. s \notin Working
      BY <2>2, OEAssumption
    <3>2. Reconciled[s] \in {"filled", "rejected", "cancelled"}
      BY <2>2 DEF Reconciled
    <3>3. QED
      BY <3>1, <3>2
  <2>3. QED
    BY <1>2, <2>1, <2>2
<1>4. pc \in ProcPC /\ to \in IntentStatus
  BY <1>3 DEF ProcPC, IntentStatus, Handled, Tracked
<1>5. Steer(p, pc, to)
  BY DEF PollBroker
<1>6. /\ proc' \in [Procs -> Threads]
      /\ proc'[p].pc = pc /\ proc'[p].to = to
      /\ proc'[p].op = proc[p].op /\ proc'[p].i = proc[p].i /\ proc'[p].b = proc[p].b
      /\ \A q \in Procs : q # p => proc'[q] = proc[q]
  <2> HIDE DEF pc, to
  <2>1. proc \in [Procs -> Threads]
    BY DEF ExecutionInv, TypeOK
  <2>. QED
    BY <1>4, <1>5, <2>1, SteerFacts
<1>. HIDE DEF pc, to
<1>. QED
  BY <1>1, <1>3, <1>6, TrackerMoves

(* reconcile compares the order row with the verdict.                      *)
LEMMA CompareOrderKeeps ==
    ASSUME ExecutionInv, NEW p \in Procs, CompareOrder(p)
    PROVE  ExecutionInv'
<1>1. proc[p].op \in {"reconcile", "cancel"} /\ TrackerOK(p) /\ OthersKept
  BY TrackerAt DEF CompareOrder, At, OthersKept, ExecutionInv, TypeOK, stored
<1>2. proc[p].to \in {"filled", "rejected", "cancelled"}
  BY <1>1 DEF TrackerOK, CompareOrder, At
<1>3. PICK pc \in {"finish", "fill", "transition"} : Goto(p, pc)
  BY DEF CompareOrder
<1>4. pc \in ProcPC /\ proc[p].to \in Handled \ {"submitted"}
  BY <1>2 DEF ProcPC, Handled
<1>. QED
  BY <1>1, <1>2, <1>3, <1>4, GotoFacts, TrackerMoves DEF ExecutionInv, TypeOK, ProcPC

(* reconcile records a fill.                                               *)
LEMMA RecordFillKeeps ==
    ASSUME ExecutionInv, NEW p \in Procs, RecordFill(p)
    PROVE  ExecutionInv'
<1> DEFINE d == intent[proc[p].i].decision
<1>1. proc[p].op \in {"reconcile", "cancel"} /\ TrackerOK(p)
  BY TrackerAt DEF RecordFill, At
<1>2. d \in Decisions
  BY <1>1 DEF TrackerOK, ExecutionInv, IntentsOK, Handled, Tracked
<1>3. fill' \in [Decisions -> Nat]
  BY <1>2 DEF RecordFill, ExecutionInv, TypeOK, OrderRows
<1>4. OthersKept /\ proc[p].to \in {"filled", "rejected", "cancelled"}
  BY <1>1, <1>3 DEF RecordFill, OthersKept, ExecutionInv, TypeOK, stored, TrackerOK, At
<1>. QED
  BY <1>1, <1>4, GotoFacts, TrackerMoves DEF ExecutionInv, TypeOK, ProcPC, RecordFill

(* A thread dies.                                                          *)
LEMMA AbandonKeeps ==
    ASSUME ExecutionInv, NEW p \in Procs, Abandon(p)
    PROVE  ExecutionInv'
  BY LeaveKeeps DEF Abandon, OthersKept, ExecutionInv, TypeOK, stored

(* A thread that starts an operation. *)
LEMMA StartKeeps ==
    ASSUME ExecutionInv, NEW p \in Procs, NEW r \in Threads,
           OthersKept, proc' = [proc EXCEPT ![p] = r],
           r.pc \in {"start", "poll", "cancel"},
           ThreadOK(p)'
    PROVE  ExecutionInv'
<1>1. /\ proc' \in [Procs -> Threads]
      /\ proc'[p] = r
      /\ \A q \in Procs : q # p => proc'[q] = proc[q]
  BY DEF ExecutionInv, TypeOK
<1>2. ~HoldsClaim(p)'
  BY <1>1 DEF HoldsClaim
<1>. QED
  BY <1>1, <1>2, MoveKeeps DEF OthersKept

(* A submit request.                                                       *)
LEMMA SubmitRequestKeeps ==
    ASSUME ExecutionInv, NEW p \in Procs, NEW i \in Intents, SubmitRequest(p, i)
    PROVE  ExecutionInv'
<1> DEFINE r == [op |-> "submit", pc |-> "start", i |-> i,
                 b |-> NoBroker, to |-> "none"]
<1>1. r \in Threads
  BY DEF Threads, ProcPC
<1>2. OthersKept /\ proc' = [proc EXCEPT ![p] = r]
  BY DEF SubmitRequest, OthersKept, ExecutionInv, TypeOK, stored
<1>3. proc'[p] = r /\ intent' = intent /\ intent[i].status # "absent"
  BY <1>2 DEF ExecutionInv, TypeOK, OthersKept, SubmitRequest
<1>4. ThreadOK(p)'
  BY <1>3 DEF ThreadOK, SubmitterOK, HoldsClaim
<1>. QED
  BY <1>1, <1>2, <1>4, StartKeeps

(* A reconcile or cancel request.                                          *)
LEMMA TrackedRequestKeeps ==
    ASSUME ExecutionInv, NEW p \in Procs, NEW i \in Intents,
           NEW op \in {"reconcile", "cancel"}, NEW pc \in {"poll", "cancel"},
           TrackedRequest(p, i, op, pc)
    PROVE  ExecutionInv'
<1> DEFINE b == intent[i].broker
           r == [op |-> op, pc |-> pc, i |-> i, b |-> b, to |-> "none"]
<1>1. b \in Brokers /\ book[b].status # "none"
  BY DEF TrackedRequest, ExecutionInv, TypeOK, IntentRows, IntentsOK
<1>2. intent[i].status \in Handled /\ approval[i] # "rejected"
  BY DEF TrackedRequest, ExecutionInv, IntentsOK, Handled, Tracked
<1>3. r \in Threads
  BY <1>1 DEF Threads, ProcPC
<1>4. OthersKept /\ proc' = [proc EXCEPT ![p] = r]
  BY DEF TrackedRequest, OthersKept, ExecutionInv, TypeOK, stored
<1>5. proc'[p] = r /\ intent' = intent /\ book' = book /\ approval' = approval
  BY <1>4 DEF ExecutionInv, TypeOK, OthersKept
<1>6. ThreadOK(p)'
  BY <1>1, <1>2, <1>5 DEF ThreadOK, TrackerOK
<1>. QED
  BY <1>3, <1>4, <1>6, StartKeeps

(* Steps that write one intent row and no thread but, perhaps, the writer: *)
(* what the rest of the invariant needs of the new row.                    *)
LEMMA IntentFrame ==
    ASSUME ExecutionInv, NEW i \in Intents, NEW row \in IntentRows,
           intent' = [intent EXCEPT ![i] = row], book' = book,
           row.decision \in Decisions,
           row.broker # NoBroker => book[row.broker].status # "none",
           approval' \in [Intents -> ApprovalStatus],
           \A j \in Intents : j # i => approval'[j] = approval[j],
           approval'[i] = "pending" <=> row.status = "pending_approval",
           approval'[i] = "rejected" => row.status = "rejected" /\ Placed(i) = {},
           row.status # "absent",
           \/ row.status \notin {"pending_approval", "approved"}
           \/ Placed(i) = {}
    PROVE  /\ intent' \in [Intents -> IntentRows]
           /\ IntentsOK' /\ BookOK' /\ AtMostOneOrderPerIntent'
<1>1. /\ intent' \in [Intents -> IntentRows]
      /\ intent'[i] = row
      /\ \A j \in Intents : j # i => intent'[j] = intent[j]
  BY DEF ExecutionInv, TypeOK
<1>2. IntentsOK'
  BY <1>1 DEF ExecutionInv, IntentsOK
<1>3. ASSUME NEW b \in Brokers, book[b].status # "none"
      PROVE  /\ intent'[book[b].intent].status \notin
                    {"absent", "pending_approval", "approved"}
             /\ approval'[book[b].intent] # "rejected"
  <2>1. book[b].intent \in Intents
    BY <1>3 DEF ExecutionInv, TypeOK, BookEntries, BookOK
  <2>2. CASE book[b].intent = i
    BY <1>1, <2>2 DEF Placed
  <2>3. CASE book[b].intent # i
    BY <1>1, <1>3, <2>1, <2>3 DEF ExecutionInv, BookOK
  <2>. QED
    BY <2>2, <2>3
<1>4. BookOK'
  BY <1>3 DEF ExecutionInv, BookOK
<1>5. AtMostOneOrderPerIntent'
  BY DEF ExecutionInv, AtMostOneOrderPerIntent
<1>. QED
  BY <1>1, <1>2, <1>4, <1>5

(* An intent that was never claimed has no order at the broker. *)
LEMMA UnclaimedNotPlaced ==
    ASSUME ExecutionInv, NEW i \in Intents,
           intent[i].status \in {"absent", "pending_approval", "approved"}
    PROVE  Placed(i) = {}
<1>1. ASSUME NEW b \in Brokers, book[b].intent = i
      PROVE  FALSE
  <2>1. book[b].status # "none"
    BY <1>1, OEAssumption DEF ExecutionInv, BookOK
  <2>. QED
    BY <1>1, <2>1 DEF ExecutionInv, BookOK
<1>. QED
  BY <1>1 DEF Placed

(* prepare_intent fills an unused row.                                     *)
LEMMA PrepareIntentKeeps ==
    ASSUME ExecutionInv, NEW i \in Intents, NEW d \in Decisions, NEW q \in Quantities,
           PrepareIntent(i, d, q)
    PROVE  ExecutionInv'
<1> DEFINE ask == AsksApproval(d)
           row == [status |-> IF ask THEN "pending_approval" ELSE "approved",
                   decision |-> d, qty |-> q, broker |-> NoBroker]
<1>1. /\ row \in IntentRows /\ row.status \in {"pending_approval", "approved"}
      /\ intent' = [intent EXCEPT ![i] = row]
  BY OEAssumption DEF PrepareIntent, IntentRows, IntentStatus
<1>2. /\ approval' \in [Intents -> ApprovalStatus]
      /\ \A j \in Intents : j # i => approval'[j] = approval[j]
      /\ approval'[i] = IF ask THEN "pending" ELSE "none"
  BY DEF PrepareIntent, ExecutionInv, TypeOK, ApprovalStatus
<1>3. intent[i].status = "absent" /\ Placed(i) = {}
  BY UnclaimedNotPlaced DEF PrepareIntent
<1>4. UNCHANGED <<order, fill, book, analyzer, config, proc>>
  BY DEF PrepareIntent
<1>5. /\ intent' \in [Intents -> IntentRows]
      /\ IntentsOK' /\ BookOK' /\ AtMostOneOrderPerIntent'
  BY <1>1, <1>2, <1>3, <1>4, IntentFrame
<1>6. TypeOK'
  BY <1>2, <1>4, <1>5 DEF ExecutionInv, TypeOK
<1>7. /\ intent'[i] = row
      /\ \A j \in Intents : j # i => intent'[j] = intent[j]
  BY <1>1 DEF ExecutionInv, TypeOK
<1>8. ASSUME NEW p \in Procs
      PROVE  ThreadOK(p)'
  <2>1. HoldsClaim(p) => proc[p].i \in Intents \ {i}
    BY <1>3 DEF ExecutionInv, ThreadsOK, ThreadOK, SubmitterOK, HoldsClaim, Idle
  <2>2. HoldsClaim(p) => /\ intent'[proc[p].i].status = intent[proc[p].i].status
                         /\ Placed(proc[p].i) = {} => Placed(proc[p].i)' = {}
    BY <1>4, <1>7, <2>1 DEF Placed
  <2>3. \A j \in Intents : intent[j].status # "absent" => intent'[j].status # "absent"
    BY <1>1, <1>7
  <2>4. \A j \in Intents : intent[j].status \in Handled
                => intent'[j].status \in Handled
                   /\ (approval[j] # "rejected" => approval'[j] # "rejected")
    BY <1>2, <1>3, <1>7 DEF Handled, Tracked
  <2>. QED
    BY <1>4, <2>2, <2>3, <2>4, ThreadFrame DEF ExecutionInv, ThreadsOK, TypeOK
<1>9. ThreadsOK' /\ ClaimsAreExclusive'
  BY <1>4, <1>8 DEF ThreadsOK, ExecutionInv, ClaimsAreExclusive, HoldsClaim
<1>. QED
  BY <1>5, <1>6, <1>9 DEF ExecutionInv

(* decide changes an intent nobody has claimed. *)
LEMMA DecideFacts ==
    ASSUME ExecutionInv, NEW i \in Intents, NEW verdict \in {"approved", "rejected"},
           DecideEffect(i, verdict)
    PROVE  /\ intent' \in [Intents -> IntentRows]
           /\ approval' \in [Intents -> ApprovalStatus]
           /\ intent[i].status = "pending_approval" /\ intent'[i].status = verdict
           /\ \A j \in Intents : j # i => /\ intent'[j] = intent[j]
                                          /\ approval'[j] = approval[j]
           /\ IntentsOK' /\ BookOK' /\ AtMostOneOrderPerIntent'
           /\ \A p \in Procs : proc'[p] = proc[p] => ThreadOK(p)'
<1> DEFINE row == [intent[i] EXCEPT !.status = verdict]
<1>1. intent[i].status = "pending_approval" /\ Placed(i) = {}
  BY UnclaimedNotPlaced DEF DecideEffect, ExecutionInv, IntentsOK
<1>2. /\ intent[i] \in IntentRows
      /\ row \in IntentRows /\ row.status = verdict
      /\ row.decision = intent[i].decision /\ row.broker = intent[i].broker
  BY DEF ExecutionInv, TypeOK, IntentRows, IntentStatus
<1>3. intent' = [intent EXCEPT ![i] = row]
  BY <1>1 DEF DecideEffect
<1>4. /\ approval' \in [Intents -> ApprovalStatus] /\ approval'[i] = verdict
      /\ \A j \in Intents : j # i => approval'[j] = approval[j]
  BY DEF DecideEffect, ExecutionInv, TypeOK, ApprovalStatus
<1>5. book' = book
  BY DEF DecideEffect
<1>6. /\ row.decision \in Decisions
      /\ row.broker # NoBroker => book[row.broker].status # "none"
  BY <1>1, <1>2 DEF ExecutionInv, IntentsOK
<1>7. /\ intent' \in [Intents -> IntentRows]
      /\ IntentsOK' /\ BookOK' /\ AtMostOneOrderPerIntent'
  <2> HIDE DEF row
  <2>. QED
    BY <1>1, <1>2, <1>3, <1>4, <1>5, <1>6, IntentFrame
<1>8. /\ intent'[i] = row
      /\ \A j \in Intents : j # i => intent'[j] = intent[j]
  BY <1>3 DEF ExecutionInv, TypeOK
<1>9. ASSUME NEW p \in Procs, proc'[p] = proc[p]
      PROVE  ThreadOK(p)'
  <2>1. HoldsClaim(p) => proc[p].i \in Intents \ {i}
    BY <1>1 DEF ExecutionInv, ThreadsOK, ThreadOK, SubmitterOK, HoldsClaim, Idle
  <2>2. HoldsClaim(p) => /\ intent'[proc[p].i].status = intent[proc[p].i].status
                         /\ Placed(proc[p].i) = {} => Placed(proc[p].i)' = {}
    BY <1>5, <1>8, <1>9, <2>1 DEF Placed
  <2>3. \A j \in Intents : intent[j].status # "absent" => intent'[j].status # "absent"
    BY <1>2, <1>8
  <2>4. \A j \in Intents : intent[j].status \in Handled
                => intent'[j].status \in Handled
                   /\ (approval[j] # "rejected" => approval'[j] # "rejected")
    BY <1>1, <1>4, <1>8 DEF Handled, Tracked
  <2>. QED
    BY <1>5, <1>9, <2>2, <2>3, <2>4, ThreadFrame DEF ExecutionInv, ThreadsOK, TypeOK
<1>. QED
  BY <1>1, <1>2, <1>4, <1>7, <1>8, <1>9

(* decide, by a human at the approvals page.                               *)
LEMMA DecideKeeps ==
    ASSUME ExecutionInv, NEW i \in Intents, Decide(i)
    PROVE  ExecutionInv'
<1>1. PICK verdict \in {"approved", "rejected"} : DecideEffect(i, verdict)
  BY DEF Decide
<1>2. UNCHANGED <<order, fill, book, analyzer, config, proc>>
  BY <1>1 DEF Decide, DecideEffect
<1>3. TypeOK'
  BY <1>1, <1>2, DecideFacts DEF ExecutionInv, TypeOK
<1>4. ThreadsOK' /\ ClaimsAreExclusive'
  BY <1>1, <1>2, DecideFacts DEF ThreadsOK, ExecutionInv, ClaimsAreExclusive, HoldsClaim
<1>. QED
  BY <1>1, <1>3, <1>4, DecideFacts DEF ExecutionInv

(* approve_from_chat: the decision, and a submitting thread.               *)
LEMMA ApproveFromChatKeeps ==
    ASSUME ExecutionInv, NEW p \in Procs, NEW i \in Intents, ApproveFromChat(p, i)
    PROVE  ExecutionInv'
<1> DEFINE r == [op |-> "submit", pc |-> "start", i |-> i,
                 b |-> NoBroker, to |-> "none"]
<1>1. DecideEffect(i, "approved") /\ proc' = [proc EXCEPT ![p] = r]
  BY DEF ApproveFromChat
<1>2. r \in Threads
  BY DEF Threads, ProcPC
<1>3. /\ proc' \in [Procs -> Threads] /\ proc'[p] = r
      /\ \A q \in Procs : q # p => proc'[q] = proc[q]
  BY <1>1, <1>2 DEF ExecutionInv, TypeOK
<1>4. TypeOK'
  BY <1>1, <1>3, DecideFacts DEF ExecutionInv, TypeOK, DecideEffect
<1>5. ThreadOK(p)' /\ ~HoldsClaim(p)'
  BY <1>1, <1>3, DecideFacts DEF ThreadOK, SubmitterOK, HoldsClaim
<1>6. ThreadsOK'
  BY <1>1, <1>3, <1>5, DecideFacts DEF ThreadsOK
<1>7. ClaimsAreExclusive'
  BY <1>3, <1>5 DEF ExecutionInv, ClaimsAreExclusive, HoldsClaim
<1>. QED
  BY <1>1, <1>4, <1>6, <1>7, DecideFacts DEF ExecutionInv

(* Claiming: the only thread that may hold the claim of an approved intent *)
(* is the one that takes it.                                               *)
LEMMA ClaimSubmissionKeeps ==
    ASSUME ExecutionInv, NEW p \in Procs, ClaimSubmission(p)
    PROVE  ExecutionInv'
<1> DEFINE i == proc[p].i
           row == [intent[i] EXCEPT !.status = "submitting"]
<1>1. proc[p].op = "submit" /\ SubmitterOK(p) /\ i \in Intents
  BY SubmitterAt DEF ClaimSubmission, At, SubmitterOK
<1>2. CASE ~Claimable(i)
  BY <1>2, LeaveKeeps DEF ClaimSubmission, OthersKept, ExecutionInv, TypeOK
<1>3. CASE Claimable(i)
  <2>1. PICK pc \in {"post", "recheck"} : Goto(p, pc)
    BY <1>3 DEF ClaimSubmission
  <2>2. UNCHANGED <<approval, order, fill, book, analyzer, config>>
    BY DEF ClaimSubmission
  <2>3. intent[i].status = "approved" /\ Placed(i) = {}
    BY <1>1, <1>3, UnclaimedNotPlaced DEF Claimable
  <2>4. /\ intent[i] \in IntentRows
        /\ row \in IntentRows /\ row.status = "submitting"
        /\ row.decision = intent[i].decision /\ row.broker = intent[i].broker
    BY <1>1 DEF ExecutionInv, TypeOK, IntentRows, IntentStatus
  <2>5. intent' = [intent EXCEPT ![i] = row]
    BY <1>3 DEF ClaimSubmission
  <2>6. /\ row.decision \in Decisions
        /\ row.broker # NoBroker => book[row.broker].status # "none"
        /\ approval[i] # "pending" /\ approval[i] # "rejected"
    BY <1>1, <2>3, <2>4 DEF ExecutionInv, IntentsOK
  <2>7. /\ intent' \in [Intents -> IntentRows]
        /\ IntentsOK' /\ BookOK' /\ AtMostOneOrderPerIntent'
    <3>1. approval' \in [Intents -> ApprovalStatus] /\ approval' = approval
      BY <2>2 DEF ExecutionInv, TypeOK
    <3> HIDE DEF row, i
    <3>. QED
      BY <1>1, <2>2, <2>3, <2>4, <2>5, <2>6, <3>1, IntentFrame
  <2>8. /\ intent'[i] = row
        /\ \A j \in Intents : j # i => intent'[j] = intent[j]
    BY <1>1, <2>5 DEF ExecutionInv, TypeOK
  <2>9. /\ proc' \in [Procs -> Threads]
        /\ proc'[p].pc = pc /\ proc'[p].op = proc[p].op /\ proc'[p].i = i
        /\ proc'[p].b = proc[p].b /\ proc'[p].to = proc[p].to
        /\ \A q \in Procs : q # p => proc'[q] = proc[q]
    BY <2>1, GotoFacts DEF ExecutionInv, TypeOK, ProcPC
  <2>10. TypeOK'
    BY <2>2, <2>7, <2>9 DEF ExecutionInv, TypeOK
  <2>11. ThreadOK(p)'
    <3>1. Placed(i)' = {}
      BY <2>2, <2>3, <2>9 DEF Placed
    <3>. QED
      BY <1>1, <2>2, <2>4, <2>8, <2>9, <3>1 DEF ThreadOK, SubmitterOK, HoldsClaim
  <2>12. ASSUME NEW q \in Procs, q # p
         PROVE  ThreadOK(q)' /\ (HoldsClaim(q)' => proc'[q].i # i)
    <3>1. HoldsClaim(q) => proc[q].i \in Intents \ {i}
      BY <2>3 DEF ExecutionInv, ThreadsOK, ThreadOK, SubmitterOK, HoldsClaim, Idle
    <3>2. proc'[q] = proc[q]
      BY <2>9, <2>12
    <3>3. HoldsClaim(q) => /\ intent'[proc[q].i].status = intent[proc[q].i].status
                           /\ Placed(proc[q].i) = {} => Placed(proc[q].i)' = {}
      BY <2>2, <2>8, <3>1, <3>2 DEF Placed
    <3>4. \A j \in Intents : intent[j].status # "absent" => intent'[j].status # "absent"
      BY <2>4, <2>8
    <3>5. \A j \in Intents : intent[j].status \in Handled
                  => intent'[j].status \in Handled
                     /\ (approval[j] # "rejected" => approval'[j] # "rejected")
      BY <2>2, <2>3, <2>8 DEF Handled, Tracked
    <3>6. ThreadOK(q)'
      BY <2>2, <3>2, <3>3, <3>4, <3>5, ThreadFrame DEF ExecutionInv, ThreadsOK, TypeOK
    <3>. QED
      BY <3>1, <3>2, <3>6 DEF HoldsClaim
  <2>13. ThreadsOK'
    BY <2>11, <2>12 DEF ThreadsOK
  <2>14. ClaimsAreExclusive'
    <3> SUFFICES ASSUME NEW a \in Procs, NEW c \in Procs, HoldsClaim(a)', HoldsClaim(c)',
                        proc'[a].i = proc'[c].i
                 PROVE  a = c
      BY DEF ClaimsAreExclusive
    <3>1. CASE a = p \/ c = p
      BY <2>9, <2>12, <3>1
    <3>2. CASE a # p /\ c # p
      BY <2>9, <3>2 DEF ExecutionInv, ClaimsAreExclusive, HoldsClaim
    <3>. QED
      BY <3>1, <3>2
  <2>. QED
    BY <2>7, <2>10, <2>13, <2>14 DEF ExecutionInv
<1>. QED
  BY <1>2, <1>3

(* A holder of a claim gives it up by writing the outcome on the intent:   *)
(* MarkUnplaced and submit's SetIntentStatus.                              *)
LEMMA OutcomeKeeps ==
    ASSUME ExecutionInv, NEW p \in Procs, NEW i \in Intents, i = proc[p].i,
           UNCHANGED <<approval, order, fill, book, analyzer, config>>,
           proc' \in [Procs -> Threads],
           \A q \in Procs : q # p => proc'[q] = proc[q],
           NEW row \in IntentRows, intent' = [intent EXCEPT ![i] = row],
           row.decision = intent[i].decision,
           row.broker # NoBroker => book[row.broker].status # "none",
           \/ HoldsClaim(p) /\ row.status \in Unplaced \cup {"submitted"}
           \/ intent[i].status \in Handled /\ row.status \in Handled
              /\ approval[i] # "rejected",
           ThreadOK(p)', ~HoldsClaim(p)'
    PROVE  ExecutionInv'
<1>1. intent[i].status \in Handled \cup {"submitting"} /\ approval[i] # "rejected"
  <2>1. CASE HoldsClaim(p)
    BY <2>1 DEF ExecutionInv, ThreadsOK, ThreadOK, TrackerOK, SubmitterOK,
                HoldsClaim, Idle, IntentsOK
  <2>. QED
    BY <2>1
<1>2. intent[i].status \notin {"absent", "pending_approval", "approved"}
  BY <1>1 DEF Handled, Tracked
<1>3. row.status \notin {"absent", "pending_approval", "approved"}
  BY DEF Handled, Tracked, Unplaced
<1>4. row.decision \in Decisions /\ approval[i] # "pending"
  BY <1>2 DEF ExecutionInv, IntentsOK
<1>5. approval' = approval /\ approval' \in [Intents -> ApprovalStatus]
  BY DEF ExecutionInv, TypeOK
<1>6. /\ intent' \in [Intents -> IntentRows]
      /\ IntentsOK' /\ BookOK' /\ AtMostOneOrderPerIntent'
  BY <1>1, <1>3, <1>4, <1>5, IntentFrame
<1>7. TypeOK'
  BY <1>6 DEF ExecutionInv, TypeOK
<1>8. /\ intent'[i] = row
      /\ \A j \in Intents : j # i => intent'[j] = intent[j]
  BY DEF ExecutionInv, TypeOK
<1>9. ASSUME NEW q \in Procs, q # p
      PROVE  ThreadOK(q)'
  <2>1. proc'[q] = proc[q]
    BY <1>9
  <2>2. HoldsClaim(q) => proc[q].i \in Intents \ {i}
    <3>1. HoldsClaim(q) => intent[proc[q].i].status = "submitting" /\ proc[q].i \in Intents
      BY DEF ExecutionInv, ThreadsOK, ThreadOK, SubmitterOK, HoldsClaim, Idle
    <3>2. HoldsClaim(q) /\ HoldsClaim(p) => proc[q].i # i
      BY <1>9 DEF ExecutionInv, ClaimsAreExclusive
    <3>3. intent[i].status \in Handled => intent[i].status # "submitting"
      BY DEF Handled, Tracked
    <3>. QED
      BY <3>1, <3>2, <3>3
  <2>3. HoldsClaim(q) => /\ intent'[proc[q].i].status = intent[proc[q].i].status
                         /\ Placed(proc[q].i) = {} => Placed(proc[q].i)' = {}
    BY <1>8, <2>1, <2>2 DEF Placed
  <2>4. \A j \in Intents : intent[j].status # "absent" => intent'[j].status # "absent"
    BY <1>3, <1>8
  <2>5. \A j \in Intents : intent[j].status \in Handled
                => intent'[j].status \in Handled
                   /\ (approval[j] # "rejected" => approval'[j] # "rejected")
    <3>1. HoldsClaim(p) => intent[i].status = "submitting"
      BY DEF ExecutionInv, ThreadsOK, ThreadOK, SubmitterOK, HoldsClaim, Idle
    <3>2. intent[i].status \in Handled => row.status \in Handled
      BY <3>1 DEF Handled, Tracked
    <3>. QED
      BY <1>5, <1>8, <3>2
  <2>. QED
    BY <2>1, <2>3, <2>4, <2>5, ThreadFrame DEF ExecutionInv, ThreadsOK, TypeOK
<1>10. ThreadsOK'
  BY <1>9 DEF ThreadsOK
<1>11. ClaimsAreExclusive'
  BY DEF ExecutionInv, ClaimsAreExclusive, HoldsClaim
<1>. QED
  BY <1>6, <1>7, <1>10, <1>11 DEF ExecutionInv

(* submit's except branches write the intent.                              *)
LEMMA MarkUnplacedKeeps ==
    ASSUME ExecutionInv, NEW p \in Procs, MarkUnplaced(p)
    PROVE  ExecutionInv'
<1> DEFINE i == proc[p].i
           row == [intent[i] EXCEPT !.status = proc[p].to]
<1>1. /\ proc[p].op = "submit" /\ SubmitterOK(p) /\ i \in Intents
      /\ HoldsClaim(p) /\ proc[p].to \in Unplaced
  BY SubmitterAt DEF MarkUnplaced, At, SubmitterOK, HoldsClaim
<1>2. /\ proc' \in [Procs -> Threads]
      /\ proc'[p].pc = "transition" /\ proc'[p].op = proc[p].op /\ proc'[p].i = i
      /\ proc'[p].b = proc[p].b /\ proc'[p].to = proc[p].to
      /\ \A q \in Procs : q # p => proc'[q] = proc[q]
  BY GotoFacts DEF MarkUnplaced, ExecutionInv, TypeOK, ProcPC
<1>3. /\ row \in IntentRows /\ row.status = proc[p].to
      /\ row.decision = intent[i].decision /\ row.broker = intent[i].broker
  BY <1>1 DEF ExecutionInv, TypeOK, IntentRows, IntentStatus, Unplaced
<1>4. intent' = [intent EXCEPT ![i] = row]
  BY DEF MarkUnplaced
<1>5. intent'[i].status = proc[p].to
  BY <1>1, <1>3, <1>4 DEF ExecutionInv, TypeOK
<1>6. UNCHANGED <<approval, order, fill, book, analyzer, config>>
  BY DEF MarkUnplaced
<1>7. row.broker # NoBroker => book[row.broker].status # "none"
  BY <1>1, <1>3 DEF ExecutionInv, IntentsOK
<1>8. ThreadOK(p)' /\ ~HoldsClaim(p)'
  BY <1>1, <1>2, <1>5, <1>6 DEF ThreadOK, SubmitterOK, HoldsClaim, Unplaced
<1>. HIDE DEF row
<1>. QED
  BY <1>1, <1>2, <1>3, <1>4, <1>6, <1>7, <1>8, OutcomeKeeps

(* submit, reconcile and cancel write the intent at their end.             *)
LEMMA SetIntentStatusKeeps ==
    ASSUME ExecutionInv, NEW p \in Procs, SetIntentStatus(p)
    PROVE  ExecutionInv'
<1> DEFINE i == proc[p].i
           br == IF proc[p].op = "submit" THEN proc[p].b ELSE intent[i].broker
           row == [intent[i] EXCEPT !.status = proc[p].to, !.broker = br]
<1>1. \/ proc[p].op = "submit" /\ SubmitterOK(p)
      \/ proc[p].op \in {"reconcile", "cancel"} /\ TrackerOK(p)
  BY WriterAt DEF SetIntentStatus, At
<1>2. i \in Intents /\ intent[i] \in IntentRows
  BY <1>1 DEF SubmitterOK, TrackerOK, ExecutionInv, TypeOK
<1>3. /\ proc' \in [Procs -> Threads] /\ proc'[p] = Idle
      /\ \A q \in Procs : q # p => proc'[q] = proc[q]
  BY LeaveFacts DEF SetIntentStatus, ExecutionInv, TypeOK
<1>4. \/ HoldsClaim(p) /\ proc[p].to = "submitted"
      \/ /\ intent[i].status \in Handled /\ proc[p].to \in Handled
         /\ approval[i] # "rejected"
  BY <1>1 DEF SubmitterOK, TrackerOK, HoldsClaim, SetIntentStatus, At
<1>5. /\ br \in Brokers \cup {NoBroker}
      /\ br # NoBroker => book[br].status # "none"
  <2>1. CASE proc[p].op = "submit"
    BY <1>1, <2>1 DEF SubmitterOK, SetIntentStatus, At
  <2>2. CASE proc[p].op # "submit"
    BY <1>2, <2>2 DEF ExecutionInv, IntentsOK, IntentRows
  <2>. QED
    BY <2>1, <2>2
<1>6. proc[p].to \in IntentStatus
  BY <1>4 DEF Handled, Tracked, IntentStatus
<1>7. /\ row \in IntentRows /\ row.status = proc[p].to
      /\ row.decision = intent[i].decision /\ row.broker = br
  <2> HIDE DEF br
  <2>. QED
    BY <1>2, <1>5, <1>6 DEF IntentRows
<1>8. intent' = [intent EXCEPT ![i] = row]
  BY <1>2 DEF SetIntentStatus, ExecutionInv, TypeOK, IntentRows
<1>9. ThreadOK(p)' /\ ~HoldsClaim(p)'
  BY <1>3 DEF ThreadOK, HoldsClaim, Idle
<1>10. UNCHANGED <<approval, order, fill, book, analyzer, config>>
  BY DEF SetIntentStatus
<1>. HIDE DEF row, br
<1>. QED
  BY <1>2, <1>3, <1>4, <1>5, <1>7, <1>8, <1>9, <1>10, OutcomeKeeps

(* Steps that only move orders the broker already has.                     *)
LEMMA BookFrame ==
    ASSUME ExecutionInv, UNCHANGED <<intent, approval, order, fill, config>>,
           book' \in [Brokers -> BookEntries],
           \A b \in Brokers :
              /\ book'[b].intent = book[b].intent
              /\ book'[b].status = "none" <=> book[b].status = "none"
              /\ book'[b].status \in Working \cup
                     {"none", "complete", "rejected", "cancelled"}
    PROVE  /\ IntentsOK' /\ BookOK' /\ AtMostOneOrderPerIntent'
           /\ \A p \in Procs : proc'[p] = proc[p] => ThreadOK(p)'
<1>1. IntentsOK'
  BY DEF ExecutionInv, IntentsOK, TypeOK, IntentRows
<1>2. BookOK'
  BY DEF ExecutionInv, BookOK
<1>3. AtMostOneOrderPerIntent'
  BY DEF ExecutionInv, AtMostOneOrderPerIntent
<1>4. ASSUME NEW p \in Procs, proc'[p] = proc[p]
      PROVE  ThreadOK(p)'
  <2>1. Placed(proc[p].i)' = Placed(proc[p].i)
    BY <1>4 DEF Placed
  <2>2. \A b \in Brokers : book[b].status # "none" => book'[b].status # "none"
    OBVIOUS
  <2>. QED
    BY <1>4, <2>1, <2>2, ThreadFrame DEF ExecutionInv, ThreadsOK, TypeOK
<1>. QED
  BY <1>1, <1>2, <1>3, <1>4

(* Steps of the broker that move no thread.                                *)
LEMMA BrokerAloneKeeps ==
    ASSUME ExecutionInv, UNCHANGED <<stored, analyzer, config, proc>>,
           book' \in [Brokers -> BookEntries],
           \A b \in Brokers :
              /\ book'[b].intent = book[b].intent
              /\ book'[b].status = "none" <=> book[b].status = "none"
              /\ book'[b].status \in Working \cup
                     {"none", "complete", "rejected", "cancelled"}
    PROVE  ExecutionInv'
<1>1. UNCHANGED <<intent, approval, order, fill, config, proc, analyzer>>
  BY DEF stored
<1>2. TypeOK' /\ ClaimsAreExclusive'
  BY <1>1 DEF ExecutionInv, TypeOK, ClaimsAreExclusive, HoldsClaim
<1>3. ThreadsOK'
  BY <1>1, BookFrame DEF ThreadsOK
<1>. QED
  BY <1>1, <1>2, <1>3, BookFrame DEF ExecutionInv

(* An order moves at the broker.                                           *)
LEMMA BrokerMovesKeeps ==
    ASSUME ExecutionInv, NEW b \in Brokers, BrokerMoves(b)
    PROVE  ExecutionInv'
<1>1. PICK s \in Working \cup {"complete", "rejected", "cancelled"} :
         book' = [book EXCEPT ![b].status = s]
  BY DEF BrokerMoves
<1>2. s \in BrokerStatus /\ s # "none" /\ book[b].status # "none"
  BY OEAssumption DEF BrokerStatus, BrokerMoves
<1>3. /\ book' \in [Brokers -> BookEntries]
      /\ \A c \in Brokers : /\ book'[c].intent = book[c].intent
                            /\ book'[c].status = IF c = b THEN s ELSE book[c].status
  BY <1>1, <1>2 DEF ExecutionInv, TypeOK, BookEntries
<1>4. UNCHANGED <<stored, analyzer, config, proc>>
  BY DEF BrokerMoves
<1>5. \A c \in Brokers : book[c].status \in Working \cup
                             {"none", "complete", "rejected", "cancelled"}
  BY DEF ExecutionInv, BookOK
<1>. QED
  BY <1>2, <1>3, <1>4, <1>5, BrokerAloneKeeps

(* cancel_all cancels what still works.                                    *)
LEMMA EmergencyCancelKeeps ==
    ASSUME ExecutionInv, EmergencyCancel
    PROVE  ExecutionInv'
<1>1. /\ book' \in [Brokers -> BookEntries]
      /\ \A c \in Brokers :
            /\ book'[c].intent = book[c].intent
            /\ book'[c].status = IF book[c].status \in Working THEN "cancelled"
                                 ELSE book[c].status
  BY DEF EmergencyCancel, ExecutionInv, TypeOK, BookEntries, BrokerStatus
<1>2. UNCHANGED <<stored, analyzer, config, proc>>
  BY DEF EmergencyCancel
<1>3. \A c \in Brokers : book[c].status \in Working \cup
                             {"none", "complete", "rejected", "cancelled"}
  BY DEF ExecutionInv, BookOK
<1>4. "none" \notin Working
  BY OEAssumption
<1>. QED
  BY <1>1, <1>2, <1>3, <1>4, BrokerAloneKeeps

(* cancel_order reaches the broker.                                        *)
LEMMA CancelAtBrokerKeeps ==
    ASSUME ExecutionInv, NEW p \in Procs, CancelAtBroker(p)
    PROVE  ExecutionInv'
<1> DEFINE b == proc[p].b
<1>1. /\ proc[p].op \in {"reconcile", "cancel"} /\ TrackerOK(p)
      /\ b \in Brokers
  BY TrackerAt DEF CancelAtBroker, At, TrackerOK
<1>2. CASE book' = book /\ Leave(p)
  BY <1>2, LeaveKeeps DEF CancelAtBroker, OthersKept, ExecutionInv, TypeOK, stored
<1>3. CASE /\ book[b].status \in Working
           /\ book' = [book EXCEPT ![b].status = "cancelled"]
           /\ Steer(p, "transition", "cancelled") \/ Leave(p)
  <2>1. UNCHANGED <<intent, approval, order, fill, config, analyzer>>
    BY DEF CancelAtBroker, stored
  <2>2. /\ book' \in [Brokers -> BookEntries]
        /\ \A c \in Brokers :
              /\ book'[c].intent = book[c].intent
              /\ book'[c].status = IF c = b THEN "cancelled" ELSE book[c].status
    BY <1>1, <1>3 DEF ExecutionInv, TypeOK, BookEntries, BrokerStatus
  <2>3. \A c \in Brokers : book[c].status \in Working \cup
                               {"none", "complete", "rejected", "cancelled"}
    BY DEF ExecutionInv, BookOK
  <2>4. book[b].status # "none"
    BY <1>3, OEAssumption
  <2>5. /\ IntentsOK' /\ BookOK' /\ AtMostOneOrderPerIntent'
        /\ \A q \in Procs : proc'[q] = proc[q] => ThreadOK(q)'
    <3> HIDE DEF b
    <3>. QED
      BY <2>1, <2>2, <2>3, <2>4, BookFrame
  <2>6. /\ proc' \in [Procs -> Threads]
        /\ \A q \in Procs : q # p => proc'[q] = proc[q]
        /\ \/ proc'[p] = Idle
           \/ /\ proc'[p].pc = "transition" /\ proc'[p].to = "cancelled"
              /\ proc'[p].op = proc[p].op /\ proc'[p].i = proc[p].i
              /\ proc'[p].b = b
    <3>1. proc \in [Procs -> Threads]
      BY DEF ExecutionInv, TypeOK
    <3>2. "transition" \in ProcPC /\ "cancelled" \in IntentStatus
      BY DEF ProcPC, IntentStatus
    <3>. QED
      BY <1>3, <3>1, <3>2, SteerFacts, LeaveFacts
  <2>7. ThreadOK(p)' /\ ~HoldsClaim(p)'
    BY <1>1, <2>1, <2>2, <2>6 DEF ThreadOK, TrackerOK, HoldsClaim, Idle
  <2>8. TypeOK'
    BY <2>1, <2>2, <2>6 DEF ExecutionInv, TypeOK
  <2>9. ThreadsOK'
    BY <2>5, <2>6, <2>7 DEF ThreadsOK
  <2>10. ClaimsAreExclusive'
    BY <2>6, <2>7 DEF ExecutionInv, ClaimsAreExclusive, HoldsClaim
  <2>. QED
    BY <2>5, <2>8, <2>9, <2>10 DEF ExecutionInv
<1>. QED
  BY <1>2, <1>3 DEF CancelAtBroker

(* The only step that gives the broker an order is taken by the holder of  *)
(* the intent's claim, which has placed none before.                       *)
LEMMA BrokerHandlesKeeps ==
    ASSUME ExecutionInv, NEW p \in Procs, BrokerHandles(p)
    PROVE  ExecutionInv'
<1> DEFINE i == proc[p].i
<1>1. /\ proc[p].op = "submit" /\ SubmitterOK(p) /\ i \in Intents /\ HoldsClaim(p)
      /\ Placed(i) = {} /\ intent[i].status = "submitting"
  BY SubmitterAt DEF BrokerHandles, At, SubmitterOK, HoldsClaim
<1>2. UNCHANGED <<intent, approval, order, fill, analyzer, config>>
  BY DEF BrokerHandles, stored
<1>3. CASE Goto(p, "answer") /\ book' = book
  <2>1. OthersKept
    BY <1>2, <1>3 DEF OthersKept, ExecutionInv, TypeOK
  <2>2. /\ proc' \in [Procs -> Threads]
        /\ proc'[p].pc = "answer" /\ proc'[p].op = proc[p].op /\ proc'[p].i = i
        /\ proc'[p].b = proc[p].b
        /\ \A q \in Procs : q # p => proc'[q] = proc[q]
    BY <1>3, GotoFacts DEF ExecutionInv, TypeOK, ProcPC
  <2>3. proc'[p].b = NoBroker \/ book[proc'[p].b].status # "none"
    BY <1>1, <2>2 DEF SubmitterOK
  <2>4. ThreadOK(p)' /\ HoldsClaim(p)'
    BY <1>1, <1>2, <1>3, <2>2, <2>3 DEF ThreadOK, SubmitterOK, HoldsClaim
  <2>. QED
    BY <1>1, <2>1, <2>2, <2>4, MoveKeeps DEF OthersKept
<1>4. ASSUME NEW b \in Brokers, NEW s \in Working, book[b].status = "none",
             book' = [book EXCEPT ![b] =
                   [intent |-> proc[p].i, qty |-> intent[proc[p].i].qty,
                    live |-> ~analyzer, status |-> s]],
             proc' = [proc EXCEPT ![p].pc = "answer", ![p].b = b]
      PROVE  ExecutionInv'
  <2>1. /\ proc' \in [Procs -> Threads]
        /\ proc'[p].pc = "answer" /\ proc'[p].op = proc[p].op /\ proc'[p].i = i
        /\ proc'[p].b = b
        /\ \A q \in Procs : q # p => proc'[q] = proc[q]
    BY <1>4 DEF ExecutionInv, TypeOK, Threads, ProcPC
  <2>2. s \in BrokerStatus /\ s # "none" /\ intent[i].qty \in Nat
    BY <1>1, OEAssumption DEF BrokerStatus, ExecutionInv, TypeOK, IntentRows
  <2>3. /\ book' \in [Brokers -> BookEntries]
        /\ book'[b].intent = i /\ book'[b].status = s
        /\ \A c \in Brokers : c # b => book'[c] = book[c]
    BY <1>1, <1>4, <2>2 DEF ExecutionInv, TypeOK, BookEntries
  <2>4. TypeOK'
    BY <1>2, <2>1, <2>3 DEF ExecutionInv, TypeOK
  <2>5. IntentsOK'
    BY <1>2, <2>2, <2>3 DEF ExecutionInv, IntentsOK, TypeOK, IntentRows
  <2>6. BookOK'
    <3>1. approval[i] # "rejected"
      BY <1>1 DEF ExecutionInv, IntentsOK
    <3>. QED
      BY <1>1, <1>2, <2>2, <2>3, <3>1, OEAssumption DEF ExecutionInv, BookOK
  <2>7. AtMostOneOrderPerIntent'
    <3>1. \A c \in Brokers : book[c].intent # i
      BY <1>1 DEF Placed
    <3>. QED
      BY <2>3, <3>1 DEF ExecutionInv, AtMostOneOrderPerIntent
  <2>8. ThreadOK(p)'
    BY <1>1, <1>2, <2>1, <2>2, <2>3 DEF ThreadOK, SubmitterOK, HoldsClaim
  <2>9. ASSUME NEW q \in Procs, q # p
        PROVE  ThreadOK(q)'
    <3>1. proc'[q] = proc[q]
      BY <2>1, <2>9
    <3>2. HoldsClaim(q) => proc[q].i # i
      BY <1>1, <2>9 DEF ExecutionInv, ClaimsAreExclusive
    <3>3. HoldsClaim(q) /\ Placed(proc[q].i) = {} => Placed(proc[q].i)' = {}
      BY <2>3, <3>1, <3>2 DEF Placed
    <3>4. \A c \in Brokers : book[c].status # "none" => book'[c].status # "none"
      BY <1>4, <2>3
    <3>. QED
      BY <1>2, <3>1, <3>3, <3>4, ThreadFrame DEF ExecutionInv, ThreadsOK, TypeOK
  <2>10. ThreadsOK'
    BY <2>8, <2>9 DEF ThreadsOK
  <2>11. ClaimsAreExclusive'
    BY <1>1, <2>1 DEF ExecutionInv, ClaimsAreExclusive, HoldsClaim
  <2>. QED
    BY <2>4, <2>5, <2>6, <2>7, <2>10, <2>11 DEF ExecutionInv
<1>. QED
  BY <1>3, <1>4 DEF BrokerHandles

(* The broker changes mode.                                                *)
LEMMA ToggleAnalyzerKeeps ==
    ASSUME ExecutionInv, ToggleAnalyzer
    PROVE  ExecutionInv'
<1>1. UNCHANGED <<intent, approval, order, fill, book, config, proc>>
  BY DEF ToggleAnalyzer, stored
<1>2. TypeOK'
  BY <1>1 DEF ToggleAnalyzer, ExecutionInv, TypeOK
<1>3. ThreadsOK'
  BY <1>1 DEF ExecutionInv, ThreadsOK, ThreadOK, SubmitterOK, TrackerOK,
              HoldsClaim, Placed
<1>. QED
  BY <1>1, <1>2, <1>3 DEF ExecutionInv, ClaimsAreExclusive, HoldsClaim,
              IntentsOK, BookOK, AtMostOneOrderPerIntent

(* The process restarts: every thread is gone, the rows stay.              *)
LEMMA RestartKeeps ==
    ASSUME ExecutionInv, Restart
    PROVE  ExecutionInv'
<1>1. UNCHANGED <<intent, approval, order, fill, book, analyzer>>
  BY DEF Restart, stored
<1>2. \A p \in Procs : proc'[p] = Idle
  BY DEF Restart
<1>3. TypeOK'
  BY <1>1 DEF Restart, ExecutionInv, TypeOK, Threads, ProcPC, Idle
<1>4. ThreadsOK' /\ ClaimsAreExclusive'
  BY <1>2 DEF ThreadsOK, ThreadOK, ClaimsAreExclusive, HoldsClaim, Idle
<1>. QED
  BY <1>1, <1>3, <1>4 DEF ExecutionInv, IntentsOK, BookOK, AtMostOneOrderPerIntent

(***************************************************************************)
(* The invariant holds initially and every step keeps it.                  *)
(***************************************************************************)
LEMMA InitInv == Init => ExecutionInv
<1> SUFFICES ASSUME Init PROVE ExecutionInv
  OBVIOUS
<1>1. TypeOK
  BY DEF Init, TypeOK, NoIntentRow, IntentRows, IntentStatus, ApprovalStatus,
         NoOrder, OrderRows, OrderStatus, NoBookEntry, BookEntries, BrokerStatus,
         Idle, Threads, ProcPC
<1>2. ThreadsOK /\ ClaimsAreExclusive
  BY DEF Init, ThreadsOK, ThreadOK, ClaimsAreExclusive, HoldsClaim, Idle
<1>3. IntentsOK
  BY DEF Init, IntentsOK, NoIntentRow
<1>4. BookOK /\ AtMostOneOrderPerIntent
  BY DEF Init, BookOK, AtMostOneOrderPerIntent, NoBookEntry
<1>. QED
  BY <1>1, <1>2, <1>3, <1>4 DEF ExecutionInv

(* The induction step, action by action.                                   *)
LEMMA NextKeeps == ExecutionInv /\ [Next]_vars => ExecutionInv'
<1> SUFFICES ASSUME ExecutionInv, [Next]_vars PROVE ExecutionInv'
  OBVIOUS
<1>1. CASE UNCHANGED vars
  BY <1>1 DEF vars, ExecutionInv, TypeOK, ThreadsOK, ThreadOK, SubmitterOK, TrackerOK,
              ClaimsAreExclusive, HoldsClaim, IntentsOK, BookOK,
              AtMostOneOrderPerIntent, Placed
<1>2. CASE \E i \in Intents, d \in Decisions, q \in Quantities : PrepareIntent(i, d, q)
  BY <1>2, PrepareIntentKeeps
<1>3. CASE \E i \in Intents : Decide(i)
  BY <1>3, DecideKeeps
<1>4. ASSUME NEW p \in Procs, NEW i \in Intents, Request(p, i)
      PROVE  ExecutionInv'
  BY <1>4, ApproveFromChatKeeps, SubmitRequestKeeps, TrackedRequestKeeps
     DEF Request, ReconcileRequest, CancelRequest
<1>5. ASSUME NEW p \in Procs, ThreadStep(p)
      PROVE  ExecutionInv'
  BY <1>5, SubmitReadKeeps, CheckProviderKeeps, FindOrderKeeps, InsertOrderKeeps,
     ClaimSubmissionKeeps, RecheckAnalyzerKeeps, BrokerHandlesKeeps,
     ReceiveAnswerKeeps, MarkUnplacedKeeps, TransitionReadKeeps,
     TransitionWriteKeeps, SetIntentStatusKeeps, PollBrokerKeeps,
     CompareOrderKeeps, RecordFillKeeps, CancelAtBrokerKeeps DEF ThreadStep
<1>6. CASE \E p \in Procs : Abandon(p)
  BY <1>6, AbandonKeeps
<1>7. CASE \E b \in Brokers : BrokerMoves(b)
  BY <1>7, BrokerMovesKeeps
<1>8. CASE EmergencyCancel \/ ToggleAnalyzer \/ Restart
  BY <1>8, EmergencyCancelKeeps, ToggleAnalyzerKeeps, RestartKeeps
<1>. QED
  BY <1>1, <1>2, <1>3, <1>4, <1>5, <1>6, <1>7, <1>8 DEF Next

(* The state of the service, of every thread and of the broker's book is   *)
(* always the one ExecutionInv describes: for any number of threads,       *)
(* intents and orders, and whatever faults happen.                         *)
THEOREM Invariance == Spec => []ExecutionInv
  BY InitInv, NextKeeps, PTL DEF Spec

(* Every row and every thread has the columns and statuses the code writes. *)
THEOREM Typing == Spec => []TypeOK
<1>1. ExecutionInv => TypeOK
  BY DEF ExecutionInv
<1>. QED
  BY <1>1, Invariance, PTL

(* The atomic claim of _claim_submission is enough: however many threads   *)
(* submit an intent, however often, and wherever one of them dies or the   *)
(* process restarts, the broker never holds two orders of it.              *)
THEOREM NoDoubleOrder == Spec => []AtMostOneOrderPerIntent
<1>1. ExecutionInv => AtMostOneOrderPerIntent
  BY DEF ExecutionInv
<1>. QED
  BY <1>1, Invariance, PTL

(***************************************************************************)
(* What one step does to the intents and to the broker's orders.           *)
(***************************************************************************)
Created(i) ==
    /\ intent[i].status = "absent"
    /\ \E d \in Decisions :
          /\ intent'[i].decision = d
          /\ \/ /\ AsksApproval(d)
                /\ intent'[i].status = "pending_approval" /\ approval'[i] = "pending"
             \/ /\ ~AsksApproval(d)
                /\ intent'[i].status = "approved" /\ approval'[i] = "none"

Decided(i) ==
    /\ intent[i].status = "pending_approval"
    /\ intent'[i].status \in {"approved", "rejected"}
    /\ approval'[i] = intent'[i].status
    /\ intent'[i].decision = intent[i].decision

Claimed(i) ==
    /\ intent[i].status = "approved" /\ intent'[i].status = "submitting"
    /\ intent'[i].decision = intent[i].decision /\ approval'[i] = approval[i]

Resolved(i) ==
    /\ intent[i].status \in Handled \cup {"submitting"}
    /\ intent'[i].status \in Handled \cup Unplaced
    /\ intent'[i].decision = intent[i].decision /\ approval'[i] = approval[i]

SameOrders == \A b \in Brokers : book'[b].intent = book[b].intent
SameIntents == intent' = intent /\ approval' = approval

IntentStep(i) ==
    /\ SameOrders
    /\ \A j \in Intents : j # i => intent'[j] = intent[j] /\ approval'[j] = approval[j]
    /\ Created(i) \/ Decided(i) \/ Claimed(i) \/ Resolved(i)

OrderStep(i, b) ==
    /\ SameIntents
    /\ intent[i].status = "submitting" /\ Placed(i) = {}
    /\ book[b].intent = NoIntent /\ book'[b].intent = i
    /\ \A c \in Brokers : c # b => book'[c].intent = book[c].intent

(* prepare_intent creates one intent.                                      *)
LEMMA PrepareStep ==
    ASSUME ExecutionInv, NEW i \in Intents, NEW d \in Decisions, NEW q \in Quantities,
           PrepareIntent(i, d, q)
    PROVE  IntentStep(i)
<1>1. SameOrders
  BY DEF PrepareIntent, SameOrders
<1>2. \A j \in Intents : j # i => intent'[j] = intent[j] /\ approval'[j] = approval[j]
  BY DEF PrepareIntent, ExecutionInv, TypeOK
<1>3. Created(i)
  BY DEF PrepareIntent, Created, ExecutionInv, TypeOK
<1>. QED
  BY <1>1, <1>2, <1>3 DEF IntentStep

(* decide decides one intent.                                              *)
LEMMA DecideStep ==
    ASSUME ExecutionInv, NEW i \in Intents, NEW verdict \in {"approved", "rejected"},
           DecideEffect(i, verdict)
    PROVE  IntentStep(i)
<1>1. SameOrders
  BY DEF DecideEffect, SameOrders
<1>2. intent[i].status = "pending_approval"
  BY DEF DecideEffect, ExecutionInv, IntentsOK
<1>3. /\ intent'[i].decision = intent[i].decision /\ intent'[i].status = verdict
      /\ approval'[i] = verdict
      /\ \A j \in Intents : j # i => intent'[j] = intent[j] /\ approval'[j] = approval[j]
  BY <1>2 DEF DecideEffect, ExecutionInv, TypeOK, IntentRows
<1>. QED
  BY <1>1, <1>2, <1>3 DEF IntentStep, Decided

(* A successful claim takes one authorised intent.                         *)
LEMMA ClaimStep ==
    ASSUME ExecutionInv, NEW p \in Procs, ClaimSubmission(p), Claimable(proc[p].i)
    PROVE  IntentStep(proc[p].i)
<1> DEFINE i == proc[p].i
<1>1. i \in Intents
  BY SubmitterAt DEF ClaimSubmission, At, SubmitterOK
<1>2. SameOrders /\ approval' = approval
  BY DEF ClaimSubmission, SameOrders
<1>3. /\ intent[i].status = "approved" /\ intent'[i].status = "submitting"
      /\ intent'[i].decision = intent[i].decision
      /\ \A j \in Intents : j # i => intent'[j] = intent[j]
  BY <1>1 DEF ClaimSubmission, Claimable, ExecutionInv, TypeOK, IntentRows
<1>. QED
  BY <1>2, <1>3 DEF IntentStep, Claimed

(* The except branches resolve the thread's intent.                        *)
LEMMA MarkStep ==
    ASSUME ExecutionInv, NEW p \in Procs, MarkUnplaced(p)
    PROVE  proc[p].i \in Intents /\ IntentStep(proc[p].i)
<1> DEFINE i == proc[p].i
<1>1. i \in Intents /\ intent[i].status = "submitting" /\ proc[p].to \in Unplaced
  BY SubmitterAt DEF MarkUnplaced, At, SubmitterOK, HoldsClaim
<1>2. SameOrders /\ approval' = approval
  BY DEF MarkUnplaced, SameOrders
<1>3. /\ intent'[i].status = proc[p].to
      /\ intent'[i].decision = intent[i].decision
      /\ \A j \in Intents : j # i => intent'[j] = intent[j]
  BY <1>1 DEF MarkUnplaced, ExecutionInv, TypeOK, IntentRows
<1>. QED
  BY <1>1, <1>2, <1>3 DEF IntentStep, Resolved

(* So does the last write of submit, reconcile and cancel.                 *)
LEMMA FinishStep ==
    ASSUME ExecutionInv, NEW p \in Procs, SetIntentStatus(p)
    PROVE  proc[p].i \in Intents /\ IntentStep(proc[p].i)
<1> DEFINE i == proc[p].i
<1>1. /\ i \in Intents /\ intent[i].status \in Handled \cup {"submitting"}
      /\ proc[p].to \in Handled
  BY WriterAt DEF SetIntentStatus, At, SubmitterOK, TrackerOK, HoldsClaim, Handled, Tracked
<1>2. SameOrders /\ approval' = approval
  BY DEF SetIntentStatus, SameOrders
<1>3. /\ intent'[i].status = proc[p].to
      /\ intent'[i].decision = intent[i].decision
      /\ \A j \in Intents : j # i => intent'[j] = intent[j]
  BY <1>1 DEF SetIntentStatus, ExecutionInv, TypeOK, IntentRows
<1>. QED
  BY <1>1, <1>2, <1>3 DEF IntentStep, Resolved

(* The broker accepts one order of a claimed intent, or none.              *)
LEMMA HandleStep ==
    ASSUME ExecutionInv, NEW p \in Procs, BrokerHandles(p)
    PROVE  \/ SameIntents /\ SameOrders
           \/ \E i \in Intents, b \in Brokers : OrderStep(i, b)
<1>1. /\ proc[p].i \in Intents /\ Placed(proc[p].i) = {}
      /\ intent[proc[p].i].status = "submitting"
  BY SubmitterAt DEF BrokerHandles, At, SubmitterOK, HoldsClaim
<1>2. SameIntents
  BY DEF BrokerHandles, SameIntents, stored
<1>3. CASE book' = book
  BY <1>2, <1>3 DEF SameOrders
<1>4. ASSUME NEW b \in Brokers, NEW s \in Working,
             book[b].status = "none",
             book' = [book EXCEPT ![b] =
                   [intent |-> proc[p].i, qty |-> intent[proc[p].i].qty,
                    live |-> ~analyzer, status |-> s]]
      PROVE  OrderStep(proc[p].i, b)
  BY <1>1, <1>2, <1>4 DEF OrderStep, ExecutionInv, TypeOK, BookOK
<1>. QED
  BY <1>1, <1>2, <1>3, <1>4 DEF BrokerHandles

(* Status changes at the broker create no order.                           *)
LEMMA SameOrdersSteps ==
    ASSUME ExecutionInv,
           \/ \E p \in Procs : CancelAtBroker(p)
           \/ \E b \in Brokers : BrokerMoves(b)
           \/ EmergencyCancel
    PROVE  SameIntents /\ SameOrders
<1>1. SameIntents
  BY DEF CancelAtBroker, BrokerMoves, EmergencyCancel, SameIntents, stored
<1>2. ASSUME NEW b \in Brokers, NEW s \in BrokerStatus,
             book' = [book EXCEPT ![b].status = s]
      PROVE  SameOrders
  BY <1>2 DEF SameOrders, ExecutionInv, TypeOK, BookEntries
<1>3. ASSUME NEW p \in Procs, CancelAtBroker(p)
      PROVE  SameOrders
  <2>1. proc[p].b \in Brokers /\ "cancelled" \in BrokerStatus
    BY <1>3, TrackerAt DEF CancelAtBroker, At, TrackerOK, BrokerStatus
  <2>2. CASE book' = book
    BY <2>2 DEF SameOrders
  <2>. QED
    BY <1>2, <1>3, <2>1, <2>2 DEF CancelAtBroker
<1>4. ASSUME NEW b \in Brokers, BrokerMoves(b)
      PROVE  SameOrders
  BY <1>2, <1>4, OEAssumption DEF BrokerMoves, BrokerStatus
<1>5. ASSUME EmergencyCancel
      PROVE  SameOrders
  <2> SUFFICES ASSUME NEW b \in Brokers PROVE book'[b].intent = book[b].intent
    BY DEF SameOrders
  <2>1. book[b] \in BookEntries
    BY DEF ExecutionInv, TypeOK
  <2>2. [book[b] EXCEPT !.status = "cancelled"].intent = book[b].intent
    BY <2>1 DEF BookEntries
  <2>3. book'[b] = IF book[b].status \in Working
                   THEN [book[b] EXCEPT !.status = "cancelled"] ELSE book[b]
    BY <1>5 DEF EmergencyCancel
  <2>. QED
    BY <2>2, <2>3
<1>. QED
  BY <1>1, <1>3, <1>4, <1>5

(* Every step creates, decides, claims or resolves one intent, or gives    *)
(* the broker one order, or does neither.                                  *)
LEMMA StepShape ==
    ASSUME ExecutionInv, [Next]_vars
    PROVE  \/ SameIntents /\ SameOrders
           \/ \E i \in Intents : IntentStep(i)
           \/ \E i \in Intents, b \in Brokers : OrderStep(i, b)
<1>1. CASE UNCHANGED vars
  BY <1>1 DEF vars, SameIntents, SameOrders
<1>2. CASE \E i \in Intents, d \in Decisions, q \in Quantities : PrepareIntent(i, d, q)
  BY <1>2, PrepareStep
<1>3. CASE \E i \in Intents : Decide(i)
  BY <1>3, DecideStep DEF Decide
<1>4. ASSUME NEW p \in Procs, NEW i \in Intents, Request(p, i)
      PROVE  (SameIntents /\ SameOrders) \/ IntentStep(i)
  <2>1. CASE ApproveFromChat(p, i)
    BY <2>1, DecideStep DEF ApproveFromChat
  <2>. QED
    BY <1>4, <2>1 DEF Request, SubmitRequest, ReconcileRequest, CancelRequest,
       TrackedRequest, SameIntents, SameOrders, stored
<1>5. ASSUME NEW p \in Procs, ThreadStep(p)
      PROVE  \/ SameIntents /\ SameOrders
             \/ \E i \in Intents : IntentStep(i)
             \/ \E i \in Intents, b \in Brokers : OrderStep(i, b)
  <2>1. CASE ClaimSubmission(p)
    <3>1. proc[p].i \in Intents
      BY <2>1, SubmitterAt DEF ClaimSubmission, At, SubmitterOK
    <3>2. CASE Claimable(proc[p].i)
      BY <2>1, <3>1, <3>2, ClaimStep
    <3>3. CASE ~Claimable(proc[p].i)
      BY <2>1, <3>3 DEF ClaimSubmission, SameIntents, SameOrders
    <3>. QED
      BY <3>2, <3>3
  <2>2. CASE MarkUnplaced(p)
    BY <2>2, MarkStep
  <2>3. CASE SetIntentStatus(p)
    BY <2>3, FinishStep
  <2>4. CASE BrokerHandles(p)
    BY <2>4, HandleStep
  <2>5. CASE CancelAtBroker(p)
    BY <2>5, SameOrdersSteps
  <2>6. CASE \/ SubmitRead(p) \/ CheckProvider(p) \/ FindOrder(p) \/ InsertOrder(p)
             \/ RecheckAnalyzer(p) \/ ReceiveAnswer(p) \/ TransitionRead(p)
             \/ TransitionWrite(p) \/ PollBroker(p) \/ CompareOrder(p) \/ RecordFill(p)
    BY <2>6 DEF SubmitRead, CheckProvider, FindOrder, InsertOrder, RecheckAnalyzer,
       ReceiveAnswer, TransitionRead, TransitionWrite, PollBroker, CompareOrder,
       RecordFill, SameIntents, SameOrders, stored
  <2>. QED
    BY <1>5, <2>1, <2>2, <2>3, <2>4, <2>5, <2>6 DEF ThreadStep
<1>6. CASE (\E p \in Procs : Abandon(p)) \/ ToggleAnalyzer \/ Restart
  BY <1>6 DEF Abandon, ToggleAnalyzer, Restart, SameIntents, SameOrders, stored
<1>7. CASE (\E b \in Brokers : BrokerMoves(b)) \/ EmergencyCancel
  BY <1>7, SameOrdersSteps
<1>. QED
  BY <1>1, <1>2, <1>3, <1>4, <1>5, <1>6, <1>7 DEF Next

(* A submission recorded as failed or uncertain is never tried again and   *)
(* never taken for anything else, whatever stale threads still run: a      *)
(* retry could place a second order.                                       *)
THEOREM UnplacedForEver == Spec => UnplacedIsFinal
<1>1. ExecutionInv /\ [Next]_vars =>
        [\A i \in Intents : intent[i].status \in Unplaced
                              => intent'[i].status = intent[i].status]_vars
  <2> SUFFICES ASSUME ExecutionInv, [Next]_vars,
                      NEW i \in Intents, intent[i].status \in Unplaced
               PROVE  intent'[i].status = intent[i].status
    OBVIOUS
  <2>1. ASSUME IntentStep(i) PROVE FALSE
    BY <2>1 DEF IntentStep, Created, Decided, Claimed, Resolved, Unplaced, Handled, Tracked
  <2>2. CASE \E j \in Intents : IntentStep(j)
    BY <2>1, <2>2 DEF IntentStep
  <2>. QED
    BY <2>2, StepShape DEF SameIntents, OrderStep
<1>. QED
  BY <1>1, Invariance, PTL DEF Spec, UnplacedIsFinal

(* Nothing reaches the broker that was not authorised.  The strengthening: *)
(* every intent past its approval is.                                      *)
Authorised(i) ==
    \/ approval[i] = "approved"
    \/ approval[i] = "none" /\ ~IsLive(i)

AuthorisationInv ==
    \A i \in Intents :
        intent[i].status \notin {"absent", "pending_approval"}
        /\ approval[i] # "rejected" => Authorised(i)

(* Threads that have passed the live gate and not yet posted.              *)
Gated(p) == proc[p].pc \in {"check", "find", "insert", "claim", "recheck", "post"}

GateInv == \A p \in Procs : Gated(p) /\ IsLive(proc[p].i) => config.live

(* The decision of an intent is given once.                                *)
LEMMA DecisionKept ==
    ASSUME ExecutionInv, [Next]_vars, NEW i \in Intents, intent[i].status # "absent"
    PROVE  intent'[i].decision = intent[i].decision
<1>1. ASSUME NEW j \in Intents, IntentStep(j)
      PROVE  intent'[i].decision = intent[i].decision
  BY <1>1 DEF IntentStep, Created, Decided, Claimed, Resolved
<1>. QED
  BY <1>1, StepShape DEF SameIntents, OrderStep

(* What a step of a thread does to it: it passes the gate, stays past it,  *)
(* or is not between the gate and the post.                                *)
LEMMA GateStep ==
    ASSUME ExecutionInv, NEW p \in Procs, ThreadStep(p)
    PROVE  /\ \A q \in Procs : q # p => proc'[q] = proc[q]
           /\ config' = config
           /\ Gated(p)' => /\ proc'[p].i = proc[p].i
                           /\ \/ Gated(p)
                              \/ At(p, "start") /\ MaySubmit(proc[p].i)
<1>1. proc \in [Procs -> Threads]
  BY DEF ExecutionInv, TypeOK
<1>2. CASE Leave(p)
  <2>1. ~Gated(p)' /\ \A q \in Procs : q # p => proc'[q] = proc[q]
    BY <1>1, <1>2, LeaveFacts DEF Gated, Idle
  <2>2. config' = config
    BY DEF ThreadStep, SubmitRead, CheckProvider, FindOrder, InsertOrder, ClaimSubmission,
       RecheckAnalyzer, BrokerHandles, ReceiveAnswer, MarkUnplaced, TransitionRead,
       TransitionWrite, SetIntentStatus, PollBroker, CompareOrder, RecordFill, CancelAtBroker
  <2>. QED
    BY <2>1, <2>2
<1>3. CASE (SubmitRead(p) \/ CheckProvider(p) \/ FindOrder(p) \/ InsertOrder(p)) /\ ~Leave(p)
  BY <1>1, <1>3 DEF SubmitRead, CheckProvider, FindOrder, InsertOrder, Goto, Gated, At, Threads
<1>4. CASE (ClaimSubmission(p) \/ RecheckAnalyzer(p)) /\ ~Leave(p)
  BY <1>1, <1>4 DEF ClaimSubmission, RecheckAnalyzer, Goto, Steer, Gated, At, Threads
<1>5. CASE (BrokerHandles(p) \/ ReceiveAnswer(p) \/ MarkUnplaced(p)) /\ ~Leave(p)
  BY <1>1, <1>5 DEF BrokerHandles, ReceiveAnswer, MarkUnplaced, Goto, Steer, Gated, Threads
<1>6. CASE (TransitionRead(p) \/ TransitionWrite(p) \/ SetIntentStatus(p)) /\ ~Leave(p)
  BY <1>1, <1>6 DEF TransitionRead, TransitionWrite, SetIntentStatus, Goto, Gated, Threads
<1>7. CASE (PollBroker(p) \/ CompareOrder(p) \/ RecordFill(p) \/ CancelAtBroker(p)) /\ ~Leave(p)
  BY <1>1, <1>7 DEF PollBroker, CompareOrder, RecordFill, CancelAtBroker, Goto, Steer, Gated,
     Threads
<1>. QED
  BY <1>2, <1>3, <1>4, <1>5, <1>6, <1>7 DEF ThreadStep

LEMMA GateKept ==
    ASSUME ExecutionInv, GateInv, [Next]_vars
    PROVE  GateInv'
<1>1. \A p \in Procs : Gated(p) \/ At(p, "start") =>
         proc[p].i \in Intents /\ intent[proc[p].i].status # "absent"
  BY SubmitterAt DEF Gated, At, SubmitterOK
<1>2. ASSUME NEW p \in Procs, Gated(p), proc'[p] = proc[p], config' = config
      PROVE  IsLive(proc[p].i)' => config'.live
  BY <1>1, <1>2, DecisionKept DEF IsLive, GateInv
<1>3. ASSUME NEW p \in Procs, ThreadStep(p)
      PROVE  GateInv'
  <2>1. ASSUME NEW q \in Procs, q # p, Gated(q)', IsLive(proc[q].i)'
        PROVE  config'.live
    BY <1>2, <1>3, <2>1, GateStep DEF Gated
  <2>2. ASSUME Gated(p)', IsLive(proc[p].i)'
        PROVE  config'.live
    <3>1. proc'[p].i = proc[p].i /\ config' = config
      BY <1>3, <2>2, GateStep
    <3>2. Gated(p) \/ (At(p, "start") /\ MaySubmit(proc[p].i))
      BY <1>3, <2>2, GateStep
    <3>3. IsLive(proc[p].i)
      BY <1>1, <2>2, <3>1, <3>2, DecisionKept DEF IsLive
    <3>. QED
      BY <3>1, <3>2, <3>3 DEF GateInv, MaySubmit
  <2>. QED
    BY <2>1, <2>2 DEF GateInv
<1>4. ASSUME NEW p \in Procs, Abandon(p) \/ \E i \in Intents : Request(p, i)
      PROVE  GateInv'
  <2>1. /\ config' = config /\ ~Gated(p)'
        /\ \A q \in Procs : q # p => proc'[q] = proc[q]
    <3>1. proc \in [Procs -> Threads]
      BY DEF ExecutionInv, TypeOK
    <3>2. CASE Abandon(p)
      BY <3>1, <3>2, LeaveFacts DEF Abandon, Gated, Idle
    <3>3. ASSUME NEW i \in Intents, Request(p, i)
          PROVE  <2>1!1 /\ <2>1!2
      BY <3>1, <3>3 DEF Request, ApproveFromChat, DecideEffect, SubmitRequest, ReconcileRequest,
         CancelRequest, TrackedRequest, Gated
    <3>. QED
      BY <1>4, <3>2, <3>3
  <2>. QED
    BY <1>2, <2>1 DEF GateInv, Gated
<1>5. CASE Restart
  BY <1>5 DEF Restart, GateInv, Gated, Idle
<1>6. CASE proc' = proc /\ config' = config
  BY <1>2, <1>6 DEF GateInv, Gated
<1>7. ASSUME \/ \E i \in Intents, d \in Decisions, q \in Quantities : PrepareIntent(i, d, q)
             \/ \E i \in Intents : Decide(i)
             \/ \E b \in Brokers : BrokerMoves(b)
             \/ EmergencyCancel \/ ToggleAnalyzer \/ UNCHANGED vars
      PROVE  proc' = proc /\ config' = config
  BY <1>7 DEF PrepareIntent, Decide, DecideEffect, BrokerMoves, EmergencyCancel, ToggleAnalyzer,
     vars
<1>. QED
  BY <1>3, <1>4, <1>5, <1>6, <1>7 DEF Next

(* An order the broker holds was approved by a human, or needed no         *)
(* approval when it was prepared: the approval of prepare_intent and       *)
(* decide cannot be gone round, whatever the configuration later becomes.  *)
(* A live order is posted only under a configuration that allows it.       *)
THEOREM AuthorisedOrders == Spec => []OnlyAuthorisedOrdersPlaced
<1>1. Init => AuthorisationInv
  BY DEF Init, AuthorisationInv, NoIntentRow
<1>2. ExecutionInv /\ AuthorisationInv /\ [Next]_vars => AuthorisationInv'
  <2> SUFFICES ASSUME ExecutionInv, AuthorisationInv, [Next]_vars, NEW i \in Intents,
                      intent'[i].status \notin {"absent", "pending_approval"},
                      approval'[i] # "rejected"
               PROVE  Authorised(i)'
    BY DEF AuthorisationInv
  <2>1. CASE intent'[i] = intent[i] /\ approval'[i] = approval[i]
    BY <2>1 DEF AuthorisationInv, Authorised, IsLive
  <2>2. CASE Created(i)
    BY <2>2 DEF Created, AsksApproval, Authorised, IsLive
  <2>3. CASE Decided(i)
    BY <2>3 DEF Decided, Authorised
  <2>4. CASE Claimed(i)
    BY <2>4 DEF Claimed, AuthorisationInv, Authorised, IsLive
  <2>5. CASE Resolved(i)
    BY <2>5 DEF Resolved, Handled, Tracked, AuthorisationInv, Authorised, IsLive
  <2>6. CASE \E j \in Intents : IntentStep(j)
    BY <2>1, <2>2, <2>3, <2>4, <2>5, <2>6 DEF IntentStep
  <2>. QED
    BY <2>1, <2>6, StepShape DEF SameIntents, OrderStep
<1>3. ExecutionInv /\ AuthorisationInv /\ GateInv => OnlyAuthorisedOrdersPlaced
  <2> SUFFICES ASSUME ExecutionInv, AuthorisationInv, GateInv, NEW b \in Brokers,
                      book[b].intent # NoIntent
               PROVE  Authorised(book[b].intent)
    BY DEF OnlyAuthorisedOrdersPlaced, Authorised, GateInv, Gated, At
  <2>1. book[b].intent \in Intents
    BY DEF ExecutionInv, TypeOK, BookEntries
  <2>. QED
    BY <2>1 DEF ExecutionInv, BookOK, AuthorisationInv
<1>4. Init => GateInv
  BY DEF Init, GateInv, Gated, Idle
<1>. QED
  BY <1>1, <1>2, <1>3, <1>4, GateKept, Invariance, PTL DEF Spec

(* Nothing unauthorised is placed and every row is well formed, for any    *)
(* number of intents, decisions and threads, any faults and restarts.      *)
THEOREM AuthorisedAndTyped == Spec => []OrdersAuthorised
<1>1. TypeOK /\ OnlyAuthorisedOrdersPlaced => OrdersAuthorised
  BY DEF OrdersAuthorised
<1>. QED
  BY <1>1, Typing, AuthorisedOrders, PTL

(***************************************************************************)
(* The service implements SubmissionContract.                              *)
(***************************************************************************)
(* An intent's orders depend on the book's intent column alone.            *)
LEMMA PlacedKept ==
    ASSUME SameOrders, NEW i \in Intents
    PROVE  Placed(i)' = Placed(i)
  BY DEF SameOrders, Placed

(* Every behaviour of the service, its threads, its faults and the broker  *)
(* is one of the contract: an intent is authorised at most once, the       *)
(* authorisation is consumed by one submission, and that submission gives  *)
(* the broker at most one order.                                           *)
THEOREM Refinement == Spec => ImplementsContract
<1> DEFINE phase == [i \in Intents |-> Phase(i)]
           sent == [i \in Intents |-> Placed(i)]
<1>1. Init => Contract!Init
  <2> SUFFICES ASSUME Init PROVE Contract!Init
    OBVIOUS
  <2>1. \A i \in Intents : Phase(i) = "absent"
    BY DEF Init, NoIntentRow, Phase
  <2>2. \A i \in Intents : Placed(i) = {}
    BY OEAssumption DEF Init, NoBookEntry, Placed
  <2>. QED
    BY <2>1, <2>2 DEF Contract!Init
<1>2. ExecutionInv /\ ExecutionInv' /\ [Next]_vars => [Contract!Next]_(Contract!contractVars)
  <2> SUFFICES ASSUME ExecutionInv, ExecutionInv', [Next]_vars
               PROVE  Contract!Next \/ UNCHANGED Contract!contractVars
    OBVIOUS
  <2>1. CASE SameIntents /\ SameOrders
    <3>1. \A i \in Intents : Phase(i)' = Phase(i)
      BY <2>1 DEF SameIntents, Phase
    <3>2. \A i \in Intents : Placed(i)' = Placed(i)
      BY <2>1, PlacedKept
    <3>. QED
      BY <3>1, <3>2 DEF Contract!contractVars
  <2>2. ASSUME NEW i \in Intents, IntentStep(i)
        PROVE  Contract!Next \/ UNCHANGED Contract!contractVars
    <3>1. \A j \in Intents : j # i => Phase(j)' = Phase(j)
      BY <2>2 DEF IntentStep, Phase
    <3>2. sent' = sent
      BY <2>2, PlacedKept DEF IntentStep
    <3>3. ASSUME NEW from, NEW to, Phase(i) = from, Phase(i)' = to
          PROVE  Contract!Become(i, from, to)
      <4>1. phase[i] = from
        BY <3>3
      <4>2. phase' = [phase EXCEPT ![i] = to]
        BY <3>1, <3>3
      <4>. QED
        BY <3>2, <4>1, <4>2 DEF Contract!Become
    <3>4. CASE Created(i)
      <4>1. /\ Phase(i) = "absent"
            /\ Phase(i)' = "waiting" \/ Phase(i)' = "authorised"
        BY <3>4 DEF Created, Phase
      <4>. QED
        BY <3>3, <4>1 DEF Contract!Next, Contract!Create
    <3>5. CASE Decided(i)
      <4>1. /\ Phase(i) = "waiting"
            /\ Phase(i)' = "authorised" \/ Phase(i)' = "refused"
        BY <3>5 DEF Decided, Phase
      <4>. QED
        BY <3>3, <4>1 DEF Contract!Next, Contract!Approve, Contract!Refuse
    <3>6. CASE Claimed(i)
      <4>1. Phase(i) = "authorised" /\ Phase(i)' = "consumed"
        BY <3>6 DEF Claimed, Phase
      <4>. QED
        BY <3>3, <4>1 DEF Contract!Next, Contract!Consume
    <3>7. CASE Resolved(i)
      <4>1. CASE approval[i] # "rejected"
        <5>1. Phase(i) = "consumed" /\ Phase(i)' = "consumed"
          BY <3>7, <4>1 DEF Resolved, Phase, Handled, Tracked, Unplaced
        <5>2. phase' = phase
          BY <3>1, <5>1
        <5>. QED
          BY <3>2, <5>2 DEF Contract!contractVars
      <4>2. CASE approval[i] = "rejected"
        <5>1. intent[i].status = "rejected" /\ intent'[i].status = "rejected"
          BY <3>7, <4>2 DEF Resolved, ExecutionInv, IntentsOK
        <5>2. Phase(i)' = Phase(i)
          BY <3>7, <5>1 DEF Resolved, Phase
        <5>3. phase' = phase
          BY <3>1, <5>2
        <5>. QED
          BY <3>2, <5>3 DEF Contract!contractVars
      <4>. QED
        BY <4>1, <4>2
    <3>. QED
      BY <2>2, <3>4, <3>5, <3>6, <3>7 DEF IntentStep
  <2>3. ASSUME NEW i \in Intents, NEW b \in Brokers, OrderStep(i, b)
        PROVE  Contract!Next
    <3>1. \A j \in Intents : Phase(j)' = Phase(j)
      BY <2>3 DEF OrderStep, SameIntents, Phase
    <3>2. Phase(i) = "consumed"
      BY <2>3 DEF OrderStep, Phase
    <3>3. \A j \in Intents : Placed(j)' = IF j = i THEN {b} ELSE Placed(j)
      BY <2>3, OEAssumption DEF OrderStep, Placed
    <3>4. sent' = [sent EXCEPT ![i] = {b}]
      BY <3>3
    <3>. QED
      BY <2>3, <3>1, <3>2, <3>4 DEF OrderStep, Contract!Next, Contract!Send
  <2>. QED
    BY <2>1, <2>2, <2>3, StepShape
<1>. QED
  BY <1>1, <1>2, Invariance, PTL DEF Spec, ImplementsContract, Contract!Spec
=============================================================================
