---------------------------- MODULE ScoresProofs ----------------------------
(***************************************************************************)
(* Proofs about the agents and what watches and runs them, for any number  *)
(* of agents, runs, threads, contests and scoring rules, sweeps, editors,  *)
(* specs and bars: the leaderboard (AgentScores), the supervisor           *)
(* (Supervisor), the authored strategies (StrategySpecs) and the position  *)
(* machine that runs them (StrategySignals). Each has an inductive         *)
(* invariant of its own.                                                   *)
(***************************************************************************)
EXTENDS AgentScores, Supervisor, StrategySpecs, StrategySignals, SequenceTheorems, TLAPS

-----------------------------------------------------------------------------
(***************************************************************************)
(* The leaderboard: typing, that no run loses its score, that scores are   *)
(* not doubled and rules not mixed, and that a contest ranks an agent      *)
(* once, each under the conditions its property names.                     *)
(***************************************************************************)
TypedInv == TypeOK /\ \A p \in Threads : ThreadOK(p)

\* The rows of a board are rows of the leaderboard.
LEMMA RowsTyped ==
    ASSUME TypeOK, NEW b \in Rankings
    PROVE  Rows(b) \in Seq(BoardRows)
<1>1. PICK n \in 0..MaxRuns : b \in [1..n -> Rankable]
  BY DEF Rankings, SeqOf
<1>2. \A s \in Rankable : [agent |-> Agent(s), run |-> s.run] \in BoardRows
  <2>. SUFFICES ASSUME NEW s \in Rankable
                PROVE  runs[s.run].agent \in Agents /\ s.run \in Nat
    BY DEF Agent, BoardRows
  <2>1. s \in scores
    BY DEF Rankable, Latest
  <2>2. s.run \in DOMAIN runs /\ s.run \in Nat
    BY <2>1 DEF TypeOK, ScoreRows, RunIds
  <2>3. runs[s.run] \in RunRows
    BY <2>2, ElementOfSeq, LenProperties DEF TypeOK
  <2>. QED
    BY <2>2, <2>3 DEF RunRows
<1>3. Rows(b) \in [1..n -> BoardRows]
  BY <1>1, <1>2 DEF Rows
<1>4. n \in Nat
  BY ASAssumption
<1>. QED
  BY <1>3, <1>4

LEMMA IdleTyped == Idle \in ThreadRecords
BY DEF Idle, ThreadRecords

\* A thread that leaves is as it was at the start.
LEMMA LeaveTyped ==
    ASSUME TypedInv, NEW p \in Threads, Leave(p)
    PROVE  /\ thread' \in [Threads -> ThreadRecords]
           /\ thread'[p] = Idle
           /\ \A q \in Threads \ {p} : thread'[q] = thread[q]
BY IdleTyped DEF Leave, TypedInv, TypeOK

\* What a thread is given is what it has then.
LEMMA Given ==
    ASSUME TypedInv, NEW p \in Threads, NEW t \in ThreadRecords,
           thread' = [thread EXCEPT ![p] = t]
    PROVE  /\ thread' \in [Threads -> ThreadRecords]
           /\ thread'[p] = t
           /\ \A q \in Threads \ {p} : thread'[q] = thread[q]
BY DEF TypedInv, TypeOK

LEMMA IdleOK ==
    ASSUME NEW p \in Threads, thread'[p] = Idle
    PROVE  ThreadOK(p)'
BY DEF ThreadOK, Idle, At, Rescoring

\* A thread that others leave alone stays in order.
LEMMA OthersOK ==
    ASSUME TypedInv, NEW q \in Threads, thread'[q] = thread[q], RunIds \subseteq RunIds'
    PROVE  ThreadOK(q)'
BY DEF TypedInv, ThreadOK, At, Rescoring

\* Typing is kept by every step.
LEMMA StepTyped ==
    ASSUME TypedInv, [Next]_vars
    PROVE  TypedInv'
<1>1. ASSUME NEW p \in Threads, NEW a \in Agents, StartRun(p, a)
      PROVE  TypedInv'
  <2>1. /\ thread'[p] = [Idle EXCEPT !.op = "run", !.pc = "record", !.agent = a]
        /\ \A q \in Threads \ {p} : thread'[q] = thread[q]
        /\ thread' \in [Threads -> ThreadRecords]
    <3>1. [Idle EXCEPT !.op = "run", !.pc = "record", !.agent = a] \in ThreadRecords
      BY IdleTyped DEF ThreadRecords
    <3>. QED
      BY <1>1, <3>1, Given DEF StartRun
  <2>2. \A q \in Threads : ThreadOK(q)'
    BY <1>1, <2>1, OthersOK DEF StartRun, ThreadOK, Idle, At, Rescoring, RunIds
  <2>. QED
    BY <1>1, <2>1, <2>2 DEF StartRun, TypedInv, TypeOK, RunIds
<1>2. ASSUME NEW p \in Threads, NEW c \in Contests, ReadLeaderboard(p, c)
      PROVE  TypedInv'
  <2>1. PICK b \in Rankings : thread' = [thread EXCEPT ![p] =
          [Idle EXCEPT !.op = "close", !.pc = "get", !.board = Rows(b), !.contest = c]]
    BY <1>2 DEF ReadLeaderboard
  <2>2. Rows(b) \in Seq(BoardRows)
    BY RowsTyped DEF TypedInv
  <2>3. /\ thread'[p] = [Idle EXCEPT !.op = "close", !.pc = "get", !.board = Rows(b), !.contest = c]
        /\ \A q \in Threads \ {p} : thread'[q] = thread[q]
        /\ thread' \in [Threads -> ThreadRecords]
    <3>1. [Idle EXCEPT !.op = "close", !.pc = "get", !.board = Rows(b), !.contest = c]
             \in ThreadRecords
      BY <2>2, IdleTyped DEF ThreadRecords
    <3>. QED
      BY <2>1, <3>1, Given
  <2>4. \A q \in Threads : ThreadOK(q)'
    BY <1>2, <2>3, OthersOK DEF ReadLeaderboard, ThreadOK, Idle, At, Rescoring, RunIds
  <2>. QED
    BY <1>2, <2>3, <2>4 DEF ReadLeaderboard, TypedInv, TypeOK, RunIds
<1>3. ASSUME NEW p \in Threads, StartRescore(p)
      PROVE  TypedInv'
  <2>1. CASE runs = <<>>
    BY <1>3, <2>1 DEF StartRescore, TypedInv, TypeOK, ThreadOK, RunIds, At, Rescoring
  <2>2. CASE runs # <<>>
    <3>1. RunIds \subseteq Nat
      BY LenProperties DEF RunIds, TypedInv, TypeOK
    <3>2. /\ thread'[p] = [Idle EXCEPT !.op = "rescore", !.pc = "delete", !.todo = RunIds]
          /\ \A q \in Threads \ {p} : thread'[q] = thread[q]
          /\ thread' \in [Threads -> ThreadRecords]
      <4>1. [Idle EXCEPT !.op = "rescore", !.pc = "delete", !.todo = RunIds] \in ThreadRecords
        BY <3>1, IdleTyped DEF ThreadRecords
      <4>. QED
        BY <1>3, <2>2, <4>1, Given DEF StartRescore
    <3>3. RunIds' = RunIds
      BY <1>3 DEF StartRescore, RunIds
    <3>4. ThreadOK(p)'
      BY <3>2, <3>3 DEF ThreadOK, Idle, At, Rescoring
    <3>5. \A q \in Threads : ThreadOK(q)'
      BY <3>2, <3>3, <3>4, OthersOK
    <3>. QED
      BY <1>3, <2>2, <3>2, <3>5 DEF StartRescore, TypedInv, TypeOK, RunIds
  <2>. QED
    BY <2>1, <2>2
<1>4. ASSUME NEW p \in Threads, NEW o \in Outcomes, RecordRun(p, o)
      PROVE  TypedInv'
  <2>. DEFINE row == [agent |-> thread[p].agent, outcome |-> o]
  <2>1. row \in RunRows /\ Len(runs) \in Nat
    BY <1>4, LenProperties DEF RecordRun, RunRows, TypedInv, TypeOK, ThreadOK
  <2>2. /\ runs' \in Seq(RunRows)
        /\ RunIds = 1..Len(runs) /\ RunIds' = 1..(Len(runs) + 1)
    BY <1>4, <2>1, AppendProperties, LenProperties DEF RecordRun, RunIds, TypedInv, TypeOK
  <2>3. /\ thread'[p] = [thread[p] EXCEPT !.pc = "score", !.run = Len(runs) + 1]
        /\ \A q \in Threads \ {p} : thread'[q] = thread[q]
        /\ thread' \in [Threads -> ThreadRecords]
    <3>1. [thread[p] EXCEPT !.pc = "score", !.run = Len(runs) + 1] \in ThreadRecords
      <4>1. thread[p] \in ThreadRecords /\ Len(runs) + 1 \in Nat
        BY <2>1 DEF TypedInv, TypeOK
      <4>. QED
        BY <4>1 DEF ThreadRecords
    <3>2. thread' = [thread EXCEPT ![p] = [thread[p] EXCEPT !.pc = "score", !.run = Len(runs) + 1]]
      BY <1>4 DEF RecordRun, TypedInv, TypeOK
    <3>. QED
      BY <3>1, <3>2, Given
  <2>4. RunIds \subseteq RunIds' /\ Len(runs) + 1 \in RunIds'
    BY <2>1, <2>2
  <2>5. ThreadOK(p)'
    BY <1>4, <2>3, <2>4 DEF RecordRun, TypedInv, TypeOK, ThreadRecords, ThreadOK, At, Rescoring
  <2>6. \A q \in Threads : ThreadOK(q)'
    BY <2>3, <2>4, <2>5, OthersOK
  <2>. QED
    BY <1>4, <2>2, <2>3, <2>4, <2>6 DEF RecordRun, TypedInv, TypeOK
<1>5. ASSUME NEW p \in Threads, RecordScore(p)
      PROVE  TypedInv'
  <2>1. \A q \in Threads : ThreadOK(q)'
    BY <1>5, LeaveTyped, IdleOK, OthersOK DEF RecordScore, RunIds
  <2>2. NewScore(thread[p].run) \in ScoreRows /\ thread[p].run \in RunIds
    BY <1>5 DEF RecordScore, NewScore, ScoreRows, TypedInv, TypeOK, ThreadOK, ThreadRecords
  <2>. QED
    BY <1>5, <2>1, <2>2, LeaveTyped DEF RecordScore, NewScore, TypedInv, TypeOK, RunIds, ScoreRows
<1>6. ASSUME NEW p \in Threads, NEW r \in RunIds, DeleteScores(p, r)
      PROVE  TypedInv'
  <2>1. /\ thread'[p] = [thread[p] EXCEPT !.pc = "insert", !.run = r]
        /\ \A q \in Threads \ {p} : thread'[q] = thread[q]
        /\ thread' \in [Threads -> ThreadRecords]
    <3>1. [thread[p] EXCEPT !.pc = "insert", !.run = r] \in ThreadRecords
      <4>1. thread[p] \in ThreadRecords /\ r \in Nat
        BY LenProperties DEF TypedInv, TypeOK, RunIds
      <4>. QED
        BY <4>1 DEF ThreadRecords
    <3>2. thread' = [thread EXCEPT ![p] = [thread[p] EXCEPT !.pc = "insert", !.run = r]]
      BY <1>6 DEF DeleteScores, TypedInv, TypeOK
    <3>. QED
      BY <3>1, <3>2, Given
  <2>2. \A q \in Threads : ThreadOK(q)'
    <3>1. ThreadOK(p)'
      BY <1>6, <2>1 DEF DeleteScores, TypedInv, TypeOK, ThreadRecords, ThreadOK, At, Rescoring, RunIds
    <3>. QED
      BY <1>6, <2>1, <3>1, OthersOK DEF DeleteScores, RunIds
  <2>. QED
    BY <1>6, <2>1, <2>2 DEF DeleteScores, ScoresWithout, TypedInv, TypeOK, RunIds
<1>7. ASSUME NEW p \in Threads, InsertScore(p)
      PROVE  TypedInv'
  <2>. DEFINE left == thread[p].todo \ {thread[p].run}
  <2>1. NewScore(thread[p].run) \in ScoreRows /\ thread[p].run \in RunIds
    BY <1>7 DEF InsertScore, NewScore, ScoreRows, TypedInv, TypeOK, ThreadOK, ThreadRecords, At, Rescoring
  <2>2. (\A q \in Threads : ThreadOK(q)') /\ thread' \in [Threads -> ThreadRecords]
    <3>1. CASE left = {}
      BY <1>7, <3>1, LeaveTyped, IdleOK, OthersOK DEF InsertScore, RunIds
    <3>2. CASE left # {}
      <4>1. /\ thread'[p] = [thread[p] EXCEPT !.pc = "delete", !.todo = left]
            /\ \A q \in Threads \ {p} : thread'[q] = thread[q]
            /\ thread' \in [Threads -> ThreadRecords]
        <5>1. [thread[p] EXCEPT !.pc = "delete", !.todo = left] \in ThreadRecords
          BY DEF TypedInv, TypeOK, ThreadRecords
        <5>2. thread' = [thread EXCEPT ![p] = [thread[p] EXCEPT !.pc = "delete", !.todo = left]]
          BY <1>7, <3>2 DEF InsertScore, TypedInv, TypeOK
        <5>. QED
          BY <5>1, <5>2, Given
      <4>2. ThreadOK(p)'
        BY <1>7, <4>1 DEF InsertScore, TypedInv, TypeOK, ThreadRecords, ThreadOK, At, Rescoring, RunIds
      <4>. QED
        BY <1>7, <4>1, <4>2, OthersOK DEF InsertScore, RunIds
    <3>. QED
      BY <3>1, <3>2
  <2>3. scores' \subseteq ScoreRows /\ \A s \in scores' : s.run \in RunIds /\ s.at <= clock'
    BY <1>7, <2>1 DEF InsertScore, NewScore, TypedInv, TypeOK, ScoreRows
  <2>4. unified' \in BOOLEAN
    <3>1. unified' = TRUE \/ unified' = unified
      BY <1>7, Zenon DEF InsertScore
    <3>. QED
      BY <3>1 DEF TypedInv, TypeOK
  <2>5. clock' \in Nat
    BY <1>7 DEF InsertScore, TypedInv, TypeOK
  <2>. QED
    BY <1>7, <2>2, <2>3, <2>4, <2>5 DEF InsertScore, TypedInv, TypeOK, RunIds
<1>8. ASSUME NEW p \in Threads, GetContest(p)
      PROVE  TypedInv'
  <2>1. (\A q \in Threads : ThreadOK(q)') /\ thread' \in [Threads -> ThreadRecords]
    <3>1. CASE ~Closable(thread[p].contest)
      BY <1>8, <3>1, LeaveTyped, IdleOK, OthersOK DEF GetContest, RunIds
    <3>2. CASE Closable(thread[p].contest)
      <4>1. /\ thread'[p] = [thread[p] EXCEPT !.pc = "close"]
            /\ \A q \in Threads \ {p} : thread'[q] = thread[q]
            /\ thread' \in [Threads -> ThreadRecords]
        <5>1. [thread[p] EXCEPT !.pc = "close"] \in ThreadRecords
          BY DEF TypedInv, TypeOK, ThreadRecords
        <5>2. thread' = [thread EXCEPT ![p] = [thread[p] EXCEPT !.pc = "close"]]
          BY <1>8, <3>2 DEF GetContest, TypedInv, TypeOK
        <5>. QED
          BY <5>1, <5>2, Given
      <4>2. ThreadOK(p)'
        BY <1>8, <4>1 DEF GetContest, TypedInv, TypeOK, ThreadRecords, ThreadOK, At, Rescoring, RunIds
      <4>. QED
        BY <1>8, <4>1, <4>2, OthersOK DEF GetContest, RunIds
    <3>. QED
      BY <3>1, <3>2
  <2>. QED
    BY <1>8, <2>1 DEF GetContest, TypedInv, TypeOK, RunIds
<1>9. ASSUME NEW p \in Threads, WriteResults(p)
      PROVE  TypedInv'
  <2>1. \A q \in Threads : ThreadOK(q)'
    BY <1>9, LeaveTyped, IdleOK, OthersOK DEF WriteResults, RunIds
  <2>2. thread[p].board \in Seq(BoardRows) /\ thread[p].contest \in Contests
    BY <1>9 DEF WriteResults, TypedInv, TypeOK, ThreadRecords, ThreadOK, At
  <2>3. contest[thread[p].contest].rows \o thread[p].board \in Seq(BoardRows)
    BY <2>2 DEF TypedInv, TypeOK
  <2>4. contest' \in [Contests -> [status : {"absent", "open", "closed"}, rows : Seq(BoardRows)]]
    BY <1>9, <2>2, <2>3 DEF WriteResults, TypedInv, TypeOK
  <2>. QED
    BY <1>9, <2>1, <2>4, LeaveTyped DEF WriteResults, TypedInv, TypeOK, RunIds
<1>10. ASSUME NEW p \in Threads, Raise(p)
      PROVE  TypedInv'
  <2>1. \A q \in Threads : ThreadOK(q)'
    BY <1>10, LeaveTyped, IdleOK, OthersOK DEF Raise, RunIds
  <2>. QED
    BY <1>10, <2>1, LeaveTyped DEF Raise, TypedInv, TypeOK, RunIds
<1>11. ASSUME NEW c \in Contests, CreateContest(c)
      PROVE  TypedInv'
  BY <1>11 DEF CreateContest, TypedInv, TypeOK, ThreadOK, RunIds, At, Rescoring
<1>12. CASE Restart
  <2>1. contest' \in [Contests -> [status : {"absent", "open", "closed"}, rows : Seq(BoardRows)]]
    <3>1. CASE UNCHANGED contest
      BY <3>1 DEF TypedInv, TypeOK
    <3>2. ASSUME NEW p \in Threads, NEW n \in 1..Len(thread[p].board), At(p, "close"),
                 contest' = [contest EXCEPT ![thread[p].contest].rows =
                                @ \o SubSeq(thread[p].board, 1, n)]
          PROVE  contest' \in [Contests -> [status : {"absent", "open", "closed"}, rows : Seq(BoardRows)]]
      <4>1. thread[p].board \in Seq(BoardRows) /\ thread[p].contest \in Contests
        BY <3>2 DEF TypedInv, TypeOK, ThreadRecords, ThreadOK, At
      <4>2. SubSeq(thread[p].board, 1, n) \in Seq(BoardRows)
        BY <4>1
      <4>3. contest[thread[p].contest].rows \o SubSeq(thread[p].board, 1, n) \in Seq(BoardRows)
        BY <4>1, <4>2 DEF TypedInv, TypeOK
      <4>. QED
        BY <3>2, <4>1, <4>3 DEF TypedInv, TypeOK
    <3>. QED
      BY <1>12, <3>1, <3>2 DEF Restart
  <2>2. thread' \in [Threads -> ThreadRecords] /\ \A q \in Threads : ThreadOK(q)'
    BY <1>12, IdleOK DEF Restart, Idle, ThreadRecords
  <2>3. rule' \in 1..MaxRule
    BY <1>12, ASAssumption DEF Restart, TypedInv, TypeOK
  <2>. QED
    BY <1>12, <2>1, <2>2, <2>3 DEF Restart, TypedInv, TypeOK, RunIds
<1>13. CASE UNCHANGED vars
  BY <1>13 DEF vars, TypedInv, TypeOK, ThreadOK, RunIds, At, Rescoring
<1>. QED
  BY <1>1, <1>2, <1>3, <1>4, <1>5, <1>6, <1>7, <1>8, <1>9, <1>10, <1>11, <1>12, <1>13
  DEF Next, Step

LEMMA TypedAlways == Spec => []TypedInv
<1>1. Init => TypedInv
  BY ASAssumption DEF Init, TypedInv, TypeOK, ThreadOK, Idle, ThreadRecords, At, Rescoring, RunIds
<1>. QED
  BY <1>1, StepTyped, PTL DEF Spec

\* Every row and every thread has the columns the code writes, and every score
\* is of a recorded run.
THEOREM Typing == Spec => []TypeOK
<1>1. TypedInv => TypeOK
  BY DEF TypedInv
<1>. QED
  BY <1>1, TypedAlways, PTL

-----------------------------------------------------------------------------
(* Scores are kept *)

\* Who leaves a thread alone leaves its run in its hand.
LEMMA KeptInHand ==
    ASSUME NEW q \in Threads, thread'[q] = thread[q], NEW r, InHand(q, r)
    PROVE  InHand(q, r)'
BY DEF InHand

LEMMA FaultsGrow ==
    ASSUME [Next]_vars
    PROVE  faults' = faults \/ faults' = faults + 1
<1>1. ASSUME NEW p \in Threads, Step(p) \/ Raise(p)
      PROVE  faults' = faults \/ faults' = faults + 1
  BY <1>1 DEF Step, RecordRun, RecordScore, DeleteScores, InsertScore, GetContest, WriteResults,
     Raise
<1>. QED
  BY <1>1 DEF Next, vars, StartRun, ReadLeaderboard, StartRescore, CreateContest, Restart

LEMMA StepKeeps ==
    ASSUME TypedInv, TypedInv', ScoresKept, [Next]_vars
    PROVE  ScoresKept'
<1>. DEFINE Kept(r) == \/ \E s \in scores : s.run = r
                       \/ \E p \in Threads : InHand(p, r)
<1>. SUFFICES ASSUME faults' = 0, NEW r \in RunIds'
              PROVE  Kept(r)'
  BY DEF ScoresKept
<1>1. CASE faults # 0
  <2>1. faults' = faults \/ faults' = faults + 1
    BY FaultsGrow
  <2>. QED
    BY <1>1, <2>1 DEF TypedInv, TypeOK
<1>2. ASSUME faults = 0, r \in RunIds
      PROVE  Kept(r)'
  <2>. Kept(r)
    BY <1>2 DEF ScoresKept
  <2>1. ASSUME NEW p \in Threads, At(p, "idle"), scores' = scores,
               \A q \in Threads \ {p} : thread'[q] = thread[q]
        PROVE  Kept(r)'
    <3>1. \A q \in Threads : InHand(q, r) => InHand(q, r)'
      BY <2>1, KeptInHand DEF InHand, At
    <3>. QED
      BY <2>1, <3>1
  <2>2. ASSUME NEW p \in Threads, At(p, "record") \/ At(p, "get") \/ At(p, "close"),
               scores' = scores, \A q \in Threads \ {p} : thread'[q] = thread[q]
        PROVE  Kept(r)'
    <3>1. \A q \in Threads : InHand(q, r) => InHand(q, r)'
      BY <2>2, KeptInHand DEF InHand, At
    <3>. QED
      BY <2>2, <3>1
  <2>3. ASSUME NEW p \in Threads, RecordScore(p) \/ InsertScore(p)
        PROVE  Kept(r)'
    <3>1. /\ scores' = scores \cup {NewScore(thread[p].run)}
          /\ \A q \in Threads \ {p} : thread'[q] = thread[q]
      BY <2>3 DEF RecordScore, InsertScore, Leave, TypedInv, TypeOK
    <3>2. CASE InHand(p, r)
      <4>1. NewScore(thread[p].run) \in scores' /\ NewScore(thread[p].run).run = r
        BY <3>1, <3>2 DEF InHand, NewScore
      <4>. QED
        BY <4>1
    <3>3. CASE ~InHand(p, r)
      <4>1. \A q \in Threads : InHand(q, r) => InHand(q, r)'
        BY <3>1, <3>3, KeptInHand
      <4>. QED
        BY <3>1, <4>1
    <3>. QED
      BY <3>2, <3>3
  <2>4. ASSUME NEW p \in Threads, NEW d \in RunIds, DeleteScores(p, d)
        PROVE  Kept(r)'
    <3>1. /\ \A q \in Threads \ {p} : thread'[q] = thread[q]
          /\ thread'[p].pc = "insert" /\ thread'[p].run = d
      BY <2>4 DEF DeleteScores, TypedInv, TypeOK, ThreadRecords
    <3>2. CASE r = d
      BY <3>1, <3>2 DEF InHand
    <3>3. CASE r # d
      <4>1. \A q \in Threads : InHand(q, r) => InHand(q, r)'
        BY <2>4, <3>1, KeptInHand DEF DeleteScores, InHand, At
      <4>2. \A s \in scores : s.run = r => s \in scores'
        BY <2>4, <3>3 DEF DeleteScores, ScoresWithout
      <4>. QED
        BY <4>1, <4>2
    <3>. QED
      BY <3>2, <3>3
  <2>5. ASSUME NEW p \in Threads, Raise(p)
        PROVE  Kept(r)'
    BY <1>2, <2>5 DEF Raise
  <2>6. CASE Restart
    BY <1>2, <2>6 DEF Restart
  <2>7. ASSUME scores' = scores, thread' = thread
        PROVE  Kept(r)'
    BY <2>7 DEF InHand
  <2>8. ASSUME NEW p \in Threads, GetContest(p)
        PROVE  scores' = scores /\ At(p, "get") /\ \A q \in Threads \ {p} : thread'[q] = thread[q]
    BY <2>8 DEF GetContest, Leave, TypedInv, TypeOK
  <2>9. ASSUME NEW p \in Threads, WriteResults(p)
        PROVE  scores' = scores /\ At(p, "close") /\ \A q \in Threads \ {p} : thread'[q] = thread[q]
    BY <2>9 DEF WriteResults, Leave, TypedInv, TypeOK
  <2>10. ASSUME NEW p \in Threads, NEW o \in Outcomes, RecordRun(p, o)
         PROVE  scores' = scores /\ At(p, "record") /\ \A q \in Threads \ {p} : thread'[q] = thread[q]
    BY <2>10 DEF RecordRun, TypedInv, TypeOK
  <2>11. ASSUME NEW p \in Threads, StartRescore(p)
         PROVE  scores' = scores /\ At(p, "idle") /\ \A q \in Threads \ {p} : thread'[q] = thread[q]
    BY <2>11 DEF StartRescore, TypedInv, TypeOK
  <2>12. ASSUME NEW p \in Threads, NEW a \in Agents, StartRun(p, a)
         PROVE  scores' = scores /\ At(p, "idle") /\ \A q \in Threads \ {p} : thread'[q] = thread[q]
    BY <2>12 DEF StartRun, TypedInv, TypeOK
  <2>13. ASSUME NEW p \in Threads, NEW c \in Contests, ReadLeaderboard(p, c)
         PROVE  scores' = scores /\ At(p, "idle") /\ \A q \in Threads \ {p} : thread'[q] = thread[q]
    BY <2>13 DEF ReadLeaderboard, TypedInv, TypeOK
  <2>14. ASSUME NEW c \in Contests, CreateContest(c)
         PROVE  scores' = scores /\ thread' = thread
    BY <2>14 DEF CreateContest
  <2>15. CASE UNCHANGED vars
    BY <2>7, <2>15 DEF vars
  <2>. QED
    BY <2>1, <2>2, <2>3, <2>4, <2>5, <2>6, <2>7, <2>8, <2>9, <2>10, <2>11, <2>12, <2>13, <2>14, <2>15
    DEF Next, Step
<1>3. ASSUME faults = 0, r \notin RunIds
      PROVE  Kept(r)'
  <2>1. PICK p \in Threads, o \in Outcomes : RecordRun(p, o)
    BY <1>3 DEF Next, Step, vars, StartRun, ReadLeaderboard, StartRescore, RecordScore,
       DeleteScores, InsertScore, GetContest, WriteResults, Raise, CreateContest, Restart, RunIds
  <2>2. r = Len(runs) + 1
    BY <1>3, <2>1, AppendProperties, LenProperties DEF RecordRun, RunIds, TypedInv, TypeOK, RunRows
  <2>3. InHand(p, r)'
    BY <2>1, <2>2 DEF RecordRun, InHand, TypedInv, TypeOK, ThreadRecords
  <2>. QED
    BY <2>3
<1>. QED
  BY <1>1, <1>2, <1>3

\* As long as nothing fails, no interleaving of runs and rescorings leaves a
\* recorded run without its score.
THEOREM NoScoreLost == Spec => []ScoresKept
<1>1. Init => ScoresKept
  BY DEF Init, ScoresKept, RunIds
<1>2. TypedInv /\ TypedInv' /\ ScoresKept /\ [Next]_vars => ScoresKept'
  BY StepKeeps
<1>. QED
  BY <1>1, <1>2, TypedAlways, PTL DEF Spec

-----------------------------------------------------------------------------
(* Rules are not mixed *)

RuleInv == LeftoversAreTodo /\ BoardUnderOneRule

\* How a thread enters a run or a closing.
LEMMA EnteringPc ==
    ASSUME TypedInv, NEW p \in Threads,
           \/ \E a \in Agents : StartRun(p, a)
           \/ \E c \in Contests : ReadLeaderboard(p, c)
    PROVE  thread'[p].pc \in {"record", "get"}
<1>1. ASSUME NEW a \in Agents, StartRun(p, a)
      PROVE  thread'[p].pc = "record"
  BY <1>1 DEF StartRun, Idle, TypedInv, TypeOK
<1>2. ASSUME NEW c \in Contests, ReadLeaderboard(p, c)
      PROVE  thread'[p].pc = "get"
  <2>1. PICK b \in Rankings : thread' = [thread EXCEPT ![p] =
          [Idle EXCEPT !.op = "close", !.pc = "get", !.board = Rows(b), !.contest = c]]
    BY <1>2 DEF ReadLeaderboard
  <2>. QED
    BY <2>1 DEF Idle, TypedInv, TypeOK
<1>. QED
  BY <1>1, <1>2

\* Steps that neither score nor rescore take no score in hand.
LEMMA NoScoreInHand ==
    ASSUME TypedInv, NEW p \in Threads,
           \/ \E a \in Agents : StartRun(p, a)
           \/ \E c \in Contests : ReadLeaderboard(p, c)
           \/ GetContest(p) \/ WriteResults(p) \/ Raise(p)
    PROVE  thread'[p].pc \notin {"score", "delete", "insert"}
<1>3. CASE GetContest(p) \/ WriteResults(p) \/ Raise(p)
  <2>1. Leave(p) \/ thread' = [thread EXCEPT ![p].pc = "close"]
    BY <1>3 DEF GetContest, WriteResults, Raise
  <2>2. CASE Leave(p)
    BY <2>2, LeaveTyped DEF Idle
  <2>3. CASE thread' = [thread EXCEPT ![p].pc = "close"]
    BY <2>3 DEF TypedInv, TypeOK, ThreadRecords
  <2>. QED
    BY <2>1, <2>2, <2>3
<1>. QED
  BY <1>3, EnteringPc

\* Threads that are no rescorings, and scores of the present rule, change nothing.
LEMMA RuleUntouched ==
    ASSUME RuleInv, rule' = rule, NEW p \in Threads,
           \A s \in scores' : s \in scores \/ s.rule = rule,
           \A q \in Threads \ {p} : thread'[q] = thread[q],
           ~Rescoring(p)', unified' = unified
    PROVE  RuleInv'
<1>1. LeftoversAreTodo'
  BY DEF RuleInv, LeftoversAreTodo, Rescoring, At
<1>2. BoardUnderOneRule'
  BY DEF RuleInv, BoardUnderOneRule
<1>. QED
  BY <1>1, <1>2 DEF RuleInv

LEMMA StepUnderOneRule ==
    ASSUME TypedInv, TypedInv', RuleInv, [Next]_vars
    PROVE  RuleInv'
<1>1. ASSUME NEW p \in Threads,
             \/ \E a \in Agents : StartRun(p, a)
             \/ \E c \in Contests : ReadLeaderboard(p, c)
             \/ \E o \in Outcomes : RecordRun(p, o)
             \/ GetContest(p) \/ WriteResults(p) \/ Raise(p)
      PROVE  RuleInv'
  <2>1. /\ scores' = scores /\ rule' = rule /\ unified' = unified
        /\ \A q \in Threads \ {p} : thread'[q] = thread[q]
    BY <1>1 DEF StartRun, ReadLeaderboard, RecordRun, GetContest, WriteResults, Raise, Leave,
       TypedInv, TypeOK
  <2>2. thread'[p].pc \notin {"delete", "insert"}
    <3>1. CASE \E o \in Outcomes : RecordRun(p, o)
      BY <3>1 DEF RecordRun, TypedInv, TypeOK, ThreadRecords
    <3>. QED
      BY <1>1, <3>1, NoScoreInHand
  <2>3. ~Rescoring(p)'
    BY <2>2 DEF TypedInv, ThreadOK
  <2>. QED
    BY <2>1, <2>3, RuleUntouched
<1>2. ASSUME NEW p \in Threads, RecordScore(p)
      PROVE  RuleInv'
  <2>1. \A s \in scores' : s \in scores \/ s.rule = rule
    BY <1>2 DEF RecordScore, NewScore
  <2>2. /\ ~Rescoring(p)'
        /\ \A q \in Threads \ {p} : thread'[q] = thread[q]
    BY <1>2, LeaveTyped DEF RecordScore, Rescoring, Idle
  <2>. QED
    BY <1>2, <2>1, <2>2, RuleUntouched DEF RecordScore
<1>3. ASSUME NEW p \in Threads, StartRescore(p)
      PROVE  RuleInv'
  <2>1. CASE runs = <<>>
    <3>1. scores = {}
      BY <2>1 DEF TypedInv, TypeOK, RunIds
    <3>. QED
      BY <1>3, <2>1, <3>1 DEF StartRescore, RuleInv, LeftoversAreTodo, BoardUnderOneRule
  <2>2. CASE runs # <<>>
    <3>1. /\ thread'[p] = [Idle EXCEPT !.op = "rescore", !.pc = "delete", !.todo = RunIds]
          /\ \A q \in Threads \ {p} : thread'[q] = thread[q]
      BY <1>3, <2>2 DEF StartRescore, TypedInv, TypeOK
    <3>2. thread'[p].todo = RunIds /\ thread'[p].pc = "delete"
      BY <3>1 DEF Idle
    <3>3. LeftoversAreTodo'
      <4>1. scores' = scores /\ rule' = rule
        BY <1>3 DEF StartRescore
      <4>2. \A s \in scores : s.run \in RunIds
        BY DEF TypedInv, TypeOK
      <4>. QED
        BY <3>1, <3>2, <4>1, <4>2 DEF RuleInv, LeftoversAreTodo, Rescoring, At
    <3>. QED
      BY <1>3, <2>2, <3>3 DEF StartRescore, RuleInv, BoardUnderOneRule
  <2>. QED
    BY <2>1, <2>2
<1>4. ASSUME NEW p \in Threads, NEW r \in RunIds, DeleteScores(p, r)
      PROVE  RuleInv'
  <2>1. /\ thread'[p].todo = thread[p].todo /\ thread'[p].run = r
        /\ thread'[p].op = thread[p].op
        /\ \A q \in Threads \ {p} : thread'[q] = thread[q]
    BY <1>4 DEF DeleteScores, TypedInv, TypeOK, ThreadRecords
  <2>2. \A s \in scores' : s \in scores /\ s.run # r
    BY <1>4 DEF DeleteScores, ScoresWithout
  <2>3. LeftoversAreTodo'
    <3>1. rule' = rule
      BY <1>4 DEF DeleteScores
    <3>2. ASSUME NEW q \in Threads, Rescoring(q)', NEW s \in scores', s.rule # rule
          PROVE  s.run \in thread'[q].todo /\ (thread'[q].pc = "insert" => s.run # thread'[q].run)
      <4>1. Rescoring(q)
        BY <2>1, <3>2 DEF Rescoring
      <4>2. s.run \in thread[q].todo /\ (thread[q].pc = "insert" => s.run # thread[q].run)
        BY <2>2, <3>2, <4>1 DEF RuleInv, LeftoversAreTodo, At
      <4>. QED
        BY <2>1, <2>2, <4>2
    <3>. QED
      BY <3>1, <3>2 DEF LeftoversAreTodo, At
  <2>4. BoardUnderOneRule'
    BY <1>4, <2>2 DEF DeleteScores, RuleInv, BoardUnderOneRule
  <2>. QED
    BY <2>3, <2>4 DEF RuleInv
<1>5. ASSUME NEW p \in Threads, InsertScore(p)
      PROVE  RuleInv'
  <2>. DEFINE left == thread[p].todo \ {thread[p].run}
  <2>1. \A s \in scores' : s \in scores \/ s.rule = rule
    BY <1>5 DEF InsertScore, NewScore
  <2>2. \A s \in scores : s.rule # rule => s.run \in left
    BY <1>5 DEF InsertScore, RuleInv, LeftoversAreTodo, TypedInv, ThreadOK, At
  <2>3. CASE left = {}
    <3>1. \A s \in scores' : s.rule = rule
      BY <2>1, <2>2, <2>3
    <3>. QED
      BY <1>5, <3>1 DEF InsertScore, RuleInv, LeftoversAreTodo, BoardUnderOneRule
  <2>4. CASE left # {}
    <3>1. /\ thread'[p].todo = left /\ thread'[p].pc = "delete"
          /\ \A q \in Threads \ {p} : thread'[q] = thread[q]
      BY <1>5, <2>4 DEF InsertScore, TypedInv, TypeOK, ThreadRecords
    <3>2. LeftoversAreTodo'
      BY <1>5, <2>1, <2>2, <3>1 DEF InsertScore, RuleInv, LeftoversAreTodo, Rescoring, At
    <3>3. BoardUnderOneRule'
      BY <1>5, <2>1, <2>4 DEF InsertScore, RuleInv, BoardUnderOneRule
    <3>. QED
      BY <3>2, <3>3 DEF RuleInv
  <2>. QED
    BY <2>3, <2>4
<1>6. ASSUME NEW c \in Contests, CreateContest(c)
      PROVE  RuleInv'
  BY <1>6 DEF CreateContest, RuleInv, LeftoversAreTodo, BoardUnderOneRule, Rescoring, At
<1>7. CASE Restart
  <2>1. \A p \in Threads : ~Rescoring(p)'
    BY <1>7 DEF Restart, Rescoring, Idle
  <2>2. BoardUnderOneRule'
    BY <1>7 DEF Restart, RuleInv, BoardUnderOneRule
  <2>. QED
    BY <2>1, <2>2 DEF RuleInv, LeftoversAreTodo
<1>8. CASE UNCHANGED vars
  BY <1>8 DEF vars, RuleInv, LeftoversAreTodo, BoardUnderOneRule, Rescoring, At
<1>. QED
  BY <1>1, <1>2, <1>3, <1>4, <1>5, <1>6, <1>7, <1>8 DEF Next, Step

\* When a rescoring has ended, alone or beside others, every score is under
\* the rule that is deployed.
THEOREM OneRuleOnBoard == Spec => []BoardUnderOneRule
<1>1. Init => RuleInv
  BY DEF Init, RuleInv, LeftoversAreTodo, BoardUnderOneRule
<1>2. TypedInv /\ TypedInv' /\ RuleInv /\ [Next]_vars => RuleInv'
  BY StepUnderOneRule
<1>3. RuleInv => BoardUnderOneRule
  BY DEF RuleInv
<1>. QED
  BY <1>1, <1>2, <1>3, TypedAlways, PTL DEF Spec

-----------------------------------------------------------------------------
(* One score per run *)

ScoreInv == OneScorePerRun /\ HandsApart

\* Nothing is to be shown once rescorings have overlapped.
LEMMA Overlapped ==
    ASSUME "scores" \in overlapped'
    PROVE  ScoreInv'
BY DEF ScoreInv, OneScorePerRun, HandsApart

\* A step of a thread that takes nothing in hand and adds no score.
LEMMA ScoreUntouched ==
    ASSUME ScoreInv, NEW p \in Threads, scores' \subseteq scores, overlapped \subseteq overlapped',
           \A q \in Threads \ {p} : thread'[q] = thread[q],
           thread'[p].pc \notin {"score", "insert"}, ~Rescoring(p)'
    PROVE  ScoreInv'
<1>. SUFFICES ASSUME "scores" \notin overlapped'
              PROVE  ScoreInv'
  BY Overlapped
<1>1. "scores" \notin overlapped
  OBVIOUS
<1>2. OneScorePerRun'
  BY <1>1 DEF ScoreInv, OneScorePerRun
<1>3. HandsApart'
  <2>1. ASSUME NEW q \in Threads, thread'[q].pc \in {"score", "insert"} \/ Rescoring(q)'
        PROVE  thread'[q] = thread[q]
    BY <2>1
  <2>. QED
    BY <1>1, <2>1 DEF ScoreInv, HandsApart, Rescoring, At
<1>. QED
  BY <1>2, <1>3 DEF ScoreInv

LEMMA StepOneScore ==
    ASSUME TypedInv, TypedInv', ScoreInv, [Next]_vars
    PROVE  ScoreInv'
<1>1. ASSUME NEW p \in Threads,
             \/ \E a \in Agents : StartRun(p, a)
             \/ \E c \in Contests : ReadLeaderboard(p, c)
             \/ GetContest(p) \/ WriteResults(p) \/ Raise(p)
      PROVE  ScoreInv'
  <2>1. /\ scores' = scores /\ overlapped \subseteq overlapped'
        /\ \A q \in Threads \ {p} : thread'[q] = thread[q]
    BY <1>1 DEF StartRun, ReadLeaderboard, GetContest, WriteResults, Raise, Leave,
       TypedInv, TypeOK
  <2>2. thread'[p].pc \notin {"score", "delete", "insert"}
    BY <1>1, NoScoreInHand
  <2>3. ~Rescoring(p)'
    BY <2>2 DEF TypedInv, ThreadOK
  <2>. QED
    BY <2>1, <2>2, <2>3, ScoreUntouched
<1>2. ASSUME NEW p \in Threads, NEW o \in Outcomes, RecordRun(p, o), "scores" \notin overlapped
      PROVE  ScoreInv'
  <2>. DEFINE new == Len(runs) + 1
  <2>1. /\ thread'[p].pc = "score" /\ thread'[p].run = new
        /\ \A q \in Threads \ {p} : thread'[q] = thread[q]
        /\ scores' = scores /\ overlapped' = overlapped
    BY <1>2 DEF RecordRun, TypedInv, TypeOK, ThreadRecords
  <2>2. new \notin RunIds
    BY LenProperties DEF RunIds, TypedInv, TypeOK
  <2>3. /\ \A s \in scores : s.run # new
        /\ \A q \in Threads : At(q, "score") => thread[q].run # new
        /\ \A q \in Threads : Rescoring(q) => new \notin thread[q].todo
    BY <2>2 DEF TypedInv, TypeOK, ThreadOK
  <2>4. ~Rescoring(p)'
    BY <2>1 DEF TypedInv, ThreadOK
  <2>5. HandsApart'
    BY <1>2, <2>1, <2>3, <2>4 DEF ScoreInv, HandsApart, Rescoring, At
  <2>6. OneScorePerRun'
    BY <1>2, <2>1 DEF ScoreInv, OneScorePerRun
  <2>. QED
    BY <2>5, <2>6 DEF ScoreInv
<1>3. ASSUME NEW p \in Threads, RecordScore(p), "scores" \notin overlapped
      PROVE  ScoreInv'
  <2>. DEFINE new == NewScore(thread[p].run)
  <2>1. /\ scores' = scores \cup {new} /\ new.run = thread[p].run
        /\ overlapped' = overlapped /\ At(p, "score")
    BY <1>3 DEF RecordScore, NewScore
  <2>2. /\ thread'[p] = Idle
        /\ \A q \in Threads \ {p} : thread'[q] = thread[q]
    BY <1>3, LeaveTyped DEF RecordScore
  <2>3. \A s \in scores : s.run # thread[p].run
    BY <1>3, <2>1 DEF ScoreInv, HandsApart, At
  <2>4. OneScorePerRun'
    BY <1>3, <2>1, <2>3 DEF ScoreInv, OneScorePerRun
  <2>5. ASSUME NEW q \in Threads, thread'[q].pc \in {"score", "insert"}
        PROVE  q # p /\ thread[q].run # thread[p].run
    <3>1. q # p /\ thread'[q] = thread[q]
      BY <2>2, <2>5 DEF Idle
    <3>2. CASE At(q, "score")
      BY <1>3, <2>1, <3>1, <3>2 DEF ScoreInv, HandsApart
    <3>3. CASE At(q, "insert")
      <4>1. Rescoring(q) /\ thread[q].run \in thread[q].todo
        BY <3>3 DEF TypedInv, ThreadOK, At
      <4>. QED
        BY <1>3, <2>1, <3>1, <4>1 DEF ScoreInv, HandsApart
    <3>. QED
      BY <2>5, <3>1, <3>2, <3>3 DEF At
  <2>6. ~Rescoring(p)' /\ ~At(p, "score")'
    BY <2>2 DEF Rescoring, At, Idle
  <2>7. HandsApart'
    BY <1>3, <2>1, <2>2, <2>5, <2>6 DEF ScoreInv, HandsApart, Rescoring, At
  <2>. QED
    BY <2>4, <2>7 DEF ScoreInv
<1>4. ASSUME NEW p \in Threads, StartRescore(p)
      PROVE  ScoreInv'
  <2>1. CASE runs = <<>>
    BY <1>4, <2>1 DEF StartRescore, ScoreInv, OneScorePerRun, HandsApart, Rescoring, At
  <2>2. CASE runs # <<>> /\ "scores" \notin overlapped'
    <3>1. /\ \A q \in Threads : ~At(q, "score") /\ ~Rescoring(q)
          /\ overlapped' = overlapped /\ scores' = scores
      BY <1>4, <2>2 DEF StartRescore
    <3>2. /\ thread'[p].pc = "delete"
          /\ \A q \in Threads \ {p} : thread'[q] = thread[q]
      BY <1>4, <2>2 DEF StartRescore, TypedInv, TypeOK, Idle
    <3>3. \A q \in Threads \ {p} : ~At(q, "score")' /\ ~Rescoring(q)' /\ ~At(q, "insert")
      BY <3>1, <3>2 DEF At, Rescoring, TypedInv, ThreadOK
    <3>4. HandsApart'
      BY <3>1, <3>2, <3>3 DEF HandsApart, Rescoring, At
    <3>5. OneScorePerRun'
      BY <3>1 DEF ScoreInv, OneScorePerRun
    <3>. QED
      BY <3>4, <3>5 DEF ScoreInv
  <2>. QED
    BY <2>1, <2>2, Overlapped
<1>5. ASSUME NEW p \in Threads, NEW r \in RunIds, DeleteScores(p, r), "scores" \notin overlapped
      PROVE  ScoreInv'
  <2>1. /\ thread'[p].pc = "insert" /\ thread'[p].run = r
        /\ thread'[p].op = thread[p].op /\ thread'[p].todo = thread[p].todo
        /\ \A q \in Threads \ {p} : thread'[q] = thread[q]
        /\ overlapped' = overlapped
    BY <1>5 DEF DeleteScores, TypedInv, TypeOK, ThreadRecords
  <2>2. scores' \subseteq scores /\ \A s \in scores' : s.run # r
    BY <1>5 DEF DeleteScores, ScoresWithout
  <2>3. OneScorePerRun'
    BY <1>5, <2>1, <2>2 DEF ScoreInv, OneScorePerRun
  <2>4. HandsApart'
    BY <1>5, <2>1, <2>2 DEF ScoreInv, HandsApart, Rescoring, At
  <2>. QED
    BY <2>3, <2>4 DEF ScoreInv
<1>6. ASSUME NEW p \in Threads, InsertScore(p), "scores" \notin overlapped
      PROVE  ScoreInv'
  <2>. DEFINE new == NewScore(thread[p].run)
  <2>1. /\ scores' = scores \cup {new} /\ new.run = thread[p].run
        /\ overlapped' = overlapped /\ At(p, "insert")
    BY <1>6 DEF InsertScore, NewScore
  <2>2. /\ Rescoring(p) /\ thread[p].run \in thread[p].todo
        /\ \A q \in Threads \ {p} : thread'[q] = thread[q]
    BY <1>6, <2>1 DEF InsertScore, Leave, TypedInv, TypeOK, ThreadOK, At
  <2>3. /\ thread'[p].pc \notin {"score", "insert"}
        /\ Rescoring(p)' => thread'[p].todo \subseteq thread[p].todo
    <3>1. CASE Leave(p)
      BY <3>1, LeaveTyped DEF Idle, Rescoring
    <3>2. CASE ~Leave(p)
      BY <1>6, <3>2 DEF InsertScore, TypedInv, TypeOK, ThreadRecords
    <3>. QED
      BY <3>1, <3>2
  <2>4. \A s \in scores : s.run # thread[p].run
    BY <1>6, <2>1 DEF ScoreInv, HandsApart, At
  <2>5. OneScorePerRun'
    BY <1>6, <2>1, <2>4 DEF ScoreInv, OneScorePerRun
  <2>6. ASSUME NEW q \in Threads, thread'[q].pc \in {"score", "insert"}
        PROVE  q # p /\ thread[q].run # thread[p].run
    <3>1. q # p /\ thread'[q] = thread[q]
      BY <2>2, <2>3, <2>6
    <3>2. CASE At(q, "score")
      BY <1>6, <2>2, <3>2 DEF ScoreInv, HandsApart
    <3>3. CASE At(q, "insert")
      <4>1. Rescoring(q)
        BY <3>3 DEF TypedInv, ThreadOK, At
      <4>. QED
        BY <1>6, <2>2, <3>1, <4>1 DEF ScoreInv, HandsApart
    <3>. QED
      BY <2>6, <3>1, <3>2, <3>3 DEF At
  <2>7. HandsApart'
    <3>1. \A q \in Threads : thread'[q].pc \in {"score", "insert"} =>
             \A s \in scores' : s.run # thread'[q].run
      BY <1>6, <2>1, <2>2, <2>6 DEF ScoreInv, HandsApart
    <3>2. \A q \in Threads : Rescoring(q)' => q = p
      BY <1>6, <2>2 DEF ScoreInv, HandsApart, Rescoring
    <3>3. \A q \in Threads : At(q, "score")' => At(q, "score") /\ thread'[q] = thread[q] /\ q # p
      BY <2>2, <2>3 DEF At
    <3>4. \A q \in Threads : Rescoring(p)' /\ At(q, "score")' => thread'[q].run \notin thread'[p].todo
      BY <1>6, <2>2, <2>3, <3>3 DEF ScoreInv, HandsApart
    <3>. QED
      BY <1>6, <2>1, <3>1, <3>2, <3>3, <3>4 DEF ScoreInv, HandsApart
  <2>. QED
    BY <2>5, <2>7 DEF ScoreInv
<1>7. ASSUME NEW c \in Contests, CreateContest(c)
      PROVE  ScoreInv'
  BY <1>7 DEF CreateContest, ScoreInv, OneScorePerRun, HandsApart, Rescoring, At
<1>8. CASE Restart
  <2>1. \A p \in Threads : ~Rescoring(p)' /\ thread'[p].pc = "idle"
    BY <1>8 DEF Restart, Rescoring, Idle
  <2>2. OneScorePerRun'
    BY <1>8 DEF Restart, ScoreInv, OneScorePerRun
  <2>. QED
    BY <2>1, <2>2 DEF ScoreInv, HandsApart, At
<1>9. CASE UNCHANGED vars
  BY <1>9 DEF vars, ScoreInv, OneScorePerRun, HandsApart, Rescoring, At
<1>10. CASE "scores" \in overlapped
  <2>1. overlapped \subseteq overlapped'
    <3>1. ASSUME NEW p \in Threads, Step(p) \/ Raise(p)
          PROVE  overlapped \subseteq overlapped'
      BY <3>1 DEF Step, RecordRun, RecordScore, DeleteScores, InsertScore, GetContest, WriteResults,
         Raise
    <3>. QED
      BY <3>1 DEF Next, vars, StartRun, ReadLeaderboard, StartRescore, CreateContest, Restart
  <2>. QED
    BY <1>10, <2>1, Overlapped
<1>. QED
  BY <1>1, <1>2, <1>3, <1>4, <1>5, <1>6, <1>7, <1>8, <1>9, <1>10 DEF Next, Step

\* A run has one score, unless a rescoring met another or a run between its
\* two blocks.
THEOREM ScoresUnique == Spec => []OneScorePerRun
<1>1. Init => ScoreInv
  BY DEF Init, ScoreInv, OneScorePerRun, HandsApart, Idle, Rescoring, At
<1>2. TypedInv /\ TypedInv' /\ ScoreInv /\ [Next]_vars => ScoreInv'
  BY StepOneScore
<1>3. ScoreInv => OneScorePerRun
  BY DEF ScoreInv
<1>. QED
  BY <1>1, <1>2, <1>3, TypedAlways, PTL DEF Spec

(* The scores of the leaderboard are sound, for any number of agents, runs  *)
(* and threads: none lost, none doubled, none of another rule.             *)
THEOREM SoundScores == Spec => []ScoresAreSound
  BY Typing, NoScoreLost, ScoresUnique, OneRuleOnBoard, PTL DEF ScoresAreSound

-----------------------------------------------------------------------------
(* A contest ranks an agent once *)

BoardInv == TimesDiffer /\ BoardsRankOnce

\* A ranking of the leaderboard lists an agent once.
LEMMA RankingsOnce ==
    ASSUME TypedInv, TimesDiffer, NEW b \in Rankings,
           NEW i \in DOMAIN Rows(b), NEW j \in DOMAIN Rows(b), Rows(b)[i].agent = Rows(b)[j].agent
    PROVE  i = j
<1>1. /\ i \in DOMAIN b /\ j \in DOMAIN b
      /\ Agent(b[i]) = Agent(b[j])
  BY DEF Rows
<1>2. b[i] \in Latest /\ b[j] \in Latest
  BY <1>1 DEF Rankings, Rankable
<1>3. b[i] \in scores /\ b[j] \in scores /\ b[i].at <= b[j].at /\ b[j].at <= b[i].at
  BY <1>1, <1>2 DEF Latest
<1>4. b[i].at \in Nat /\ b[j].at \in Nat
  BY <1>3 DEF TypedInv, TypeOK, ScoreRows
<1>5. b[i] = b[j]
  BY <1>3, <1>4 DEF TimesDiffer
<1>. QED
  BY <1>1, <1>5 DEF Rankings

LEMMA StepTimesDiffer ==
    ASSUME TypedInv, TimesDiffer, [Next]_vars
    PROVE  TimesDiffer'
<1>1. ASSUME NEW p \in Threads, RecordScore(p) \/ InsertScore(p)
      PROVE  TimesDiffer'
  <2>. DEFINE new == NewScore(thread[p].run)
  <2>1. scores' = scores \cup {new} /\ new.at = clock + 1
    BY <1>1 DEF RecordScore, InsertScore, NewScore
  <2>2. \A s \in scores : s.at # new.at
    BY <2>1 DEF TypedInv, TypeOK, ScoreRows
  <2>. QED
    BY <2>1, <2>2 DEF TimesDiffer
<1>2. ASSUME scores' \subseteq scores
      PROVE  TimesDiffer'
  BY <1>2 DEF TimesDiffer
<1>3. ASSUME NEW p \in Threads, Step(p) \/ Raise(p)
      PROVE  TimesDiffer'
  BY <1>1, <1>2, <1>3 DEF Step, RecordRun, DeleteScores, ScoresWithout, GetContest, WriteResults,
     Raise
<1>. QED
  BY <1>2, <1>3 DEF Next, vars, StartRun, ReadLeaderboard, StartRescore, CreateContest, Restart

LEMMA StepBoards ==
    ASSUME TypedInv, BoardInv, [Next]_vars
    PROVE  BoardInv'
<1>. DEFINE Once(b) == \A i, j \in DOMAIN b : b[i].agent = b[j].agent => i = j
<1>1. TimesDiffer'
  BY StepTimesDiffer DEF BoardInv
<1>2. Once(<<>>)
  OBVIOUS
<1>3. ASSUME NEW p \in Threads, NEW c \in Contests, ReadLeaderboard(p, c)
      PROVE  \A q \in Threads : Once(thread'[q].board)
  <2>1. PICK b \in Rankings : thread' = [thread EXCEPT ![p] =
          [Idle EXCEPT !.op = "close", !.pc = "get", !.board = Rows(b), !.contest = c]]
    BY <1>3 DEF ReadLeaderboard
  <2>2. Once(Rows(b))
    BY RankingsOnce DEF BoardInv
  <2>3. /\ thread'[p].board = Rows(b)
        /\ \A q \in Threads \ {p} : thread'[q] = thread[q]
    BY <2>1 DEF Idle, TypedInv, TypeOK
  <2>. QED
    BY <2>2, <2>3 DEF BoardInv, BoardsRankOnce
<1>4. ASSUME NEW p \in Threads,
             \/ \E a \in Agents : StartRun(p, a)
             \/ StartRescore(p) \/ Step(p) \/ Raise(p)
      PROVE  \A q \in Threads : Once(thread'[q].board)
  <2>1. \A q \in Threads \ {p} : thread'[q] = thread[q]
    BY <1>4 DEF StartRun, StartRescore, Step, RecordRun, RecordScore, DeleteScores, InsertScore,
       GetContest, WriteResults, Raise, Leave, TypedInv, TypeOK
  <2>2. thread'[p].board = thread[p].board \/ thread'[p].board = <<>>
    <3>1. ASSUME NEW a \in Agents, StartRun(p, a)
          PROVE  thread'[p].board = <<>>
      BY <3>1 DEF StartRun, Idle, TypedInv, TypeOK
    <3>2. CASE StartRescore(p)
      BY <3>2 DEF StartRescore, Idle, TypedInv, TypeOK
    <3>3. CASE Leave(p)
      BY <3>3, LeaveTyped DEF Idle
    <3>4. thread \in [Threads -> ThreadRecords] /\ thread[p] \in ThreadRecords
      BY DEF TypedInv, TypeOK
    <3>5. ASSUME NEW o \in Outcomes, RecordRun(p, o)
          PROVE  thread'[p].board = thread[p].board
      BY <3>4, <3>5 DEF RecordRun, ThreadRecords
    <3>6. ASSUME NEW r \in RunIds, DeleteScores(p, r)
          PROVE  thread'[p].board = thread[p].board
      BY <3>4, <3>6 DEF DeleteScores, ThreadRecords
    <3>7. CASE InsertScore(p) /\ ~Leave(p)
      BY <3>4, <3>7 DEF InsertScore, ThreadRecords
    <3>8. CASE GetContest(p) /\ ~Leave(p)
      BY <3>4, <3>8 DEF GetContest, ThreadRecords
    <3>9. (RecordScore(p) \/ WriteResults(p) \/ Raise(p)) => Leave(p)
      BY DEF RecordScore, WriteResults, Raise
    <3>. QED
      BY <1>4, <3>1, <3>2, <3>3, <3>5, <3>6, <3>7, <3>8, <3>9 DEF Step
  <2>. QED
    BY <1>2, <2>1, <2>2 DEF BoardInv, BoardsRankOnce
<1>5. ASSUME Restart
      PROVE  \A q \in Threads : Once(thread'[q].board)
  <2>1. \A q \in Threads : thread'[q].board = <<>>
    BY <1>5 DEF Restart, Idle
  <2>. QED
    BY <1>2, <2>1
<1>6. ASSUME thread' = thread
      PROVE  \A q \in Threads : Once(thread'[q].board)
  BY <1>6 DEF BoardInv, BoardsRankOnce
<1>7. \A q \in Threads : Once(thread'[q].board)
  <2>. HIDE DEF Once
  <2>1. CASE \E p \in Threads :
               \/ \E a \in Agents : StartRun(p, a)
               \/ \E c \in Contests : ReadLeaderboard(p, c)
               \/ StartRescore(p) \/ Step(p) \/ Raise(p)
    BY <1>3, <1>4, <2>1
  <2>2. CASE (\E c \in Contests : CreateContest(c)) \/ UNCHANGED vars
    BY <1>6, <2>2 DEF CreateContest, vars
  <2>. QED
    BY <1>5, <2>1, <2>2 DEF Next
<1>. QED
  BY <1>1, <1>7 DEF BoardInv, BoardsRankOnce

ClosingInv == ClosingsApart /\ RankedOnce

\* Contests stay as they are and nobody new is about to close one.
LEMMA ClosingUntouched ==
    ASSUME ClosingInv, contest' = contest, faults' = faults, overlapped \subseteq overlapped',
           \A q \in Threads : At(q, "close")' => thread'[q] = thread[q]
    PROVE  ClosingInv'
<1>1. RankedOnce'
  BY DEF ClosingInv, RankedOnce
<1>2. ClosingsApart'
  BY DEF ClosingInv, ClosingsApart, At
<1>. QED
  BY <1>1, <1>2 DEF ClosingInv

LEMMA StepClosings ==
    ASSUME TypedInv, BoardInv, ClosingInv, [Next]_vars
    PROVE  ClosingInv'
<1>1. ASSUME NEW p \in Threads, GetContest(p)
      PROVE  ClosingInv'
  <2>. DEFINE c == thread[p].contest
  <2>1. contest' = contest /\ faults' = faults /\ overlapped \subseteq overlapped'
    BY <1>1 DEF GetContest
  <2>2. CASE ~Closable(c)
    <3>1. \A q \in Threads : At(q, "close")' => thread'[q] = thread[q]
      BY <1>1, <2>2, LeaveTyped DEF GetContest, At, Idle
    <3>. QED
      BY <2>1, <3>1, ClosingUntouched
  <2>3. CASE Closable(c)
    <3>1. /\ thread'[p].pc = "close" /\ thread'[p].contest = c
          /\ \A q \in Threads \ {p} : thread'[q] = thread[q]
      BY <1>1, <2>3 DEF GetContest, TypedInv, TypeOK, ThreadRecords
    <3>2. ASSUME faults' = 0, "closings" \notin overlapped'
          PROVE  \A q \in Threads : ~(At(q, "close") /\ thread[q].contest = c)
      BY <1>1, <2>3, <3>2 DEF GetContest
    <3>3. ClosingsApart'
      BY <2>1, <2>3, <3>1, <3>2 DEF ClosingInv, ClosingsApart, At, Closable
    <3>4. RankedOnce'
      BY <2>1 DEF ClosingInv, RankedOnce
    <3>. QED
      BY <3>3, <3>4 DEF ClosingInv
  <2>. QED
    BY <2>2, <2>3
<1>2. ASSUME NEW p \in Threads, WriteResults(p)
      PROVE  ClosingInv'
  <2>. DEFINE c == thread[p].contest
              board == thread[p].board
  <2>1. /\ c \in Contests /\ board \in Seq(BoardRows)
        /\ contest[c].rows \in Seq(BoardRows)
        /\ DOMAIN contest = Contests
    BY <1>2 DEF WriteResults, TypedInv, TypeOK, ThreadRecords, ThreadOK, At
  <2>2. /\ contest'[c] = [status |-> "closed", rows |-> contest[c].rows \o board]
        /\ \A d \in Contests \ {c} : contest'[d] = contest[d]
        /\ faults' = faults /\ overlapped' = overlapped /\ At(p, "close")
    BY <1>2, <2>1 DEF WriteResults
  <2>3. \A q \in Threads : At(q, "close")' => At(q, "close") /\ thread'[q] = thread[q] /\ q # p
    BY <1>2, LeaveTyped DEF WriteResults, At, Idle
  <2>. SUFFICES ASSUME faults = 0, "closings" \notin overlapped
                PROVE  ClosingInv'
    BY <2>2 DEF ClosingInv, ClosingsApart, RankedOnce
  <2>4. contest[c].rows = <<>>
    BY <2>1, <2>2 DEF ClosingInv, ClosingsApart
  <2>5. contest'[c].rows = board
    BY <2>1, <2>2, <2>4
  <2>6. RankedOnce'
    BY <2>2, <2>5 DEF ClosingInv, RankedOnce, BoardInv, BoardsRankOnce
  <2>7. \A q \in Threads : At(q, "close")' => thread'[q].contest # c
    BY <2>2, <2>3 DEF ClosingInv, ClosingsApart
  <2>8. \A q \in Threads : At(q, "close")' => contest'[thread'[q].contest].status # "closed"
    <3>. SUFFICES ASSUME NEW q \in Threads, At(q, "close")'
                  PROVE  contest'[thread'[q].contest].status # "closed"
      OBVIOUS
    <3>1. thread'[q].contest = thread[q].contest /\ At(q, "close") /\ thread[q].contest # c
      BY <2>3, <2>7
    <3>2. thread[q].contest \in Contests
      BY <3>1 DEF TypedInv, ThreadOK, At
    <3>. QED
      BY <2>2, <3>1, <3>2 DEF ClosingInv, ClosingsApart
  <2>9. ClosingsApart'
    <3>1. \A d \in Contests : contest'[d].status # "closed" => contest'[d].rows = <<>>
      BY <2>2 DEF ClosingInv, ClosingsApart
    <3>2. \A q, r \in Threads :
             At(q, "close")' /\ At(r, "close")' /\ thread'[q].contest = thread'[r].contest => q = r
      BY <2>3 DEF ClosingInv, ClosingsApart
    <3>. QED
      BY <2>8, <3>1, <3>2 DEF ClosingsApart
  <2>. QED
    BY <2>6, <2>9 DEF ClosingInv
<1>3. ASSUME NEW c \in Contests, CreateContest(c)
      PROVE  ClosingInv'
  <2>1. /\ contest'[c].status = "open" /\ contest'[c].rows = contest[c].rows
        /\ contest[c].status = "absent"
        /\ \A d \in Contests \ {c} : contest'[d] = contest[d]
        /\ thread' = thread /\ faults' = faults /\ overlapped' = overlapped
    BY <1>3 DEF CreateContest, TypedInv, TypeOK
  <2>2. RankedOnce'
    BY <2>1 DEF ClosingInv, RankedOnce
  <2>3. \A q \in Threads : At(q, "close") => thread[q].contest \in Contests
    BY DEF TypedInv, ThreadOK, At
  <2>4. ClosingsApart'
    BY <2>1, <2>3 DEF ClosingInv, ClosingsApart, At
  <2>. QED
    BY <2>2, <2>4 DEF ClosingInv
<1>4. ASSUME faults' = faults + 1
      PROVE  ClosingInv'
  <2>1. faults' # 0
    BY <1>4 DEF TypedInv, TypeOK
  <2>. QED
    BY <2>1 DEF ClosingInv, ClosingsApart, RankedOnce
<1>5. ASSUME NEW p \in Threads,
             \/ \E a \in Agents : StartRun(p, a)
             \/ \E c \in Contests : ReadLeaderboard(p, c)
             \/ \E o \in Outcomes : RecordRun(p, o)
             \/ \E r \in RunIds : DeleteScores(p, r)
             \/ StartRescore(p) \/ RecordScore(p) \/ InsertScore(p)
      PROVE  ClosingInv'
  <2>1. /\ contest' = contest /\ faults' = faults /\ overlapped \subseteq overlapped'
        /\ \A q \in Threads \ {p} : thread'[q] = thread[q]
    BY <1>5 DEF StartRun, ReadLeaderboard, RecordRun, DeleteScores, StartRescore, RecordScore,
       InsertScore, Leave, TypedInv, TypeOK
  <2>2. ~At(p, "close")' \/ thread'[p] = thread[p]
    <3>1. CASE \/ \E a \in Agents : StartRun(p, a)
               \/ \E c \in Contests : ReadLeaderboard(p, c)
      BY <3>1, EnteringPc DEF At
    <3>2. CASE \E o \in Outcomes : RecordRun(p, o)
      BY <3>2 DEF RecordRun, At, TypedInv, TypeOK, ThreadRecords
    <3>3. CASE \E r \in RunIds : DeleteScores(p, r)
      BY <3>3 DEF DeleteScores, At, TypedInv, TypeOK, ThreadRecords
    <3>4. CASE StartRescore(p)
      BY <3>4 DEF StartRescore, At, Idle, TypedInv, TypeOK
    <3>5. CASE Leave(p)
      BY <3>5, LeaveTyped DEF Idle, At
    <3>6. CASE InsertScore(p) /\ ~Leave(p)
      BY <3>6 DEF InsertScore, At, TypedInv, TypeOK, ThreadRecords
    <3>. QED
      BY <1>5, <3>1, <3>2, <3>3, <3>4, <3>5, <3>6 DEF RecordScore
  <2>. QED
    BY <2>1, <2>2, ClosingUntouched
<1>6. CASE UNCHANGED vars
  BY <1>6, ClosingUntouched DEF vars
<1>. QED
  BY <1>1, <1>2, <1>3, <1>4, <1>5, <1>6 DEF Next, Step, Raise, Restart

\* A closed contest ranks an agent once, unless a death or an overlapping
\* closing came between.
THEOREM ContestsRankOnce == Spec => []RankedOnce
<1>1. Init => BoardInv /\ ClosingInv
  BY DEF Init, BoardInv, TimesDiffer, BoardsRankOnce, ClosingInv, ClosingsApart, RankedOnce,
     Idle, At
<1>2. TypedInv /\ BoardInv /\ [Next]_vars => BoardInv'
  BY StepBoards
<1>3. TypedInv /\ BoardInv /\ ClosingInv /\ [Next]_vars => ClosingInv'
  BY StepClosings
<1>4. ClosingInv => RankedOnce
  BY DEF ClosingInv
<1>. QED
  BY <1>1, <1>2, <1>3, <1>4, TypedAlways, PTL DEF Spec

-----------------------------------------------------------------------------
(***************************************************************************)
(* The supervisor: whatever sweeps overlap.                                *)
(***************************************************************************)
SweepPcs == {"idle", "regime", "run", "scores", "drift", "catalog", "assess", "register", "stale"}
Sweeps == [pc : SweepPcs, todo : Seq(Swept \cup DataIds), rows : [Swept -> Seq(Scores)], queued : BOOLEAN]

SuperTyped ==
    /\ history \in [Swept -> Seq(Scores)]
    /\ sweep \in [Sweepers -> Sweeps]
    /\ dataset \in [DataIds -> {"fresh", "stale"}]
    /\ refreshJobs \in [DataIds -> {"none", "due", "run"}]
    /\ sweepFaults \in 0..MaxSweepFaults

\* Two scores of the agent that followed each other.
InHistory(a, pair) == \E n \in 2..Len(history[a]) : pair = <<history[a][n - 1], history[a][n]>>

\* The findings are rows, one open of a kind per agent, and those about a score are right.
FindingsRight ==
    /\ \A i \in DOMAIN findings : i \in 1..MaxFindings /\ findings[i] \in Findings
    /\ \A i, j \in DOMAIN findings :
          findings[i].open /\ SameOpen(findings[j], findings[i].kind, findings[i].about) => i = j
    /\ \A i \in DOMAIN findings : findings[i].about \in Swept =>
          Drift(findings[i].pair) = findings[i].kind /\ InHistory(findings[i].about, findings[i].pair)

Flagged(a, kind) == \E i \in DOMAIN findings : findings[i].about = a /\ findings[i].kind = kind

\* A sweep has agents and then datasets to do, rows of scores that followed each
\* other, and flags for the agents it is through with.
QueueFits(s) ==
    /\ s.pc \in {"run", "drift"} => s.todo \in Seq(Swept)
    /\ s.pc \in {"assess", "register", "stale"} => s.todo \in Seq(DataIds)
    /\ s.pc \in {"register", "stale"} => s.todo # <<>>
RowsRead(s) == \A a \in Swept : s.rows[a] = NoPair \/ InHistory(a, s.rows[a])
Through(s, a) == s.pc \in {"assess", "register", "stale"} \/ (s.pc = "drift" /\ a \notin ToSet(s.todo))
PassedFlagged(s) ==
    \A a \in Swept : Through(s, a) /\ Drift(s.rows[a]) # "none" => Flagged(a, Drift(s.rows[a]))
SweepSound(s) == QueueFits(s) /\ RowsRead(s) /\ PassedFlagged(s)

SuperInv == SuperTyped /\ FindingsRight /\ \A p \in Sweepers : SweepSound(sweep[p])

-----------------------------------------------------------------------------
(* What a step leaves standing. *)

\* Scores are only added, and what was flagged stays flagged.
HistoryGrows ==
    \A a \in Swept : /\ Len(history[a]) <= Len(history'[a])
                     /\ \A n \in 1..Len(history[a]) : history'[a][n] = history[a][n]
FlagsStay == \A kind : \A a \in Swept : Flagged(a, kind) => Flagged(a, kind)'

\* The names of a constant sequence.
LEMMA Names ==
    /\ SweptAgents \in Seq(Swept) /\ Datasets \in Seq(DataIds)
    /\ Swept \cap DataIds = {} /\ Market \notin Swept
BY SuperAssumption DEF Swept, DataIds

\* ToSet is the range of the sequence.
LEMMA ToSetIs == \A s : ToSet(s) = {s[i] : i \in DOMAIN s}
BY DEF ToSet

\* The empty sequence is a sequence of anything and names nothing.
LEMMA NoneLeft == \A S : <<>> \in Seq(S)
BY EmptySeq

\* An empty list names nothing.
LEMMA NothingNamed == ToSet(<<>>) = {}
BY EmptySeq DEF ToSet

\* A step on the list of what is to be done.
LEMMA TailNames ==
    ASSUME NEW S, NEW s \in Seq(S), s # <<>>
    PROVE  /\ Tail(s) \in Seq(S) /\ Head(s) \in S
           /\ ToSet(s) \subseteq ToSet(Tail(s)) \cup {Head(s)}
<1>1. Len(s) \in Nat /\ Len(s) # 0 /\ DOMAIN s = 1..Len(s)
  BY LenProperties, EmptySeq
<1>2. Tail(s) \in Seq(S) /\ Head(s) = s[1] /\ s[1] \in S
  BY <1>1, HeadTailProperties, ElementOfSeq
<1>3. Len(Tail(s)) = Len(s) - 1 /\ \A i \in 1..(Len(s) - 1) : Tail(s)[i] = s[i + 1]
  BY HeadTailProperties
<1>4. DOMAIN Tail(s) = 1..(Len(s) - 1)
  BY <1>2, <1>3, LenProperties
<1>5. ASSUME NEW i \in 1..Len(s) PROVE s[i] \in ToSet(Tail(s)) \cup {Head(s)}
  <2>1. CASE i = 1
    BY <1>2, <2>1
  <2>2. CASE i # 1
    <3>1. i - 1 \in 1..(Len(s) - 1) /\ (i - 1) + 1 = i
      BY <1>1, <2>2
    <3>2. Tail(s)[i - 1] = s[i]
      BY <1>3, <3>1
    <3> QED
      BY <1>4, <3>1, <3>2, ToSetIs
  <2> QED
    BY <2>1, <2>2
<1> QED
  BY <1>1, <1>2, <1>5, ToSetIs

\* The kinds of a drift.
LEMMA DriftKinds ==
    \A pair : Drift(pair) \in {"none", "became_inconclusive", "score_improved", "score_degraded"}
BY DEF Drift

\* An agent with fewer than two scores has not moved.
LEMMA NoDrift == Drift(NoPair) = "none"
BY DEF Drift

\* What a pair of scores of the past is stays so.
LEMMA InHistoryStays ==
    ASSUME SuperTyped, HistoryGrows, NEW a \in Swept, NEW pair, InHistory(a, pair), Len(history'[a]) \in Nat
    PROVE  InHistory(a, pair)'
<1>1. PICK n \in 2..Len(history[a]) : pair = <<history[a][n - 1], history[a][n]>>
  BY DEF InHistory
<1>2. Len(history[a]) \in Nat
  BY LenProperties DEF SuperTyped
<1>3. n \in 1..Len(history[a]) /\ n - 1 \in 1..Len(history[a]) /\ n \in 2..Len(history'[a])
  BY <1>2 DEF HistoryGrows
<1>4. history'[a][n] = history[a][n] /\ history'[a][n - 1] = history[a][n - 1]
  BY <1>3 DEF HistoryGrows
<1> QED
  BY <1>1, <1>3, <1>4 DEF InHistory

\* A sweep stays sound as scores are added and what was flagged stays flagged.
LEMMA SoundStays ==
    ASSUME SuperTyped, HistoryGrows, FlagsStay, NEW s, SweepSound(s), \A a \in Swept : Len(history'[a]) \in Nat
    PROVE  SweepSound(s)'
<1>1. QueueFits(s)'
  BY DEF SweepSound, QueueFits
<1>2. RowsRead(s)'
  BY InHistoryStays DEF SweepSound, RowsRead
<1>3. PassedFlagged(s)'
  BY DEF SweepSound, PassedFlagged, FlagsStay, Through
<1> QED
  BY <1>1, <1>2, <1>3 DEF SweepSound

\* A score is added, or none.
LEMMA HistorySame ==
    ASSUME SuperTyped, UNCHANGED history
    PROVE  HistoryGrows /\ (\A a \in Swept : Len(history'[a]) \in Nat) /\ history' \in [Swept -> Seq(Scores)]
<1>1. \A a \in Swept : Len(history[a]) \in Nat
  BY LenProperties DEF SuperTyped
<1> QED
  BY <1>1 DEF HistoryGrows, SuperTyped

\* A score is added for one agent.
LEMMA ScoreAdded ==
    ASSUME SuperTyped, NEW b \in Swept, NEW v \in Scores, history' = [history EXCEPT ![b] = Append(@, v)]
    PROVE  HistoryGrows /\ (\A a \in Swept : Len(history'[a]) \in Nat) /\ history' \in [Swept -> Seq(Scores)]
<1>1. \A a \in Swept : history[a] \in Seq(Scores) /\ Len(history[a]) \in Nat
  BY LenProperties DEF SuperTyped
<1>2. /\ Append(history[b], v) \in Seq(Scores) /\ Len(Append(history[b], v)) = Len(history[b]) + 1
      /\ \A n \in 1..Len(history[b]) : Append(history[b], v)[n] = history[b][n]
  BY <1>1, AppendProperties
<1> DEFINE longer == Append(history[b], v)
<1>3. history' = [history EXCEPT ![b] = longer]
  OBVIOUS
<1> HIDE DEF longer
<1>4. \A a \in Swept : history'[a] = IF a = b THEN longer ELSE history[a]
  BY <1>3 DEF SuperTyped
<1>5. longer \in Seq(Scores) /\ Len(longer) = Len(history[b]) + 1 /\ \A n \in 1..Len(history[b]) : longer[n] = history[b][n]
  BY <1>2 DEF longer
<1>6. history' \in [Swept -> Seq(Scores)]
  BY <1>3, <1>5 DEF SuperTyped
<1>7. \A a \in Swept : Len(history'[a]) \in Nat /\ Len(history[a]) <= Len(history'[a])
  BY <1>1, <1>4, <1>5
<1>8. \A a \in Swept : \A n \in 1..Len(history[a]) : history'[a][n] = history[a][n]
  BY <1>4, <1>5
<1> QED
  BY <1>6, <1>7, <1>8 DEF HistoryGrows

\* Findings that do not change are right as before.
LEMMA FindingsSame ==
    ASSUME SuperTyped, FindingsRight, HistoryGrows, UNCHANGED findings, \A a \in Swept : Len(history'[a]) \in Nat
    PROVE  FindingsRight' /\ FlagsStay
<1>1. FlagsStay
  BY DEF FlagsStay, Flagged
<1>2. \A i \in DOMAIN findings : findings[i].about \in Swept => InHistory(findings[i].about, findings[i].pair)'
  <2> SUFFICES ASSUME NEW i \in DOMAIN findings, findings[i].about \in Swept
               PROVE  InHistory(findings[i].about, findings[i].pair)'
    OBVIOUS
  <2>0. PICK a \in Swept : a = findings[i].about
    OBVIOUS
  <2>1. PICK pair : a = findings[i].about /\ pair = findings[i].pair
    BY <2>0
  <2>2. InHistory(a, pair)'
    BY <2>1, InHistoryStays DEF FindingsRight
  <2> QED
    BY <2>1, <2>2
<1>3. FindingsRight'
  BY <1>2 DEF FindingsRight, SameOpen
<1> QED
  BY <1>1, <1>3

\* A step of a sweep.
LEMMA SweepMoves ==
    ASSUME SuperInv, NEW p \in Sweepers, NEW s \in Sweeps, Moves(p, s), HistoryGrows, FlagsStay,
           FindingsRight', SweepSound(s)', history' \in [Swept -> Seq(Scores)],
           \A a \in Swept : Len(history'[a]) \in Nat,
           dataset' \in [DataIds -> {"fresh", "stale"}], refreshJobs' \in [DataIds -> {"none", "due", "run"}],
           sweepFaults' \in 0..MaxSweepFaults
    PROVE  SuperInv'
<1>1. sweep' \in [Sweepers -> Sweeps] /\ \A q \in Sweepers : sweep'[q] = IF q = p THEN s ELSE sweep[q]
  BY DEF Moves, SuperInv, SuperTyped
<1>2. SuperTyped'
  BY <1>1 DEF SuperTyped
<1>3. ASSUME NEW q \in Sweepers PROVE SweepSound(sweep[q])'
  <2>1. CASE q = p
    <3>1. sweep'[q] = s
      BY <1>1, <2>1
    <3> QED
      BY <3>1
  <2>2. CASE q # p
    <3>1. PICK t : t = sweep[q]
      OBVIOUS
    <3>2. sweep'[q] = t
      BY <1>1, <2>2, <3>1
    <3>3. SweepSound(t)
      BY <3>1 DEF SuperInv
    <3>4. SweepSound(t)'
      BY <3>3, SoundStays DEF SuperInv
    <3> QED
      BY <3>2, <3>4
  <2> QED
    BY <2>1, <2>2
<1> QED
  BY <1>2, <1>3 DEF SuperInv

\* A step beside the sweeps.
LEMMA BesideTheSweeps ==
    ASSUME SuperInv, UNCHANGED sweep, HistoryGrows, FlagsStay,
           FindingsRight', history' \in [Swept -> Seq(Scores)],
           \A a \in Swept : Len(history'[a]) \in Nat,
           dataset' \in [DataIds -> {"fresh", "stale"}], refreshJobs' \in [DataIds -> {"none", "due", "run"}],
           sweepFaults' \in 0..MaxSweepFaults
    PROVE  SuperInv'
<1>1. SuperTyped'
  BY DEF SuperTyped, SuperInv
<1>2. ASSUME NEW q \in Sweepers PROVE SweepSound(sweep[q])'
  <2>1. PICK t : t = sweep[q]
    OBVIOUS
  <2>2. SweepSound(t)'
    BY <2>1, SoundStays DEF SuperInv
  <2> QED
    BY <2>1, <2>2
<1> QED
  BY <1>1, <1>2 DEF SuperInv

-----------------------------------------------------------------------------
(* _record. *)

\* The findings after a record: those kept, and the new one.
LEMMA RecordIs ==
    ASSUME NEW kind, NEW about, NEW pair, NEW queued, Record(kind, about, pair, queued)
    PROVE  \E id \in 1..MaxFindings :
              /\ id \notin DOMAIN findings
              /\ findings'[id] = [kind |-> kind, about |-> about, pair |-> pair, queued |-> queued, open |-> TRUE]
              /\ DOMAIN findings' = {j \in DOMAIN findings : ~SameOpen(findings[j], kind, about)} \cup {id}
              /\ \A j \in DOMAIN findings : ~SameOpen(findings[j], kind, about) => findings'[j] = findings[j]
<1> DEFINE id == CHOOSE i \in FreeIds : TRUE
<1>1. id \in FreeIds
  BY DEF Record
<1>2. id \in 1..MaxFindings /\ id \notin DOMAIN findings
  BY <1>1 DEF FreeIds
<1> DEFINE kept == {j \in DOMAIN findings : ~SameOpen(findings[j], kind, about)}
           new == [kind |-> kind, about |-> about, pair |-> pair, queued |-> queued, open |-> TRUE]
<1>3. DOMAIN Without(kind, about) = kept /\ \A j \in kept : Without(kind, about)[j] = findings[j]
  BY DEF Without
<1>4. findings' = [i \in DOMAIN Without(kind, about) \cup {id} |-> IF i = id THEN new ELSE Without(kind, about)[i]]
  BY DEF Record
<1> HIDE DEF id, new
<1>5. DOMAIN findings' = kept \cup {id} /\ findings'[id] = new
      /\ \A j \in kept : j # id => findings'[j] = findings[j]
  BY <1>3, <1>4
<1>6. \A j \in DOMAIN findings : ~SameOpen(findings[j], kind, about) => findings'[j] = findings[j]
  BY <1>2, <1>5
<1> QED
  BY <1>2, <1>5, <1>6 DEF new

FindingKinds == {"regime_shift", "became_inconclusive", "score_improved", "score_degraded", "data_stale", "data_unassessable"}

\* A finding that is right may be recorded: it takes the place of the open one.
LEMMA RecordKeeps ==
    ASSUME SuperTyped, FindingsRight, UNCHANGED history,
           NEW kind \in FindingKinds, NEW about \in Swept \cup DataIds \cup {Market},
           NEW pair \in Seq(Scores), NEW queued \in BOOLEAN, Record(kind, about, pair, queued),
           about \in Swept => Drift(pair) = kind /\ InHistory(about, pair)
    PROVE  FindingsRight' /\ FlagsStay /\ Flagged(about, kind)'
<1> DEFINE new == [kind |-> kind, about |-> about, pair |-> pair, queued |-> queued, open |-> TRUE]
<1>1. PICK id \in 1..MaxFindings :
              /\ id \notin DOMAIN findings
              /\ findings'[id] = new
              /\ DOMAIN findings' = {j \in DOMAIN findings : ~SameOpen(findings[j], kind, about)} \cup {id}
              /\ \A j \in DOMAIN findings : ~SameOpen(findings[j], kind, about) => findings'[j] = findings[j]
  BY RecordIs
<1>2. /\ new \in Findings
      /\ new.kind = kind /\ new.about = about /\ new.pair = pair /\ new.open
  BY DEF Findings, FindingKinds
<1> HIDE DEF new
<1>3. \A j \in DOMAIN findings' : \/ j = id
                                  \/ j \in DOMAIN findings /\ findings'[j] = findings[j] /\ ~SameOpen(findings'[j], kind, about)
  BY <1>1
<1>4. \A i \in DOMAIN findings' : i \in 1..MaxFindings /\ findings'[i] \in Findings
  BY <1>1, <1>2, <1>3 DEF FindingsRight
<1>5. ASSUME NEW i \in DOMAIN findings', NEW j \in DOMAIN findings', findings'[i].open,
             SameOpen(findings'[j], findings'[i].kind, findings'[i].about)
      PROVE  i = j
  <2>1. CASE i = id
    <3>1. SameOpen(findings'[j], kind, about)
      BY <1>1, <1>2, <1>5, <2>1
    <3> QED
      BY <1>3, <2>1, <3>1
  <2>2. CASE i # id /\ j = id
    <3>1. findings'[i].kind = kind /\ findings'[i].about = about
      BY <1>1, <1>2, <1>5, <2>2 DEF SameOpen
    <3>2. SameOpen(findings'[i], kind, about)
      BY <1>5, <3>1 DEF SameOpen
    <3> QED
      BY <1>3, <2>2, <3>2
  <2>3. CASE i # id /\ j # id
    <3>1. i \in DOMAIN findings /\ j \in DOMAIN findings /\ findings'[i] = findings[i] /\ findings'[j] = findings[j]
      BY <1>3, <2>3
    <3> QED
      BY <1>5, <3>1 DEF FindingsRight
  <2> QED
    BY <2>1, <2>2, <2>3
<1>6. \A i \in DOMAIN findings' : findings'[i].about \in Swept =>
          Drift(findings'[i].pair) = findings'[i].kind /\ InHistory(findings'[i].about, findings'[i].pair)
  BY <1>1, <1>2, <1>3 DEF FindingsRight
<1>7. FindingsRight'
  <2>1. \A i \in DOMAIN findings' : findings'[i].about \in Swept =>
          Drift(findings'[i].pair) = findings'[i].kind
          /\ \E n \in 2..Len(history'[findings'[i].about]) :
                 findings'[i].pair = <<history'[findings'[i].about][n - 1], history'[findings'[i].about][n]>>
    BY <1>6 DEF InHistory
  <2> QED
    BY <1>4, <1>5, <2>1 DEF FindingsRight, InHistory, SameOpen
<1>8. \E i \in DOMAIN findings' : findings'[i].about = about /\ findings'[i].kind = kind
  BY <1>1, <1>2
<1>9. ASSUME NEW a \in Swept, NEW k, Flagged(a, k) PROVE Flagged(a, k)'
  <2>1. PICK i \in DOMAIN findings : findings[i].about = a /\ findings[i].kind = k
    BY <1>9 DEF Flagged
  <2>2. CASE SameOpen(findings[i], kind, about)
    BY <1>8, <2>1, <2>2 DEF SameOpen, Flagged
  <2>3. CASE ~SameOpen(findings[i], kind, about)
    <3>1. i \in DOMAIN findings' /\ findings'[i] = findings[i]
      BY <1>1, <2>3
    <3> QED
      BY <2>1, <3>1 DEF Flagged
  <2> QED
    BY <2>2, <2>3
<1> QED
  BY <1>7, <1>8, <1>9 DEF FlagsStay, Flagged

\* Drift of a pair that is there.
LEMMA DriftOfTwo ==
    ASSUME SuperTyped, NEW a \in Swept, NEW pair, pair = NoPair \/ InHistory(a, pair), Drift(pair) # "none"
    PROVE  InHistory(a, pair) /\ pair \in Seq(Scores) /\ Drift(pair) \in FindingKinds
<1>1. InHistory(a, pair)
  BY NoDrift
<1>2. PICK n \in 2..Len(history[a]) : pair = <<history[a][n - 1], history[a][n]>>
  BY <1>1 DEF InHistory
<1>3. history[a] \in Seq(Scores) /\ Len(history[a]) \in Nat
  BY LenProperties DEF SuperTyped
<1>4. n \in 1..Len(history[a]) /\ n - 1 \in 1..Len(history[a])
  BY <1>3
<1>5. history[a][n - 1] \in Scores /\ history[a][n] \in Scores
  BY <1>3, <1>4, ElementOfSeq
<1>6. pair \in Seq(Scores)
  BY <1>2, <1>5
<1> QED
  BY <1>1, <1>6, DriftKinds DEF FindingKinds

-----------------------------------------------------------------------------
(* A sweep. *)

\* The parts of a sweep under way.
LEMMA SweepParts ==
    ASSUME SuperInv, NEW p \in Sweepers
    PROVE  /\ sweep[p] \in Sweeps /\ SweepSound(sweep[p])
           /\ sweep[p].pc \in SweepPcs /\ sweep[p].todo \in Seq(Swept \cup DataIds)
           /\ sweep[p].rows \in [Swept -> Seq(Scores)] /\ sweep[p].queued \in BOOLEAN
BY DEF SuperInv, SuperTyped, Sweeps

\* Sequences of fewer names.
LEMMA FewerNames == Seq(Swept) \subseteq Seq(Swept \cup DataIds) /\ Seq(DataIds) \subseteq Seq(Swept \cup DataIds)
<1>1. \A S, T : S \subseteq T => Seq(S) \subseteq Seq(T)
  BY SeqDef
<1> QED
  BY <1>1

\* The fields of a sweep that is not under way.
LEMMA NoSweepSound ==
    /\ NoSweep \in Sweeps /\ NoSweep.pc = "idle" /\ NoSweep.todo = <<>>
    /\ NoSweep.rows = [a \in Swept |-> NoPair] /\ NoSweep.queued = FALSE
BY NoneLeft DEF NoSweep, Sweeps, SweepPcs, NoPair

\* A sweep starts.
LEMMA StartSweepKeeps == ASSUME SuperInv, NEW p \in Sweepers, StartSweep(p) PROVE SuperInv'
<1> DEFINE s == [NoSweep EXCEPT !.pc = "regime"]
<1>1. s \in Sweeps /\ s.pc = "regime" /\ \A a \in Swept : s.rows[a] = NoPair
  BY NoSweepSound DEF Sweeps, SweepPcs
<1>2. Moves(p, s) /\ UNCHANGED <<history, findings, dataset, refreshJobs, sweepFaults>>
  BY DEF StartSweep
<1> HIDE DEF s
<1>3. SweepSound(s)'
  BY <1>1 DEF SweepSound, QueueFits, RowsRead, PassedFlagged, Through
<1> QED
  BY <1>1, <1>2, <1>3, HistorySame, FindingsSame, SweepMoves DEF SuperInv, SuperTyped

\* A sweep ends, or raises.
LEMMA EndSweepKeeps ==
    ASSUME SuperInv, NEW p \in Sweepers, Moves(p, NoSweep), UNCHANGED <<history, findings, dataset, refreshJobs>>,
           sweepFaults' \in 0..MaxSweepFaults
    PROVE  SuperInv'
<1>1. SweepSound(NoSweep)'
  BY NoSweepSound DEF SweepSound, QueueFits, RowsRead, PassedFlagged, Through
<1> QED
  BY <1>1, NoSweepSound, HistorySame, FindingsSame, SweepMoves DEF SuperInv, SuperTyped

\* The regime is checked, and a shift recorded or not.
LEMMA CheckRegimeKeeps == ASSUME SuperInv, NEW p \in Sweepers, CheckRegime(p) PROVE SuperInv'
<1> DEFINE next == [sweep[p] EXCEPT !.pc = "run", !.todo = SweptAgents]
<1>a. next \in Sweeps /\ next.pc = "run" /\ next.todo = SweptAgents /\ next.rows = sweep[p].rows
  BY SweepParts, Names, FewerNames DEF Sweeps, SweepPcs
<1>1. PICK s \in Sweeps : s = next /\ s.pc = "run" /\ s.todo = SweptAgents /\ s.rows = sweep[p].rows
  <2> HIDE DEF next
  <2> QED
    BY <1>a
<1>2. Moves(p, s) /\ UNCHANGED <<history, dataset, refreshJobs, sweepFaults>>
      /\ (UNCHANGED findings \/ Record("regime_shift", Market, NoPair, FALSE))
  BY <1>1 DEF CheckRegime
<1> HIDE DEF next
<1>3. SweepSound(s)'
  <2>1. RowsRead(s)
    BY <1>1, SweepParts DEF SweepSound, RowsRead
  <2>2. RowsRead(s)'
    BY <1>2, <2>1 DEF RowsRead, InHistory
  <2> QED
    BY <1>1, <2>2, Names DEF SweepSound, QueueFits, PassedFlagged, Through
<1>4. FindingsRight' /\ FlagsStay
  <2>1. CASE UNCHANGED findings
    BY <1>2, <2>1, HistorySame, FindingsSame DEF SuperInv
  <2>2. CASE Record("regime_shift", Market, NoPair, FALSE)
    <3>1. NoPair \in Seq(Scores) /\ Market \notin Swept /\ "regime_shift" \in FindingKinds
      BY NoneLeft, Names DEF NoPair, FindingKinds
    <3> QED
      BY <1>2, <2>2, <3>1, RecordKeeps DEF SuperInv
  <2> QED
    BY <1>2, <2>1, <2>2
<1> QED
  BY <1>1, <1>2, <1>3, <1>4, HistorySame, SweepMoves DEF SuperInv, SuperTyped

\* An agent is run and scored, or its run raises.
LEMMA RunAgentKeeps == ASSUME SuperInv, NEW p \in Sweepers, RunAgent(p) PROVE SuperInv'
<1> DEFINE next == [sweep[p] EXCEPT !.todo = Tail(@)]
<1>1. sweep[p].pc = "run" /\ sweep[p].todo # <<>> /\ sweep[p].todo \in Seq(Swept)
  BY SweepParts DEF RunAgent, SweepAt, SweepSound, QueueFits
<1>2. Tail(sweep[p].todo) \in Seq(Swept) /\ Head(sweep[p].todo) \in Swept
  BY <1>1, TailNames
<1>a. next \in Sweeps /\ next.pc = "run" /\ next.todo = Tail(sweep[p].todo) /\ next.rows = sweep[p].rows
  BY <1>1, <1>2, SweepParts, FewerNames DEF Sweeps
<1>3. PICK s \in Sweeps : s = next /\ s.pc = "run" /\ s.todo = Tail(sweep[p].todo) /\ s.rows = sweep[p].rows
  <2> HIDE DEF next
  <2> QED
    BY <1>a
<1>4. Moves(p, s) /\ UNCHANGED <<findings, dataset, refreshJobs, sweepFaults>>
  BY <1>3 DEF RunAgent, Done1
<1> HIDE DEF next
<1>5. HistoryGrows /\ (\A a \in Swept : Len(history'[a]) \in Nat) /\ history' \in [Swept -> Seq(Scores)]
  <2>1. CASE UNCHANGED history
    BY <2>1, HistorySame DEF SuperInv
  <2>2. CASE \E v \in Scores : history' = [history EXCEPT ![Next1(p)] = Append(@, v)]
    BY <1>2, <2>2, ScoreAdded DEF SuperInv, Next1
  <2> QED
    BY <2>1, <2>2 DEF RunAgent
<1>6. SweepSound(s)'
  <2>1. SweepSound(s)
    BY <1>2, <1>3, SweepParts DEF SweepSound, QueueFits, RowsRead, PassedFlagged, Through
  <2> QED
    BY <1>4, <1>5, <2>1, SoundStays, FindingsSame DEF SuperInv
<1> QED
  BY <1>3, <1>4, <1>5, <1>6, FindingsSame, SweepMoves DEF SuperInv, SuperTyped

\* The two latest scores of every agent are read.
LEMMA ReadScoresKeeps == ASSUME SuperInv, NEW p \in Sweepers, ReadScores(p) PROVE SuperInv'
<1> DEFINE rows == [a \in Swept |-> LatestPair(history[a])]
<1> DEFINE next == [sweep[p] EXCEPT !.pc = "drift", !.todo = SweptAgents, !.rows = rows]
<1>1. \A a \in Swept : rows[a] \in Seq(Scores) /\ (rows[a] = NoPair \/ InHistory(a, rows[a]))
  <2> SUFFICES ASSUME NEW a \in Swept PROVE rows[a] \in Seq(Scores) /\ (rows[a] = NoPair \/ InHistory(a, rows[a]))
    OBVIOUS
  <2>1. history[a] \in Seq(Scores) /\ Len(history[a]) \in Nat
    BY LenProperties DEF SuperInv, SuperTyped
  <2>4. \A x, y \in Scores : <<x, y>> \in Seq(Scores)
    OBVIOUS
  <2>2. CASE Len(history[a]) < 2
    <3>1. rows[a] = NoPair
      BY <2>2 DEF LatestPair
    <3> QED
      BY <3>1, NoneLeft DEF NoPair
  <2>3. CASE ~(Len(history[a]) < 2)
    <3>1. rows[a] = <<history[a][Len(history[a]) - 1], history[a][Len(history[a])]>>
      BY <2>3 DEF LatestPair
    <3>2. /\ Len(history[a]) \in 2..Len(history[a]) /\ Len(history[a]) \in 1..Len(history[a])
          /\ Len(history[a]) - 1 \in 1..Len(history[a])
      BY <2>1, <2>3
    <3>3. history[a][Len(history[a]) - 1] \in Scores /\ history[a][Len(history[a])] \in Scores
      BY <2>1, <3>2, ElementOfSeq
    <3>4. rows[a] \in Seq(Scores)
      BY <2>4, <3>1, <3>3
    <3> QED
      BY <3>1, <3>2, <3>4 DEF InHistory
  <2> QED
    BY <2>2, <2>3
<1>2. rows \in [Swept -> Seq(Scores)]
  BY <1>1
<1>3. Moves(p, next) /\ UNCHANGED <<history, findings, dataset, refreshJobs, sweepFaults>>
  BY DEF ReadScores
<1> HIDE DEF rows
<1>a. next \in Sweeps /\ next.pc = "drift" /\ next.todo = SweptAgents /\ next.rows = rows
  BY <1>2, SweepParts, Names, FewerNames DEF Sweeps, SweepPcs
<1>4. PICK s \in Sweeps : s = next /\ s.pc = "drift" /\ s.todo = SweptAgents /\ s.rows = rows
  <2> HIDE DEF next
  <2> QED
    BY <1>a
<1>6. Moves(p, s)
  BY <1>3, <1>4
<1> HIDE DEF next
<1>5. SweepSound(s)'
  <2>1. RowsRead(s)'
    BY <1>1, <1>3, <1>4 DEF RowsRead, InHistory
  <2>2. \A a \in Swept : ~Through(s, a)
    BY <1>4 DEF Through, Swept
  <2> QED
    BY <1>4, <2>1, <2>2, Names DEF SweepSound, QueueFits, PassedFlagged, Through
<1> QED
  BY <1>3, <1>5, <1>6, HistorySame, FindingsSame, SweepMoves DEF SuperInv, SuperTyped

\* One agent is flagged, if the scores that were read say so.
LEMMA FlagDriftKeeps == ASSUME SuperInv, NEW p \in Sweepers, FlagDrift(p) PROVE SuperInv'
<1> DEFINE next == [sweep[p] EXCEPT !.todo = Tail(@)]
<1>1. sweep[p].pc = "drift" /\ sweep[p].todo # <<>> /\ sweep[p].todo \in Seq(Swept)
  BY SweepParts DEF FlagDrift, SweepAt, SweepSound, QueueFits
<1>9. PICK b \in Swept : b = Head(sweep[p].todo)
  BY <1>1, TailNames
<1>2. PICK pair : b = Head(sweep[p].todo) /\ pair = sweep[p].rows[b]
  BY <1>9
<1>3. Tail(sweep[p].todo) \in Seq(Swept) /\ ToSet(sweep[p].todo) \subseteq ToSet(Tail(sweep[p].todo)) \cup {b}
  BY <1>1, <1>2, TailNames
<1>a. next \in Sweeps /\ next.pc = "drift" /\ next.todo = Tail(sweep[p].todo) /\ next.rows = sweep[p].rows
  BY <1>1, <1>3, SweepParts, FewerNames DEF Sweeps
<1>4. PICK s \in Sweeps : s = next /\ s.pc = "drift" /\ s.todo = Tail(sweep[p].todo) /\ s.rows = sweep[p].rows
  <2> HIDE DEF next
  <2> QED
    BY <1>a
<1>5. /\ Moves(p, s) /\ UNCHANGED <<history, dataset, refreshJobs, sweepFaults>>
      /\ IF Drift(pair) = "none" THEN UNCHANGED findings ELSE Record(Drift(pair), b, pair, FALSE)
  BY <1>2, <1>4 DEF FlagDrift, Done1, Next1
<1> HIDE DEF next
<1>6. pair = NoPair \/ InHistory(b, pair)
  BY <1>2, SweepParts DEF SweepSound, RowsRead
<1>7. FindingsRight' /\ FlagsStay /\ (Drift(pair) # "none" => Flagged(b, Drift(pair))')
  <2>1. CASE Drift(pair) = "none"
    BY <1>5, <2>1, HistorySame, FindingsSame DEF SuperInv
  <2>2. CASE Drift(pair) # "none"
    <3>1. InHistory(b, pair) /\ pair \in Seq(Scores) /\ Drift(pair) \in FindingKinds
      BY <1>6, <2>2, DriftOfTwo DEF SuperInv
    <3>2. PICK kind \in FindingKinds : kind = Drift(pair)
      BY <3>1
    <3>3. Record(kind, b, pair, FALSE)
      BY <1>5, <2>2, <3>2
    <3>4. FindingsRight' /\ FlagsStay /\ Flagged(b, kind)'
      BY <1>5, <3>1, <3>2, <3>3, RecordKeeps DEF SuperInv
    <3> QED
      BY <3>2, <3>4
  <2> QED
    BY <2>1, <2>2
<1>8. SweepSound(s)'
  <2>1. QueueFits(s)' /\ RowsRead(s)'
    <3>1. RowsRead(s)
      BY <1>4, SweepParts DEF SweepSound, RowsRead
    <3> QED
      BY <1>3, <1>4, <1>5, <3>1 DEF QueueFits, RowsRead, InHistory
  <2>2. ASSUME NEW a \in Swept, Through(s, a), Drift(s.rows[a]) # "none" PROVE Flagged(a, Drift(s.rows[a]))'
    <3>1. CASE a = b
      BY <1>2, <1>4, <1>7, <2>2, <3>1
    <3>2. CASE a # b
      <4>1. PICK kind : kind = Drift(s.rows[a])
        OBVIOUS
      <4>2. a \notin ToSet(sweep[p].todo)
        BY <1>3, <1>4, <2>2, <3>2 DEF Through
      <4>3. Flagged(a, kind)
        BY <1>1, <1>4, <2>2, <4>1, <4>2, SweepParts DEF SweepSound, PassedFlagged, Through
      <4>4. Flagged(a, kind)'
        BY <1>7, <4>3 DEF FlagsStay
      <4> QED
        BY <4>1, <4>4
    <3> QED
      BY <3>1, <3>2
  <2>3. PassedFlagged(s)'
    BY <2>2 DEF PassedFlagged, Through
  <2> QED
    BY <2>1, <2>3 DEF SweepSound
<1> QED
  BY <1>4, <1>5, <1>7, <1>8, HistorySame, SweepMoves DEF SuperInv, SuperTyped

\* A step that leaves the agents behind: the flags for them are there.
LEMMA AfterTheAgents ==
    ASSUME SuperInv, NEW p \in Sweepers, NEW s \in Sweeps, Moves(p, s), UNCHANGED <<history, dataset, sweepFaults>>,
           refreshJobs' \in [DataIds -> {"none", "due", "run"}], FindingsRight', FlagsStay,
           s.rows = sweep[p].rows, s.pc \in {"assess", "register", "stale"}, QueueFits(s),
           \A a \in Swept : Through(sweep[p], a)
    PROVE  SuperInv'
<1>1. SweepSound(s)
  <2>1. RowsRead(s)
    BY SweepParts DEF SweepSound, RowsRead
  <2>2. PassedFlagged(s)
    BY SweepParts DEF SweepSound, PassedFlagged
  <2> QED
    BY <2>1, <2>2 DEF SweepSound
<1>2. SweepSound(s)'
  BY <1>1, HistorySame, SoundStays DEF SuperInv
<1> QED
  BY <1>2, HistorySame, SweepMoves DEF SuperInv, SuperTyped

\* The datasets are read.
LEMMA ReadCatalogKeeps == ASSUME SuperInv, NEW p \in Sweepers, ReadCatalog(p) PROVE SuperInv'
<1> DEFINE s == [sweep[p] EXCEPT !.pc = "assess", !.todo = Datasets]
<1>1. s \in Sweeps /\ s.pc = "assess" /\ s.todo = Datasets /\ s.rows = sweep[p].rows
  BY SweepParts, Names, FewerNames DEF Sweeps, SweepPcs
<1>2. Moves(p, s) /\ UNCHANGED <<history, findings, dataset, refreshJobs, sweepFaults>>
  BY DEF ReadCatalog
<1>3. \A a \in Swept : Through(sweep[p], a)
  BY NothingNamed DEF ReadCatalog, SweepAt, Through
<1> HIDE DEF s
<1>4. QueueFits(s)
  BY <1>1, Names DEF QueueFits
<1> QED
  BY <1>1, <1>2, <1>3, <1>4, HistorySame, FindingsSame, AfterTheAgents DEF SuperInv, SuperTyped

\* The dataset that is done, and what is left.
LEMMA DatasetDone ==
    ASSUME SuperInv, NEW p \in Sweepers, sweep[p].todo # <<>>, sweep[p].pc \in {"assess", "register", "stale"}
    PROVE  /\ sweep[p].todo \in Seq(DataIds) /\ Tail(sweep[p].todo) \in Seq(DataIds) /\ Next1(p) \in DataIds
           /\ \A a \in Swept : Through(sweep[p], a)
<1>1. sweep[p].todo \in Seq(DataIds)
  BY SweepParts DEF SweepSound, QueueFits
<1> QED
  BY <1>1, TailNames DEF Next1, Through

\* A dataset is assessed, or cannot be.
LEMMA AssessDataKeeps == ASSUME SuperInv, NEW p \in Sweepers, AssessData(p) PROVE SuperInv'
<1> DEFINE done == [sweep[p] EXCEPT !.todo = Tail(@)]
           stale == [sweep[p] EXCEPT !.pc = "register"]
<1>1. sweep[p].pc = "assess" /\ sweep[p].todo # <<>> /\ UNCHANGED <<history, dataset, refreshJobs, sweepFaults>>
  BY DEF AssessData, SweepAt
<1>2. /\ sweep[p].todo \in Seq(DataIds) /\ Tail(sweep[p].todo) \in Seq(DataIds) /\ Next1(p) \in DataIds
      /\ \A a \in Swept : Through(sweep[p], a)
  BY <1>1, DatasetDone
<1>3. done \in Sweeps /\ done.pc = "assess" /\ done.todo = Tail(sweep[p].todo) /\ done.rows = sweep[p].rows
  BY <1>1, <1>2, SweepParts, FewerNames DEF Sweeps
<1>4. stale \in Sweeps /\ stale.pc = "register" /\ stale.todo = sweep[p].todo /\ stale.rows = sweep[p].rows
  BY <1>1, <1>2, SweepParts, FewerNames DEF Sweeps, SweepPcs
<1>5. \/ (Moves(p, done) \/ Moves(p, stale)) /\ UNCHANGED findings
      \/ Record("data_unassessable", Next1(p), NoPair, FALSE) /\ Moves(p, done)
  BY DEF AssessData, Done1
<1> HIDE DEF done, stale
<1>6. QueueFits(done) /\ QueueFits(stale)
  BY <1>1, <1>2, <1>3, <1>4 DEF QueueFits
<1>7. FindingsRight' /\ FlagsStay
  <2>1. CASE UNCHANGED findings
    BY <1>1, <2>1, HistorySame, FindingsSame DEF SuperInv
  <2>2. CASE Record("data_unassessable", Next1(p), NoPair, FALSE)
    <3>1. NoPair \in Seq(Scores) /\ Next1(p) \notin Swept /\ "data_unassessable" \in FindingKinds
      BY <1>2, NoneLeft, Names DEF NoPair, FindingKinds
    <3>2. PICK d \in DataIds : d = Next1(p)
      BY <1>2
    <3> QED
      BY <1>1, <2>2, <3>1, <3>2, RecordKeeps DEF SuperInv
  <2> QED
    BY <1>5, <2>1, <2>2
<1> QED
  BY <1>1, <1>2, <1>3, <1>4, <1>5, <1>6, <1>7, AfterTheAgents DEF SuperInv, SuperTyped

\* A refresh is registered, or that raises.
LEMMA EnqueueRefreshKeeps == ASSUME SuperInv, NEW p \in Sweepers, EnqueueRefresh(p) PROVE SuperInv'
<1> SUFFICES ASSUME NEW yes \in BOOLEAN,
                    Moves(p, [sweep[p] EXCEPT !.pc = "stale", !.queued = yes])
             PROVE  SuperInv'
  BY DEF EnqueueRefresh
<1> DEFINE s == [sweep[p] EXCEPT !.pc = "stale", !.queued = yes]
<1>1. sweep[p].pc = "register" /\ sweep[p].todo # <<>> /\ UNCHANGED <<history, findings, dataset, sweepFaults>>
  BY SweepParts DEF EnqueueRefresh, SweepAt, SweepSound, QueueFits
<1>2. /\ sweep[p].todo \in Seq(DataIds) /\ Next1(p) \in DataIds /\ \A a \in Swept : Through(sweep[p], a)
  BY <1>1, DatasetDone
<1>3. s \in Sweeps /\ s.pc = "stale" /\ s.todo = sweep[p].todo /\ s.rows = sweep[p].rows
  BY <1>1, <1>2, SweepParts, FewerNames DEF Sweeps, SweepPcs
<1>4. refreshJobs' \in [DataIds -> {"none", "due", "run"}]
  BY <1>2 DEF EnqueueRefresh, SuperInv, SuperTyped
<1> HIDE DEF s
<1>5. QueueFits(s)
  BY <1>1, <1>2, <1>3 DEF QueueFits
<1> QED
  BY <1>1, <1>2, <1>3, <1>4, <1>5, HistorySame, FindingsSame, AfterTheAgents DEF SuperInv, SuperTyped, s

\* A dataset is flagged as stale.
LEMMA FlagStaleKeeps == ASSUME SuperInv, NEW p \in Sweepers, FlagStale(p) PROVE SuperInv'
<1> DEFINE done == [sweep[p] EXCEPT !.todo = Tail(@)]
           s == [done EXCEPT !.pc = "assess"]
<1>1. sweep[p].pc = "stale" /\ sweep[p].todo # <<>> /\ UNCHANGED <<history, dataset, refreshJobs, sweepFaults>>
  BY SweepParts DEF FlagStale, SweepAt, SweepSound, QueueFits
<1>2. /\ sweep[p].todo \in Seq(DataIds) /\ Tail(sweep[p].todo) \in Seq(DataIds) /\ Next1(p) \in DataIds
      /\ \A a \in Swept : Through(sweep[p], a)
  BY <1>1, DatasetDone
<1>3. done \in Sweeps /\ done.todo = Tail(sweep[p].todo) /\ done.rows = sweep[p].rows
  BY <1>1, <1>2, SweepParts, FewerNames DEF Sweeps
<1>4. Moves(p, s) /\ Record("data_stale", Next1(p), NoPair, sweep[p].queued)
  BY DEF FlagStale, Done1
<1> HIDE DEF done
<1>5. s \in Sweeps /\ s.pc = "assess" /\ s.todo = Tail(sweep[p].todo) /\ s.rows = sweep[p].rows
  BY <1>3 DEF Sweeps, SweepPcs
<1> HIDE DEF s
<1>6. QueueFits(s)
  BY <1>2, <1>5 DEF QueueFits
<1>7. FindingsRight' /\ FlagsStay
  <2>1. NoPair \in Seq(Scores) /\ Next1(p) \notin Swept /\ "data_stale" \in FindingKinds
    BY <1>2, NoneLeft, Names DEF NoPair, FindingKinds
  <2>2. PICK d \in DataIds, q \in BOOLEAN : d = Next1(p) /\ q = sweep[p].queued
    BY <1>2, SweepParts
  <2> QED
    BY <1>1, <1>4, <2>1, <2>2, RecordKeeps DEF SuperInv
<1> QED
  BY <1>1, <1>2, <1>4, <1>5, <1>6, <1>7, AfterTheAgents DEF SuperInv, SuperTyped

-----------------------------------------------------------------------------
(* Around the sweeps. *)

\* A finding is acknowledged: it is no longer the open one of its kind.
LEMMA AcknowledgeKeeps ==
    ASSUME SuperInv, NEW n \in DOMAIN findings, AcknowledgeFinding(n) PROVE SuperInv'
<1> DEFINE shut == [findings[n] EXCEPT !.open = FALSE]
<1>1. findings' = [findings EXCEPT ![n] = shut] /\ UNCHANGED <<history, sweep, dataset, refreshJobs, sweepFaults>>
  BY DEF AcknowledgeFinding
<1>2. /\ shut \in Findings /\ shut.open = FALSE
      /\ shut.kind = findings[n].kind /\ shut.about = findings[n].about /\ shut.pair = findings[n].pair
  BY DEF Findings, SuperInv, FindingsRight
<1> HIDE DEF shut
<1>3. DOMAIN findings' = DOMAIN findings /\ \A i \in DOMAIN findings : findings'[i] = IF i = n THEN shut ELSE findings[i]
  BY <1>1
<1>4. \A i \in DOMAIN findings :
          /\ findings'[i].about = findings[i].about /\ findings'[i].kind = findings[i].kind
          /\ findings'[i].pair = findings[i].pair /\ (findings'[i].open => findings[i].open /\ i # n)
  BY <1>2, <1>3
<1>5. FlagsStay
  BY <1>3, <1>4 DEF FlagsStay, Flagged
<1>6. FindingsRight'
  <2>1. \A i \in DOMAIN findings' : i \in 1..MaxFindings /\ findings'[i] \in Findings
    BY <1>2, <1>3 DEF SuperInv, FindingsRight
  <2>2. ASSUME NEW i \in DOMAIN findings', NEW j \in DOMAIN findings', findings'[i].open,
               findings'[j].open, findings'[j].kind = findings'[i].kind, findings'[j].about = findings'[i].about
        PROVE  i = j
    <3>1. findings[i].open /\ SameOpen(findings[j], findings[i].kind, findings[i].about)
      BY <1>3, <1>4, <2>2 DEF SameOpen
    <3> QED
      BY <1>3, <3>1 DEF SuperInv, FindingsRight
  <2>3. \A i \in DOMAIN findings' : findings'[i].about \in Swept =>
          Drift(findings'[i].pair) = findings'[i].kind
          /\ \E k \in 2..Len(history'[findings'[i].about]) :
                 findings'[i].pair = <<history'[findings'[i].about][k - 1], history'[findings'[i].about][k]>>
    BY <1>1, <1>3, <1>4 DEF SuperInv, FindingsRight, InHistory
  <2> QED
    BY <2>1, <2>2, <2>3 DEF FindingsRight, InHistory, SameOpen
<1> QED
  BY <1>1, <1>5, <1>6, HistorySame, BesideTheSweeps DEF SuperInv, SuperTyped

\* The process dies, perhaps with an open finding deleted and the new one not written.
LEMMA PlatformDiesKeeps == ASSUME SuperInv, PlatformDies PROVE SuperInv'
<1>1. /\ sweep' = [p \in Sweepers |-> NoSweep] /\ UNCHANGED <<history, dataset, refreshJobs>>
      /\ sweepFaults' \in 0..MaxSweepFaults
  BY SuperAssumption DEF PlatformDies, SuperInv, SuperTyped
<1>2. \A i \in DOMAIN findings' : i \in DOMAIN findings /\ findings'[i] = findings[i]
  <2>1. \A kind, about : \A i \in DOMAIN Without(kind, about) : i \in DOMAIN findings /\ Without(kind, about)[i] = findings[i]
    BY DEF Without
  <2> QED
    BY <2>1 DEF PlatformDies
<1>3. FindingsRight'
  <2>1. \A i \in DOMAIN findings' : findings'[i].about \in Swept =>
          Drift(findings'[i].pair) = findings'[i].kind
          /\ \E k \in 2..Len(history'[findings'[i].about]) :
                 findings'[i].pair = <<history'[findings'[i].about][k - 1], history'[findings'[i].about][k]>>
    BY <1>1, <1>2 DEF SuperInv, FindingsRight, InHistory
  <2> QED
    BY <1>2, <2>1 DEF SuperInv, FindingsRight, InHistory, SameOpen
<1>4. SuperTyped'
  BY <1>1, NoSweepSound DEF SuperInv, SuperTyped
<1>5. \A p \in Sweepers : SweepSound(sweep[p])'
  <2>1. SweepSound(NoSweep)'
    BY NoSweepSound DEF SweepSound, QueueFits, RowsRead, PassedFlagged, Through
  <2>2. \A p \in Sweepers : sweep'[p] = NoSweep
    BY <1>1
  <2> QED
    BY <2>1, <2>2
<1> QED
  BY <1>3, <1>4, <1>5 DEF SuperInv

\* The data age, arrive or are refreshed.
LEMMA DataKeeps ==
    ASSUME SuperInv, NEW d \in DataIds,
           DataAges(d) \/ DataArrives(d) \/ RunRefreshJob(d) \/ RefreshJobDue(d)
    PROVE  SuperInv'
<1>1. UNCHANGED <<history, findings, sweep, sweepFaults>>
  BY DEF DataAges, DataArrives, RunRefreshJob, RefreshJobDue
<1>2. dataset' \in [DataIds -> {"fresh", "stale"}] /\ refreshJobs' \in [DataIds -> {"none", "due", "run"}]
  BY DEF DataAges, DataArrives, RunRefreshJob, RefreshJobDue, SuperInv, SuperTyped
<1> QED
  BY <1>1, <1>2, HistorySame, FindingsSame, BesideTheSweeps DEF SuperInv, SuperTyped

\* An agent is run by someone else.
LEMMA RunElsewhereKeeps ==
    ASSUME SuperInv, NEW a \in Swept, NEW v \in Scores, RunElsewhere(a, v) PROVE SuperInv'
<1>1. HistoryGrows /\ (\A b \in Swept : Len(history'[b]) \in Nat) /\ history' \in [Swept -> Seq(Scores)]
  BY ScoreAdded DEF RunElsewhere, SuperInv
<1>2. UNCHANGED <<findings, sweep, dataset, refreshJobs, sweepFaults>>
  BY DEF RunElsewhere
<1> QED
  BY <1>1, <1>2, FindingsSame, BesideTheSweeps DEF SuperInv, SuperTyped

\* Nothing is recorded at the start.
LEMMA SuperStart == SuperInit => SuperInv
<1> SUFFICES ASSUME SuperInit PROVE SuperInv
  OBVIOUS
<1>1. findings = <<>> /\ DOMAIN findings = {}
  BY EmptySeq DEF SuperInit
<1>2. SuperTyped
  BY NoSweepSound, NoneLeft, SuperAssumption DEF SuperInit, SuperTyped
<1>3. FindingsRight
  BY <1>1 DEF FindingsRight
<1>4. \A p \in Sweepers : SweepSound(sweep[p])
  <2>1. SweepSound(NoSweep)
    BY NoSweepSound DEF SweepSound, QueueFits, RowsRead, PassedFlagged, Through
  <2> QED
    BY <2>1 DEF SuperInit
<1> QED
  BY <1>2, <1>3, <1>4 DEF SuperInv

\* Every step of the supervisor keeps the invariant.
LEMMA SuperStep == SuperInv /\ [SuperNext]_superVars => SuperInv'
<1> SUFFICES ASSUME SuperInv, [SuperNext]_superVars PROVE SuperInv'
  OBVIOUS
<1>1. CASE UNCHANGED superVars
  BY <1>1, HistorySame, FindingsSame, BesideTheSweeps DEF superVars, SuperInv, SuperTyped
<1>2. ASSUME NEW p \in Sweepers, StartSweep(p) \/ SweepStep(p) \/ SweepRaises(p) PROVE SuperInv'
  <2>1. CASE SweepRaises(p)
    <3>1. Moves(p, NoSweep) /\ UNCHANGED <<history, findings, dataset, refreshJobs>> /\ sweepFaults' \in 0..MaxSweepFaults
      BY <2>1, SuperAssumption DEF SweepRaises, SuperInv, SuperTyped
    <3> QED
      BY <3>1, EndSweepKeeps
  <2>2. CASE EndSweep(p)
    <3>1. Moves(p, NoSweep) /\ UNCHANGED <<history, findings, dataset, refreshJobs>> /\ sweepFaults' \in 0..MaxSweepFaults
      BY <2>2 DEF EndSweep, SuperInv, SuperTyped
    <3> QED
      BY <3>1, EndSweepKeeps
  <2> QED
    BY <1>2, <2>1, <2>2, StartSweepKeeps, CheckRegimeKeeps, RunAgentKeeps, ReadScoresKeeps, FlagDriftKeeps,
       ReadCatalogKeeps, AssessDataKeeps, EnqueueRefreshKeeps, FlagStaleKeeps DEF SweepStep
<1> QED
  BY <1>1, <1>2, RunElsewhereKeeps, AcknowledgeKeeps, DataKeeps, PlatformDiesKeeps DEF SuperNext

\* The invariant implies the property.
LEMMA InvReliable == SuperInv => FindingsAreReliable
<1> SUFFICES ASSUME SuperInv PROVE FindingsAreReliable
  OBVIOUS
<1>1. SuperTypeOK
  <2>1. \A p \in Sweepers : ToSet(sweep[p].todo) \subseteq Swept \cup DataIds
    <3>1. \A S : \A t \in Seq(S) : ToSet(t) \subseteq S
      BY LenProperties, ElementOfSeq, ToSetIs
    <3> QED
      BY <3>1, SweepParts
  <2>2. \A p \in Sweepers : /\ sweep[p].pc \in SweepPcs
                            /\ sweep[p].rows \in [Swept -> Seq(Scores)]
    BY SweepParts
  <2> QED
    BY <2>1, <2>2 DEF SuperTypeOK, SuperInv, SuperTyped, FindingsRight, SweepPcs
<1>2. FindingsAreSound
  BY DEF FindingsAreSound, SuperInv, FindingsRight, InHistory
<1>3. SweptDriftIsFlagged
  BY DEF SweptDriftIsFlagged, SuperInv, SweepSound, PassedFlagged, Through, Flagged, SweepAt
<1> QED
  BY <1>1, <1>2, <1>3 DEF FindingsAreReliable

\* The supervisor's findings can be relied on, for any number of sweeps and agents:
\* one open finding of a kind per agent, each quoting two scores that followed each
\* other, and a flag for every agent that moved when a sweep is through with them.
THEOREM ReliableFindings == SuperSpec => []FindingsAreReliable
<1>1. SuperSpec => []SuperInv
  BY SuperStart, SuperStep, PTL DEF SuperSpec
<1> QED
  BY <1>1, InvReliable, PTL

-----------------------------------------------------------------------------
(***************************************************************************)
(* Authored strategies: what runs was validated as supported.              *)
(***************************************************************************)
Gaps == SUBSET ({"rules"} \union FeatureSets)
SavedSpecs == [body : Bodies, missing : Gaps, status : Statuses]
EditorRecords == [at : {"idle", "create", "update", "validate", "refresh", "run"}, spec : Specs \union {NoSpec},
                  body : Bodies \union {NoSpec}, missing : Gaps, was : Gaps]

SpecsTyped ==
    /\ specs \in [Specs -> SavedSpecs \union {NoSpec}]
    /\ imported \in SUBSET FeatureSets
    /\ editor \in [Editors -> EditorRecords]
    /\ executed \in SUBSET Bodies

\* What stands behind every request: what it will save or run is a body, and a
\* validation that found nothing missing still holds, for what is imported stays.
ValidationsHold ==
    \A e \in Editors :
        /\ editor[e].at # "idle" => editor[e].body \in Bodies /\ editor[e].spec \in Specs
        /\ editor[e].at \in {"run", "refresh"} /\ editor[e].missing = {} =>
              editor[e].body.supported /\ editor[e].body.needs \subseteq imported

SpecsInv == SpecsTyped /\ ValidationsHold /\ OnlySupportedSpecsRun

-----------------------------------------------------------------------------
\* What a body lacks is a set of gaps.
LEMMA MissingTyped ==
    ASSUME NEW b \in Bodies, SpecsTyped
    PROVE  /\ Missing(b) \in Gaps
           /\ Missing(b) = {} => b.supported /\ b.needs \subseteq imported
BY DEF Missing, Bodies, Gaps, SpecsTyped

\* A saved spec has the status its gaps give it.
LEMMA SavedTyped ==
    ASSUME NEW b \in Bodies, NEW m \in Gaps
    PROVE  Saved(b, m) \in SavedSpecs
BY DEF Saved, SavedSpecs, StatusFor, Statuses

\* A spec that is not there is not a body.
LEMMA NoSpecIsNone == NoSpec \notin Bodies
BY SSAssumption DEF Bodies

\* The fields of a spec that is there.
LEMMA SpecRow ==
    ASSUME SpecsTyped, NEW i \in Specs, specs[i] # NoSpec
    PROVE  specs[i] \in SavedSpecs /\ specs[i].body \in Bodies /\ specs[i].missing \in Gaps
BY DEF SpecsTyped, SavedSpecs

\* The stored specs keep one of the two statuses.
LEMMA RowsKeepStatus ==
    ASSUME SpecsTyped
    PROVE  \A i \in Specs : specs[i] # NoSpec => specs[i].status \in Statuses
BY DEF SpecsTyped, SavedSpecs

\* No spec is saved at the start.
LEMMA SpecsStart == SpecsInit => SpecsInv
<1> SUFFICES ASSUME SpecsInit PROVE SpecsInv
  OBVIOUS
<1>1. AtRest \in EditorRecords /\ AtRest.at = "idle"
  BY DEF AtRest, EditorRecords, Gaps
<1>2. SpecsTyped
  BY <1>1 DEF SpecsInit, SpecsTyped
<1>3. ValidationsHold
  BY <1>1 DEF SpecsInit, ValidationsHold
<1> QED
  BY <1>2, <1>3 DEF SpecsInv, SpecsInit, OnlySupportedSpecsRun

\* One request moves; what the others have read stands.
LEMMA OneEditor ==
    ASSUME SpecsInv, NEW e \in Editors, NEW r \in EditorRecords, editor' = [editor EXCEPT ![e] = r],
           imported' = imported,
           r.at # "idle" => r.body \in Bodies /\ r.spec \in Specs,
           r.at \in {"run", "refresh"} /\ r.missing = {} => r.body.supported /\ r.body.needs \subseteq imported
    PROVE  editor' \in [Editors -> EditorRecords] /\ ValidationsHold'
<1>1. editor' \in [Editors -> EditorRecords]
  BY DEF SpecsInv, SpecsTyped
<1>2. \A o \in Editors : editor'[o] = IF o = e THEN r ELSE editor[o]
  BY DEF SpecsInv, SpecsTyped
<1> QED
  BY <1>1, <1>2 DEF SpecsInv, ValidationsHold

\* A step that executes nothing and imports nothing.
LEMMA SpecsQuiet ==
    ASSUME SpecsInv, SpecsTyped', ValidationsHold', imported' = imported, executed' = executed
    PROVE  SpecsInv'
BY RowsKeepStatus DEF SpecsInv, OnlySupportedSpecsRun, SpecsTyped, SavedSpecs

\* An editor at rest.
LEMMA RestTyped == AtRest \in EditorRecords /\ AtRest.at = "idle"
BY DEF AtRest, EditorRecords, Gaps

\* A feature is imported: what a spec lacks was true of the features then.
LEMMA AppearKeeps ==
    ASSUME SpecsInv, NEW d \in FeatureSets, FeaturesAppear(d)
    PROVE  SpecsInv'
<1>1. SpecsTyped'
  BY DEF SpecsInv, SpecsTyped, FeaturesAppear
<1>2. ValidationsHold'
  BY DEF SpecsInv, ValidationsHold, FeaturesAppear
<1> QED
  BY <1>1, <1>2 DEF SpecsInv, OnlySupportedSpecsRun, FeaturesAppear

\* A spec is deleted, whatever an editor remembers of it.
LEMMA DeleteKeeps ==
    ASSUME SpecsInv, NEW i \in Specs, DeleteSpec(i)
    PROVE  SpecsInv'
<1>1. SpecsTyped'
  BY DEF SpecsInv, SpecsTyped, DeleteSpec
<1>2. ValidationsHold'
  BY DEF SpecsInv, ValidationsHold, DeleteSpec
<1> QED
  BY <1>1, <1>2, SpecsQuiet DEF DeleteSpec

\* A request to create or update a spec.
LEMMA BeginSaveKeeps ==
    ASSUME SpecsInv, NEW e \in Editors, NEW i \in Specs, NEW b \in Bodies, NEW kind \in {"create", "update"},
           BeginSave(e, i, b, kind)
    PROVE  SpecsInv'
<1> DEFINE r == [at |-> kind, spec |-> i, body |-> b, missing |-> Missing(b), was |-> {}]
<1>1. r \in EditorRecords /\ r.at = kind /\ r.body = b /\ r.spec = i
  <2>1. Missing(b) \in Gaps /\ {} \in Gaps
    BY MissingTyped DEF SpecsInv, Gaps
  <2> QED
    BY <2>1 DEF EditorRecords
<1>2. editor' = [editor EXCEPT ![e] = r] /\ imported' = imported
  BY DEF BeginSave
<1> HIDE DEF r
<1>3. editor' \in [Editors -> EditorRecords] /\ ValidationsHold'
  BY <1>1, <1>2, OneEditor
<1>4. SpecsTyped'
  BY <1>3 DEF SpecsInv, SpecsTyped, BeginSave
<1> QED
  BY <1>3, <1>4, SpecsQuiet DEF BeginSave

\* The write of a spec, with the validation of its body.
LEMMA SaveKeeps ==
    ASSUME SpecsInv, NEW e \in Editors, Save(e)
    PROVE  SpecsInv'
<1>1. editor[e] \in EditorRecords /\ editor[e].at \in {"create", "update"}
  BY DEF SpecsInv, SpecsTyped, Save
<1>2. editor[e].body \in Bodies /\ editor[e].spec \in Specs /\ editor[e].missing \in Gaps
  BY <1>1 DEF SpecsInv, ValidationsHold, EditorRecords
<1>3. Saved(editor[e].body, editor[e].missing) \in SavedSpecs
  BY <1>2, SavedTyped
<1>4. specs' \in [Specs -> SavedSpecs \union {NoSpec}]
  BY <1>2, <1>3 DEF SpecsInv, SpecsTyped, Save
<1>5. editor' \in [Editors -> EditorRecords] /\ ValidationsHold'
  BY RestTyped, OneEditor DEF Save
<1>6. SpecsTyped'
  BY <1>4, <1>5 DEF SpecsInv, SpecsTyped, Save
<1> QED
  BY <1>5, <1>6, SpecsQuiet DEF Save

\* A request to run a spec.
LEMMA BeginRunKeeps ==
    ASSUME SpecsInv, NEW e \in Editors, NEW i \in Specs, BeginRun(e, i)
    PROVE  SpecsInv'
<1> DEFINE b == specs[i].body
           m == specs[i].missing
           r == [AtRest EXCEPT !.at = "validate", !.spec = i, !.body = b, !.was = m]
<1>1. b \in Bodies /\ m \in Gaps
  BY SpecRow DEF SpecsInv, BeginRun
<1>2. editor' = [editor EXCEPT ![e] = r] /\ imported' = imported
  BY DEF BeginRun
<1> HIDE DEF b, m
<1>3. r \in EditorRecords /\ r.at = "validate" /\ r.body = b /\ r.spec = i
  BY <1>1, RestTyped DEF EditorRecords
<1> HIDE DEF r
<1>4. editor' \in [Editors -> EditorRecords] /\ ValidationsHold'
  BY <1>1, <1>2, <1>3, OneEditor
<1>5. SpecsTyped'
  BY <1>4 DEF SpecsInv, SpecsTyped, BeginRun
<1> QED
  BY <1>4, <1>5, SpecsQuiet DEF BeginRun

\* The body of a spec is validated before it runs.
LEMMA ValidateKeeps ==
    ASSUME SpecsInv, NEW e \in Editors, Validate(e)
    PROVE  SpecsInv'
<1> DEFINE b == editor[e].body
           m == Missing(b)
<1>1. editor[e] \in EditorRecords /\ editor[e].at = "validate"
  BY DEF SpecsInv, SpecsTyped, Validate
<1>2. b \in Bodies /\ editor[e].spec \in Specs
  BY <1>1 DEF SpecsInv, ValidationsHold
<1>3. m \in Gaps /\ (m = {} => b.supported /\ b.needs \subseteq imported)
  BY <1>2, MissingTyped DEF SpecsInv
<1>4. PICK at \in {"refresh", "run"} : editor' = [editor EXCEPT ![e].missing = m, ![e].at = at]
  BY DEF Validate
<1> DEFINE r == [editor[e] EXCEPT !.missing = m, !.at = at]
<1>5. editor' = [editor EXCEPT ![e] = r]
  BY <1>4 DEF SpecsInv, SpecsTyped
<1> HIDE DEF m
<1>6. r \in EditorRecords /\ r.at = at /\ r.missing = m /\ r.body = b /\ r.spec = editor[e].spec
  BY <1>1, <1>3 DEF EditorRecords
<1> HIDE DEF r, b
<1>7. editor' \in [Editors -> EditorRecords] /\ ValidationsHold'
  BY <1>2, <1>3, <1>5, <1>6, OneEditor DEF Validate
<1>8. SpecsTyped'
  BY <1>7 DEF SpecsInv, SpecsTyped, Validate
<1> QED
  BY <1>7, <1>8, SpecsQuiet DEF Validate

\* What the validation found is written to the row.
LEMMA RefreshKeeps ==
    ASSUME SpecsInv, NEW e \in Editors, RefreshValidation(e)
    PROVE  SpecsInv'
<1> DEFINE i == editor[e].spec
           m == editor[e].missing
           r == [editor[e] EXCEPT !.at = "run"]
<1>1. editor[e] \in EditorRecords /\ editor[e].at = "refresh"
  BY DEF SpecsInv, SpecsTyped, RefreshValidation
<1>2. i \in Specs /\ m \in Gaps /\ editor[e].body \in Bodies
  BY <1>1 DEF SpecsInv, ValidationsHold, EditorRecords
<1>3. specs' \in [Specs -> SavedSpecs \union {NoSpec}]
  <2>1. specs' = [specs EXCEPT ![i] = IF specs[i] = NoSpec THEN NoSpec ELSE Saved(specs[i].body, m)]
    BY DEF RefreshValidation
  <2>2. specs[i] # NoSpec => Saved(specs[i].body, m) \in SavedSpecs
    BY <1>2, SpecRow, SavedTyped DEF SpecsInv
  <2> HIDE DEF i, m
  <2> QED
    BY <1>2, <2>1, <2>2 DEF SpecsInv, SpecsTyped
<1>4. editor' = [editor EXCEPT ![e] = r]
  BY DEF RefreshValidation, SpecsInv, SpecsTyped
<1>5. r \in EditorRecords /\ r.at = "run" /\ r.missing = m /\ r.body = editor[e].body /\ r.spec = i
  BY <1>1 DEF EditorRecords
<1>6. m = {} => editor[e].body.supported /\ editor[e].body.needs \subseteq imported
  BY <1>1 DEF SpecsInv, ValidationsHold
<1> HIDE DEF r, i, m
<1>7. editor' \in [Editors -> EditorRecords] /\ ValidationsHold'
  BY <1>2, <1>4, <1>5, <1>6, OneEditor DEF RefreshValidation
<1>8. SpecsTyped'
  BY <1>3, <1>7 DEF SpecsInv, SpecsTyped, RefreshValidation
<1> QED
  BY <1>7, <1>8, SpecsQuiet DEF RefreshValidation

\* A spec runs, with what its editor has just read of it.
LEMMA RunKeeps ==
    ASSUME SpecsInv, NEW e \in Editors, RunSpec(e)
    PROVE  SpecsInv'
<1>1. editor' \in [Editors -> EditorRecords] /\ ValidationsHold'
  BY RestTyped, OneEditor DEF RunSpec
<1>2. editor[e] \in EditorRecords /\ editor[e].at = "run"
  BY DEF SpecsInv, SpecsTyped, RunSpec
<1>3. editor[e].body \in Bodies
      /\ (Executable(e) => editor[e].body.supported /\ editor[e].body.needs \subseteq imported)
  BY <1>2 DEF SpecsInv, ValidationsHold, Executable
<1>4. SpecsTyped'
  BY <1>1, <1>3 DEF SpecsInv, SpecsTyped, RunSpec
<1>5. OnlySupportedSpecsRun'
  <2>1. \A b \in executed' : b \in executed \/ (Executable(e) /\ b = editor[e].body)
    BY DEF RunSpec
  <2> QED
    BY <1>3, <2>1 DEF SpecsInv, OnlySupportedSpecsRun, RunSpec
<1> QED
  BY <1>1, <1>4, <1>5 DEF SpecsInv

\* Every step of the editors keeps the invariant.
LEMMA SpecsStep == SpecsInv /\ [SpecsNext]_specVars => SpecsInv'
<1> SUFFICES ASSUME SpecsInv, [SpecsNext]_specVars PROVE SpecsInv'
  OBVIOUS
<1>1. CASE UNCHANGED specVars
  BY <1>1 DEF specVars, SpecsInv, SpecsTyped, ValidationsHold, OnlySupportedSpecsRun
<1>2. CASE SpecsNext
  BY <1>2, AppearKeeps, DeleteKeeps, SaveKeeps, ValidateKeeps, RefreshKeeps, RunKeeps, BeginRunKeeps, BeginSaveKeeps
     DEF SpecsNext
<1> QED
  BY <1>1, <1>2

\* Whatever is saved, refreshed and deleted between the blocks of a request, nothing is
\* executed that has unsupported rules or lacks a feature it reads.
THEOREM SupportedSpecsKept == SpecsSpec => []OnlySupportedSpecsRun
<1>1. SpecsInv => OnlySupportedSpecsRun
  BY DEF SpecsInv
<1> QED
  BY <1>1, SpecsStart, SpecsStep, PTL DEF SpecsSpec

-----------------------------------------------------------------------------
(***************************************************************************)
(* The position machine: what it remembers of a position is what the       *)
(* definition of the controls asks for.                                    *)
(***************************************************************************)
SignalRows == [type : {"entry", "exit"}, bar : Nat]

SignalsTyped ==
    /\ side \in {"long", "short"}
    /\ seen \in Seq(BarPrices) /\ held \in BOOLEAN /\ finished \in BOOLEAN
    /\ emitted \in Seq(SignalRows)

\* A signal and the one before it.
InTurn(n) ==
    /\ emitted[n].type = IF n % 2 = 1 THEN "entry" ELSE "exit"
    /\ emitted[n].bar \in 1..Len(seen)
    /\ n > 1 => emitted[n].bar >= emitted[n - 1].bar
    /\ n % 2 = 1 /\ n > 1 => emitted[n].bar > emitted[n - 1].bar

RoundTrips ==
    /\ \A n \in 1..Len(emitted) : InTurn(n)
    /\ finished => Len(emitted) % 2 = 0
    /\ ~finished => (held <=> Len(emitted) % 2 = 1)

\* x is the furthest price since the bar.
FurthestSince(first, x) ==
    /\ \E k \in first..Len(seen) : x = seen[k]
    /\ \A k \in first..Len(seen) : IF side = "long" THEN x >= seen[k] ELSE x <= seen[k]

NoOverrun(first, last) == \A bar \in (first + 1)..last : ~Overrun(first, bar)

\* A position that is held is what the machine remembers of it.
OpenTrip ==
    held /\ ~finished =>
        LET first == emitted[Len(emitted)].bar
        IN entryPrice = seen[first] /\ FurthestSince(first, extreme) /\ NoOverrun(first, Len(seen))

ClosedTrips ==
    \A n \in 1..(Len(emitted) - 1) : n % 2 = 1 => NoOverrun(emitted[n].bar, emitted[n + 1].bar - 1)

SignalsInv == SignalsTyped /\ RoundTrips /\ OpenTrip /\ ClosedTrips

-----------------------------------------------------------------------------
\* Odd and even take turns.
LEMMA Parity == \A n \in Nat : (n % 2 = 0 \/ n % 2 = 1) /\ (n % 2 = 0 => (n + 1) % 2 = 1) /\ (n % 2 = 1 => (n + 1) % 2 = 0)
OBVIOUS

\* Numbers below a bound, kept from the formulas about signals.
LEMMA Below ==
    /\ \A m \in Nat : \A n \in 1..(m - 1) : n # m - 1 => n \in 1..((m - 1) - 1)
    /\ \A a, b, c \in Nat : a <= b /\ b <= c => a <= c
    /\ \A a, b \in Nat : 1 <= a /\ a <= b => a \in 1..b
    /\ \A a, b \in Nat : a <= b => a < b + 1
    /\ \A a, b \in Nat : a < b => a <= b
    /\ \A f, n \in Nat : \A l \in Int : 1 <= f /\ l <= n => \A k \in f..l : k \in 1..n
OBVIOUS

\* The greatest of a set is the one above the others.
LEMMA MaxIs == ASSUME NEW S \in SUBSET Int, NEW m \in S, \A y \in S : m >= y PROVE Max(S) = m
<1>1. \A x \in S : (\A y \in S : x >= y) => x = m
  OBVIOUS
<1> QED
  BY <1>1 DEF Max

\* The least of a set is the one below the others.
LEMMA MinIs == ASSUME NEW S \in SUBSET Int, NEW m \in S, \A y \in S : m <= y PROVE Min(S) = m
<1>1. \A x \in S : (\A y \in S : x <= y) => x = m
  OBVIOUS
<1> QED
  BY <1>1 DEF Min

\* The furthest of two prices is one of them, and as far as either.
LEMMA FurthestOfTwo ==
    ASSUME NEW a \in Nat, NEW b \in Nat
    PROVE  /\ Furthest(a, b) \in {a, b}
           /\ IF side = "long" THEN Furthest(a, b) >= a /\ Furthest(a, b) >= b
                               ELSE Furthest(a, b) <= a /\ Furthest(a, b) <= b
<1>1. CASE a >= b
  <2>1. Max({a, b}) = a /\ Min({a, b}) = b
    BY <1>1, MaxIs, MinIs
  <2> QED
    BY <1>1, <2>1 DEF Furthest
<1>2. CASE a <= b
  <2>1. Max({a, b}) = b /\ Min({a, b}) = a
    BY <1>2, MaxIs, MinIs
  <2> QED
    BY <1>2, <2>1 DEF Furthest
<1> QED
  BY <1>1, <1>2

\* What is true of a round trip stays true: it is about bars that have been.
LEMMA OverrunStays ==
    ASSUME UNCHANGED <<side, controls>>, NEW first \in Nat, NEW bar \in Nat,
           \A k \in first..bar : seen'[k] = seen[k], first <= bar
    PROVE  Overrun(first, bar)' <=> Overrun(first, bar)
<1>1. {seen'[k] : k \in first..bar} = {seen[k] : k \in first..bar}
  OBVIOUS
<1>2. seen'[bar] = seen[bar] /\ seen'[first] = seen[first]
  OBVIOUS
<1> QED
  BY <1>1, <1>2 DEF Overrun, Against, InFavour

\* The same of all bars of a round trip.
LEMMA NoOverrunStays ==
    ASSUME UNCHANGED <<side, controls>>, NEW first \in Nat, NEW last \in Int,
           \A k \in first..last : seen'[k] = seen[k], NoOverrun(first, last)
    PROVE  NoOverrun(first, last)'
<1> SUFFICES ASSUME NEW bar \in (first + 1)..last PROVE ~Overrun(first, bar)'
  BY DEF NoOverrun
<1>1. bar \in Nat /\ first <= bar /\ \A k \in first..bar : k \in first..last
  OBVIOUS
<1> QED
  BY <1>1, OverrunStays DEF NoOverrun

\* After a step, what the controls say by their definition is what the machine tests,
\* if it remembers the entry and the furthest price.
LEMMA OverrunIsHit ==
    ASSUME NEW first \in Nat, NEW bar \in Nat, NEW best,
           seen'[first] = entryPrice', \A k \in first..bar : seen'[k] \in Nat,
           \E k \in first..bar : best = seen'[k],
           \A k \in first..bar : IF side' = "long" THEN best >= seen'[k] ELSE best <= seen'[k]
    PROVE  Overrun(first, bar)' <=> Hit(seen[bar], best)'
<1> DEFINE since == {seen'[k] : k \in first..bar}
<1>1. since \in SUBSET Int /\ best \in since
  OBVIOUS
<1>2. CASE side' = "long"
  <2>1. \A y \in since : best >= y
    BY <1>2
  <2>2. Max(since) = best
    <3> HIDE DEF since
    <3> QED
      BY <1>1, <2>1, MaxIs
  <2> QED
    BY <1>2, <2>2 DEF Overrun, Hit, Against, InFavour
<1>3. CASE side' # "long"
  <2>1. \A y \in since : best <= y
    BY <1>3
  <2>2. Min(since) = best
    <3> HIDE DEF since
    <3> QED
      BY <1>1, <2>1, MinIs
  <2> QED
    BY <1>3, <2>2 DEF Overrun, Hit, Against, InFavour
<1> QED
  BY <1>2, <1>3

\* The signals are rows.
LEMMA SignalTyped == \A n \in Nat : Signal("entry", n) \in SignalRows /\ Signal("exit", n) \in SignalRows
                       /\ Signal("entry", n).type = "entry" /\ Signal("exit", n).type = "exit"
                       /\ Signal("entry", n).bar = n /\ Signal("exit", n).bar = n
BY DEF Signal, SignalRows

\* Nothing is seen and nothing emitted at the start.
LEMMA SignalsStart == SignalsInit => SignalsInv
<1> SUFFICES ASSUME SignalsInit PROVE SignalsInv
  OBVIOUS
<1>1. Len(emitted) = 0 /\ held = FALSE /\ finished = FALSE
  BY EmptySeq DEF SignalsInit
<1>2. SignalsTyped
  BY EmptySeq DEF SignalsInit, SignalsTyped
<1>3. RoundTrips
  BY <1>1 DEF RoundTrips
<1>4. OpenTrip /\ ClosedTrips
  BY <1>1 DEF OpenTrip, ClosedTrips
<1> QED
  BY <1>2, <1>3, <1>4 DEF SignalsInv

\* The bars of the signals have been.
LEMMA SignalBars ==
    ASSUME SignalsTyped, RoundTrips
    PROVE  /\ Len(seen) \in Nat /\ Len(emitted) \in Nat
           /\ \A n \in 1..Len(emitted) : emitted[n].bar \in Nat /\ emitted[n].bar >= 1 /\ emitted[n].bar <= Len(seen)
           /\ \A k \in 1..Len(seen) : seen[k] \in Nat
<1>1. Len(seen) \in Nat /\ Len(emitted) \in Nat
  BY LenProperties DEF SignalsTyped
<1>2. \A n \in 1..Len(emitted) : emitted[n].bar \in 1..Len(seen)
  BY DEF RoundTrips, InTurn
<1>3. \A k \in 1..Len(seen) : seen[k] \in BarPrices
  BY ElementOfSeq DEF SignalsTyped
<1>4. \A k \in 1..Len(seen) : seen[k] \in Nat
  BY <1>3, SGAssumption
<1>5. \A b \in 1..Len(seen) : b \in Nat /\ b >= 1 /\ b <= Len(seen)
  BY <1>1
<1>6. \A n \in 1..Len(emitted) : emitted[n].bar \in Nat /\ emitted[n].bar >= 1 /\ emitted[n].bar <= Len(seen)
  BY <1>2, <1>5
<1> QED
  BY <1>1, <1>4, <1>6

\* A bar is seen: nothing about the earlier ones changes.
LEMMA BarSeen ==
    ASSUME SignalsTyped, NEW price \in BarPrices, seen' = Append(seen, price)
    PROVE  /\ seen' \in Seq(BarPrices) /\ Len(seen') = Len(seen) + 1 /\ Len(seen) \in Nat
           /\ seen'[Len(seen) + 1] = price
           /\ \A k \in 1..Len(seen) : seen'[k] = seen[k]
BY AppendProperties, LenProperties DEF SignalsTyped

\* What has been emitted stays in turn as bars are seen.
LEMMA EarlierInTurn ==
    ASSUME SignalsTyped, RoundTrips, Len(seen') >= Len(seen), Len(seen') \in Nat,
           NEW n \in 1..Len(emitted), \A k \in 1..Len(emitted) : emitted'[k] = emitted[k]
    PROVE  InTurn(n)'
<1>1. emitted'[n] = emitted[n] /\ (n > 1 => emitted'[n - 1] = emitted[n - 1])
  <2>1. Len(emitted) \in Nat
    BY LenProperties DEF SignalsTyped
  <2>2. n > 1 => n - 1 \in 1..Len(emitted)
    BY <2>1
  <2> QED
    BY <2>2
<1>2. InTurn(n)
  BY DEF RoundTrips
<1>3. Len(seen) \in Nat
  BY LenProperties DEF SignalsTyped
<1>4. emitted[n].bar \in 1..Len(seen')
  BY <1>2, <1>3 DEF InTurn
<1> QED
  BY <1>1, <1>2, <1>4 DEF InTurn

\* A round trip that is closed stays within its controls as bars are seen.
LEMMA EarlierClosed ==
    ASSUME SignalsTyped, RoundTrips, ClosedTrips, UNCHANGED <<side, controls>>,
           \A k \in 1..Len(seen) : seen'[k] = seen[k],
           NEW n \in 1..(Len(emitted) - 1), n % 2 = 1, \A k \in 1..Len(emitted) : emitted'[k] = emitted[k]
    PROVE  NoOverrun(emitted[n].bar, emitted[n + 1].bar - 1)'
<1>1. Len(emitted) \in Nat /\ n \in 1..Len(emitted) /\ n + 1 \in 1..Len(emitted)
  BY LenProperties DEF SignalsTyped
<1>2. emitted'[n] = emitted[n] /\ emitted'[n + 1] = emitted[n + 1]
  BY <1>1
<1>3. PICK first \in Nat, last \in Int : first = emitted[n].bar /\ last = emitted[n + 1].bar - 1
                                     /\ first >= 1 /\ last <= Len(seen) /\ Len(seen) \in Nat
  <2>1. emitted[n].bar \in Nat /\ emitted[n].bar >= 1 /\ emitted[n + 1].bar - 1 \in Int
        /\ emitted[n + 1].bar - 1 <= Len(seen) /\ Len(seen) \in Nat
    BY <1>1, SignalBars
  <2> QED
    BY <2>1
<1>4. NoOverrun(first, last)
  BY <1>3 DEF ClosedTrips
<1>5. \A k \in first..last : seen'[k] = seen[k]
  BY <1>3
<1>6. NoOverrun(first, last)'
  BY <1>4, <1>5, NoOverrunStays
<1>7. first = emitted'[n].bar /\ last = emitted'[n + 1].bar - 1
  BY <1>2, <1>3
<1> QED
  BY <1>6, <1>7

\* One signal more.
LEMMA OneSignal ==
    ASSUME SignalsTyped, NEW s \in SignalRows, emitted' = Append(emitted, s)
    PROVE  /\ emitted' \in Seq(SignalRows) /\ Len(emitted') = Len(emitted) + 1 /\ Len(emitted) \in Nat
           /\ emitted'[Len(emitted) + 1] = s
           /\ \A k \in 1..Len(emitted) : emitted'[k] = emitted[k]
BY AppendProperties, LenProperties DEF SignalsTyped

\* An entry, when flat.
LEMMA EntryKeeps ==
    ASSUME SignalsInv, ~finished, ~held, NEW price \in BarPrices, seen' = Append(seen, price),
           emitted' = Append(emitted, Signal("entry", Len(seen) + 1)),
           held' = TRUE, entryPrice' = price, extreme' = price, UNCHANGED <<side, controls, finished>>
    PROVE  SignalsInv'
<1>1. PICK bar \in Nat : bar = Len(seen) + 1 /\ bar >= 1
  <2>1. Len(seen) \in Nat
    BY LenProperties DEF SignalsInv, SignalsTyped
  <2> QED
    BY <2>1
<1>2. /\ seen' \in Seq(BarPrices) /\ Len(seen') = bar /\ Len(seen) \in Nat /\ seen'[bar] = price
      /\ \A k \in 1..Len(seen) : seen'[k] = seen[k]
  BY <1>1, BarSeen DEF SignalsInv
<1>3. PICK m \in Nat : m = Len(emitted) + 1 /\ m >= 1 /\ Len(emitted) = m - 1
  <2>1. Len(emitted) \in Nat
    BY LenProperties DEF SignalsInv, SignalsTyped
  <2> QED
    BY <2>1
<1>4. /\ emitted' \in Seq(SignalRows) /\ Len(emitted') = m /\ emitted'[m].type = "entry" /\ emitted'[m].bar = bar
      /\ \A k \in 1..(m - 1) : emitted'[k] = emitted[k]
  BY <1>1, <1>3, OneSignal, SignalTyped DEF SignalsInv
<1>5. m % 2 = 1 /\ (m - 1) % 2 = 0
  <2>1. (m - 1) % 2 # 1 /\ m - 1 \in Nat /\ (m - 1) + 1 = m
    BY <1>3 DEF SignalsInv, RoundTrips
  <2> QED
    BY <2>1, Parity
<1>6. SignalsTyped'
  BY <1>2, <1>4 DEF SignalsInv, SignalsTyped
<1>7. \A n \in 1..m : n \in 1..(m - 1) \/ n = m
  BY <1>3
<1>8. RoundTrips'
  <2>1. \A n \in 1..(m - 1) : InTurn(n)'
    BY <1>1, <1>2, <1>3, <1>4, EarlierInTurn DEF SignalsInv
  <2>2. InTurn(m)'
    <3>1. bar \in 1..Len(seen')
      BY <1>1, <1>2
    <3>2. m > 1 => emitted'[m - 1].bar < bar
      <4>1. m > 1 => m - 1 \in 1..(m - 1)
        BY <1>3
      <4>2. m > 1 => emitted'[m - 1].bar = emitted[m - 1].bar /\ emitted[m - 1].bar \in Nat
                     /\ emitted[m - 1].bar <= Len(seen)
        BY <1>3, <1>4, <4>1, SignalBars DEF SignalsInv
      <4>3. bar = Len(seen) + 1 /\ Len(seen) \in Nat
        BY <1>1, <1>2
      <4> QED
        BY <4>2, <4>3, Below
    <3>3. m > 1 => emitted'[m - 1].bar \in Nat
      <4>1. m > 1 => m - 1 \in 1..(m - 1)
        BY <1>3
      <4> QED
        BY <1>3, <1>4, <4>1, SignalBars DEF SignalsInv
    <3> QED
      BY <1>1, <1>4, <1>5, <3>1, <3>2, <3>3 DEF InTurn
  <2> QED
    BY <1>4, <1>5, <1>7, <2>1, <2>2 DEF RoundTrips
<1>9. OpenTrip'
  <2>1. entryPrice' = seen'[bar]
    BY <1>2
  <2>2. FurthestSince(bar, price)'
    <3>1. price \in Nat /\ \A k \in bar..bar : k = bar
      BY <1>1, SGAssumption
    <3> QED
      BY <1>2, <3>1 DEF FurthestSince
  <2>3. NoOverrun(bar, bar)'
    <3>1. \A k \in (bar + 1)..bar : FALSE
      BY <1>1
    <3> QED
      BY <3>1 DEF NoOverrun
  <2> QED
    BY <1>2, <1>4, <2>1, <2>2, <2>3 DEF OpenTrip
<1>10. ClosedTrips'
  <2> SUFFICES ASSUME NEW n \in 1..(m - 1), n % 2 = 1
               PROVE  NoOverrun(emitted[n].bar, emitted[n + 1].bar - 1)'
    BY <1>4 DEF ClosedTrips
  <2>1. n \in 1..((m - 1) - 1)
    <3>1. n # m - 1
      BY <1>5
    <3> QED
      BY <1>3, <3>1, Below
  <2> QED
    BY <1>2, <1>3, <1>4, <2>1, EarlierClosed DEF SignalsInv
<1> QED
  BY <1>6, <1>8, <1>9, <1>10 DEF SignalsInv

\* An exit of a position held before the bar, at the bar or when generate returns.
LEMMA ExitKeeps ==
    ASSUME SignalsInv, ~finished, held, NEW bar \in Nat, bar >= 1, bar <= Len(seen'), Len(seen) <= bar,
           bar <= Len(seen) + 1, seen' \in Seq(BarPrices), \A k \in 1..Len(seen) : seen'[k] = seen[k],
           emitted' = Append(emitted, Signal("exit", bar)), held' \in BOOLEAN,
           finished' = TRUE \/ (finished' = FALSE /\ held' = FALSE), UNCHANGED <<side, controls>>
    PROVE  SignalsInv'
<1>1. Len(seen) \in Nat /\ Len(seen') \in Nat /\ Len(seen) <= Len(seen')
  BY LenProperties DEF SignalsInv, SignalsTyped
<1>2. PICK m \in Nat : m = Len(emitted) + 1 /\ m >= 1 /\ Len(emitted) = m - 1
  <2>1. Len(emitted) \in Nat
    BY LenProperties DEF SignalsInv, SignalsTyped
  <2> QED
    BY <2>1
<1>3. /\ emitted' \in Seq(SignalRows) /\ Len(emitted') = m /\ emitted'[m].type = "exit" /\ emitted'[m].bar = bar
      /\ \A k \in 1..(m - 1) : emitted'[k] = emitted[k]
  BY <1>2, OneSignal, SignalTyped DEF SignalsInv
<1>4. m % 2 = 0 /\ (m - 1) % 2 = 1 /\ m > 1
  <2>1. (m - 1) % 2 = 1 /\ m - 1 \in Nat /\ (m - 1) + 1 = m
    BY <1>2 DEF SignalsInv, RoundTrips
  <2>2. m - 1 # 0
    BY <2>1, Parity
  <2> QED
    BY <2>1, <2>2, Parity
<1>5. SignalsTyped'
  BY <1>3 DEF SignalsInv, SignalsTyped
<1>6. \A n \in 1..m : n \in 1..(m - 1) \/ n = m
  BY <1>2
<1>7. PICK first \in Nat : /\ first = emitted[m - 1].bar /\ first = emitted'[m - 1].bar /\ first >= 1
                           /\ first <= Len(seen) /\ NoOverrun(first, Len(seen))
  <2>1. m - 1 \in 1..(m - 1)
    BY <1>2, <1>4
  <2>2. emitted[m - 1].bar \in Nat /\ emitted[m - 1].bar >= 1 /\ emitted[m - 1].bar <= Len(seen)
    BY <1>2, <2>1, SignalBars DEF SignalsInv
  <2>3. NoOverrun(emitted[m - 1].bar, Len(seen))
    BY <1>2 DEF SignalsInv, OpenTrip
  <2> QED
    BY <1>3, <2>1, <2>2, <2>3
<1>8. RoundTrips'
  <2>1. \A n \in 1..(m - 1) : InTurn(n)'
    BY <1>1, <1>2, <1>3, EarlierInTurn DEF SignalsInv
  <2>2. InTurn(m)'
    <3>1. bar \in 1..Len(seen') /\ first <= bar
      BY <1>1, <1>7, Below
    <3>2. bar >= first /\ m % 2 # 1
      BY <1>4, <3>1
    <3> QED
      BY <1>3, <1>7, <3>1, <3>2 DEF InTurn
  <2> QED
    BY <1>3, <1>4, <1>6, <2>1, <2>2 DEF RoundTrips
<1>9. OpenTrip'
  BY DEF OpenTrip
<1>10. ClosedTrips'
  <2> SUFFICES ASSUME NEW n \in 1..(m - 1), n % 2 = 1
               PROVE  NoOverrun(emitted[n].bar, emitted[n + 1].bar - 1)'
    BY <1>3 DEF ClosedTrips
  <2>1. CASE n \in 1..((m - 1) - 1)
    BY <1>1, <1>2, <1>3, <2>1, EarlierClosed DEF SignalsInv
  <2>2. CASE n = m - 1
    <3>1. PICK last \in Int : last = bar - 1 /\ last <= Len(seen)
      BY <1>1
    <3>2. NoOverrun(first, last)
      <4>1. \A b \in (first + 1)..last : b \in (first + 1)..Len(seen)
        BY <1>1, <3>1
      <4> QED
        BY <1>7, <4>1 DEF NoOverrun
    <3>3. \A k \in first..last : seen'[k] = seen[k]
      <4>1. \A k \in first..last : k \in 1..Len(seen)
        <5>1. 1 <= first /\ Len(seen) \in Nat
          BY <1>1, <1>7
        <5> QED
          BY <3>1, <5>1, Below
      <4> QED
        BY <4>1
    <3>4. NoOverrun(first, last)'
      BY <3>2, <3>3, NoOverrunStays
    <3>5. emitted'[n].bar = first /\ emitted'[n + 1].bar - 1 = last
      BY <1>2, <1>3, <1>7, <2>2, <3>1
    <3> QED
      BY <3>4, <3>5
  <2> QED
    BY <1>2, <2>1, <2>2, Below
<1> QED
  BY <1>5, <1>8, <1>9, <1>10 DEF SignalsInv

\* A bar on which nothing is emitted.
LEMMA QuietKeeps ==
    ASSUME SignalsInv, NEW price \in BarPrices, seen' = Append(seen, price), UNCHANGED <<side, controls, held, emitted, finished>>,
           OpenTrip'
    PROVE  SignalsInv'
<1>1. /\ seen' \in Seq(BarPrices) /\ Len(seen') = Len(seen) + 1 /\ Len(seen) \in Nat
      /\ \A k \in 1..Len(seen) : seen'[k] = seen[k]
  BY BarSeen DEF SignalsInv
<1>2. SignalsTyped'
  BY <1>1 DEF SignalsInv, SignalsTyped
<1>3. RoundTrips'
  <2>1. \A n \in 1..Len(emitted) : InTurn(n)'
    BY <1>1, EarlierInTurn DEF SignalsInv
  <2> QED
    BY <2>1 DEF SignalsInv, RoundTrips
<1>4. ClosedTrips'
  BY <1>1, EarlierClosed DEF SignalsInv, ClosedTrips
<1> QED
  BY <1>2, <1>3, <1>4 DEF SignalsInv

\* A position is carried past a bar only when none of its controls is reached there.
LEMMA CarriedOn ==
    ASSUME SignalsInv, ~finished, held, NEW price \in BarPrices, seen' = Append(seen, price),
           ~Hit(price, Furthest(extreme, price)), extreme' = Furthest(extreme, price),
           UNCHANGED <<side, controls, held, entryPrice, emitted, finished>>
    PROVE  OpenTrip'
<1>1. PICK bar \in Nat : bar = Len(seen) + 1 /\ Len(seen) \in Nat /\ bar - 1 = Len(seen)
  <2>1. Len(seen) \in Nat
    BY LenProperties DEF SignalsInv, SignalsTyped
  <2> QED
    BY <2>1
<1>2. /\ seen' \in Seq(BarPrices) /\ Len(seen') = bar /\ seen'[bar] = price
      /\ \A k \in 1..Len(seen) : seen'[k] = seen[k]
  BY <1>1, BarSeen DEF SignalsInv
<1>3. Len(emitted) \in 1..Len(emitted)
  <2>1. Len(emitted) \in Nat /\ Len(emitted) % 2 = 1
    BY LenProperties DEF SignalsInv, SignalsTyped, RoundTrips
  <2>2. Len(emitted) # 0
    BY <2>1, Parity
  <2> QED
    BY <2>1, <2>2
<1>4. PICK first \in Nat : /\ first = emitted[Len(emitted)].bar /\ first >= 1 /\ first <= Len(seen)
                           /\ entryPrice = seen[first] /\ FurthestSince(first, extreme) /\ NoOverrun(first, Len(seen))
  BY <1>3, SignalBars DEF SignalsInv, OpenTrip
<1>5. \A k \in first..Len(seen) : k \in 1..Len(seen) /\ seen'[k] = seen[k] /\ seen[k] \in Nat
  BY <1>1, <1>2, <1>4, SignalBars DEF SignalsInv
<1>6. \A k \in first..bar : k \in first..Len(seen) \/ k = bar
  BY <1>1, <1>4
<1>7. price \in Nat /\ extreme \in Nat
  BY <1>4, <1>5, SGAssumption DEF FurthestSince
<1>8. PICK best : best = Furthest(extreme, price) /\ best \in {extreme, price}
                  /\ IF side = "long" THEN best >= extreme /\ best >= price ELSE best <= extreme /\ best <= price
  BY <1>7, FurthestOfTwo
<1>9. best \in Nat
  BY <1>7, <1>8
<1>10. \E k \in first..bar : best = seen'[k]
  <2>1. CASE best = price
    <3>1. bar \in first..bar
      BY <1>1, <1>4
    <3> QED
      BY <1>2, <2>1, <3>1
  <2>2. CASE best = extreme
    <3>1. PICK k \in first..Len(seen) : extreme = seen[k]
      BY <1>4 DEF FurthestSince
    <3>2. k \in first..bar
      BY <1>1, <1>4
    <3> QED
      BY <1>5, <2>2, <3>1, <3>2
  <2> QED
    BY <1>8, <2>1, <2>2
<1>11. \A k \in first..bar : IF side = "long" THEN best >= seen'[k] ELSE best <= seen'[k]
  <2> SUFFICES ASSUME NEW k \in first..bar PROVE IF side = "long" THEN best >= seen'[k] ELSE best <= seen'[k]
    OBVIOUS
  <2>1. CASE k = bar
    BY <1>2, <1>8, <2>1
  <2>2. CASE k \in first..Len(seen)
    <3>1. IF side = "long" THEN extreme >= seen[k] ELSE extreme <= seen[k]
      BY <1>4, <2>2 DEF FurthestSince
    <3>2. seen'[k] = seen[k] /\ seen[k] \in Nat
      BY <1>5, <2>2
    <3>3. IF side = "long" THEN best >= extreme ELSE best <= extreme
      BY <1>8
    <3> QED
      BY <1>7, <1>9, <3>1, <3>2, <3>3
  <2> QED
    BY <1>6, <2>1, <2>2
<1>12. FurthestSince(first, best)'
  BY <1>2, <1>10, <1>11 DEF FurthestSince
<1>13. ~Overrun(first, bar)'
  <2>2. seen'[first] = entryPrice'
    <3>1. first \in first..Len(seen)
      BY <1>1, <1>4
    <3> QED
      BY <1>4, <1>5, <3>1
  <2>3. \A k \in first..bar : seen'[k] \in Nat
    BY <1>2, <1>5, <1>6, <1>7
  <2>4. \A k \in first..bar : IF side' = "long" THEN best >= seen'[k] ELSE best <= seen'[k]
    BY <1>11
  <2>5. Overrun(first, bar)' <=> Hit(seen[bar], best)'
    BY <1>10, <2>2, <2>3, <2>4, OverrunIsHit
  <2>6. ~Hit(price, best)
    BY <1>8
  <2>7. Hit(seen[bar], best)' <=> Hit(price, best)
    BY <1>2 DEF Hit, Against, InFavour
  <2> QED
    BY <2>5, <2>6, <2>7
<1>14. NoOverrun(first, bar)'
  <2>1. NoOverrun(first, Len(seen))
    BY <1>4
  <2>2. \A b \in (first + 1)..bar : b = bar \/ b \in (first + 1)..(bar - 1)
    BY <1>1, <1>4
  <2>3. PICK last \in Int : last = bar - 1 /\ NoOverrun(first, last) /\ \A k \in first..last : seen'[k] = seen[k]
    <3>0. Len(seen) \in Int /\ Len(seen) = bar - 1
      BY <1>1
    <3>1. PICK last \in Int : last = Len(seen) /\ last = bar - 1
      BY <3>0, Zenon
    <3>2. NoOverrun(first, last) /\ \A k \in first..last : seen'[k] = seen[k]
      BY <1>5, <2>1, <3>1
    <3> QED
      BY <3>1, <3>2
  <2>4. NoOverrun(first, last)'
    BY <2>3, NoOverrunStays
  <2> QED
    BY <1>13, <2>2, <2>3, <2>4 DEF NoOverrun
<1>15. extreme' = best /\ entryPrice' = seen'[first]
  <2>1. first \in first..Len(seen)
    BY <1>1, <1>4
  <2> QED
    BY <1>4, <1>5, <1>8, <2>1
<1> QED
  BY <1>2, <1>4, <1>12, <1>14, <1>15 DEF OpenTrip

\* One bar of generate: an entry, an exit, or neither.
LEMMA BarKeeps ==
    ASSUME SignalsInv, NEW price \in BarPrices, NEW entryPasses \in BOOLEAN, NEW exitPasses \in BOOLEAN,
           Bar(price, entryPasses, exitPasses)
    PROVE  SignalsInv'
<1>1. ~finished /\ seen' = Append(seen, price) /\ UNCHANGED <<side, controls, finished>>
  BY DEF Bar
<1>2. held \in BOOLEAN /\ finished \in BOOLEAN
  BY DEF SignalsInv, SignalsTyped
<1>3. CASE MayEnter(entryPasses)
  <2>1. ~held
    BY <1>3 DEF MayEnter
  <2>2. /\ held' = TRUE /\ entryPrice' = price /\ extreme' = price
        /\ emitted' = Append(emitted, Signal("entry", Len(seen) + 1))
    BY <1>3 DEF Bar
  <2> QED
    BY <1>1, <2>1, <2>2, EntryKeeps
<1>4. CASE ~MayEnter(entryPasses) /\ held /\ (Hit(price, Furthest(extreme, price)) \/ exitPasses)
  <2>1. held' = FALSE /\ emitted' = Append(emitted, Signal("exit", Len(seen) + 1))
    BY <1>4 DEF Bar
  <2>2. /\ seen' \in Seq(BarPrices) /\ Len(seen') = Len(seen) + 1 /\ Len(seen) \in Nat
        /\ \A k \in 1..Len(seen) : seen'[k] = seen[k]
    BY <1>1, BarSeen DEF SignalsInv
  <2>3. PICK bar \in Nat : bar = Len(seen) + 1 /\ bar >= 1 /\ bar <= Len(seen') /\ Len(seen) <= bar /\ bar <= Len(seen) + 1
    BY <2>2
  <2>4. emitted' = Append(emitted, Signal("exit", bar))
    BY <2>1, <2>3
  <2>5. held' \in BOOLEAN /\ finished' = FALSE
    BY <1>1, <1>2, <2>1
  <2> QED
    BY <1>1, <1>4, <2>1, <2>2, <2>3, <2>4, <2>5, ExitKeeps
<1>5. CASE ~MayEnter(entryPasses) /\ held /\ ~Hit(price, Furthest(extreme, price)) /\ ~exitPasses
  <2>1. extreme' = Furthest(extreme, price) /\ UNCHANGED <<held, entryPrice, emitted>>
    BY <1>5 DEF Bar
  <2>2. OpenTrip'
    BY <1>1, <1>5, <2>1, CarriedOn
  <2> QED
    BY <1>1, <2>1, <2>2, QuietKeeps
<1>6. CASE ~MayEnter(entryPasses) /\ ~held
  <2>1. UNCHANGED <<held, emitted>>
    BY <1>6 DEF Bar
  <2>2. OpenTrip'
    BY <1>6, <2>1 DEF OpenTrip
  <2> QED
    BY <1>1, <2>1, <2>2, QuietKeeps
<1> QED
  BY <1>2, <1>3, <1>4, <1>5, <1>6

\* Nothing is seen and nothing emitted: the closed round trips are what they were.
LEMMA ClosedStays ==
    ASSUME SignalsInv, UNCHANGED <<side, controls, seen, emitted>>
    PROVE  ClosedTrips'
<1>1. ASSUME NEW n \in 1..(Len(emitted) - 1), n % 2 = 1
      PROVE  NoOverrun(emitted[n].bar, emitted[n + 1].bar - 1)'
  BY <1>1, EarlierClosed DEF SignalsInv
<1>2. Len(emitted') = Len(emitted)
  OBVIOUS
<1> QED
  BY <1>1, <1>2 DEF ClosedTrips

\* The same of the position that is held.
LEMMA OpenStays ==
    ASSUME SignalsInv, UNCHANGED signalVars
    PROVE  OpenTrip'
<1> SUFFICES ASSUME held, ~finished PROVE OpenTrip'
  BY DEF OpenTrip, signalVars
<1>1. Len(seen) \in Nat /\ Len(emitted) \in 1..Len(emitted)
  <2>1. Len(emitted) \in Nat /\ Len(emitted) # 0 /\ Len(seen) \in Nat
    BY SignalBars, Parity DEF SignalsInv, RoundTrips
  <2> QED
    BY <2>1
<1>2. PICK first \in Nat, last \in Nat : first = emitted[Len(emitted)].bar /\ last = Len(seen)
  BY <1>1, SignalBars DEF SignalsInv
<1>3. entryPrice = seen[first] /\ FurthestSince(first, extreme) /\ NoOverrun(first, last)
  BY <1>2 DEF SignalsInv, OpenTrip
<1>4. NoOverrun(first, last)'
  BY <1>3, NoOverrunStays DEF signalVars
<1>5. FurthestSince(first, extreme)'
  BY <1>3 DEF FurthestSince, signalVars
<1>6. first = emitted'[Len(emitted')].bar /\ last = Len(seen') /\ entryPrice' = seen'[first]
  BY <1>2, <1>3 DEF signalVars
<1> QED
  BY <1>4, <1>5, <1>6 DEF OpenTrip

\* The position is squared off when generate returns.
LEMMA ForceExitKeeps ==
    ASSUME SignalsInv, ForceExit
    PROVE  SignalsInv'
<1>1. /\ ~finished /\ seen # <<>> /\ finished' = TRUE
      /\ UNCHANGED <<side, controls, seen, held, entryPrice, extreme>>
  BY DEF ForceExit
<1>2. /\ seen \in Seq(BarPrices) /\ held \in BOOLEAN /\ Len(seen) \in Nat /\ Len(seen) # 0
  BY <1>1, LenProperties, EmptySeq DEF SignalsInv, SignalsTyped
<1>3. CASE held
  <2>1. emitted' = Append(emitted, Signal("exit", Len(seen)))
    BY <1>3 DEF ForceExit
  <2>2. PICK bar \in Nat : bar = Len(seen) /\ bar >= 1 /\ bar <= Len(seen) + 1 /\ bar <= Len(seen) /\ Len(seen) <= bar
    BY <1>2
  <2>3. emitted' = Append(emitted, Signal("exit", bar)) /\ bar <= Len(seen')
    BY <1>1, <2>1, <2>2
  <2>4. seen' \in Seq(BarPrices) /\ (\A k \in 1..Len(seen) : seen'[k] = seen[k]) /\ held' \in BOOLEAN
    BY <1>1, <1>2
  <2> QED
    BY <1>1, <1>3, <2>2, <2>3, <2>4, ExitKeeps
<1>4. CASE ~held
  <2>1. emitted' = emitted
    BY <1>4 DEF ForceExit
  <2>2. SignalsTyped'
    BY <1>1, <1>2, <2>1 DEF SignalsInv, SignalsTyped
  <2>3. Len(emitted) % 2 = 0
    <3>1. Len(emitted) \in Nat
      BY LenProperties DEF SignalsInv, SignalsTyped
    <3> QED
      BY <1>1, <1>4, <3>1, Parity DEF SignalsInv, RoundTrips
  <2>4. RoundTrips'
    BY <1>1, <2>1, <2>3 DEF SignalsInv, RoundTrips, InTurn
  <2>5. OpenTrip'
    BY <1>1 DEF OpenTrip
  <2>6. ClosedTrips'
    BY <1>1, <2>1, ClosedStays
  <2> QED
    BY <2>2, <2>4, <2>5, <2>6 DEF SignalsInv
<1> QED
  BY <1>2, <1>3, <1>4

\* Every step of generate keeps the invariant.
LEMMA SignalsStep == SignalsInv /\ [SignalsNext]_signalVars => SignalsInv'
<1> SUFFICES ASSUME SignalsInv, [SignalsNext]_signalVars PROVE SignalsInv'
  OBVIOUS
<1>1. CASE UNCHANGED signalVars
  <2>1. SignalsTyped'
    BY <1>1 DEF signalVars, SignalsInv, SignalsTyped
  <2>2. RoundTrips'
    BY <1>1 DEF signalVars, SignalsInv, RoundTrips, InTurn
  <2>3. OpenTrip' /\ ClosedTrips'
    BY <1>1, OpenStays, ClosedStays DEF signalVars
  <2> QED
    BY <2>1, <2>2, <2>3 DEF SignalsInv
<1>2. CASE SignalsNext
  BY <1>2, BarKeeps, ForceExitKeeps DEF SignalsNext
<1> QED
  BY <1>1, <1>2

\* The invariant implies the property.
LEMMA InTurnHonours ==
    ASSUME SignalsInv
    PROVE  SignalsHonourControls
<1>1. Len(emitted) \in Nat /\ Len(seen) \in Nat
  BY SignalBars DEF SignalsInv
<1>2. \A n \in 1..Len(emitted) :
          /\ emitted[n].type = IF n % 2 = 1 THEN "entry" ELSE "exit"
          /\ n > 1 => emitted[n].bar >= emitted[n - 1].bar
          /\ n % 2 = 1 /\ n > 1 => emitted[n].bar > emitted[n - 1].bar
  BY DEF SignalsInv, RoundTrips, InTurn
<1>3. (finished => Len(emitted) % 2 = 0) /\ (held /\ ~finished => Len(emitted) % 2 = 1)
  BY DEF SignalsInv, RoundTrips
<1>4. ASSUME NEW n \in {k \in 1..Len(emitted) : k % 2 = 1}
      PROVE  LET first == emitted[n].bar
                 last == IF n = Len(emitted) THEN Len(seen) + 1 ELSE emitted[n + 1].bar
             IN \A bar \in (first + 1)..(last - 1) : ~Overrun(first, bar)
  <2>1. CASE n = Len(emitted)
    <3>1. held /\ ~finished
      BY <2>1 DEF SignalsInv, RoundTrips
    <3>2. NoOverrun(emitted[n].bar, Len(seen))
      BY <2>1, <3>1 DEF SignalsInv, OpenTrip
    <3>3. (Len(seen) + 1) - 1 = Len(seen)
      BY <1>1
    <3> QED
      BY <2>1, <3>2, <3>3 DEF NoOverrun
  <2>2. CASE n # Len(emitted)
    <3>1. \A m \in Nat : \A k \in 1..m : k # m => k \in 1..(m - 1)
      OBVIOUS
    <3>2. n \in 1..(Len(emitted) - 1) /\ n % 2 = 1
      BY <1>1, <2>2, <3>1
    <3>3. NoOverrun(emitted[n].bar, emitted[n + 1].bar - 1)
      BY <3>2 DEF SignalsInv, ClosedTrips
    <3> QED
      BY <2>2, <3>3 DEF NoOverrun
  <2> QED
    BY <2>1, <2>2
<1> QED
  BY <1>2, <1>3, <1>4 DEF SignalsHonourControls

\* For any prices, percentages and number of bars the signals are round trips in time
\* order, and no position is carried past the first bar one of its controls is reached on.
THEOREM ControlsHonoured == SignalsSpec => []SignalsHonourControls
BY InTurnHonours, SignalsStart, SignalsStep, PTL DEF SignalsSpec
=============================================================================
