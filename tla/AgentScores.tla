---------------------------- MODULE AgentScores ----------------------------
(***************************************************************************)
(* Agent runs, their scores, the leaderboard and the contests that freeze  *)
(* it: agent_evaluation_service.py, contest_service.py and the handlers    *)
(* that call them.                                                         *)
(*                                                                         *)
(* A run is recorded in one block and scored in the next.  rescore_history *)
(* reads all runs in one block and then takes each of them in two, one     *)
(* that deletes its scores and one that inserts the new one.  close is     *)
(* handed a leaderboard read earlier, asks whether the contest is closed   *)
(* in a block of its own and writes in another.                            *)
(***************************************************************************)
EXTENDS Integers, Sequences, FiniteSets, SequencesExt

CONSTANTS
    Agents, Contests,
    Threads,        \* request threads of the API, the sweep's, the command line's
    Outcomes,       \* what a run may come to
    MaxRule,        \* bound: versions of the scoring rule
    Composite,      \* Composite[o][v]: what rule v makes of outcome o
    Unranked,       \* a composite of None: inconclusive
    MaxRuns, MaxScores, MaxFaults,      \* bounds
    NoAgent, NoContest

ASSUME ASAssumption ==
    /\ NoAgent \notin Agents /\ NoContest \notin Contests
    /\ MaxRule \in Nat \ {0} /\ MaxRuns \in Nat /\ MaxScores \in Nat /\ MaxFaults \in Nat
    /\ Composite \in [Outcomes -> [1..MaxRule -> Int]] /\ Unranked \in Int

VARIABLES
    rule,       \* SCORING_VERSION of the deployed code
    runs,       \* agent_runs, oldest first: [agent, outcome]
    scores,     \* agent_scores: [run, rule, at]
    clock,      \* scored_at of the newest score
    contest,    \* contests and contest_results: [status, rows]
    thread,     \* [op, pc, agent, run, todo, board, contest]
    faults,     \* history: blocks that raised and deaths
    unified,    \* history: has a rescoring ended under the present rule?
    overlapped  \* history: the rescorings and closings that ran into each other

vars == <<rule, runs, scores, clock, contest, thread, faults, unified, overlapped>>

RunIds == DOMAIN runs
RunRows == [agent : Agents, outcome : Outcomes]
ScoreRows == [run : Nat, rule : 1..MaxRule, at : Nat]
BoardRows == [agent : Agents, run : Nat]

Idle == [op |-> "none", pc |-> "idle", agent |-> NoAgent, run |-> 0,
         todo |-> {}, board |-> <<>>, contest |-> NoContest]

At(p, pc) == thread[p].pc = pc
Leave(p) == thread' = [thread EXCEPT ![p] = Idle]

Init ==
    /\ rule = 1 /\ runs = <<>> /\ scores = {} /\ clock = 0
    /\ contest = [c \in Contests |-> [status |-> "absent", rows |-> <<>>]]
    /\ thread = [p \in Threads |-> Idle]
    /\ faults = 0 /\ unified = TRUE /\ overlapped = {}

-----------------------------------------------------------------------------
(* A run: agent.run, record_run, record_score *)

StartRun(p, a) ==
    /\ At(p, "idle")
    /\ thread' = [thread EXCEPT ![p] = [Idle EXCEPT !.op = "run", !.pc = "record", !.agent = a]]
    /\ UNCHANGED <<rule, runs, scores, clock, contest, faults, unified, overlapped>>

\* Mutant of RecordRun: the score is recorded of the run before.
MutRecordRun(p, o) ==
    /\ At(p, "record") /\ Len(runs) < MaxRuns
    /\ runs' = Append(runs, [agent |-> thread[p].agent, outcome |-> o])
    /\ thread' = [thread EXCEPT ![p].pc = "score", ![p].run = Len(runs)]
    /\ UNCHANGED <<rule, scores, clock, contest, faults, unified, overlapped>>

\* The agent has come to an outcome; a failed run is one too.
RecordRun(p, o) ==
    /\ At(p, "record") /\ Len(runs) < MaxRuns
    /\ runs' = Append(runs, [agent |-> thread[p].agent, outcome |-> o])
    /\ thread' = [thread EXCEPT ![p].pc = "score", ![p].run = Len(runs) + 1]
    /\ UNCHANGED <<rule, scores, clock, contest, faults, unified, overlapped>>

\* The row record_score inserts.
NewScore(r) == [run |-> r, rule |-> rule, at |-> clock + 1]

RecordScore(p) ==
    /\ At(p, "score") /\ clock < MaxScores
    /\ scores' = scores \cup {NewScore(thread[p].run)}
    /\ clock' = clock + 1
    /\ Leave(p)
    /\ UNCHANGED <<rule, runs, contest, faults, unified, overlapped>>

-----------------------------------------------------------------------------
(* rescore_history *)

Rescoring(p) == thread[p].op = "rescore"

\* The recorded runs; a run or another rescoring under way is run into.
StartRescore(p) ==
    /\ At(p, "idle")
    /\ IF runs = <<>>
       THEN /\ unified' = TRUE
            /\ UNCHANGED <<thread, overlapped>>
       ELSE /\ thread' = [thread EXCEPT ![p] =
                             [Idle EXCEPT !.op = "rescore", !.pc = "delete", !.todo = RunIds]]
            /\ overlapped' = IF \E q \in Threads : At(q, "score") \/ Rescoring(q)
                             THEN overlapped \cup {"scores"} ELSE overlapped
            /\ UNCHANGED unified
    /\ UNCHANGED <<rule, runs, scores, clock, contest, faults>>

\* Mutants of ScoresWithout: nothing is deleted, so that scores accumulate; the
\* scores of the run's agent are deleted.
MutScoresWithout(r) == scores
MutScoresWithoutAgent(r) == {s \in scores : runs[s.run].agent # runs[r].agent}

\* DELETE FROM agent_scores WHERE run_id = ?
ScoresWithout(r) == {s \in scores : s.run # r}

\* The runs are taken in the order of started_at.
DeleteScores(p, r) ==
    /\ At(p, "delete")
    /\ r \in thread[p].todo /\ \A q \in thread[p].todo : r <= q
    /\ scores' = ScoresWithout(r)
    /\ thread' = [thread EXCEPT ![p].pc = "insert", ![p].run = r]
    /\ UNCHANGED <<rule, runs, clock, contest, faults, unified, overlapped>>

InsertScore(p) ==
    LET left == thread[p].todo \ {thread[p].run} IN
    /\ At(p, "insert") /\ clock < MaxScores
    /\ scores' = scores \cup {NewScore(thread[p].run)}
    /\ clock' = clock + 1
    /\ IF left = {}
       THEN Leave(p) /\ unified' = TRUE
       ELSE /\ thread' = [thread EXCEPT ![p].pc = "delete", ![p].todo = left]
            /\ UNCHANGED unified
    /\ UNCHANGED <<rule, runs, contest, faults, overlapped>>

-----------------------------------------------------------------------------
(* leaderboard, and ContestService *)

Agent(s) == runs[s.run].agent
Value(s) == Composite[runs[s.run].outcome][s.rule]

\* QUALIFY ROW_NUMBER() OVER (PARTITION BY agent_id ORDER BY scored_at DESC) = 1
Latest == {s \in scores : \A t \in scores : Agent(t) = Agent(s) => t.at <= s.at}

Rankable == {s \in Latest : Value(s) # Unranked}

\* The ranked half of the leaderboard, best first and equals in any order.
Rankings ==
    {b \in SeqOf(Rankable, MaxRuns) :
        /\ Rankable = {b[i] : i \in DOMAIN b}
        /\ \A i, j \in DOMAIN b : /\ b[i] = b[j] => i = j
                                  /\ i < j => Value(b[i]) >= Value(b[j])}

Rows(b) == [i \in DOMAIN b |-> [agent |-> Agent(b[i]), run |-> b[i].run]]

CreateContest(c) ==
    /\ contest[c].status = "absent"
    /\ contest' = [contest EXCEPT ![c].status = "open"]
    /\ UNCHANGED <<rule, runs, scores, clock, thread, faults, unified, overlapped>>

\* The endpoint reads the board before it calls close.
ReadLeaderboard(p, c) ==
    /\ At(p, "idle") /\ contest[c].status # "absent"
    /\ \E b \in Rankings : thread' = [thread EXCEPT ![p] =
          [Idle EXCEPT !.op = "close", !.pc = "get", !.board = Rows(b), !.contest = c]]
    /\ UNCHANGED <<rule, runs, scores, clock, contest, faults, unified, overlapped>>

\* Mutant of Closable: a closed contest is closed again.
MutClosable(c) == contest[c].status # "absent"

Closable(c) == contest[c].status # "closed"

\* Nothing asks whether closes_at has come.
GetContest(p) ==
    LET c == thread[p].contest IN
    /\ At(p, "get")
    /\ IF Closable(c)
       THEN /\ thread' = [thread EXCEPT ![p].pc = "close"]
            /\ overlapped' = IF \E q \in Threads : At(q, "close") /\ thread[q].contest = c
                             THEN overlapped \cup {"closings"} ELSE overlapped
       ELSE Leave(p) /\ UNCHANGED overlapped
    /\ UNCHANGED <<rule, runs, scores, clock, contest, faults, unified>>

WriteResults(p) ==
    LET c == thread[p].contest IN
    /\ At(p, "close")
    /\ contest' = [contest EXCEPT ![c] = [status |-> "closed", rows |-> @.rows \o thread[p].board]]
    /\ Leave(p)
    /\ UNCHANGED <<rule, runs, scores, clock, faults, unified, overlapped>>

-----------------------------------------------------------------------------
(* Faults.  The inserts of WriteResults are not one transaction.           *)

\* A block raises: its thread ends.
Raise(p) ==
    /\ ~At(p, "idle") /\ faults < MaxFaults
    /\ faults' = faults + 1
    /\ Leave(p)
    /\ UNCHANGED <<rule, runs, scores, clock, contest, unified, overlapped>>

\* The process dies, perhaps in the middle of closing a contest, and comes
\* back, perhaps with another scoring rule.
Restart ==
    /\ faults < MaxFaults
    /\ faults' = faults + 1
    /\ \/ UNCHANGED contest
       \/ \E p \in Threads : \E n \in 1..Len(thread[p].board) :
             /\ At(p, "close")
             /\ contest' = [contest EXCEPT ![thread[p].contest].rows =
                               @ \o SubSeq(thread[p].board, 1, n)]
    /\ thread' = [p \in Threads |-> Idle]
    /\ rule' \in {rule} \cup {v \in {rule + 1} : v <= MaxRule}
    /\ unified' = (unified /\ rule' = rule)
    /\ UNCHANGED <<runs, scores, clock, overlapped>>

-----------------------------------------------------------------------------
Step(p) ==
    \/ \E o \in Outcomes : RecordRun(p, o)
    \/ RecordScore(p)
    \/ \E r \in RunIds : DeleteScores(p, r)
    \/ InsertScore(p) \/ GetContest(p) \/ WriteResults(p)

Next ==
    \/ \E p \in Threads :
          \/ \E a \in Agents : StartRun(p, a)
          \/ \E c \in Contests : ReadLeaderboard(p, c)
          \/ StartRescore(p) \/ Step(p) \/ Raise(p)
    \/ \E c \in Contests : CreateContest(c)
    \/ Restart

Spec == Init /\ [][Next]_vars

-----------------------------------------------------------------------------
(* Properties *)

ThreadRecords ==
    [op : {"none", "run", "rescore", "close"},
     pc : {"idle", "record", "score", "delete", "insert", "get", "close"},
     agent : Agents \cup {NoAgent}, run : Nat, todo : SUBSET Nat,
     board : Seq(BoardRows), contest : Contests \cup {NoContest}]

\* The type invariant.  A score is of a recorded run.
TypeOK ==
    /\ rule \in 1..MaxRule
    /\ runs \in Seq(RunRows)
    /\ scores \subseteq ScoreRows
    /\ \A s \in scores : s.run \in RunIds /\ s.at <= clock
    /\ clock \in Nat
    /\ contest \in [Contests -> [status : {"absent", "open", "closed"}, rows : Seq(BoardRows)]]
    /\ thread \in [Threads -> ThreadRecords]
    /\ faults \in Nat /\ unified \in BOOLEAN /\ overlapped \subseteq {"scores", "closings"}

\* Is run r between two blocks of thread p, its score yet to come?
InHand(p, r) == thread[p].pc \in {"score", "insert"} /\ thread[p].run = r

\* As long as no block raises and no process dies, a recorded run has a score
\* or a thread about to insert it, however rescorings and runs interleave.
ScoresKept ==
    faults = 0 => \A r \in RunIds : \/ \E s \in scores : s.run = r
                                    \/ \E p \in Threads : InHand(p, r)

\* "One score per run under the current rule": so it is, unless a rescoring
\* began while another was under way or a run was between its two blocks.
OneScorePerRun ==
    "scores" \notin overlapped => \A s, t \in scores : s.run = t.run => s = t

\* Once a rescoring has come to its end, however many others it met, the
\* board does not mix rules until the rule changes again.
BoardUnderOneRule == unified => \A s \in scores : s.rule = rule

\* The scores of the leaderboard, however runs and rescorings interleave.
ScoresAreSound == TypeOK /\ ScoresKept /\ OneScorePerRun /\ BoardUnderOneRule

\* A closed contest ranks an agent once, if no process died and no two
\* closings of it overlapped: rows of two closings are never mixed.
RankedOnce ==
    faults = 0 /\ "closings" \notin overlapped =>
        \A c \in Contests : \A i, j \in DOMAIN contest[c].rows :
            contest[c].rows[i].agent = contest[c].rows[j].agent => i = j

\* "A closed contest is never rewritten."
ClosedContestIsFinal ==
    [][\A c \in Contests :
        contest[c].status = "closed" => contest'[c] = contest[c]]_vars
-----------------------------------------------------------------------------
(* The inductive invariants behind the proofs of AgentScoresProofs *)

\* Where a thread can be, and with what.
ThreadOK(p) ==
    /\ Rescoring(p) <=> thread[p].pc \in {"delete", "insert"}
    /\ At(p, "record") => thread[p].agent \in Agents
    /\ At(p, "score") => thread[p].run \in RunIds
    /\ Rescoring(p) => thread[p].todo \subseteq RunIds
    /\ At(p, "insert") => thread[p].run \in thread[p].todo
    /\ thread[p].pc \in {"get", "close"} => thread[p].contest \in Contests

\* What a rescoring has still to replace includes every score of another rule.
LeftoversAreTodo ==
    \A p \in Threads : Rescoring(p) =>
        \A s \in scores : s.rule # rule =>
            s.run \in thread[p].todo /\ (At(p, "insert") => s.run # thread[p].run)

\* Without overlaps, runs in the hands of threads are different, and unscored.
HandsApart ==
    "scores" \notin overlapped =>
        /\ \A p \in Threads : thread[p].pc \in {"score", "insert"} =>
              \A s \in scores : s.run # thread[p].run
        /\ \A p, q \in Threads :
              /\ Rescoring(p) /\ Rescoring(q) => p = q
              /\ Rescoring(p) /\ At(q, "score") => thread[q].run \notin thread[p].todo
              /\ At(p, "score") /\ At(q, "score") /\ thread[p].run = thread[q].run => p = q

\* No two scores have the same time.
TimesDiffer == \A s, t \in scores : s.at = t.at => s = t

\* A board lists an agent once.
BoardsRankOnce ==
    \A p \in Threads : \A i, j \in DOMAIN thread[p].board :
        thread[p].board[i].agent = thread[p].board[j].agent => i = j

\* Without faults and overlaps, results are written by one thread and once.
ClosingsApart ==
    faults = 0 /\ "closings" \notin overlapped =>
        /\ \A c \in Contests : contest[c].status # "closed" => contest[c].rows = <<>>
        /\ \A p \in Threads : At(p, "close") => contest[thread[p].contest].status # "closed"
        /\ \A p, q \in Threads :
              /\ At(p, "close") /\ At(q, "close") /\ thread[p].contest = thread[q].contest
              => p = q
=============================================================================
