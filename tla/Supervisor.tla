---------------------------- MODULE Supervisor ----------------------------
(***************************************************************************)
(* The platform watching itself: supervisor_service.py, whose sweeps (the  *)
(* scheduled one and POST /supervisor/sweep) re-run agents and flag what   *)
(* moved.  Every read and every write of a sweep is a block of its own;    *)
(* DailyDigest reads the flags back.                                       *)
(***************************************************************************)
EXTENDS Integers, Sequences, FiniteSets, SequencesExt

CONSTANTS
    Sweepers,
    SweptAgents,        \* sequence: the agents a sweep re-runs, in its order
    Datasets,           \* sequence: data_catalog by dataset_id
    Composites,         \* scores a run may get
    NoComposite,        \* composite of an inconclusive run
    Market,             \* the symbol whose regime is checked
    MaxHistory, MaxFindings, MaxSweepFaults     \* bounds

ASSUME SuperAssumption ==
    /\ SweptAgents \in Seq(ToSet(SweptAgents)) /\ Datasets \in Seq(ToSet(Datasets))
    /\ ToSet(SweptAgents) \cap ToSet(Datasets) = {} /\ Market \notin ToSet(SweptAgents)
    /\ MaxSweepFaults \in Nat

VARIABLES
    history,    \* composites of agent_scores, by agent and time
    findings,   \* supervisor_findings by finding_id
    sweep,      \* the sweeps under way
    dataset,    \* what an assessment would say of a dataset
    refreshJobs,\* the job refresh_<dataset>: none, due, or run
    sweepFaults

superVars == <<history, findings, sweep, dataset, refreshJobs, sweepFaults>>

Swept == ToSet(SweptAgents)
DataIds == ToSet(Datasets)
Scores == Composites \cup {NoComposite}

NoPair == <<>>
Findings == [kind : {"regime_shift", "became_inconclusive", "score_improved", "score_degraded",
                     "data_stale", "data_unassessable"},
             about : Swept \cup DataIds \cup {Market}, pair : Seq(Scores), queued : BOOLEAN, open : BOOLEAN]

NoSweep == [pc |-> "idle", todo |-> <<>>, rows |-> [a \in Swept |-> NoPair], queued |-> FALSE]

SuperTypeOK ==
    /\ history \in [Swept -> Seq(Scores)]
    /\ \A i \in DOMAIN findings : i \in 1..MaxFindings /\ findings[i] \in Findings
    /\ \A p \in Sweepers :
          /\ sweep[p].pc \in {"idle", "regime", "run", "scores", "drift", "catalog", "assess", "register", "stale"}
          /\ ToSet(sweep[p].todo) \subseteq Swept \cup DataIds
          /\ sweep[p].rows \in [Swept -> Seq(Scores)]
    /\ dataset \in [DataIds -> {"fresh", "stale"}]
    /\ refreshJobs \in [DataIds -> {"none", "due", "run"}]
    /\ sweepFaults \in 0..MaxSweepFaults

SuperInit ==
    /\ history = [a \in Swept |-> <<>>]
    /\ findings = <<>>
    /\ sweep = [p \in Sweepers |-> NoSweep]
    /\ dataset = [d \in DataIds |-> "fresh"]
    /\ refreshJobs = [d \in DataIds |-> "none"]
    /\ sweepFaults = 0

SweepAt(p, pc) == sweep[p].pc = pc
Moves(p, s) == sweep' = [sweep EXCEPT ![p] = s]
Next1(p) == Head(sweep[p].todo)
Done1(p) == [sweep[p] EXCEPT !.todo = Tail(@)]

(***************************************************************************)
(* _record: the open finding of the kind gives way to the new one.         *)
(***************************************************************************)
SameOpen(f, kind, about) == f.open /\ f.kind = kind /\ f.about = about
MutWithout(kind, about) ==
    [i \in {j \in DOMAIN findings : ~(findings[j].open /\ findings[j].about = about)} |-> findings[i]]
MutWithoutOpen(kind, about) == findings
Without(kind, about) ==
    [i \in {j \in DOMAIN findings : ~SameOpen(findings[j], kind, about)} |-> findings[i]]

FreeIds == 1..MaxFindings \ DOMAIN findings

Record(kind, about, pair, queued) ==
    LET kept == Without(kind, about)
        id == CHOOSE i \in FreeIds : TRUE
        new == [kind |-> kind, about |-> about, pair |-> pair, queued |-> queued, open |-> TRUE]
    IN /\ FreeIds # {}
       /\ findings' = [i \in DOMAIN kept \cup {id} |-> IF i = id THEN new ELSE kept[i]]

(***************************************************************************)
(* sweep: the regime, the agents, their drift, the data.                   *)
(***************************************************************************)
StartSweep(p) ==
    /\ SweepAt(p, "idle")
    /\ Moves(p, [NoSweep EXCEPT !.pc = "regime"])
    /\ UNCHANGED <<history, findings, dataset, refreshJobs, sweepFaults>>

\* detect_regime_shift compares volatilities; either outcome is possible.
CheckRegime(p) ==
    /\ SweepAt(p, "regime")
    /\ Moves(p, [sweep[p] EXCEPT !.pc = "run", !.todo = SweptAgents])
    /\ UNCHANGED findings \/ Record("regime_shift", Market, NoPair, FALSE)
    /\ UNCHANGED <<history, dataset, refreshJobs, sweepFaults>>

\* A run that raises is only listed in the sweep's answer.
RunAgent(p) ==
    /\ SweepAt(p, "run") /\ sweep[p].todo # <<>>
    /\ Moves(p, Done1(p))
    /\ \/ UNCHANGED history
       \/ \E v \in Scores : /\ Len(history[Next1(p)]) < MaxHistory
                            /\ history' = [history EXCEPT ![Next1(p)] = Append(@, v)]
    /\ UNCHANGED <<findings, dataset, refreshJobs, sweepFaults>>

\* The latest two scores of every agent.
LatestPair(h) == IF Len(h) < 2 THEN NoPair ELSE <<h[Len(h) - 1], h[Len(h)]>>

ReadScores(p) ==
    /\ SweepAt(p, "run") /\ sweep[p].todo = <<>>
    /\ Moves(p, [sweep[p] EXCEPT !.pc = "drift", !.todo = SweptAgents,
                                 !.rows = [a \in Swept |-> LatestPair(history[a])]])
    /\ UNCHANGED <<history, findings, dataset, refreshJobs, sweepFaults>>

Distance(x, y) == IF x < y THEN y - x ELSE x - y

\* A quarter of the old score; anything at all where that was zero.
Material(old, new) == old # new /\ 4 * Distance(old, new) >= Distance(old, 0)

Drift(pair) ==
    CASE pair = NoPair -> "none"
      [] pair # NoPair /\ pair[2] = NoComposite -> IF pair[1] = NoComposite THEN "none" ELSE "became_inconclusive"
      [] pair # NoPair /\ pair[2] # NoComposite /\ pair[1] = NoComposite -> "none"
      [] OTHER -> IF Material(pair[1], pair[2])
                  THEN IF pair[2] > pair[1] THEN "score_improved" ELSE "score_degraded"
                  ELSE "none"

\* One agent of detect_drift.
FlagDrift(p) ==
    /\ SweepAt(p, "drift") /\ sweep[p].todo # <<>>
    /\ Moves(p, Done1(p))
    /\ LET pair == sweep[p].rows[Next1(p)]
       IN IF Drift(pair) = "none" THEN UNCHANGED findings ELSE Record(Drift(pair), Next1(p), pair, FALSE)
    /\ UNCHANGED <<history, dataset, refreshJobs, sweepFaults>>

ReadCatalog(p) ==
    /\ SweepAt(p, "drift") /\ sweep[p].todo = <<>>
    /\ Moves(p, [sweep[p] EXCEPT !.pc = "assess", !.todo = Datasets])
    /\ UNCHANGED <<history, findings, dataset, refreshJobs, sweepFaults>>

\* FreshnessService.assess records what it finds; a dataset it cannot assess is a
\* finding too.
AssessData(p) ==
    /\ SweepAt(p, "assess") /\ sweep[p].todo # <<>>
    /\ \/ /\ Moves(p, IF dataset[Next1(p)] = "stale" THEN [sweep[p] EXCEPT !.pc = "register"] ELSE Done1(p))
          /\ UNCHANGED findings
       \/ /\ Record("data_unassessable", Next1(p), NoPair, FALSE)
          /\ Moves(p, Done1(p))
    /\ UNCHANGED <<history, dataset, refreshJobs, sweepFaults>>

\* enqueue_refresh registers a job, or raises and the dataset is flagged anyway.
EnqueueRefresh(p) ==
    /\ SweepAt(p, "register")
    /\ \/ /\ refreshJobs' = [refreshJobs EXCEPT ![Next1(p)] = IF @ = "none" THEN "due" ELSE @]
          /\ Moves(p, [sweep[p] EXCEPT !.pc = "stale", !.queued = TRUE])
       \/ /\ Moves(p, [sweep[p] EXCEPT !.pc = "stale", !.queued = FALSE]) /\ UNCHANGED refreshJobs
    /\ UNCHANGED <<history, findings, dataset, sweepFaults>>

FlagStale(p) ==
    /\ SweepAt(p, "stale")
    /\ Record("data_stale", Next1(p), NoPair, sweep[p].queued)
    /\ Moves(p, [Done1(p) EXCEPT !.pc = "assess"])
    /\ UNCHANGED <<history, dataset, refreshJobs, sweepFaults>>

EndSweep(p) ==
    /\ SweepAt(p, "assess") /\ sweep[p].todo = <<>>
    /\ Moves(p, NoSweep)
    /\ UNCHANGED <<history, findings, dataset, refreshJobs, sweepFaults>>

SweepStep(p) ==
    \/ CheckRegime(p) \/ RunAgent(p) \/ ReadScores(p) \/ FlagDrift(p) \/ ReadCatalog(p)
    \/ AssessData(p) \/ EnqueueRefresh(p) \/ FlagStale(p) \/ EndSweep(p)

(***************************************************************************)
(* Around the sweeps.                                                      *)
(***************************************************************************)
\* An agent is run by someone else.
RunElsewhere(a, v) ==
    /\ Len(history[a]) < MaxHistory
    /\ history' = [history EXCEPT ![a] = Append(@, v)]
    /\ UNCHANGED <<findings, sweep, dataset, refreshJobs, sweepFaults>>

AcknowledgeFinding(i) ==
    /\ findings' = [findings EXCEPT ![i].open = FALSE]
    /\ UNCHANGED <<history, sweep, dataset, refreshJobs, sweepFaults>>

DataAges(d) ==
    /\ dataset[d] = "fresh"
    /\ dataset' = [dataset EXCEPT ![d] = "stale"]
    /\ UNCHANGED <<history, findings, sweep, refreshJobs, sweepFaults>>

\* Someone imports new history.
DataArrives(d) ==
    /\ dataset[d] = "stale"
    /\ dataset' = [dataset EXCEPT ![d] = "fresh"]
    /\ UNCHANGED <<history, findings, sweep, refreshJobs, sweepFaults>>

\* A job refresh_<dataset> is of type freshness_sweep: it assesses every dataset, and
\* is due again when its time comes.
RunRefreshJob(d) ==
    /\ refreshJobs[d] = "due"
    /\ refreshJobs' = [refreshJobs EXCEPT ![d] = "run"]
    /\ UNCHANGED <<history, findings, sweep, dataset, sweepFaults>>

RefreshJobDue(d) ==
    /\ refreshJobs[d] = "run"
    /\ refreshJobs' = [refreshJobs EXCEPT ![d] = "due"]
    /\ UNCHANGED <<history, findings, sweep, dataset, sweepFaults>>

\* A block raises outside the guarded calls: the sweep is over.
SweepRaises(p) ==
    /\ ~SweepAt(p, "idle")
    /\ sweepFaults < MaxSweepFaults /\ sweepFaults' = sweepFaults + 1
    /\ Moves(p, NoSweep)
    /\ UNCHANGED <<history, findings, dataset, refreshJobs>>

\* The process dies, perhaps between the DELETE and the INSERT of _record.
PlatformDies ==
    /\ sweepFaults < MaxSweepFaults /\ sweepFaults' = sweepFaults + 1
    /\ \/ UNCHANGED findings
       \/ \E p \in Sweepers :
             /\ SweepAt(p, "drift") /\ sweep[p].todo # <<>>
             /\ findings' = Without(Drift(sweep[p].rows[Next1(p)]), Next1(p))
    /\ sweep' = [p \in Sweepers |-> NoSweep]
    /\ UNCHANGED <<history, dataset, refreshJobs>>

SuperNext ==
    \/ \E p \in Sweepers : StartSweep(p) \/ SweepStep(p) \/ SweepRaises(p)
    \/ \E a \in Swept, v \in Scores : RunElsewhere(a, v)
    \/ \E i \in DOMAIN findings : findings[i].open /\ AcknowledgeFinding(i)
    \/ \E d \in DataIds : DataAges(d) \/ DataArrives(d) \/ RunRefreshJob(d) \/ RefreshJobDue(d)
    \/ PlatformDies

SuperSpec == SuperInit /\ [][SuperNext]_superVars

\* The scheduler gives every sweep and every registered job its turn.
SuperFairness ==
    /\ \A p \in Sweepers : WF_superVars(SweepStep(p))
    /\ \A d \in DataIds : WF_superVars(RunRefreshJob(d))

(***************************************************************************)
(* Properties                                                              *)
(***************************************************************************)
\* "One open finding of a kind per agent", whatever sweeps overlap and whatever is
\* acknowledged between them; and a finding about a score quotes two scores that
\* followed each other.
FindingsAreSound ==
    /\ \A i, j \in DOMAIN findings :
          findings[i].open /\ SameOpen(findings[j], findings[i].kind, findings[i].about) => i = j
    /\ \A i \in DOMAIN findings : findings[i].about \in Swept =>
          /\ Drift(findings[i].pair) = findings[i].kind
          /\ \E n \in 2..Len(history[findings[i].about]) :
                findings[i].pair = <<history[findings[i].about][n - 1], history[findings[i].about][n]>>

\* A sweep that is through with its agents has left a finding for each that moved,
\* also when another sweep replaced it or someone acknowledged it since.
SweptDriftIsFlagged ==
    \A p \in Sweepers : SweepAt(p, "assess") \/ SweepAt(p, "register") \/ SweepAt(p, "stale") =>
        \A a \in Swept : LET kind == Drift(sweep[p].rows[a])
                          IN kind # "none" => \E i \in DOMAIN findings : findings[i].about = a /\ findings[i].kind = kind

\* The supervisor's findings can be relied on, whatever sweeps overlap.
FindingsAreReliable == SuperTypeOK /\ FindingsAreSound /\ SweptDriftIsFlagged

\* A refresh the supervisor says it queued brings the data.
QueuedRefreshArrives ==
    \A d \in DataIds :
        (\E i \in DOMAIN findings : findings[i].kind = "data_stale" /\ findings[i].about = d /\ findings[i].queued)
            ~> dataset[d] = "fresh"
=============================================================================
