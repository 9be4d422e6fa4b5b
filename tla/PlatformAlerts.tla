--------------------------- MODULE PlatformAlerts ---------------------------
(***************************************************************************)
(* What the platform notices: operational alerts (alert_service.py) and    *)
(* the user's technical watches and price alerts (watch_service.py,        *)
(* price_alert_service.py).  Evaluations are run by the scheduler, by      *)
(* endpoints and from the chat, and overlap.                               *)
(***************************************************************************)
EXTENDS Integers, Sequences, FiniteSets, FiniteSetsExt, SequencesExt

CONSTANTS
    AlertRules,         \* rule keys; BackupRule is read from the backup files
    BackupRule,
    Evaluators,         \* threads that evaluate
    WatchKeys,          \* conditions a user may watch, all on one symbol
    MaxListed,          \* rows evaluate looks at (200)
    MaxAlerts, MaxRows, MaxShifts   \* bounds

ASSUME PAAssumption ==
    IsFiniteSet(AlertRules) /\ BackupRule \in AlertRules /\ MaxListed \in Nat /\ MaxShifts \in Nat

VARIABLES
    trouble,        \* rules over their threshold, as the tables and files are
    alerts,         \* operational_alerts, oldest first
    evaluation,     \* alert evaluations under way
    lastSeen,       \* history: what the last evaluation to commit had observed
    watches,        \* technical_watches and price_alerts, by age
    check,          \* watch evaluations under way: the ids listed
    met,            \* conditions the market meets
    shifts          \* bound: changes of the world

alertVars == <<trouble, alerts, evaluation, lastSeen>>
watchVars == <<watches, check, met>>
noticeVars == <<alertVars, watchVars, shifts>>

NotEvaluating == [pc |-> "idle", seen |-> {}]
NotChecking == [pc |-> "idle", listed |-> {}]
Kinds == {"watch", "price_alert"}

AlertTypeOK ==
    /\ trouble \subseteq AlertRules /\ lastSeen \subseteq AlertRules
    /\ alerts \in Seq([rule : AlertRules, status : {"active", "acknowledged", "resolved"}])
    /\ evaluation \in [Evaluators -> [pc : {"idle", "backups", "commit"}, seen : SUBSET AlertRules]]
    /\ check \in [Evaluators -> [pc : {"idle", "checking"}, listed : SUBSET Nat]]
    /\ \A p \in Evaluators : check[p].listed \subseteq DOMAIN watches
    /\ watches \in Seq([kind : Kinds, key : WatchKeys, status : {"active", "triggered", "removed"},
                        value : {"unread", "met", "unmet"}])
    /\ met \subseteq WatchKeys /\ shifts \in 0..MaxShifts

AlertInit ==
    /\ trouble = {} /\ alerts = <<>> /\ lastSeen = {}
    /\ evaluation = [p \in Evaluators |-> NotEvaluating]
    /\ watches = <<>> /\ met = {}
    /\ check = [p \in Evaluators |-> NotChecking]
    /\ shifts = 0

(***************************************************************************)
(* AlertService.evaluate: the tables, then the backup files, then one      *)
(* transaction over the rules.                                             *)
(***************************************************************************)
ObserveTables(p) ==
    /\ evaluation[p].pc = "idle"
    /\ evaluation' = [evaluation EXCEPT ![p] = [pc |-> "backups", seen |-> trouble \ {BackupRule}]]
    /\ UNCHANGED <<trouble, alerts, lastSeen, watchVars, shifts>>

ObserveBackups(p) ==
    /\ evaluation[p].pc = "backups"
    /\ evaluation' = [evaluation EXCEPT ![p] = [pc |-> "commit", seen |-> @.seen \cup (trouble \cap {BackupRule})]]
    /\ UNCHANGED <<trouble, alerts, lastSeen, watchVars, shifts>>

MutOpen(a) == a.status = "active"
Open(a) == a.status \in {"active", "acknowledged"}

\* The newest open alert of a rule, where there is one.
Current(rule) ==
    LET open == {i \in DOMAIN alerts : alerts[i].rule = rule /\ Open(alerts[i])}
    IN IF open = {} THEN {} ELSE {Max(open)}

Missing(seen) == {rule \in seen : Current(rule) = {}}
MutResolved(seen) == {i \in UNION {Current(rule) : rule \in AlertRules \ seen} : alerts[i].status = "active"}
Resolved(seen) == UNION {Current(rule) : rule \in AlertRules \ seen}

\* Seen and open already: the observed value and the message are refreshed.
CommitEvaluation(p) ==
    /\ evaluation[p].pc = "commit"
    /\ LET seen == evaluation[p].seen
           kept == [i \in DOMAIN alerts |-> IF i \in Resolved(seen) THEN [alerts[i] EXCEPT !.status = "resolved"]
                                            ELSE alerts[i]]
           new == [i \in 1..Cardinality(Missing(seen)) |-> [rule |-> SetToSeq(Missing(seen))[i], status |-> "active"]]
       IN /\ Len(alerts) + Len(new) <= MaxAlerts
          /\ alerts' = kept \o new
          /\ lastSeen' = seen
    /\ evaluation' = [evaluation EXCEPT ![p] = NotEvaluating]
    /\ UNCHANGED <<trouble, watchVars, shifts>>

\* A block raises, or the process of the evaluation dies: nothing was written.
AbandonEvaluation(p) ==
    /\ evaluation[p].pc # "idle"
    /\ evaluation' = [evaluation EXCEPT ![p] = NotEvaluating]
    /\ UNCHANGED <<trouble, alerts, lastSeen, watchVars, shifts>>

MutAcknowledgeable(i) == alerts[i].status # "acknowledged"
Acknowledgeable(i) == alerts[i].status = "active"

Acknowledge(i) ==
    /\ Acknowledgeable(i)
    /\ alerts' = [alerts EXCEPT ![i].status = "acknowledged"]
    /\ UNCHANGED <<trouble, evaluation, lastSeen, watchVars, shifts>>

\* An order is left uncertain, a task fails, a backup ages; or the reverse.
TroubleShifts(rule) ==
    /\ shifts < MaxShifts /\ shifts' = shifts + 1
    /\ trouble' = IF rule \in trouble THEN trouble \ {rule} ELSE trouble \cup {rule}
    /\ UNCHANGED <<alerts, evaluation, lastSeen, watchVars>>

(***************************************************************************)
(* WatchService and PriceAlertService                                      *)
(***************************************************************************)
MutWatching(key) == \E i \in DOMAIN watches : watches[i].kind = "watch" /\ watches[i].key = key /\ watches[i].value = "unread"
Watching(key) == \E i \in DOMAIN watches : watches[i].kind = "watch" /\ watches[i].key = key /\ watches[i].status = "active"

\* A repeated watch is answered with the one there is; a repeated price alert is not.
CreateWatch(kind, key) ==
    /\ Len(watches) < MaxRows
    /\ ~(kind = "watch" /\ Watching(key))
    /\ watches' = Append(watches, [kind |-> kind, key |-> key, status |-> "active", value |-> "unread"])
    /\ UNCHANGED <<alertVars, check, met, shifts>>

RemoveWatch(i) ==
    /\ watches[i].kind = "watch" /\ watches[i].status # "removed"
    /\ watches' = [watches EXCEPT ![i].status = "removed"]
    /\ UNCHANGED <<alertVars, check, met, shifts>>

\* remove: whatever watches the symbol has.
RemoveSymbol ==
    /\ \E i \in DOMAIN watches : watches[i].kind = "watch" /\ watches[i].status # "removed"
    /\ watches' = [i \in DOMAIN watches |-> IF watches[i].kind = "watch" THEN [watches[i] EXCEPT !.status = "removed"]
                                            ELSE watches[i]]
    /\ UNCHANGED <<alertVars, check, met, shifts>>

\* list: the newest rows of the table, triggered ones too; evaluate keeps the active.
Rows(kind) == {i \in DOMAIN watches : watches[i].kind = kind /\ watches[i].status # "removed"}
Newest(kind) == {i \in Rows(kind) : Cardinality({j \in Rows(kind) : j > i}) < MaxListed}
ActiveListed(kind) == {i \in Newest(kind) : watches[i].status = "active"}

ListWatches(p, kind) ==
    /\ check[p].pc = "idle"
    /\ check' = [check EXCEPT ![p] = [pc |-> "checking", listed |-> ActiveListed(kind)]]
    /\ UNCHANGED <<alertVars, watches, met, shifts>>

MutChecked(i, unread) ==
    LET w == watches[i]
    IN IF w.key \in unread THEN w
       ELSE IF w.key \in met THEN [w EXCEPT !.status = "triggered", !.value = "met"]
            ELSE [w EXCEPT !.value = "unmet", !.status = "active"]

\* The rows are updated by their id while the database is locked; what has no data is
\* passed over, and a row that is gone stays gone.
Checked(i, unread) ==
    LET w == watches[i]
    IN IF w.status = "removed" \/ w.key \in unread THEN w
       ELSE IF w.key \in met THEN [w EXCEPT !.status = "triggered", !.value = "met"]
            ELSE [w EXCEPT !.value = "unmet"]

CheckWatches(p) ==
    /\ check[p].pc = "checking"
    /\ \E unread \in SUBSET WatchKeys :
          watches' = [i \in DOMAIN watches |-> IF i \in check[p].listed THEN Checked(i, unread) ELSE watches[i]]
    /\ check' = [check EXCEPT ![p] = NotChecking]
    /\ UNCHANGED <<alertVars, met, shifts>>

MarketShifts(key) ==
    /\ shifts < MaxShifts /\ shifts' = shifts + 1
    /\ met' = IF key \in met THEN met \ {key} ELSE met \cup {key}
    /\ UNCHANGED <<alertVars, watches, check>>

AlertNext ==
    \/ \E p \in Evaluators : ObserveTables(p) \/ ObserveBackups(p) \/ CommitEvaluation(p) \/ AbandonEvaluation(p)
    \/ \E i \in DOMAIN alerts : Acknowledge(i)
    \/ \E rule \in AlertRules : TroubleShifts(rule)

WatchNext ==
    \/ \E kind \in Kinds, key \in WatchKeys : CreateWatch(kind, key)
    \/ (\E i \in DOMAIN watches : RemoveWatch(i)) \/ RemoveSymbol
    \/ \E p \in Evaluators : (\E kind \in Kinds : ListWatches(p, kind)) \/ CheckWatches(p)
    \/ \E key \in WatchKeys : MarketShifts(key)

\* The tables are apart: a behaviour moves the alerts or the watches.
AlertSpec == AlertInit /\ [][AlertNext \/ WatchNext]_noticeVars

(***************************************************************************)
(* Properties                                                              *)
(***************************************************************************)
\* Evaluations overlap and alerts are acknowledged between their blocks, and still
\* the open alerts are, one for each, the rules that the last evaluation to commit
\* had found violated; and nobody is watched twice for the same condition.
OpenAlertsAreObserved ==
    /\ {alerts[i].rule : i \in {j \in DOMAIN alerts : alerts[j].status # "resolved"}} = lastSeen
    /\ \A i, j \in DOMAIN alerts : alerts[i].status # "resolved" /\ alerts[j].status # "resolved"
                                     /\ alerts[i].rule = alerts[j].rule => i = j
    /\ \A i, j \in DOMAIN watches : watches[i].status = "active" /\ watches[j].status = "active"
                                      /\ watches[i].kind = "watch" /\ watches[j].kind = "watch"
                                      /\ watches[i].key = watches[j].key => i = j

\* The tables are well formed and say what was observed.
AlertsAreTrue == AlertTypeOK /\ OpenAlertsAreObserved

\* What a step may do to the rows of the two tables.
AlertsMoveOn == \A i \in DOMAIN alerts : /\ alerts[i].status = "resolved" => alerts'[i].status = "resolved"
                                         /\ alerts[i].status = "acknowledged" => alerts'[i].status # "active"
WatchesMoveOn == \A i \in DOMAIN watches : /\ watches[i].status = "triggered" => watches'[i].status # "active"
                                           /\ watches[i].status = "removed" => watches'[i].status = "removed"

\* Whatever an overlapping evaluation remembers of it, a resolved alert stays resolved
\* and an acknowledgement is never taken back; a watch that fired does not become
\* active again and one that was removed does not come back.
NoticesOnlyMoveOn == [][AlertsMoveOn /\ WatchesMoveOn]_noticeVars
=============================================================================
