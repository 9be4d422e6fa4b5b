--------------------------- MODULE StrategySpecs ---------------------------
(***************************************************************************)
(* Saved rule specs (CustomStrategyService): create, update, run and       *)
(* delete, each a sequence of database blocks of its own - read the spec,  *)
(* validate it, look for the feature datasets it needs, write - that       *)
(* threads interleave.  Feature datasets appear with imports (MarketData). *)
(* A spec's rules are what validate_rule_spec makes of them: supported or  *)
(* not.                                                                    *)
(***************************************************************************)
EXTENDS FiniteSets, Naturals

CONSTANTS
    Specs,          \* spec ids
    Editors,        \* requests served at a time
    FeatureSets,    \* feature datasets a spec may name
    NoSpec,
    MaxWrites       \* bound: specs created and updated

ASSUME SSAssumption ==
    NoSpec \notin [supported : BOOLEAN, needs : SUBSET FeatureSets] /\ MaxWrites \in Nat

VARIABLES
    specs,      \* custom_strategy_specs: the body, its status and its validation
    imported,   \* feature datasets that are in the catalogue and clean
    editor,     \* where each request stands and what it has read
    executed,   \* bodies that BacktestService.run was called with
    writes

specVars == <<specs, imported, editor, executed, writes>>

Bodies == [supported : BOOLEAN, needs : SUBSET FeatureSets]
Statuses == {"draft_executable", "requires_review"}

AtRest == [at |-> "idle", spec |-> NoSpec, body |-> NoSpec, missing |-> {}, was |-> {}]

SpecsInit ==
    /\ specs = [i \in Specs |-> NoSpec]
    /\ imported = {} /\ executed = {} /\ writes = 0
    /\ editor = [e \in Editors |-> AtRest]

\* Mutant of Missing: the feature datasets are not looked for.
MutMissing(b) == IF b.supported THEN {} ELSE {"rules"}

\* _validate_spec: unsupported primitives and feature datasets that are absent.
Missing(b) == (IF b.supported THEN {} ELSE {"rules"}) \union (b.needs \ imported)

StatusFor(missing) == IF missing = {} THEN "draft_executable" ELSE "requires_review"
Saved(b, missing) == [body |-> b, missing |-> missing, status |-> StatusFor(missing)]

\* An import of a feature dataset; one that is catalogued stays.
FeaturesAppear(d) ==
    /\ d \notin imported
    /\ imported' = imported \union {d}
    /\ UNCHANGED <<specs, editor, executed, writes>>

\* create_spec makes an id of its own; update_spec checks that it is there.
BeginSave(e, i, b, kind) ==
    /\ editor[e].at = "idle" /\ writes < MaxWrites
    /\ kind = "create" => specs[i] = NoSpec /\ \A o \in Editors : editor[o].spec # i
    /\ kind = "update" => specs[i] # NoSpec
    /\ writes' = writes + 1
    /\ editor' = [editor EXCEPT ![e] =
           [at |-> kind, spec |-> i, body |-> b, missing |-> Missing(b), was |-> {}]]
    /\ UNCHANGED <<specs, imported, executed>>

\* The INSERT, or the UPDATE, which touches no row if the spec is gone.
Save(e) ==
    /\ editor[e].at \in {"create", "update"}
    /\ specs' = [specs EXCEPT ![editor[e].spec] =
           IF editor[e].at = "update" /\ @ = NoSpec THEN NoSpec
           ELSE Saved(editor[e].body, editor[e].missing)]
    /\ editor' = [editor EXCEPT ![e] = AtRest]
    /\ UNCHANGED <<imported, executed, writes>>

DeleteSpec(i) ==
    /\ specs[i] # NoSpec
    /\ specs' = [specs EXCEPT ![i] = NoSpec]
    /\ UNCHANGED <<imported, editor, executed, writes>>

\* run_backtest reads the spec with the validation that is stored with it.
BeginRun(e, i) ==
    /\ editor[e].at = "idle" /\ specs[i] # NoSpec
    /\ editor' = [editor EXCEPT ![e] = [AtRest EXCEPT
           !.at = "validate", !.spec = i, !.body = specs[i].body, !.was = specs[i].missing]]
    /\ UNCHANGED <<specs, imported, executed, writes>>

Validate(e) ==
    /\ editor[e].at = "validate"
    /\ editor' = [editor EXCEPT ![e].missing = Missing(editor[e].body),
           ![e].at = IF Missing(editor[e].body) # editor[e].was THEN "refresh" ELSE "run"]
    /\ UNCHANGED <<specs, imported, executed, writes>>

\* _refresh_validation: by id, whatever the row's body is by now.
RefreshValidation(e) ==
    /\ editor[e].at = "refresh"
    /\ specs' = [specs EXCEPT ![editor[e].spec] =
           IF @ = NoSpec THEN NoSpec ELSE Saved(@.body, editor[e].missing)]
    /\ editor' = [editor EXCEPT ![e].at = "run"]
    /\ UNCHANGED <<imported, executed, writes>>

\* Mutant of Executable: the row's status is asked instead.
MutExecutable(e) ==
    specs[editor[e].spec] # NoSpec /\ specs[editor[e].spec].status = "draft_executable"

Executable(e) == editor[e].missing = {}

RunSpec(e) ==
    /\ editor[e].at = "run"
    /\ executed' = IF Executable(e) THEN executed \union {editor[e].body} ELSE executed
    /\ editor' = [editor EXCEPT ![e] = AtRest]
    /\ UNCHANGED <<specs, imported, writes>>

SpecsNext ==
    \/ \E d \in FeatureSets : FeaturesAppear(d)
    \/ \E i \in Specs : DeleteSpec(i)
    \/ \E e \in Editors :
           \/ Save(e) \/ Validate(e) \/ RefreshValidation(e) \/ RunSpec(e)
           \/ \E i \in Specs : BeginRun(e, i)
           \/ \E i \in Specs, b \in Bodies, kind \in {"create", "update"} :
                  BeginSave(e, i, b, kind)

SpecsSpec == SpecsInit /\ [][SpecsNext]_specVars

-----------------------------------------------------------------------------
(* Properties *)

\* Unsupported primitives are never executed, and no strategy runs before the
\* features it reads are imported - whatever was saved, refreshed or deleted
\* between the blocks of the request that runs it.
OnlySupportedSpecsRun ==
    /\ \A i \in Specs : specs[i] # NoSpec => specs[i].status \in Statuses
    /\ \A b \in executed : b.supported /\ b.needs \subseteq imported

\* custom_strategy_service.py:93: unsupported primitives remain
\* requires_review.  It does not hold: a run that read the spec before an
\* update writes the validation of the old body over the row of the new one.
UnsupportedStayInReview ==
    \A i \in Specs : specs[i] # NoSpec =>
        (~specs[i].body.supported => specs[i].status = "requires_review")
=============================================================================
