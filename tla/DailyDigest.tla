---------------------------- MODULE DailyDigest ----------------------------
(***************************************************************************)
(* daily_digest_service.py: one brief out of the supervisor's findings,    *)
(* which come and are acknowledged while it is being put together.         *)
(***************************************************************************)
EXTENDS Naturals, Sequences

CONSTANTS
    Window,         \* findings list_findings looks at (200 for a digest)
    MaxFlags,       \* bound: findings ever recorded
    MaxUnread       \* bound: readings that raise

ASSUME DigestAssumption == Window \in Nat /\ MaxFlags \in Nat /\ MaxUnread \in Nat

VARIABLES
    flags,          \* supervisor_findings, oldest first: [kind, open]
    digest,         \* the digest being generated, or the last one
    unreads

digestVars == <<flags, digest, unreads>>

Staleness == {"data_stale", "data_unassessable"}
BadNews == {"score_degraded", "became_inconclusive", "regime_shift"}
Interesting == BadNews \cup {"score_improved"}
FlagKinds == Interesting \cup Staleness

\* before is history: the bad news open when the digest was begun.
NoDigest == [pc |-> "idle", changed |-> FALSE, stale |-> FALSE, degraded |-> FALSE, unread |-> FALSE,
             headline |-> "none", before |-> {}]

DigestTypeOK ==
    /\ flags \in Seq([kind : FlagKinds, open : BOOLEAN])
    /\ digest \in [pc : {"idle", "changed", "stale", "degraded", "write", "done"},
                   changed : BOOLEAN, stale : BOOLEAN, degraded : BOOLEAN, unread : BOOLEAN,
                   headline : {"none", "degraded", "stale", "none of them bad", "nothing to report"},
                   before : SUBSET Nat]
    /\ digest.before \subseteq DOMAIN flags
    /\ unreads \in 0..MaxUnread

DigestInit == flags = <<>> /\ digest = NoDigest /\ unreads = 0

\* The supervisor's _record and acknowledge.
Flag(kind) ==
    /\ Len(flags) < MaxFlags
    /\ flags' = Append(flags, [kind |-> kind, open |-> TRUE])
    /\ UNCHANGED <<digest, unreads>>

AcknowledgeFlag(i) ==
    /\ flags[i].open
    /\ flags' = [flags EXCEPT ![i].open = FALSE]
    /\ UNCHANGED <<digest, unreads>>

\* list_findings: of the newest ones those still open.
Listed == {i \in DOMAIN flags : i + Window > Len(flags) /\ flags[i].open}
AnyListed(kinds) == \E i \in Listed : flags[i].kind \in kinds

(***************************************************************************)
(* generate: three sections, each with a reading of its own.               *)
(***************************************************************************)
StartDigest ==
    /\ digest.pc \in {"idle", "done"}
    /\ digest' = [NoDigest EXCEPT !.pc = "changed",
                  !.before = {i \in DOMAIN flags : flags[i].open /\ flags[i].kind \in BadNews}]
    /\ UNCHANGED <<flags, unreads>>

\* _findings answers with no findings when the reading raises.
ReadSection(pc, read) ==
    /\ digest.pc = pc
    /\ \/ digest' = read /\ UNCHANGED unreads
       \/ /\ unreads < MaxUnread /\ unreads' = unreads + 1
          /\ digest' = [digest EXCEPT !.pc = read.pc, !.unread = TRUE]
    /\ UNCHANGED flags

WhatChanged == ReadSection("changed", [digest EXCEPT !.pc = "stale", !.changed = AnyListed(Interesting)])
WhatsStale == ReadSection("stale", [digest EXCEPT !.pc = "degraded", !.stale = AnyListed(Staleness)])
MutWhatDegraded ==
    ReadSection("degraded", [digest EXCEPT !.pc = "write", !.degraded = AnyListed({"score_degraded", "regime_shift"})])
WhatDegraded == ReadSection("degraded", [digest EXCEPT !.pc = "write", !.degraded = AnyListed(BadNews)])

Headline ==
    CASE digest.degraded -> "degraded"
      [] ~digest.degraded /\ digest.stale -> "stale"
      [] ~digest.degraded /\ ~digest.stale /\ digest.changed -> "none of them bad"
      [] OTHER -> "nothing to report"

WriteDigest ==
    /\ digest.pc = "write"
    /\ digest' = [digest EXCEPT !.pc = "done", !.headline = Headline]
    /\ UNCHANGED <<flags, unreads>>

DigestNext ==
    \/ \E kind \in FlagKinds : Flag(kind)
    \/ \E i \in DOMAIN flags : AcknowledgeFlag(i)
    \/ StartDigest \/ WhatChanged \/ WhatsStale \/ WhatDegraded \/ WriteDigest

DigestSpec == DigestInit /\ [][DigestNext]_digestVars

(***************************************************************************)
(* Properties                                                              *)
(***************************************************************************)
\* Bad news that was open when the digest was begun and still is when it is done heads
\* the digest, whatever was flagged and acknowledged meanwhile, unless newer findings
\* pushed it out of the list or it could not be read.
BadNewsHeadsTheDigest ==
    digest.pc = "done" /\ ~digest.unread /\ digest.before \cap Listed # {} => digest.headline = "degraded"

\* The digest leads with what is worst, from findings that change while it reads.
DigestLeadsWithTheWorst == DigestTypeOK /\ BadNewsHeadsTheDigest

\* "Absence is reported, not filled in": a digest that could not look at the findings
\* does not say that there is nothing to report (daily_digest_service.py:23).
AbsenceIsReported ==
    digest.pc = "done" /\ digest.unread => digest.headline # "nothing to report"
=============================================================================
