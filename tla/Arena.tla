------------------------------- MODULE Arena -------------------------------
(***************************************************************************)
(* arena_service.py: one season over a basket of symbols, the agents that  *)
(* enrol, and the daily ticks (the scheduled one and the endpoint's) that  *)
(* snapshot every entry.                                                   *)
(***************************************************************************)
EXTENDS Integers, FiniteSets, FiniteSetsExt

CONSTANTS
    Entrants,       \* agents
    Basket, Lead,   \* the season's symbols, and the first of them
    ArenaThreads,   \* threads that tick
    LegReturns,     \* what a strategy may return on a symbol
    NoReturn,
    MaxDay, MaxArenaDeaths      \* bounds

ASSUME ArenaAssumption == Lead \in Basket /\ MaxDay \in Nat \ {0} /\ MaxArenaDeaths \in Nat

VARIABLES
    opened,         \* whether arena_seasons has the season
    entries,        \* arena_entries: agents, each with an entry
    snapshots,      \* arena_equity_daily
    today,
    data,           \* symbols with a dataset
    ticker,         \* the ticks under way
    ticked,         \* history: <<day, agent>> of ticks that came to their end
    arenaDeaths

arenaVars == <<opened, entries, snapshots, today, data, ticker, ticked, arenaDeaths>>

EntryRows == [agent : Entrants, n : 1..2]
NoTick == [pc |-> "idle", day |-> 0, read |-> {}, left |-> {}, resolved |-> {}, entry |-> {}, return |-> NoReturn]

\* The equal-weighted mean of the legs that have data, in units of a leg's share.
Mean(legs) == FoldSet(LAMBDA s, sum : sum + legs[s], 0, DOMAIN legs) \div Cardinality(DOMAIN legs)
Returns == {Mean(legs) : legs \in UNION {[S -> LegReturns] : S \in (SUBSET Basket) \ {{}}}}

Snapshots == [entry : EntryRows, day : 1..MaxDay, return : Returns \cup {NoReturn}]

TickRows == [pc : {"idle", "resolve", "entry", "snapshot"}, day : 0..MaxDay, read : SUBSET EntryRows,
             left : SUBSET EntryRows, resolved : SUBSET Basket, entry : SUBSET EntryRows,
             return : Returns \cup {NoReturn}]

ArenaTypeOK ==
    /\ opened \in BOOLEAN
    /\ entries \subseteq EntryRows
    /\ snapshots \subseteq Snapshots
    /\ today \in 1..MaxDay /\ data \subseteq Basket
    /\ ticker \in [ArenaThreads -> TickRows]
    /\ \A p \in ArenaThreads : /\ ticker[p].entry \subseteq ticker[p].left
                               /\ ticker[p].left \subseteq ticker[p].read /\ ticker[p].read \subseteq entries
    /\ ticked \subseteq (1..MaxDay) \X EntryRows
    /\ arenaDeaths \in 0..MaxArenaDeaths

ArenaInit ==
    /\ opened = FALSE
    /\ entries = {} /\ snapshots = {} /\ today = 1 /\ data = {}
    /\ ticker = [p \in ArenaThreads |-> NoTick]
    /\ ticked = {} /\ arenaDeaths = 0

TickAt(p, pc) == ticker[p].pc = pc
Ticks(p, t) == ticker' = [ticker EXCEPT ![p] = t]

\* The season's id is drawn here: nobody enrols or ticks under it before.
CreateSeason ==
    /\ ~opened
    /\ opened' = TRUE
    /\ UNCHANGED <<entries, snapshots, today, data, ticker, ticked, arenaDeaths>>

MutEnrolled(a) == \E e \in entries : e.agent = a /\ e.n = 2

\* enroll answers with the entry there is; a second one would be row 2.
Enrolled(a) == \E e \in entries : e.agent = a
EntryOf(a) == [agent |-> a, n |-> IF \E e \in entries : e.agent = a THEN 2 ELSE 1]

Enroll(a) ==
    /\ opened /\ ~Enrolled(a)
    /\ entries' = entries \cup {EntryOf(a)}
    /\ UNCHANGED <<opened, snapshots, today, data, ticker, ticked, arenaDeaths>>

\* Imports, and the first tick after midnight.
DataComes(s) ==
    /\ data' = data \cup {s}
    /\ UNCHANGED <<opened, entries, snapshots, today, ticker, ticked, arenaDeaths>>

ArenaNextDay ==
    /\ today < MaxDay
    /\ today' = today + 1
    /\ UNCHANGED <<opened, entries, snapshots, data, ticker, ticked, arenaDeaths>>

(***************************************************************************)
(* tick                                                                    *)
(***************************************************************************)
\* The scheduled tick resolves a dataset for the season's first symbol only, the
\* endpoint one for each.
Resolve(p, symbols) ==
    /\ TickAt(p, "idle") /\ opened
    /\ symbols \in {{Lead}, Basket}
    /\ Ticks(p, [NoTick EXCEPT !.pc = "resolve", !.resolved = symbols \cap data])
    /\ UNCHANGED <<opened, entries, snapshots, today, data, ticked, arenaDeaths>>

ReadSeason(p) ==
    /\ TickAt(p, "resolve")
    /\ Ticks(p, [ticker[p] EXCEPT !.pc = "entry", !.day = today, !.read = entries, !.left = entries])
    /\ UNCHANGED <<opened, entries, snapshots, today, data, ticked, arenaDeaths>>

\* One entry: a leg without a dataset, or whose simulation raises, has no return.
RunLegs(p, e) ==
    /\ TickAt(p, "entry")
    /\ \E ok \in SUBSET ticker[p].resolved :
          \/ ok = {} /\ Ticks(p, [ticker[p] EXCEPT !.pc = "snapshot", !.entry = {e}, !.return = NoReturn])
          \/ ok # {} /\ \E legs \in [ok -> LegReturns] :
                Ticks(p, [ticker[p] EXCEPT !.pc = "snapshot", !.entry = {e}, !.return = Mean(legs)])
    /\ UNCHANGED <<opened, entries, snapshots, today, data, ticked, arenaDeaths>>

MutOthers(e, day) == {s \in snapshots : ~(s.entry = e /\ s.day = day /\ s.return = NoReturn)}

\* _snapshot: the day's row gives way to the new one.
Others(e, day) == {s \in snapshots : ~(s.entry = e /\ s.day = day)}

Snapshot(p) ==
    /\ TickAt(p, "snapshot")
    /\ \E e \in ticker[p].entry :
          /\ snapshots' = Others(e, ticker[p].day)
                            \cup {[entry |-> e, day |-> ticker[p].day, return |-> ticker[p].return]}
          /\ Ticks(p, [ticker[p] EXCEPT !.pc = "entry", !.left = @ \ {e}, !.entry = {}, !.return = NoReturn])
    /\ UNCHANGED <<opened, entries, today, data, ticked, arenaDeaths>>

EndTick(p) ==
    /\ TickAt(p, "entry") /\ ticker[p].left = {}
    /\ Ticks(p, NoTick)
    /\ ticked' = ticked \cup {<<ticker[p].day, e>> : e \in ticker[p].read}
    /\ UNCHANGED <<opened, entries, snapshots, today, data, arenaDeaths>>

\* The process dies, perhaps between the DELETE and the INSERT of a snapshot.
ArenaDies ==
    /\ arenaDeaths < MaxArenaDeaths /\ arenaDeaths' = arenaDeaths + 1
    /\ \/ UNCHANGED snapshots
       \/ \E p \in ArenaThreads : TickAt(p, "snapshot") /\ \E e \in ticker[p].entry : snapshots' = Others(e, ticker[p].day)
    /\ ticker' = [p \in ArenaThreads |-> NoTick]
    /\ UNCHANGED <<opened, entries, today, data, ticked>>

ArenaNext ==
    \/ CreateSeason
    \/ \E a \in Entrants : Enroll(a)
    \/ \E s \in Basket \ data : DataComes(s)
    \/ ArenaNextDay
    \/ \E p \in ArenaThreads :
          \/ \E symbols \in {{Lead}, Basket} : Resolve(p, symbols)
          \/ ReadSeason(p)
          \/ \E e \in ticker[p].left : RunLegs(p, e)
          \/ Snapshot(p) \/ EndTick(p)
    \/ ArenaDies

ArenaSpec == ArenaInit /\ [][ArenaNext]_arenaVars

(***************************************************************************)
(* standings                                                               *)
(***************************************************************************)
Latest(rows) == {s \in rows : \A t \in rows : t.entry = s.entry => t.day <= s.day}
MutRanked == Latest({s \in snapshots : s.return # NoReturn})
Ranked == {s \in Latest(snapshots) : s.return # NoReturn}

(***************************************************************************)
(* Properties                                                              *)
(***************************************************************************)
\* Ticks that overlap leave one snapshot of an entry and day, an agent has one entry,
\* and an entry that a finished tick took part of has its day in the season, unless
\* the process died between the two statements of a snapshot.
SeasonIsSound ==
    /\ \A s, t \in snapshots : s.entry = t.entry /\ s.day = t.day => s = t
    /\ \A d, e \in entries : d.agent = e.agent => d = e
    /\ arenaDeaths = 0 => \A done \in ticked : \E s \in snapshots : s.entry = done[2] /\ s.day = done[1]

\* An entry whose last day has no data is not ranked on an older one, and nobody is
\* ranked twice.
StandingsAreCurrent ==
    /\ \A s \in Ranked, t \in snapshots : t.entry = s.entry => t.day <= s.day
    /\ \A s, t \in Ranked : s.entry.agent = t.entry.agent => s = t

\* The season's table, however ticks overlap.
ArenaIsFair == ArenaTypeOK /\ SeasonIsSound /\ StandingsAreCurrent
=============================================================================
