--------------------------- MODULE RequestLimits ---------------------------
(***************************************************************************)
(* middleware.py: the sliding window of RateLimitMiddleware for one client *)
(* and path, and the body limit of RequestBodyLimitMiddleware behind it.   *)
(***************************************************************************)
EXTENDS Naturals, Sequences, FiniteSets, Functions

CONSTANTS
    Limit,          \* requests_per_minute
    Window,         \* the sixty seconds, in ticks
    NoLength,       \* a request without content-length
    MaxBytes,       \* max_request_bytes
    Chunks,         \* sizes of body messages
    MaxClock        \* bound: ticks of the clock

ASSUME LimitAssumption ==
    Limit \in Nat /\ Window \in Nat \ {0} /\ MaxBytes \in Nat /\ Chunks \subseteq Nat /\ MaxClock \in Nat

VARIABLES
    clock,          \* time.monotonic
    events,         \* the deque of the key
    admitted,       \* history: when requests were let through
    refused,        \* history: when requests were answered 429
    body            \* the request whose body is being read

limitVars == <<clock, events, admitted, refused, body>>

NoBody == [pc |-> "none", declared |-> NoLength, consumed |-> 0, buffered |-> <<>>, sent |-> 0]

BodyPcs == {"none", "declared", "reading", "handled", "tooLarge"}
RequestBodies == [pc : BodyPcs, declared : {NoLength} \cup Nat, consumed : Nat, buffered : Seq(Chunks), sent : Nat]

LimitTypeOK ==
    /\ clock \in 0..MaxClock
    /\ events \in Seq(0..MaxClock) /\ admitted \in Seq(0..MaxClock)
    /\ refused \subseteq 0..MaxClock
    /\ body \in RequestBodies

LimitInit ==
    /\ clock = 0 /\ events = <<>> /\ admitted = <<>> /\ refused = {}
    /\ body = NoBody

Tick ==
    /\ clock < MaxClock
    /\ clock' = clock + 1
    /\ UNCHANGED <<events, admitted, refused, body>>

\* Where the loop that pops from the left of the deque stops.
MutStops(now, k) ==
    /\ \A n \in 1..k : events[n] + Window <= now + 1
    /\ k < Len(events) => events[k + 1] + Window > now + 1

Stops(now, k) ==
    /\ \A n \in 1..k : events[n] + Window <= now
    /\ k < Len(events) => events[k + 1] + Window > now

Popped(now) == CHOOSE k \in 0..Len(events) : Stops(now, k)
Recent(now) == SubSeq(events, Popped(now) + 1, Len(events))

\* The test and the append are one step, under the lock and without an await.
RateLimit(declared) ==
    /\ body.pc \in {"none", "handled", "tooLarge"}
    /\ IF Len(Recent(clock)) >= Limit
       THEN /\ events' = Recent(clock)
            /\ refused' = refused \cup {clock}
            /\ UNCHANGED <<admitted, body>>
       ELSE /\ events' = Append(Recent(clock), clock)
            /\ admitted' = Append(admitted, clock)
            /\ body' = [NoBody EXCEPT !.pc = "declared", !.declared = declared]
            /\ UNCHANGED refused
    /\ UNCHANGED clock

\* content-length is believed when it is too much, and checked when it is not.
TestDeclared ==
    /\ body.pc = "declared"
    /\ body' = [body EXCEPT !.pc = IF body.declared # NoLength /\ body.declared > MaxBytes
                                   THEN "tooLarge" ELSE "reading"]
    /\ UNCHANGED <<clock, events, admitted, refused>>

MutFits(consumed) == body.declared # NoLength \/ consumed <= MaxBytes
Fits(consumed) == consumed <= MaxBytes

\* A chunk; the last one hands the buffer to the application.
ReceiveChunk(size, more) ==
    /\ body.pc = "reading" /\ Len(body.buffered) <= MaxBytes
    /\ LET consumed == body.consumed + size
       IN body' = IF ~Fits(consumed) THEN [body EXCEPT !.pc = "tooLarge", !.sent = @ + size]
                  ELSE [body EXCEPT !.pc = IF more THEN "reading" ELSE "handled",
                                    !.consumed = consumed, !.sent = @ + size,
                                    !.buffered = Append(@, size)]
    /\ UNCHANGED <<clock, events, admitted, refused>>

LimitNext ==
    \/ Tick
    \/ \E declared \in {NoLength} \cup (0..(MaxBytes + 1)) : RateLimit(declared)
    \/ TestDeclared
    \/ \E size \in Chunks, more \in BOOLEAN : ReceiveChunk(size, more)

LimitSpec == LimitInit /\ [][LimitNext]_limitVars

(***************************************************************************)
(* Properties                                                              *)
(***************************************************************************)
\* The requests let through in the window that ends at t.
Through(t) == {n \in DOMAIN admitted : admitted[n] <= t /\ admitted[n] + Window > t}

\* Wherever the window is laid, no more requests get through in it than the limit,
\* and none is turned away unless that many did: no burst across the edge of a
\* minute, and no client that keeps to its rate is refused.
WindowIsExact ==
    /\ \A t \in 0..clock : Cardinality(Through(t)) <= Limit
    /\ \A t \in refused : Cardinality(Through(t)) = Limit

BodyRead == SumFunctionOnSet(body.buffered, DOMAIN body.buffered)

\* The application is given a body of at most the limit, all of it and in the order
\* it came, whatever the header claims and however it is cut into chunks.
BodiesAreBounded ==
    body.pc = "handled" => BodyRead <= MaxBytes /\ BodyRead = body.sent

\* Both limits hold, and cut off nobody who keeps to them.
LimitsHold == LimitTypeOK /\ WindowIsExact /\ BodiesAreBounded
=============================================================================
