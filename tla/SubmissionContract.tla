------------------------- MODULE SubmissionContract -------------------------
(***************************************************************************)
(* What order execution promises of an intent, whoever submits it and      *)
(* however often: it is authorised at most once, an authorisation is       *)
(* consumed by one submission, and that submission sends the broker at     *)
(* most one order.                                                         *)
(***************************************************************************)
CONSTANTS Intents, Brokers

VARIABLES
    phase,      \* how far each intent is
    sent        \* the broker's orders for each intent

contractVars == <<phase, sent>>

Phases == {"absent", "waiting", "authorised", "refused", "consumed"}

Init ==
    /\ phase = [i \in Intents |-> "absent"]
    /\ sent = [i \in Intents |-> {}]

Become(i, from, to) ==
    /\ phase[i] = from
    /\ phase' = [phase EXCEPT ![i] = to]
    /\ UNCHANGED sent

Create(i) == Become(i, "absent", "waiting") \/ Become(i, "absent", "authorised")
Approve(i) == Become(i, "waiting", "authorised")
Refuse(i) == Become(i, "waiting", "refused")
Consume(i) == Become(i, "authorised", "consumed")

Send(i, b) ==
    /\ phase[i] = "consumed"
    /\ sent[i] = {}
    /\ sent' = [sent EXCEPT ![i] = {b}]
    /\ UNCHANGED phase

Next ==
    \E i \in Intents :
        \/ Create(i) \/ Approve(i) \/ Refuse(i) \/ Consume(i)
        \/ \E b \in Brokers : Send(i, b)

Spec == Init /\ [][Next]_contractVars
=============================================================================
