----------------------------- MODULE MCChatTurn -----------------------------
(* Instances of ChatTurn for TLC. *)
EXTENDS ChatTurn, TLC

CONSTANT s1

\* In a turn a viewer has the read-only tools, an approver the order too.
TurnTools == [r \in ChatRoles |-> IF r = "viewer" THEN ReadOnlyTools ELSE Tools]

Call(tool, id) == [tool |-> tool, id |-> id, valid |-> TRUE]
Broken(tool) == [tool |-> tool, id |-> NoIdentifier, valid |-> FALSE]

\* One tool, with and without a record; a name nobody registered; arguments that do
\* not validate; two calls that agree, read, write or are unknown; one too many.
Selections ==
    {<<>>, <<Call("look", NoIdentifier)>>, <<Call("quote", "x1")>>, <<Call("order", "x1")>>,
     <<Broken("order")>>, <<Call(Invented, NoIdentifier)>>,
     <<Call("look", NoIdentifier), Call("look", NoIdentifier)>>,
     <<Call("look", NoIdentifier), Call("quote", "x1")>>,
     <<Call("look", NoIdentifier), Call("order", NoIdentifier)>>,
     <<Call("look", NoIdentifier), Call(Invented, NoIdentifier)>>,
     <<Call("look", NoIdentifier), Call("quote", NoIdentifier), Call("quote", "x1")>>}
=============================================================================
