--------------------------- MODULE MCConversation ---------------------------
(***************************************************************************)
(* What a request meets on its way in, and what it may ask for: the limits *)
(* of the middleware, the roles behind every door, the rules that choose a *)
(* tool, the chat turn that runs it, and the market data it reads.  Their  *)
(* models share no state: a behaviour is of the part it starts in.         *)
(***************************************************************************)
EXTENDS MCChatTurn, IntentRouting, OperationAccess, RequestLimits, MarketData

CONSTANTS x, y

VARIABLE part

allVars == <<chatVars, routeVars, accessVars, limitVars, dataVars>>

\* A user of each role.
UserOfRole == [u \in Users |-> u]

\* The registry of a role, as the router sees it.
RoleTools == [r \in RouterRoles |-> ToolsUpTo(r)]

TwoImports == {{1, 2}, {2, 3}}
DefaultId == [s \in Tickers |-> {"d1"}]

\* The two symbols are alike to the imports.
Symmetry == Permutations(Tickers)

AllInit ==
    /\ part \in {"chat", "routing", "access", "limits", "data"}
    /\ ChatInit /\ RouteInit /\ AccessInit /\ LimitInit /\ DataInit

AllNext ==
    /\ UNCHANGED part
    /\ \/ /\ part = "chat" /\ ChatNext
          /\ UNCHANGED <<routeVars, accessVars, limitVars, dataVars>>
       \/ /\ part = "routing" /\ RouteNext
          /\ UNCHANGED <<chatVars, accessVars, limitVars, dataVars>>
       \/ /\ part = "access" /\ AccessNext
          /\ UNCHANGED <<chatVars, routeVars, limitVars, dataVars>>
       \/ /\ part = "limits" /\ LimitNext
          /\ UNCHANGED <<chatVars, routeVars, accessVars, dataVars>>
       \/ /\ part = "data" /\ DataNext
          /\ UNCHANGED <<chatVars, routeVars, accessVars, limitVars>>

AllSpec == AllInit /\ [][AllNext]_<<part, allVars>>
=============================================================================
