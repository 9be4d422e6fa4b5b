\* One turn that may call two tools, and one block that raises.
CONSTANTS
    s1 = s1
    ChatSessions = {s1}
    Turns = {"turn1"}
    Tools = {"look", "quote", "order"}
    ReadOnlyTools = {"look", "quote"}
    Invented = "fake"
    ChatRoles = {"viewer", "approver"}
    AllowedTools <- TurnTools
    Identifiers = {"x1"}
    NoIdentifier = NoIdentifier
    NoChatSession = NoChatSession
    NoRole = NoRole
    Decisions <- Selections
    MaxCompound = 2
    MaxRaises = 1
SPECIFICATION ChatSpec
INVARIANT SafeFailureMeansNoAction
CHECK_DEADLOCK FALSE
