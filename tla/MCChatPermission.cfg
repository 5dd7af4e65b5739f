SPECIFICATION TidySpec
CONSTANTS
    c1 = c1
    c2 = c2
    ip1 = ip1
    ip2 = ip2
    Chats = {c1, c2}
    IPs = {ip1, ip2}
    Owner <- MCOwner
    Posts = {q1}
    Tools = {"web_search", "run_code", "write_file"}
    SafeTools = {"web_search"}
    RunCode = {"run_code"}
    MaxRounds = 2
    MaxCalls = 1
    Slots = 1
INVARIANTS
    OnlyOwnerApproves
    FirstAnswerDecides
    PromptsCleaned
PROPERTIES
    EveryChatEnds
    KeepsGate
CHECK_DEADLOCK FALSE
