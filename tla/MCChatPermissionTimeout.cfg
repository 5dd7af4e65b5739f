SPECIFICATION FairSpec
CONSTANTS
    c1 = c1
    c2 = c2
    ip1 = ip1
    ip2 = ip2
    Chats = {c1}
    IPs = {ip1}
    Owner <- MCOwner
    Posts = {q1}
    Tools = {"web_search", "run_code", "write_file"}
    SafeTools = {"web_search"}
    RunCode = {"run_code"}
    MaxRounds = 1
    MaxCalls = 1
    Slots = 1
CHECK_DEADLOCK FALSE
PROPERTY RunCodeTimesOut
