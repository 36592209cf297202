SPECIFICATION DataSpec
CONSTANTS
    s1 = s1
    c1 = c1
    c2 = c2
    r1 = r1
    r2 = r2
    r3 = r3
    yes = yes
    no = no
    None = None
    w1 = w1
    Workers = {w1}
    Servers = {s1}
    Clients = {c1, c2}
    Requests = {r1, r2, r3}
    Responses = {yes, no}
    Falsy = {}
    Killable = {c1, c2}
    k1 = k1
    k2 = k2
    NoConn = NoConn
    Conns = {k1, k2}
    Leavers = {k2}
    RequestOf <- MCRequestOf
    ResponseOf <- MCResponseOf
    ReplySets <- MCReplySets
    Codes = {"250", "354", "550"}
    Messages <- MCMessages
    IterSizes = {2, 8}
    MaxSizes = {0, 7}
    MaxSent = 8
    Sessions <- MCSessions
    Queries <- MCQueries
    HttpResponses <- MCHttpResponses
    ContentLen <- MCContentLen
INVARIANT DataTransparent
CHECK_DEADLOCK FALSE
