\* Events and timers, one TCP client, two requests of the HTTP server and two transfers.
SPECIFICATION IoSpec
CONSTANTS
    Names = {"plugin", "torrent"}
    MaxId = 6
    MaxEvents = 2
    c1 = c1
    c2 = c2
    h1 = h1
    r1 = r1
    r2 = r2
    w1 = w1
    w2 = w2
    Connects = {c1, c2}
    Handshakes = {h1}
    Reads = {r1, r2}
    Writes = {w1, w2}
    ConnectTimeout = TRUE
    ReadTimeout = FALSE
    MaxCalls = 4
    q1 = q1
    q2 = q2
    HttpRequests = {q1, q2}
    t1 = t1
    t2 = t2
    f1 = f1
    Transfers = {t1, t2}
    Owned = {t2}
    Sockets = {f1}
    MaxRedrives = 2
SYMMETRY Interchangeable
CHECK_DEADLOCK FALSE
INVARIANTS RegistrationsEnd EventsKept WritesInOrder NoStaleDeadline ResponsesHeld 
PROPERTIES TcpAnswersOnce CurlAnswersOnce
