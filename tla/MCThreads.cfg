\* Two application threads and the driver's unload on one session with one
\* WebSocket; one TCP socket; one QUIC connection with four commands; one
\* subscription to events over three streams.
SPECIFICATION ThreadsSpec
CONSTANTS
    Sessions = {s1}
    WebSockets = {w1}
    Threads = {t1, t2}
    Driver = d
    MaxSubscribers = 1
    MaxNotifications = 1
    MaxNative = 2
    Connects = {c}
    Writes = {q1}
    Closes = {k}
    Waits = {e}
    QueueLimit = 2
    SseMaxStreams = 3
    SseMaxEvents = 2
    SseDefaultQueue = 1
    SseMaxQueue = 2
    SseMaxAttempts = 0
INVARIANTS HandlesOutliveUse NativeSocketsSafe WorkerStopsCleanly
PROPERTIES SessionsAreServed WaitersReturn ReconnectResumes
CHECK_DEADLOCK FALSE
