SPECIFICATION Spec
CONSTANTS
    p1 = p1
    p2 = p2
    waits = waits
    drops = drops
    overruns = overruns
    Producers = {p1, p2}
    Workers = {w1, w2}
    Loggers = {waits, drops, overruns}
    Registered = {overruns}
    LoggerOf <- MCLoggerOf
    Policy <- MCPolicy
    Faulty <- MCFaulty
    QueueSize = 2
    MaxLogs = 1
    MaxRounds = 1
    Flusher = Flusher
    Main = Main
    Registry = Registry
    NoItem = NoItem
INVARIANT OneFate GoneMeansDrained
PROPERTY ImplementsQueue EveryLogSettles ShutdownCompletes
