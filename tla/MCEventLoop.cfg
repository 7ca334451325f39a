SPECIFICATION Spec
CONSTANTS
    Threads = {t1, t2}
    Functors = {f1, f2, f3}
    Channels = {c1}
    Wakeup = wakeup
    MaxEvents = 1
    MaxCounter = 2
INVARIANTS
    NoLostWakeup
PROPERTIES
    ImplementsTaskExecutor
    PromptQuit
CHECK_DEADLOCK FALSE
