SPECIFICATION Spec
CONSTANTS
    a = a
    b = b
    c = c
    w1 = w1
    w2 = w2
    w3 = w3
    s1 = s1
    d1 = d1
    NoItem = NoItem
    Items <- ThreeItems
    Workers <- ThreeWorkers
    Stoppers <- OneStopper
    Drainers <- OneDrainer
INVARIANTS
    TypeOK
    QueueIsBacklog
    ExclusiveProcessing
    NoLostWakeup
    SleepersDoNotMix
    DrainerWillBeWoken
    ExitedMeansDrained
PROPERTIES
    DrainReturns
    RefinesItemQueue
