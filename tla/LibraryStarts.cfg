SPECIFICATION FairSpec
CONSTANTS
    main = main
    t1 = t1
    t2 = t2
    Threads <- MCThreads
    Main = main
    MaxCalls = 2
INVARIANTS TypeOK OneRunner ReadyOnReturn MadeOnce NeedsThere NoCircle
PROPERTY CallsReturn
CHECK_DEADLOCK FALSE
