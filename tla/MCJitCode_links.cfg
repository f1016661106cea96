CONSTANTS
    main = main
    worker = worker
    Threads <- MCThreads
    Crews <- MCOne
    First = 2
    Last = 5
    PageSize = 2
    Rips <- MCRips
    End <- MCEnd
    Succ <- MCSucc
    Stubs = {}
    Thr <- MCThr
    Requests <- MCRequests
    Stores = {4}
    MaxDepth = 1
    PageCap = 1
    MaxFuncs <- MCMaxFuncs
    MaxCalls <- MCMaxCalls
SPECIFICATION Spec
PROPERTY RunsCurrent
