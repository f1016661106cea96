CONSTANTS
    main = main
    worker = worker
    Threads <- MCThreads
    Crews <- MCCrews
    First = 2
    Last = 5
    PageSize = 2
    Rips <- MCRips
    End <- MCEnd
    Succ <- MCSucc
    Stubs = {2}
    Thr <- MCThr
    Requests <- MCRequests
    Stores = {2}
    MaxDepth = 1
    PageCap = 1
    MaxFuncs <- MCMaxFuncs
    MaxCalls <- MCMaxCalls
SPECIFICATION Spec
INVARIANTS IndexCovers IndexExact ReadyCurrent TablesReady
SYMMETRY MCSymmetry
