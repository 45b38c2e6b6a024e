\* Every kind of relation, two overlapping mutations and a fault.
SPECIFICATION FairSpec
CONSTANTS
    a1 = a1  a2 = a2  b1 = b1  b2 = b2  r1 = r1  r2 = r2  r3 = r3
    As <- OneA
    Bs <- TwoB
    Schemas <- Schema
    Requests <- TwoRequests
    Ops <- AnyOp
    MaxOpen = 2
    MaxFaults = 1
INVARIANTS TypeOK KeptLinks RemovedStays
PROPERTIES EveryMutationEnds
