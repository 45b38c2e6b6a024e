\* Every kind of relation, mutations one after the other.
SPECIFICATION Spec
CONSTANTS
    a1 = a1  a2 = a2  b1 = b1  b2 = b2  r1 = r1  r2 = r2  r3 = r3
    As <- TwoA
    Bs <- TwoB
    Schemas <- Updating
    Requests <- ThreeRequests
    Ops <- AnyOp
    MaxOpen = 1
    MaxFaults = 0
INVARIANTS BothEndsAgree DeleteLeavesNoReference
PROPERTIES KeepsRelation
SYMMETRY RequestSymmetry
