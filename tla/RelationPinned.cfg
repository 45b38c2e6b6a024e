\* A deletion with the installed Mongoose.
SPECIFICATION Spec
CONSTANTS
    a1 = a1  a2 = a2  b1 = b1  b2 = b2  r1 = r1  r2 = r2  r3 = r3
    As <- OneA
    Bs <- OneB
    Schemas <- Installed
    Requests <- OneRequest
    Ops <- Deletions
    MaxOpen = 1
    MaxFaults = 0
INVARIANTS DeleteLeavesNoReference
