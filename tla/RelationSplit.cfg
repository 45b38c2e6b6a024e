\* Two overlapping additions to one single field.
SPECIFICATION Spec
CONSTANTS
    a1 = a1  a2 = a2  b1 = b1  b2 = b2  r1 = r1  r2 = r2  r3 = r3
    As <- TwoA
    Bs <- OneB
    Schemas <- OneToOne
    Requests <- TwoRequests
    Ops <- Additions
    MaxOpen = 2
    MaxFaults = 0
INVARIANTS BothEndsAgree
