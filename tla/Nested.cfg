\* Two nested mutations, a fault and a deletion.
SPECIFICATION Spec
CONSTANTS
    p1 = p1  p2 = p2  k1 = k1  k2 = k2  m1 = m1  m2 = m2  m3 = m3  r1 = r1  r2 = r2
    Parents <- TwoParents
    Kids <- FiveKids
    Existing <- ThereBefore
    Requests <- TwoRequests
    NumFields = 2
    FieldOf <- KidField
    BackName <- OwnNames
    Schemas <- ListThenSingle
    MaxOpen = 2
    MaxInput = 2
    MaxFaults = 1
INVARIANTS TypeOK KeepsExisting RollBackUndoes AnsweredIsLinked FormerIsFree
SYMMETRY Symmetry
