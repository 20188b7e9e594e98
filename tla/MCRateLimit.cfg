CONSTANTS
    Clients = {c1, c2, c3}
    Keys = {k1}
    Rate = 3
    Burst = 2
    Cost = 2
    TTL = 2
    NoBucket = NoBucket
    MaxTime = 6
SPECIFICATION Spec
SYMMETRY Symmetry
PROPERTIES
    Conforms
