CONSTANTS
    s1 = s1  s2 = s2  r1 = r1  r2 = r2  k1 = k1  k2 = k2  k3 = k3
    a1 = a1  a2 = a2  NoObject = NoObject
    Servers = {s1}
    Objects <- NestedObjects
    Apps = {a1, a2}
    Late = {}
    ClassFilter = TRUE
    Columns = 2
    Roots <- NestedRoots
    Kids <- NestedKids
    App <- NestedApp
    Class = {k1, k2}
    Target <- NestedTarget
    Variables <- NestedVariables
    Attributes = {1}
    MaxSyncs <- OneSync
    Index = {1}
SPECIFICATION ServiceSpec
INVARIANTS NotReentrant
