CONSTANTS
    s1 = s1  s2 = s2  r1 = r1  r2 = r2  k1 = k1  k2 = k2  k3 = k3
    a1 = a1  a2 = a2  NoObject = NoObject
    Servers = {s1}
    Objects <- ClassObjects
    Apps = {a1, a2}
    Late = {k1}
    ClassFilter = TRUE
    Columns = 2
    Roots <- ClassRoots
    Kids <- ClassKids
    App <- ClassApp
    Class = {k1, k2}
    Target <- ClassTarget
    Variables <- ClassVariables
    Attributes = {1}
    MaxSyncs <- ClassSyncs
SPECIFICATION Spec
INVARIANTS OnlyLastRowPartial ClassObjectsHaveRows OneRowPerObject

