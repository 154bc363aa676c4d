CONSTANTS
    s1 = s1  s2 = s2  r1 = r1  r2 = r2  k1 = k1  k2 = k2  k3 = k3
    a1 = a1  a2 = a2  NoObject = NoObject
    Servers = {s1, s2}
    Objects <- PlainObjects
    Apps = {a1, a2}
    Late = {k1}
    ClassFilter = FALSE
    Columns = 2
    Roots <- PlainRoots
    Kids <- PlainKids
    App <- PlainApp
    Class = {}
    Target <- PlainTarget
    Variables <- PlainVariables
    Attributes = {}
    MaxSyncs <- PlainSyncs
SPECIFICATION Spec
INVARIANTS AppsHaveRows BoundToTarget ColumnsResolve OneRowPerApp
PROPERTIES HandlersReturn RootRemovedFindsEntry
