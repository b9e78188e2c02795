SPECIFICATION FairCacheSpec
CONSTANTS
    k1 = k1
    k2 = k2
    v1 = v1
    Keys = {k1, k2}
    Values = {v1}
    ValuesOf <- OwnValues
    Requests = {r1, r2}
    Conns = {c1, c2}
    PoolMax = 1
    Configs <- Deployments
INVARIANTS
    PoolDiscipline
PROPERTIES
    AnswersItsKey
    CallReturns
