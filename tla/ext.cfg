SPECIFICATION ExtensionsSpec
CONSTANTS
    a0 = a0
    a1 = a1
    a2 = a2
    a3 = a3
    a4 = a4
    r1 = r1
    r2 = r2
    t1 = t1
    t2 = t2
    s1 = s1
    s2 = s2
    n0 = n0
    n1 = n1
    n2 = n2
    f1 = f1
    f2 = f2
    Jobs <- AllJobs
    KeyOf <- Keys
    Groups <- SixGroups
    Nil = Nil
    Adds = {a0, a1, a2, a3, a4}
    Removals = {r1, r2}
    Before <- Order
    Target <- Both
    Path <- Files
    Allowed = {f1}
    Components = {v1, v2}
    Junk = junk
    Kept = {a0}
    Old = v2
    First = {v1, junk}
    MaxChanges = 1
    Tokens = {t1, t2}
    NameOf <- OneName
    FromApi = {t1}
    Servers = {s1, s2}
    Required = {s1}
    MaxConnect = 2
CHECK_DEADLOCK FALSE
INVARIANTS ModulesSound ReportsTrue
PROPERTIES WorkflowsEnd
