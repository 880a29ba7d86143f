SPECIFICATION Spec
CONSTANTS
    Procs = {p1, p2, p3}
    Tokens = {t1, t2, t3}
    Null = Null
    Junk = Junk
    Absent = Absent
    Empty = Empty
SYMMETRY Perms
INVARIANTS
    RegisteredIsSaved
    OneUserServed
    OnlyRealUsersServed
