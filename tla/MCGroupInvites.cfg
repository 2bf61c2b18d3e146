\* Two requests of owners and joiners, two codes, one use of each counted.
SPECIFICATION FairSpec
CONSTANTS
    Users = {u1, u2}
    Codes = {c1, c2}
    Requests = {r1, r2}
    NoUser = NoUser
    NoCode = NoCode
    NoRequest = NoRequest
    MaxUses = 1
INVARIANTS
    WellFormed
    UsesAreCounted
PROPERTIES
    ImplementsDesk
    ReplacementIsAtomic
    EveryRequestEnds
\* Quiet once the group is deleted or both accounts are erased;
\* that nobody waits for ever is EveryRequestEnds.
CHECK_DEADLOCK FALSE
