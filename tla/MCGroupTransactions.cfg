\* Two members and two open requests: every pair of operations interleaved.
\* No symmetry, which would be unsound for the liveness property.
SPECIFICATION FairSpec
CONSTANTS
    Users = {u1, u2}
    Requests = {r1, r2}
    NoUser = NoUser
    NoRequest = NoRequest
INVARIANTS
    AtMostOneOwner
PROPERTIES
    OwnerLostOnlyToStaleRoleWrite
    ImplementsRoster
    EveryRequestEnds
\* Quiet for ever once the group is gone and every account is erased;
\* that nobody waits for ever is EveryRequestEnds.
CHECK_DEADLOCK FALSE
