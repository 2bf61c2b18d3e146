\* Does every present group keep exactly one owner?  A hand-over and a role
\* write that overlap show it does not.
SPECIFICATION Spec
CONSTANTS
    Users = {u1, u2}
    Requests = {r1, r2}
    NoUser = NoUser
    NoRequest = NoRequest
INVARIANTS
    ExactlyOneOwner
\* Quiet for ever once the group is gone and every account is erased.
CHECK_DEADLOCK FALSE
