\* One member of one session, two leads, two timers; time and people never
\* have to move.
SPECIFICATION FairSpec
CONSTANTS
    Sessions = {s1}
    Users = {u1}
    Workers = {w1, w2}
    NoSlot = NoSlot
    Starts = {2, 3}
    Leads = {1, 2}
    MaxTime = 3
    MaxMoves = 3
INVARIANTS
    OneDeliveryPerSlot
    OnlyRecentTruth
PROPERTIES
    CompletedRunOwesNothing
    DueIsDelivered
\* Quiet for ever once time has run out.
CHECK_DEADLOCK FALSE
