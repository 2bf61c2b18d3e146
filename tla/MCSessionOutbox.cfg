\* Two overlapping requests and two timers against one recipient's mails.
SPECIFICATION Spec
CONSTANTS
    Recipients = {u1}
    Days = {d1}
    Requests = {r1, r2}
    Workers = {w1, w2}
    NoRequest = NoRequest
    NoMail = NoMail
    Actors = {u1, org}
    Restless = {u1}
    Unreachable = {}
    BatchSize = 2
    MaxEvents = 3
SYMMETRY Symmetry
INVARIANTS
    OnlyCommittedNews
    NothingLost
    StillNews
PROPERTIES
    NeverOutOfOrder
    ImplementsFeed
\* Quiet for ever once the events are used up and every mail is settled.
CHECK_DEADLOCK FALSE
