\* One address the provider refuses for ever, another it accepts.
SPECIFICATION FairSpec
CONSTANTS
    Recipients = {u1, u2}
    Days = {d1}
    Requests = {r1}
    Workers = {w1}
    NoRequest = NoRequest
    NoMail = NoMail
    Actors = {org}
    Restless = {}
    Unreachable = {u2}
    BatchSize = 2
    MaxEvents = 3
PROPERTIES
    EveryMailSettles
\* Quiet for ever once the events are used up and every mail is settled.
CHECK_DEADLOCK FALSE
