\* Two accounts, two requests, one change of what the provider holds.
SPECIFICATION FairSpec
CONSTANTS
    Accounts = {a1, a2}
    Requests = {r1, r2}
    Emails = {e1, e2}
    Names = {n1, n2}
    e1 = e1
    e2 = e2
    n1 = n1
    n2 = n2
    ClerkUsers <- MCClerkUsers
    NewUsers <- MCNewUsers
    NoEmail = NoEmail
    NoName = NoName
    NoAccount = NoAccount
    NoRequest = NoRequest
    MaxChanges = 1
INVARIANTS
    WellFormed
PROPERTIES
    OnlyTheAddressIsLost
    NobodyWaitsForClerk
\* The provider may stop answering and people may stop coming.
CHECK_DEADLOCK FALSE
