\* Two identities, one imported profile, two requests at once.
SPECIFICATION Spec
CONSTANTS
    Subjects = {s1, s2}
    Accounts = {a1, a2, a3}
    Profiles = {p1, p2, p3}
    Imported = {p1}
    Requests = {r1, r2}
    NoAccount = NoAccount
    NoProfile = NoProfile
    NoSubject = NoSubject
    NoRequest = NoRequest
    MaxVersion = 2
SYMMETRY Symmetry
INVARIANTS
    WellFormed
    OneProfilePerAccount
    NoAbandonedProfile
PROPERTIES
    ImplementsDirectory
