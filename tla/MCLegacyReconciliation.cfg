\* Two reconciliations of two users beside one request of the application.
SPECIFICATION ReconcileSpec
CONSTANTS
    u1 = u1
    u2 = u2
    d1 = d1
    d2 = d2
    Available = Available
    Unavailable = Unavailable
    Users = {u1, u2}
    Days = {d1, d2}
    Statuses = {Available, Unavailable}
    Expected <- MCExpected
    Reconcilers = {r1, r2}
    Writers = {w1}
    None = None
    NoCounts = NoCounts
    MaxErasures = 1
SYMMETRY Symmetry
PROPERTIES
    CommitIsExact
    OnlyApprovedChanges
