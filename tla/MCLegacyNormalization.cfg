\* Every table of up to five rows over two groups, two users and one day.
SPECIFICATION TableSpec
CONSTANTS
    g1 = g1
    g2 = g2
    h = h
    u1 = u1
    u2 = u2
    v = v
    Groups = {g1, g2}
    Users = {u1, u2}
    Members <- MCMembers
    OtherGroups = {h}
    OtherUsers = {v}
    Days = {d1}
    Statuses = {yes, no}
    Malformed = Malformed
    NoRow = NoRow
    Documents <- MCDocuments
    MaxRows = 5
INVARIANTS
    ShownIsImported
    CanonicalAnswerSettlesIt
    PolicyIsConservative
