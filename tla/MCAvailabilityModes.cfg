\* Two groups of one member, one day, three requests at once.
SPECIFICATION Spec
CONSTANTS
    Groups = {g1, g2}
    Days = {d1}
    Answers = {yes, no}
    Requests = {r1, r2, r3}
    Unanswered = Unanswered
    NoRequest = NoRequest
    NoGroup = NoGroup
    NoDay = NoDay
SYMMETRY Symmetry
INVARIANTS
    WellFormed
PROPERTIES
    SavedIsShown
    OwnCalendarIsKept
    ViewIsOfItsTime
