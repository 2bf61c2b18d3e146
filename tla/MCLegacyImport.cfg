\* Two overlapping runs, two plans, two tables, one write of each kind.
SPECIFICATION Spec
CONSTANTS
    Runs = {r1, r2}
    Plans = {p1, p2}
    Tables <- MCTables
    AppRow = AppRow
    NoRun = NoRun
    NoPlan = NoPlan
    MaxWrites = 1
SYMMETRY Symmetry
INVARIANTS
    WellFormed
    PlansMatchTheirHash
PROPERTIES
    SuccessIsProven
    ImplementsOnce
