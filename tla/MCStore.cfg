SPECIFICATION Spec
CONSTANTS
    a = a
    b = b
    m1 = m1
    m2 = m2
    tui = tui
    old = old
    new = new
    Agents = {m1, m2, tui}
    Ids = {a, b}
    Bodies = {old, new}
    Formats = {"json", "yaml"}
    Rank <- PathRank
    Workloads <- AllWorkloads
    InitialFiles <- WellNamed
    None = None
    Empty = Empty
    Mixed = Mixed
    MaxCalls = 3
    MaxFaults = 1
SYMMETRY AgentSymmetry
CHECK_DEADLOCK FALSE
INVARIANTS
    ManifestsWhole
    SuccessIsTrue
    ReplacesOnlyWhatItMay
PROPERTIES
    BodiesSurvive
    OthersUntouched
