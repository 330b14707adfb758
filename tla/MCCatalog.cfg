SPECIFICATION Spec
CONSTANTS
    a = a
    b = b
    Titles = {a, b}
    Manifests <- OneEach
    Confs = {"given", "edited"}
    Given = "given"
    Secrets = {"edited"}
    Torn = Torn
    NoFile = NoFile
    MaxFaults = 1
SYMMETRY TitleSymmetry
INVARIANTS
    CommandsFollowCatalogs
    
PROPERTIES
    FailedReplaceIsUndone
    ReplaceSetsPositions
