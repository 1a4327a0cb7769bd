SPECIFICATION Spec
CONSTANTS
    MaxCandidates = 3
    UsdRate = 100
    MaxEvidence = 2
    MaxMatches = 2
    MinCalibrated = 2
    MaxEvaluated = 2
    MinSpan = 2
    Unit = 2
    Pictures = {1, 2, 3}
    Margin <- MCMargin
    TextFit <- MCTextFit
    ReferencePictures = {3}
    Requests <- MCRequests
    MaxClauses = 4
    MaxFacts = 3
    MaxVisual = 2
    MaxWire = 3
    Obscure = "obscure"
    Reserved = {"color", "material"}
    Width = "width"
    Hidden = {"material"}
    Material = "material"
    Entries <- MCEntries
CHECK_DEADLOCK FALSE
INVARIANTS
    
    RankedFromEvidence
    HistoryAccepts
