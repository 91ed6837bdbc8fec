SPECIFICATION Spec
CONSTANTS
    Costs <- DeployedCosts
    Grid <- SmallGrid
    Scale = 10
    Edge = 20
    Frames <- SmallFrames
    Supports <- SmallSupports
    Amounts = {2, 40}
    MaxFaults = 2
    None = None
INVARIANTS
    TypeOK
    SelectionIsBest
    OnlyCleanEvidenceApproves
    EvidencePrevails
CHECK_DEADLOCK FALSE
