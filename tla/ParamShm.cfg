SPECIFICATION FairSpec
CONSTANTS
    Fields = {risk, bps}
    Applied = risk
    Gate = bps
    MaxVersion = 4
INVARIANTS
    RiskNotOlder
    GateNearRisk
PROPERTY LastPublicationApplied
