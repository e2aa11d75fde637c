SPECIFICATION FairSpec
CONSTANTS
    MaxUp = 2
    MaxDown = 2
    InboundQueue = 1
    WriteQueue = 1
PROPERTIES
    PipeSpec
    TargetReleased
    EofPropagates
CHECK_DEADLOCK FALSE
