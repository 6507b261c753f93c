SPECIFICATION FairSpec
CONSTANTS
    Targets <- MCTargets
    Streams <- MCStreams
CHECK_DEADLOCK FALSE
INVARIANTS TunnelIntact RefusedForReason RequestFraming
PROPERTY Ends
