CONSTANTS
    MaxConfig = 3
    Rejected <- ThirdRefused
    MaxFaults = 1
    Revisits = FALSE
SPECIFICATION Spec
INVARIANT VouchedIsLive
CHECK_DEADLOCK FALSE
