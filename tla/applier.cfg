CONSTANTS
    MaxConfig = 4
    Rejected <- ThirdRefused
    MaxFaults = 3
    Revisits = FALSE
SPECIFICATION FairSpec
INVARIANT TypeOK
INVARIANT VouchedUnlessTorn
INVARIANT LastGoodKept
PROPERTY NoRegression
PROPERTY Converges
CHECK_DEADLOCK FALSE
