CONSTANTS
    p1 = p1
    p2 = p2
    nordvpn = nordvpn
    surfshark = surfshark
    t1 = t1
    t2 = t2
    Procs <- TwoProcs
    Providers <- OneProvider
    Tokens <- TwoTokens
    Kinds <- PairedKinds
    NoToken = NoToken
    Absent = Absent
    Bare = Bare
    Free = Free
    NoJournal = NoJournal
    NoOp = NoOp
    MaxTxns = 3
    UnreadableJournal = FALSE
SPECIFICATION Spec
INVARIANT ProviderHasCredential
PROPERTY Atomic
CHECK_DEADLOCK FALSE
