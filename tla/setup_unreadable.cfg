CONSTANTS
    p1 = p1
    p2 = p2
    nordvpn = nordvpn
    surfshark = surfshark
    t1 = t1
    t2 = t2
    Procs <- OneProc
    Providers <- OneProvider
    Tokens <- TwoTokens
    Kinds <- AllKinds
    NoToken = NoToken
    Absent = Absent
    Bare = Bare
    Free = Free
    NoJournal = NoJournal
    NoOp = NoOp
    MaxTxns = 2
    UnreadableJournal = TRUE
SPECIFICATION Spec
INVARIANT TypeOK
PROPERTY CommittedCredentialsStay
CHECK_DEADLOCK FALSE
