-------------------------- MODULE ReconnectProofs --------------------------
(***************************************************************************)
(* Theorems about Reconnect, for every set of channels and every bound.    *)
(***************************************************************************)
EXTENDS Reconnect, TLAPS

\* What an attempt finds when it is resolved: itself, or a cleared dict.
Owned ==
    \A c \in todo : /\ base.rc[c].attempts < MaxAttempts
                    /\ rc[c] = Attempted(base.rc[c]) \/ rc[c] = NoRc

\* Only a pass that has claimed has attempts to resolve.
OnlyResolving == todo # {} => pc = "resolving"

\* No attempt of a touched channel is in flight: a command's reset stands until
\* the claim, and a claim on it does not attempt.
TouchedHasNoAttempt ==
    \A c \in touched : /\ rc[c].nonce = 0
                       /\ pc = "planning" => rc[c] = NoRc

IInv ==
    /\ TypeOK
    /\ DisabledIsInert
    /\ AttemptsAreOwn
    /\ Owned
    /\ OnlyResolving
    /\ TouchedHasNoAttempt

----------------------------------------------------------------------------
(* What a claim makes of a dict.                                           *)

\* A counted failure, and an attempt within the limit, are well-formed; an
\* attempt has an id of its own.
LEMMA AttemptedType ==
    ASSUME NEW r \in Reconnects
    PROVE  /\ NoRc \in Reconnects
           /\ Counted(r) \in Reconnects
           /\ [Counted(r) EXCEPT !.failed = TRUE] \in Reconnects
           /\ r.attempts < MaxAttempts =>
                 /\ Attempted(r) \in Reconnects
                 /\ [Attempted(r) EXCEPT !.failed = TRUE] \in Reconnects
<1>1. /\ r.fails \in 0..FailThreshold /\ r.attempts \in 0..MaxAttempts
      /\ r.nonce \in Nonces \cup {0} /\ r.failed \in BOOLEAN
  BY DEF Reconnects
<1>2. NoRc \in Reconnects
  BY ReconnectAssumption DEF NoRc, Reconnects
<1>3. Counted(r) \in Reconnects
  <2>1. (IF r.fails < FailThreshold THEN r.fails + 1 ELSE r.fails) \in 0..FailThreshold
    BY <1>1, ReconnectAssumption
  <2> QED
    BY <2>1 DEF Counted, Reconnects
<1>4. NewNonce(r) \in Nonces \cup {0}
  BY DEF NewNonce, Nonces
<1>5. ASSUME r.attempts < MaxAttempts PROVE Attempted(r) \in Reconnects
  <2>1. Counted(r).attempts = r.attempts
    BY DEF Counted, Reconnects
  <2>2. Counted(r).attempts + 1 \in 0..MaxAttempts
    BY <1>1, <1>5, <2>1, ReconnectAssumption
  <2> QED
    BY <1>3, <1>4, <2>2 DEF Attempted, Reconnects
<1>6. \A q \in Reconnects : [q EXCEPT !.failed = TRUE] \in Reconnects
  BY DEF Reconnects
<1> QED
  BY <1>2, <1>3, <1>5, <1>6

LEMMA AttemptedFields ==
    ASSUME NEW r \in Reconnects
    PROVE  /\ Counted(r).attempts = r.attempts
           /\ Counted(r).nonce = r.nonce
           /\ Counted(r).failed = r.failed
           /\ Attempted(r).attempts = r.attempts + 1
           /\ Attempted(r).nonce = NewNonce(r)
           /\ Attempted(r).failed = r.failed
           /\ NewNonce(r) # 0
<1> USE DEF Reconnects
<1>1. /\ Counted(r).attempts = r.attempts
      /\ Counted(r).nonce = r.nonce
      /\ Counted(r).failed = r.failed
  BY DEF Counted
<1>2. /\ Attempted(r).attempts = Counted(r).attempts + 1
      /\ Attempted(r).nonce = NewNonce(r)
      /\ Attempted(r).failed = Counted(r).failed
  BY DEF Attempted, Counted
<1> QED
  BY <1>1, <1>2 DEF NewNonce

\* An attempt follows earlier failures: the dict it replaces is not empty.
LEMMA AttemptAfterFailures ==
    ASSUME NEW c \in Channels, NEW due, Attempts(c, due), base.rc[c] \in Reconnects
    PROVE  base.rc[c] # NoRc
BY ReconnectAssumption
DEF Attempts, Ready, OverThreshold, Counted, NoRc, Reconnects

\* What a claimed channel's dict becomes.
LEMMA ReplacementFacts ==
    ASSUME NEW c \in Channels, NEW due, base.rc[c] \in Reconnects,
           base.probe[c] \in Results, Failing(c) \/ Recovering(c)
    PROVE  LET r == Replacement(c, due)
               old == base.rc[c]
           IN /\ r \in Reconnects
              /\ Recovering(c) => r = NoRc /\ ~Attempts(c, due)
              /\ Attempts(c, due) => /\ r = Attempted(old)
                                     /\ old.attempts < MaxAttempts
                                     /\ ~old.failed
              /\ Failing(c) /\ ~Attempts(c, due) =>
                    /\ r.attempts = old.attempts
                    /\ r.nonce = old.nonce
                    /\ r.failed => old.attempts = MaxAttempts
<1>1. ~(Failing(c) /\ Recovering(c))
  BY DEF Failing, Recovering
<1>2. CASE Recovering(c)
  BY <1>1, <1>2, AttemptedType DEF Replacement, Attempts, Ready
<1>3. CASE Failing(c) /\ GivesUp(c, due)
  <2>1. Replacement(c, due) = [Counted(base.rc[c]) EXCEPT !.failed = TRUE]
    BY <1>1, <1>3 DEF Replacement
  <2>2. ~Attempts(c, due) /\ base.rc[c].attempts = MaxAttempts
    BY <1>3, ReconnectAssumption DEF GivesUp, Attempts
  <2>3. Counted(base.rc[c]) \in Reconnects
    BY AttemptedType
  <2>4. /\ Replacement(c, due).attempts = base.rc[c].attempts
        /\ Replacement(c, due).nonce = base.rc[c].nonce
    BY <2>1, <2>3, AttemptedFields DEF Reconnects
  <2>5. Replacement(c, due) \in Reconnects
    BY <2>1, AttemptedType
  <2> QED
    BY <1>1, <1>3, <2>2, <2>4, <2>5
<1>4. CASE Attempts(c, due)
  <2>1. Failing(c) /\ ~base.rc[c].failed /\ base.rc[c].attempts < MaxAttempts
    BY <1>4 DEF Attempts, Ready, Failing
  <2>2. Replacement(c, due) = Attempted(base.rc[c])
    BY <1>1, <1>4, <2>1, ReconnectAssumption DEF Replacement, GivesUp, Attempts
  <2> QED
    BY <1>1, <1>4, <2>1, <2>2, AttemptedType
<1>5. CASE Failing(c) /\ ~GivesUp(c, due) /\ ~Attempts(c, due)
  <2>1. Replacement(c, due) = Counted(base.rc[c])
    BY <1>1, <1>5 DEF Replacement
  <2>2. ~base.rc[c].failed
    BY <1>5 DEF Failing
  <2> QED
    BY <1>1, <1>5, <2>1, <2>2, AttemptedType, AttemptedFields
<1> QED
  BY <1>2, <1>3, <1>4, <1>5

----------------------------------------------------------------------------
(* The invariant.                                                          *)

\* Init establishes the invariant.
LEMMA InitIInv == Init => IInv
<1> SUFFICES ASSUME Init PROVE IInv
  OBVIOUS
<1>1. /\ conf \in [Channels -> Fingerprints]
      /\ probe \in [Channels -> Results]
      /\ \A c \in Channels : conf[c].enabled
  BY ReconnectAssumption DEF Init, Fresh, Fingerprints, Results
<1>2. rc \in [Channels -> Reconnects] /\ tries \in [Channels -> 0..MaxAttempts]
  BY ReconnectAssumption DEF Init, NoRc, Reconnects
<1>3. base \in Snapshots
  BY <1>1, <1>2 DEF Init, Snapshots
<1>4. TypeOK
  BY <1>1, <1>2, <1>3, ReconnectAssumption DEF Init, TypeOK
<1>5. DisabledIsInert /\ Owned /\ OnlyResolving /\ TouchedHasNoAttempt
  BY <1>1 DEF Init, DisabledIsInert, Owned, OnlyResolving, TouchedHasNoAttempt
<1>6. AttemptsAreOwn
  BY DEF Init, AttemptsAreOwn, NoRc
<1> QED
  BY <1>4, <1>5, <1>6 DEF IInv

\* A channel's state after a claim: claimed, and replaced from an equal
\* snapshot, or as it was.
LEMMA ClaimFacts ==
    ASSUME IInv, NEW due, Claim(due), NEW c \in Channels
    PROVE  \/ /\ rc'[c] = rc[c] /\ tries'[c] = tries[c] /\ c \notin todo'
           \/ /\ Unclaimed(c)
              /\ Recovering(c)
              /\ rc'[c] = NoRc /\ tries'[c] = 0 /\ c \notin todo'
           \/ /\ Unclaimed(c)
              /\ Failing(c) /\ ~Attempts(c, due)
              /\ rc'[c] = Replacement(c, due) /\ tries'[c] = tries[c] /\ c \notin todo'
           \/ /\ Unclaimed(c)
              /\ Attempts(c, due)
              /\ rc'[c] = Replacement(c, due) /\ tries'[c] = tries[c] + 1
<1>1. base.rc[c] \in Reconnects /\ base.probe[c] \in Results
  BY DEF IInv, TypeOK, Snapshots
<1> DEFINE claims == {d \in Channels : (Failing(d) \/ Recovering(d)) /\ Unclaimed(d)}
           trying == {d \in claims : Attempts(d, due)}
<1>2. /\ rc'[c] = IF c \in claims THEN Replacement(c, due) ELSE rc[c]
      /\ todo' = trying \cap TokenChannels
      /\ tries'[c] = IF c \in trying THEN tries[c] + 1
                     ELSE IF c \in claims /\ Recovering(c) THEN 0 ELSE tries[c]
  BY DEF Claim
<1>3. c \in claims <=> (Failing(c) \/ Recovering(c)) /\ Unclaimed(c)
  OBVIOUS
<1>4. c \in trying <=> c \in claims /\ Attempts(c, due)
  OBVIOUS
<1>5. Recovering(c) => Replacement(c, due) = NoRc /\ ~Attempts(c, due)
  BY <1>1, ReplacementFacts
<1>6. Failing(c) => ~Recovering(c)
  BY DEF Failing, Recovering
<1> HIDE DEF claims, trying
<1> QED
  BY <1>2, <1>3, <1>4, <1>5, <1>6

\* Every step preserves the types.
LEMMA TypeStep ==
    ASSUME IInv, [Next]_vars
    PROVE  TypeOK'
<1> USE ReconnectAssumption DEF IInv, TypeOK, store, pass, bounds
<1>1. CASE StartPass
  BY <1>1 DEF StartPass
<1>2. CASE PublishProbes
  <2>1. probe' \in [Channels -> Results]
    BY <1>2 DEF PublishProbes, Results
  <2> QED
    BY <1>2, <2>1 DEF PublishProbes
<1>3. CASE Snapshot
  <2>1. base' \in Snapshots
    BY <1>3 DEF Snapshot, Snapshots
  <2> QED
    BY <1>3, <2>1 DEF Snapshot
<1>4. ASSUME NEW due \in SUBSET Channels, Claim(due) PROVE TypeOK'
  <2>1. \A c \in Channels : base.rc[c] \in Reconnects /\ base.probe[c] \in Results
    BY DEF Snapshots
  <2>2. ASSUME NEW c \in Channels
        PROVE  rc'[c] \in Reconnects /\ tries'[c] \in 0..MaxAttempts
    <3>1. Failing(c) \/ Recovering(c) => Replacement(c, due) \in Reconnects
      BY <2>1, ReplacementFacts
    <3>2. Attempts(c, due) => Failing(c)
      BY DEF Attempts, Ready
    <3>3. Attempts(c, due) /\ Unclaimed(c) => tries[c] < MaxAttempts
      BY DEF Attempts, Unclaimed, AttemptsAreOwn
    <3>4. rc[c] \in Reconnects /\ tries[c] \in 0..MaxAttempts /\ NoRc \in Reconnects
      BY AttemptedType
    <3> QED
      BY <1>4, <3>1, <3>2, <3>3, <3>4, ClaimFacts
  <2>3. /\ rc' = [c \in Channels |-> rc'[c]]
        /\ tries' = [c \in Channels |-> tries'[c]]
        /\ todo' \subseteq TokenChannels
        /\ pc' = "resolving"
        /\ UNCHANGED <<conf, probe, seen, base, touched, bounds>>
    BY <1>4 DEF Claim
  <2> QED
    BY <2>2, <2>3
<1>5. ASSUME NEW c \in Channels, Resolve(c) PROVE TypeOK'
  <2>1. /\ Attempted(base.rc[c]) \in Reconnects
        /\ [Attempted(base.rc[c]) EXCEPT !.failed = TRUE] \in Reconnects
    BY <1>5, AttemptedType DEF Resolve, Owned, Snapshots
  <2>2. rc' \in [Channels -> Reconnects]
    BY <1>5, <2>1 DEF Resolve
  <2>3. conf' \in [Channels -> Fingerprints]
    <3>1. \A w \in 0..MaxWg : [conf EXCEPT ![c].wg = w] \in [Channels -> Fingerprints]
      BY DEF Fingerprints
    <3>2. conf' = conf \/ \E w \in 0..MaxWg : conf' = [conf EXCEPT ![c].wg = w]
      BY <1>5 DEF Resolve
    <3> QED
      BY <3>1, <3>2
  <2> QED
    BY <1>5, <2>2, <2>3 DEF Resolve
<1>6. CASE EndPass
  BY <1>6 DEF EndPass
<1>7. CASE Crash
  BY <1>7 DEF Crash
<1>8. NoRc \in Reconnects /\ 0 \in 0..MaxAttempts /\ "none" \in Results
  BY DEF NoRc, Reconnects, Results
<1>9. Edited => edits' \in 0..MaxEdits
  BY DEF Edited
<1>10. ASSUME NEW c \in Channels, Reimport(c) PROVE TypeOK'
  <2>1. conf' \in [Channels -> Fingerprints]
    BY <1>10 DEF Reimport, Fingerprints
  <2> QED
    BY <1>8, <1>9, <1>10, <2>1 DEF Reimport, Touch
<1>11. ASSUME NEW c \in Channels, Readd(c) PROVE TypeOK'
  <2>1. conf' \in [Channels -> Fingerprints]
    <3>1. PICK w \in 0..MaxWg : conf' = [conf EXCEPT ![c] = [Fresh EXCEPT !.wg = w]]
      BY <1>11 DEF Readd
    <3>2. [Fresh EXCEPT !.wg = w] \in Fingerprints
      BY DEF Fresh, Fingerprints
    <3> HIDE DEF Fresh
    <3> QED
      BY <3>1, <3>2
  <2> QED
    BY <1>8, <1>9, <1>11, <2>1 DEF Readd, Touch
<1>12. ASSUME NEW c \in Channels, Disable(c) PROVE TypeOK'
  <2>1. conf' \in [Channels -> Fingerprints]
    BY <1>12 DEF Disable, Fingerprints
  <2> QED
    BY <1>8, <1>9, <1>12, <2>1 DEF Disable, Touch
<1>13. ASSUME NEW c \in Channels, Enable(c) PROVE TypeOK'
  <2>1. conf' \in [Channels -> Fingerprints]
    BY <1>13 DEF Enable, Fingerprints
  <2> QED
    BY <1>9, <1>13, <2>1 DEF Enable
<1>14. CASE RestartCommand
  BY <1>8, <1>9, <1>14 DEF RestartCommand
<1>15. ASSUME NEW c \in Channels, MovePort(c) PROVE TypeOK'
  <2>1. conf' \in [Channels -> Fingerprints]
    BY <1>15 DEF MovePort, Fingerprints
  <2> QED
    BY <1>9, <1>15, <2>1 DEF MovePort
<1>16. ASSUME NEW c \in Channels, Test(c) PROVE TypeOK'
  BY <1>16 DEF Test, Results
<1>17. CASE UNCHANGED vars
  BY <1>17 DEF vars
<1> QED
  BY <1>1, <1>2, <1>3, <1>4, <1>5, <1>6, <1>7, <1>10, <1>11, <1>12, <1>13, <1>14,
     <1>15, <1>16, <1>17
  DEF Next, Pass, Edits

\* Every step keeps disabled channels inert.
LEMMA DisabledStep ==
    ASSUME IInv, [Next]_vars
    PROVE  DisabledIsInert'
<1> USE DEF IInv, TypeOK, store, pass, bounds, DisabledIsInert
<1>1. CASE PublishProbes
  BY <1>1 DEF PublishProbes
<1>2. ASSUME NEW due \in SUBSET Channels, Claim(due) PROVE DisabledIsInert'
  <2>1. SUFFICES ASSUME NEW c \in Channels, ~conf'[c].enabled
                 PROVE  probe'[c] = "none" /\ rc'[c] = NoRc
    OBVIOUS
  <2>2. UNCHANGED <<conf, probe>>
    BY <1>2 DEF Claim
  <2>3. ~(Unclaimed(c) /\ (Failing(c) \/ Recovering(c)))
    BY <2>1, <2>2 DEF Unclaimed, Failing, Recovering
  <2>4. Attempts(c, due) => Failing(c)
    BY DEF Attempts, Ready
  <2> QED
    BY <1>2, <2>1, <2>2, <2>3, <2>4, ClaimFacts
<1>3. ASSUME NEW d \in Channels, Resolve(d) PROVE DisabledIsInert'
  <2>1. SUFFICES ASSUME NEW c \in Channels, ~conf'[c].enabled
                 PROVE  probe'[c] = "none" /\ rc'[c] = NoRc
    OBVIOUS
  <2>2. probe' = probe /\ conf'[c].enabled = conf[c].enabled
    BY <1>3 DEF Resolve, Fingerprints
  <2>3. c = d => ~Current(d)
    BY <2>1, <2>2 DEF Current, NoRc, NewNonce
  <2>4. c # d \/ ~Current(d) => rc'[c] = rc[c]
    BY <1>3 DEF Resolve
  <2> QED
    BY <2>1, <2>2, <2>3, <2>4
<1>4. ASSUME NEW c \in Channels, Reimport(c) PROVE DisabledIsInert'
  BY <1>4 DEF Reimport, Touch, Fingerprints
<1>5. ASSUME NEW c \in Channels, Readd(c) PROVE DisabledIsInert'
  BY <1>5 DEF Readd, Touch
<1>6. ASSUME NEW c \in Channels, Disable(c) PROVE DisabledIsInert'
  BY <1>6 DEF Disable, Touch
<1>7. ASSUME NEW c \in Channels, Enable(c) PROVE DisabledIsInert'
  BY <1>7 DEF Enable, Fingerprints
<1>8. CASE RestartCommand
  BY <1>8 DEF RestartCommand
<1>9. ASSUME NEW c \in Channels, MovePort(c) PROVE DisabledIsInert'
  BY <1>9 DEF MovePort, Fingerprints
<1>10. ASSUME NEW c \in Channels, Test(c) PROVE DisabledIsInert'
  BY <1>10 DEF Test
<1>11. CASE StartPass \/ Snapshot \/ EndPass \/ Crash \/ UNCHANGED vars
  BY <1>11 DEF StartPass, Snapshot, EndPass, Crash, vars
<1> QED
  BY <1>1, <1>2, <1>3, <1>4, <1>5, <1>6, <1>7, <1>8, <1>9, <1>10, <1>11
  DEF Next, Pass, Edits

\* Every step keeps the counters those of attempts really made.
LEMMA AttemptsStep ==
    ASSUME IInv, [Next]_vars
    PROVE  AttemptsAreOwn'
<1> USE ReconnectAssumption DEF IInv, TypeOK, store, pass, bounds, AttemptsAreOwn
<1>1. ASSUME NEW due \in SUBSET Channels, Claim(due) PROVE AttemptsAreOwn'
  <2>1. SUFFICES ASSUME NEW c \in Channels
                 PROVE  /\ rc'[c].attempts = tries'[c]
                        /\ rc'[c].failed => tries'[c] > 0
    OBVIOUS
  <2>2. base.rc[c] \in Reconnects /\ base.probe[c] \in Results
    BY DEF Snapshots
  <2>3. Unclaimed(c) => base.rc[c] = rc[c]
    BY DEF Unclaimed
  <2>4. Attempts(c, due) => Failing(c)
    BY DEF Attempts, Ready
  <2>5. rc[c].attempts \in 0..MaxAttempts /\ tries[c] \in 0..MaxAttempts
    BY DEF Reconnects
  <2>6. CASE Unclaimed(c) /\ Failing(c) /\ ~Attempts(c, due)
             /\ rc'[c] = Replacement(c, due) /\ tries'[c] = tries[c]
    BY <2>2, <2>3, <2>5, <2>6, ReplacementFacts
  <2>7. CASE Unclaimed(c) /\ Attempts(c, due)
             /\ rc'[c] = Replacement(c, due) /\ tries'[c] = tries[c] + 1
    <3>1. rc'[c] = Attempted(rc[c]) /\ ~rc[c].failed
      BY <2>2, <2>3, <2>4, <2>7, ReplacementFacts
    <3> QED
      BY <2>2, <2>3, <2>5, <2>7, <3>1, AttemptedFields
  <2>8. NoRc.attempts = 0 /\ ~NoRc.failed
    BY DEF NoRc
  <2> QED
    BY <1>1, <2>1, <2>6, <2>7, <2>8, ClaimFacts
<1>2. ASSUME NEW d \in Channels, Resolve(d) PROVE AttemptsAreOwn'
  <2>1. SUFFICES ASSUME NEW c \in Channels
                 PROVE  /\ rc'[c].attempts = tries[c]
                        /\ rc'[c].failed => tries[c] > 0
    BY <1>2 DEF Resolve
  <2> DEFINE mine == Attempted(base.rc[d])
  <2>2. base.rc[d] \in Reconnects
    BY DEF Snapshots
  <2>3. d \in todo
    BY <1>2 DEF Resolve
  <2>4. Current(d) => rc[d] = mine
    BY <2>3 DEF Current, Owned, NoRc, NewNonce
  <2>5. Current(d) => mine.attempts = tries[d] /\ tries[d] > 0
    BY <2>2, <2>4, AttemptedFields DEF Reconnects
  <2>6. [mine EXCEPT !.failed = TRUE].attempts = mine.attempts
    BY <2>2, <2>3, AttemptedType DEF Owned, Reconnects
  <2>7. \/ rc'[c] = rc[c]
        \/ c = d /\ Current(d) /\ rc'[c] \in {mine, [mine EXCEPT !.failed = TRUE]}
    BY <1>2 DEF Resolve
  <2> HIDE DEF mine
  <2> QED
    BY <2>5, <2>6, <2>7
<1>3. NoRc.attempts = 0 /\ ~NoRc.failed
  BY DEF NoRc
<1>4. ASSUME NEW c \in Channels, Reimport(c) \/ Readd(c) \/ Disable(c) PROVE AttemptsAreOwn'
  <2>1. Touch(c)
    BY <1>4 DEF Reimport, Readd, Disable
  <2> QED
    BY <1>3, <2>1 DEF Touch
<1>5. ASSUME NEW c \in Channels, Enable(c) \/ MovePort(c) \/ Test(c)
      PROVE  AttemptsAreOwn'
  BY <1>5 DEF Enable, MovePort, Test
<1>6. CASE RestartCommand
  BY <1>3, <1>6 DEF RestartCommand
<1>7. CASE StartPass \/ PublishProbes \/ Snapshot \/ EndPass \/ Crash \/ UNCHANGED vars
  BY <1>7 DEF StartPass, PublishProbes, Snapshot, EndPass, Crash, vars
<1> QED
  BY <1>1, <1>2, <1>4, <1>5, <1>6, <1>7 DEF Next, Pass, Edits

\* Every step keeps attempts in flight what they were, or cleared.
LEMMA OwnedStep ==
    ASSUME IInv, [Next]_vars
    PROVE  Owned' /\ OnlyResolving'
<1> USE DEF IInv, TypeOK, store, pass, bounds, Owned, OnlyResolving
<1>1. CASE StartPass \/ Snapshot
  BY <1>1 DEF StartPass, Snapshot
<1>2. ASSUME NEW due \in SUBSET Channels, Claim(due) PROVE Owned' /\ OnlyResolving'
  <2>1. pc' = "resolving" /\ base' = base /\ todo' \subseteq Channels
    BY <1>2, ReconnectAssumption DEF Claim
  <2>2. ASSUME NEW c \in todo'
        PROVE  base.rc[c].attempts < MaxAttempts /\ rc'[c] = Attempted(base.rc[c])
    <3>1. c \in Channels
      BY <2>1
    <3>2. base.rc[c] \in Reconnects /\ base.probe[c] \in Results
      BY <3>1 DEF Snapshots
    <3>3. Attempts(c, due) /\ rc'[c] = Replacement(c, due)
      BY <1>2, <3>1, ClaimFacts
    <3>4. Failing(c)
      BY <3>3 DEF Attempts, Ready
    <3> QED
      BY <3>1, <3>2, <3>3, <3>4, ReplacementFacts
  <2>3. ASSUME NEW c \in todo'
        PROVE  Attempted(base.rc[c])' = Attempted(base.rc[c])
    BY <2>1 DEF Attempted, Counted, NewNonce
  <2> QED
    BY <2>1, <2>2, <2>3
<1>3. ASSUME NEW d \in Channels, Resolve(d) PROVE Owned' /\ OnlyResolving'
  <2>1. pc' = pc /\ base' = base /\ todo' = todo \ {d}
    BY <1>3 DEF Resolve
  <2>2. \A c \in todo' : c \in Channels /\ rc'[c] = rc[c]
    BY <1>3, ReconnectAssumption DEF Resolve
  <2>3. \A c \in todo' : Attempted(base.rc[c])' = Attempted(base.rc[c])
    BY <2>1 DEF Attempted, Counted, NewNonce
  <2> QED
    BY <2>1, <2>2, <2>3
<1>4. CASE EndPass \/ Crash
  BY <1>4 DEF EndPass, Crash
<1>5. \A c \in todo : c \in Channels
  BY ReconnectAssumption
<1>6. ASSUME NEW c \in Channels, Reimport(c) \/ Readd(c) \/ Disable(c)
      PROVE  Owned' /\ OnlyResolving'
  <2>1. Touch(c)
    BY <1>6 DEF Reimport, Readd, Disable
  <2> QED
    BY <1>5, <2>1 DEF Touch, Attempted, Counted, NewNonce
<1>7. ASSUME NEW c \in Channels, Enable(c) \/ MovePort(c) \/ Test(c)
      PROVE  Owned' /\ OnlyResolving'
  BY <1>7 DEF Enable, MovePort, Test, Attempted, Counted, NewNonce
<1>8. CASE RestartCommand
  BY <1>5, <1>8 DEF RestartCommand, Attempted, Counted, NewNonce
<1>9. CASE PublishProbes \/ UNCHANGED vars
  BY <1>9 DEF PublishProbes, vars, Attempted, Counted, NewNonce
<1> QED
  BY <1>1, <1>2, <1>3, <1>4, <1>6, <1>7, <1>8, <1>9 DEF Next, Pass, Edits

\* Every step keeps touched channels free of attempts.
LEMMA TouchedStep ==
    ASSUME IInv, [Next]_vars
    PROVE  TouchedHasNoAttempt'
<1> USE DEF IInv, TypeOK, store, pass, bounds, TouchedHasNoAttempt
<1>1. CASE Snapshot
  BY <1>1 DEF Snapshot
<1>2. ASSUME NEW due \in SUBSET Channels, Claim(due) PROVE TouchedHasNoAttempt'
  <2>1. pc = "planning" /\ pc' = "resolving" /\ touched' = touched
    BY <1>2 DEF Claim
  <2>2. SUFFICES ASSUME NEW c \in touched PROVE rc'[c].nonce = 0
    BY <2>1
  <2>3. c \in Channels /\ base.rc[c] \in Reconnects /\ base.probe[c] \in Results
    BY DEF Snapshots
  <2>4. rc[c] = NoRc /\ NoRc.nonce = 0
    BY <2>1 DEF NoRc
  <2>5. Unclaimed(c) => base.rc[c] = NoRc
    BY <2>4 DEF Unclaimed
  <2>6. Attempts(c, due) => base.rc[c] # NoRc
    BY <2>3, AttemptAfterFailures
  <2>7. Unclaimed(c) /\ Failing(c) /\ ~Attempts(c, due) => Replacement(c, due).nonce = 0
    BY <2>3, <2>4, <2>5, ReplacementFacts
  <2> QED
    BY <1>2, <2>3, <2>4, <2>5, <2>6, <2>7, ClaimFacts
<1>3. ASSUME NEW d \in Channels, Resolve(d) PROVE TouchedHasNoAttempt'
  <2>1. pc' = "resolving" /\ touched' = touched
    BY <1>3 DEF Resolve
  <2>2. d \in touched => ~Current(d)
    BY DEF Current, NewNonce
  <2>3. \A c \in Channels : c # d \/ ~Current(d) => rc'[c] = rc[c]
    BY <1>3 DEF Resolve
  <2> QED
    BY <2>1, <2>2, <2>3
<1>4. NoRc.nonce = 0
  BY DEF NoRc
<1>5. ASSUME NEW c \in Channels, Reimport(c) \/ Readd(c) \/ Disable(c)
      PROVE  TouchedHasNoAttempt'
  <2>1. Touch(c)
    BY <1>5 DEF Reimport, Readd, Disable
  <2> QED
    BY <1>4, <2>1 DEF Touch
<1>6. ASSUME NEW c \in Channels, Enable(c) PROVE TouchedHasNoAttempt'
  <2>1. rc[c] = NoRc
    BY <1>6 DEF Enable, DisabledIsInert
  <2> QED
    BY <1>4, <1>6, <2>1 DEF Enable
<1>7. CASE RestartCommand
  BY <1>4, <1>7 DEF RestartCommand
<1>8. ASSUME NEW c \in Channels, MovePort(c) \/ Test(c) PROVE TouchedHasNoAttempt'
  BY <1>8 DEF MovePort, Test
<1>9. CASE StartPass \/ PublishProbes \/ EndPass \/ Crash \/ UNCHANGED vars
  BY <1>9 DEF StartPass, PublishProbes, EndPass, Crash, vars
<1> QED
  BY <1>1, <1>2, <1>3, <1>5, <1>6, <1>7, <1>8, <1>9 DEF Next, Pass, Edits

\* The invariant holds of every behaviour.
THEOREM Invariance == Spec => []IInv
<1>1. IInv /\ [Next]_vars => IInv'
  BY TypeStep, DisabledStep, AttemptsStep, OwnedStep, TouchedStep DEF IInv
<1> QED
  BY <1>1, InitIInv, PTL DEF Spec

----------------------------------------------------------------------------
(* What it gives.                                                          *)

\* Every variable keeps its type, however many channels, attempts and edits
\* there are: among others, no dict counts more attempts than allowed.
THEOREM TypeCorrect == Spec => []TypeOK
<1>1. IInv => TypeOK
  BY DEF IInv
<1> QED
  BY <1>1, Invariance, PTL

\* Whenever a channel is disabled, in the middle of a pass or of a network
\* request for it, no result and no bookkeeping comes back.
THEOREM DisabledStaysInert == Spec => []DisabledIsInert
<1>1. IInv => DisabledIsInert
  BY DEF IInv
<1> QED
  BY <1>1, Invariance, PTL

\* The count that decides when to give up is of this channel's own attempts.
THEOREM AttemptsCounted == Spec => []AttemptsAreOwn
<1>1. IInv => AttemptsAreOwn
  BY DEF IInv
<1> QED
  BY <1>1, Invariance, PTL

\* No answer from a provider overwrites what a command wrote meanwhile.
THEOREM StaleResultsDiscarded == Spec => StaleNeverLands
<1> DEFINE Lands == edits' = edits =>
                       \A c \in Channels : conf'[c].wg # conf[c].wg => c \notin touched
<1>1. IInv /\ [Next]_vars => [Lands]_vars
  <2>1. SUFFICES ASSUME IInv, Next, edits' = edits,
                        NEW c \in Channels, conf'[c].wg # conf[c].wg
                 PROVE  c \notin touched
    OBVIOUS
  <2>2. ~Edited
    BY <2>1 DEF Edited, IInv, TypeOK
  <2>3. ~Edits
    BY <2>2 DEF Edits, Reimport, Readd, Disable, Enable, RestartCommand, MovePort
  <2>4. PICK d \in Channels : Resolve(d)
    BY <2>1, <2>3 DEF Next, Pass, StartPass, PublishProbes, Snapshot, Claim, EndPass,
                      Crash, Test, store
  <2>5. c = d /\ Current(d)
    BY <2>1, <2>4 DEF Resolve, IInv, TypeOK
  <2>6. rc[c].nonce # 0
    BY <2>5 DEF Current, NewNonce
  <2>7. TouchedHasNoAttempt
    BY <2>1 DEF IInv
  <2> QED
    BY <2>6, <2>7 DEF TouchedHasNoAttempt
<1> QED
  BY <1>1, Invariance, PTL DEF Spec, StaleNeverLands

=============================================================================
