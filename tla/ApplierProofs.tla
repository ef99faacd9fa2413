--------------------------- MODULE ApplierProofs ---------------------------
(***************************************************************************)
(* What the applier guarantees for every number of configurations, every   *)
(* set of refused ones and every number of faults.                         *)
(***************************************************************************)
EXTENDS Applier, TLAPS

\* Outside the window between the file's replacement and its use, a running
\* sing-box runs the file, or will once it handles its signal.
Settled == pc \notin {"check", "swap"} /\ ~torn /\ live # None
             => hup \/ live = file

\* While the new file is being checked, the old one is still what runs, unless
\* a pending signal has loaded an acceptable new one.
Checking == pc = "check" =>
    /\ file = new
    /\ new \in Rejected /\ ~torn /\ live # None => hup \/ live = old
    /\ ~torn /\ (live # None \/ expected) => old \in Configs \ Rejected

\* Past the check, the file is the accepted new configuration.
Swapping == pc \in {"swap", "verify", "restart"} => file = new /\ new \notin Rejected

\* An apply in progress has a configuration.
Applying == pc \in {"apply", "check", "swap", "verify", "restart"} => new \in Configs

\* Between applies, what was vouched for is what the file says.
Vouching == pc = "loop" /\ vouched # None /\ ~torn => vouched = file

\* A signal needs a process; a process, and an applier that had one, have a file.
Present == /\ hup => live # None
           /\ live # None \/ expected => file # None

\* Outside the check, that file is one that sing-box accepts.
Usable == pc # "check" /\ ~torn /\ (live # None \/ expected) => file \notin Rejected

IInv == /\ TypeOK
        /\ Settled
        /\ Checking
        /\ Swapping
        /\ Applying
        /\ Vouching
        /\ Present
        /\ Usable

----------------------------------------------------------------------------
\* There is no configuration that stands for "none".
LEMMA NoneIsNone == None \notin Configs
  BY ApplierAssumption DEF None, Configs

\* A step with or without a fault keeps the count within its bound.
LEMMA FaultType ==
    ASSUME faults \in 0..MaxFaults, Fault \/ NoFault
    PROVE  faults' \in 0..MaxFaults
<1>1. MaxFaults \in Nat  BY ApplierAssumption
<1>2. QED  BY <1>1 DEF Fault, NoFault

\* Init establishes the invariant.
LEMMA InitIInv == ASSUME 1 \in Configs PROVE Init => IInv
<1> SUFFICES ASSUME Init PROVE IInv  OBVIOUS
<1>1. 0 \in 0..MaxFaults  BY ApplierAssumption
<1>2. TypeOK  BY <1>1 DEF Init, TypeOK
<1>3. Settled /\ Checking /\ Swapping /\ Applying /\ Vouching /\ Present /\ Usable
  BY DEF Init, Settled, Checking, Swapping, Applying, Vouching, Present, Usable
<1>4. QED  BY <1>2, <1>3 DEF IInv

\* Every step preserves the types.
LEMMA TypeStep ==
    ASSUME IInv, [Next]_vars
    PROVE  TypeOK'
<1> USE FaultType, NoneIsNone DEF IInv, TypeOK, process, loop, apply, Swapping, Applying
<1>1. CASE Edit  BY <1>1 DEF Edit
<1>2. CASE HandleHup
  <2>1. Fault \/ NoFault  BY <1>2 DEF HandleHup
  <2>2. faults' \in 0..MaxFaults  BY <2>1, FaultType
  <2>3. live' \in (Configs \ Rejected) \cup {None}  BY <1>2 DEF HandleHup
  <2>4. hup' \in BOOLEAN  BY <1>2 DEF HandleHup
  <2>5. UNCHANGED <<want, file, pc, apply, loop, vouched, torn>>
    BY <1>2 DEF HandleHup
  <2>6. QED  BY <2>2, <2>3, <2>4, <2>5
<1>3. CASE SingBoxExits
  <2>1. faults' \in 0..MaxFaults  BY <1>3, FaultType DEF SingBoxExits
  <2>2. live' \in (Configs \ Rejected) \cup {None}  BY <1>3 DEF SingBoxExits
  <2>3. hup' \in BOOLEAN  BY <1>3 DEF SingBoxExits
  <2>4. UNCHANGED <<want, file, pc, apply, loop, vouched, torn>>
    BY <1>3 DEF SingBoxExits
  <2>5. QED  BY <2>1, <2>2, <2>3, <2>4
<1>4. CASE ProbeRestart
  <2>1. faults' \in 0..MaxFaults  BY <1>4, FaultType DEF ProbeRestart
  <2>2. live' \in (Configs \ Rejected) \cup {None}  BY <1>4 DEF ProbeRestart
  <2>3. hup' \in BOOLEAN  BY <1>4 DEF ProbeRestart
  <2>4. UNCHANGED <<want, file, pc, apply, loop, vouched, torn>>
    BY <1>4 DEF ProbeRestart
  <2>5. QED  BY <2>1, <2>2, <2>3, <2>4
<1>5. CASE DaemonExits  BY <1>5 DEF DaemonExits
<1>6. CASE DaemonStarts  BY <1>6 DEF DaemonStarts
<1>7. CASE ReadSignature  BY <1>7 DEF ReadSignature
<1>8. CASE Reconcile  BY <1>8 DEF Reconcile, BeginApply
<1>9. CASE Supervise  BY <1>9 DEF Supervise, BeginApply
<1>10. CASE Unchanged  BY <1>10 DEF Unchanged, Returns
<1>11. CASE NoBinary  BY <1>11 DEF NoBinary, Returns
<1>12. CASE WriteConfig  BY <1>12 DEF WriteConfig
<1>13. CASE CheckPasses
  <2>1. pc' = "swap" /\ torn' \in BOOLEAN  BY <1>13 DEF CheckPasses
  <2>2. UNCHANGED <<want, file, process, apply, loop, vouched, faults>>
    BY <1>13 DEF CheckPasses
  <2>3. QED  BY <2>1, <2>2
<1>14. CASE CheckRefuses  BY <1>14 DEF CheckRefuses, Returns
<1>15. CASE CheckExpires  BY <1>15 DEF CheckExpires, Returns
<1>16. CASE Revive  BY <1>16 DEF Revive, Restarted, Returns
<1>17. CASE Reload  BY <1>17 DEF Reload
<1>18. CASE NeedsRestart  BY <1>18 DEF NeedsRestart
<1>19. CASE VerifyReload  BY <1>19 DEF VerifyReload, Returns
<1>20. CASE Restart  BY <1>20 DEF Restart, Restarted, Returns
<1>21. CASE RetryBind  BY <1>21 DEF RetryBind
<1>22. CASE RestartUnreachable  BY <1>22 DEF RestartUnreachable, Returns
<1>23. CASE UNCHANGED vars  BY <1>23 DEF vars
<1>24. QED
  BY <1>1, <1>2, <1>3, <1>4, <1>5, <1>6, <1>7, <1>8, <1>9, <1>10, <1>11, <1>12, <1>13, <1>14, <1>15, <1>16, <1>17, <1>18, <1>19, <1>20, <1>21, <1>22, <1>23 DEF Next, Daemon, Apply

\* What runs is the file, or about to be.
LEMMA SettledStep ==
    ASSUME IInv, [Next]_vars
    PROVE  Settled'
<1> USE NoneIsNone DEF IInv, TypeOK, process, loop, apply, Fault, NoFault, Settled, Checking, Swapping, Present
<1>1. CASE Edit  BY <1>1 DEF Edit
<1>2. CASE HandleHup  BY <1>2 DEF HandleHup
<1>3. CASE SingBoxExits  BY <1>3 DEF SingBoxExits
<1>4. CASE ProbeRestart  BY <1>4 DEF ProbeRestart
<1>5. CASE DaemonExits  BY <1>5 DEF DaemonExits
<1>6. CASE DaemonStarts  BY <1>6 DEF DaemonStarts
<1>7. CASE ReadSignature  BY <1>7 DEF ReadSignature
<1>8. CASE Reconcile  BY <1>8 DEF Reconcile, BeginApply
<1>9. CASE Supervise  BY <1>9 DEF Supervise, BeginApply
<1>10. CASE Unchanged  BY <1>10 DEF Unchanged, Returns
<1>11. CASE NoBinary  BY <1>11 DEF NoBinary, Returns
<1>12. CASE WriteConfig  BY <1>12 DEF WriteConfig
<1>13. CASE CheckPasses  BY <1>13 DEF CheckPasses
<1>14. CASE CheckRefuses  BY <1>14 DEF CheckRefuses, Returns
<1>15. CASE CheckExpires  BY <1>15 DEF CheckExpires, Returns
<1>16. CASE Revive  BY <1>16 DEF Revive, Restarted, Returns
<1>17. CASE Reload  BY <1>17 DEF Reload
<1>18. CASE NeedsRestart  BY <1>18 DEF NeedsRestart
<1>19. CASE VerifyReload  BY <1>19 DEF VerifyReload, Returns
<1>20. CASE Restart  BY <1>20 DEF Restart, Restarted, Returns
<1>21. CASE RetryBind  BY <1>21 DEF RetryBind
<1>22. CASE RestartUnreachable  BY <1>22 DEF RestartUnreachable, Returns
<1>23. CASE UNCHANGED vars  BY <1>23 DEF vars
<1>24. QED
  BY <1>1, <1>2, <1>3, <1>4, <1>5, <1>6, <1>7, <1>8, <1>9, <1>10, <1>11, <1>12, <1>13, <1>14, <1>15, <1>16, <1>17, <1>18, <1>19, <1>20, <1>21, <1>22, <1>23 DEF Next, Daemon, Apply

\* During the check the old file is what runs.
LEMMA CheckingStep ==
    ASSUME IInv, [Next]_vars
    PROVE  Checking'
<1> USE NoneIsNone DEF IInv, TypeOK, process, loop, apply, Fault, NoFault, Checking, Usable, Settled, Present
<1>1. CASE Edit  BY <1>1 DEF Edit
<1>2. CASE HandleHup  BY <1>2 DEF HandleHup
<1>3. CASE SingBoxExits  BY <1>3 DEF SingBoxExits
<1>4. CASE ProbeRestart  BY <1>4 DEF ProbeRestart
<1>5. CASE DaemonExits  BY <1>5 DEF DaemonExits
<1>6. CASE DaemonStarts  BY <1>6 DEF DaemonStarts
<1>7. CASE ReadSignature  BY <1>7 DEF ReadSignature
<1>8. CASE Reconcile  BY <1>8 DEF Reconcile, BeginApply
<1>9. CASE Supervise  BY <1>9 DEF Supervise, BeginApply
<1>10. CASE Unchanged  BY <1>10 DEF Unchanged, Returns
<1>11. CASE NoBinary  BY <1>11 DEF NoBinary, Returns
<1>12. CASE WriteConfig  BY <1>12 DEF WriteConfig
<1>13. CASE CheckPasses  BY <1>13 DEF CheckPasses
<1>14. CASE CheckRefuses  BY <1>14 DEF CheckRefuses, Returns
<1>15. CASE CheckExpires  BY <1>15 DEF CheckExpires, Returns
<1>16. CASE Revive  BY <1>16 DEF Revive, Restarted, Returns
<1>17. CASE Reload  BY <1>17 DEF Reload
<1>18. CASE NeedsRestart  BY <1>18 DEF NeedsRestart
<1>19. CASE VerifyReload  BY <1>19 DEF VerifyReload, Returns
<1>20. CASE Restart  BY <1>20 DEF Restart, Restarted, Returns
<1>21. CASE RetryBind  BY <1>21 DEF RetryBind
<1>22. CASE RestartUnreachable  BY <1>22 DEF RestartUnreachable, Returns
<1>23. CASE UNCHANGED vars  BY <1>23 DEF vars
<1>24. QED
  BY <1>1, <1>2, <1>3, <1>4, <1>5, <1>6, <1>7, <1>8, <1>9, <1>10, <1>11, <1>12, <1>13, <1>14, <1>15, <1>16, <1>17, <1>18, <1>19, <1>20, <1>21, <1>22, <1>23 DEF Next, Daemon, Apply

\* Past the check the file is the new, accepted one.
LEMMA SwappingStep ==
    ASSUME IInv, [Next]_vars
    PROVE  Swapping'
<1> USE NoneIsNone DEF IInv, TypeOK, process, loop, apply, Fault, NoFault, Checking, Swapping
<1>1. CASE Edit  BY <1>1 DEF Edit
<1>2. CASE HandleHup  BY <1>2 DEF HandleHup
<1>3. CASE SingBoxExits  BY <1>3 DEF SingBoxExits
<1>4. CASE ProbeRestart  BY <1>4 DEF ProbeRestart
<1>5. CASE DaemonExits  BY <1>5 DEF DaemonExits
<1>6. CASE DaemonStarts  BY <1>6 DEF DaemonStarts
<1>7. CASE ReadSignature  BY <1>7 DEF ReadSignature
<1>8. CASE Reconcile  BY <1>8 DEF Reconcile, BeginApply
<1>9. CASE Supervise  BY <1>9 DEF Supervise, BeginApply
<1>10. CASE Unchanged  BY <1>10 DEF Unchanged, Returns
<1>11. CASE NoBinary  BY <1>11 DEF NoBinary, Returns
<1>12. CASE WriteConfig  BY <1>12 DEF WriteConfig
<1>13. CASE CheckPasses  BY <1>13 DEF CheckPasses
<1>14. CASE CheckRefuses  BY <1>14 DEF CheckRefuses, Returns
<1>15. CASE CheckExpires  BY <1>15 DEF CheckExpires, Returns
<1>16. CASE Revive  BY <1>16 DEF Revive, Restarted, Returns
<1>17. CASE Reload  BY <1>17 DEF Reload
<1>18. CASE NeedsRestart  BY <1>18 DEF NeedsRestart
<1>19. CASE VerifyReload  BY <1>19 DEF VerifyReload, Returns
<1>20. CASE Restart  BY <1>20 DEF Restart, Restarted, Returns
<1>21. CASE RetryBind  BY <1>21 DEF RetryBind
<1>22. CASE RestartUnreachable  BY <1>22 DEF RestartUnreachable, Returns
<1>23. CASE UNCHANGED vars  BY <1>23 DEF vars
<1>24. QED
  BY <1>1, <1>2, <1>3, <1>4, <1>5, <1>6, <1>7, <1>8, <1>9, <1>10, <1>11, <1>12, <1>13, <1>14, <1>15, <1>16, <1>17, <1>18, <1>19, <1>20, <1>21, <1>22, <1>23 DEF Next, Daemon, Apply

\* An apply keeps its configuration.
LEMMA ApplyingStep ==
    ASSUME IInv, [Next]_vars
    PROVE  Applying'
<1> USE NoneIsNone DEF IInv, TypeOK, process, loop, apply, Fault, NoFault, Applying
<1>1. CASE Edit  BY <1>1 DEF Edit
<1>2. CASE HandleHup  BY <1>2 DEF HandleHup
<1>3. CASE SingBoxExits  BY <1>3 DEF SingBoxExits
<1>4. CASE ProbeRestart  BY <1>4 DEF ProbeRestart
<1>5. CASE DaemonExits  BY <1>5 DEF DaemonExits
<1>6. CASE DaemonStarts  BY <1>6 DEF DaemonStarts
<1>7. CASE ReadSignature  BY <1>7 DEF ReadSignature
<1>8. CASE Reconcile  BY <1>8 DEF Reconcile, BeginApply
<1>9. CASE Supervise  BY <1>9 DEF Supervise, BeginApply
<1>10. CASE Unchanged  BY <1>10 DEF Unchanged, Returns
<1>11. CASE NoBinary  BY <1>11 DEF NoBinary, Returns
<1>12. CASE WriteConfig  BY <1>12 DEF WriteConfig
<1>13. CASE CheckPasses  BY <1>13 DEF CheckPasses
<1>14. CASE CheckRefuses  BY <1>14 DEF CheckRefuses, Returns
<1>15. CASE CheckExpires  BY <1>15 DEF CheckExpires, Returns
<1>16. CASE Revive  BY <1>16 DEF Revive, Restarted, Returns
<1>17. CASE Reload  BY <1>17 DEF Reload
<1>18. CASE NeedsRestart  BY <1>18 DEF NeedsRestart
<1>19. CASE VerifyReload  BY <1>19 DEF VerifyReload, Returns
<1>20. CASE Restart  BY <1>20 DEF Restart, Restarted, Returns
<1>21. CASE RetryBind  BY <1>21 DEF RetryBind
<1>22. CASE RestartUnreachable  BY <1>22 DEF RestartUnreachable, Returns
<1>23. CASE UNCHANGED vars  BY <1>23 DEF vars
<1>24. QED
  BY <1>1, <1>2, <1>3, <1>4, <1>5, <1>6, <1>7, <1>8, <1>9, <1>10, <1>11, <1>12, <1>13, <1>14, <1>15, <1>16, <1>17, <1>18, <1>19, <1>20, <1>21, <1>22, <1>23 DEF Next, Daemon, Apply

\* An outcome vouches for the file.
LEMMA VouchingStep ==
    ASSUME IInv, [Next]_vars
    PROVE  Vouching'
<1> USE NoneIsNone DEF IInv, TypeOK, process, loop, apply, Fault, NoFault, Vouching, Swapping
<1>1. CASE Edit  BY <1>1 DEF Edit
<1>2. CASE HandleHup  BY <1>2 DEF HandleHup
<1>3. CASE SingBoxExits  BY <1>3 DEF SingBoxExits
<1>4. CASE ProbeRestart  BY <1>4 DEF ProbeRestart
<1>5. CASE DaemonExits  BY <1>5 DEF DaemonExits
<1>6. CASE DaemonStarts  BY <1>6 DEF DaemonStarts
<1>7. CASE ReadSignature  BY <1>7 DEF ReadSignature
<1>8. CASE Reconcile  BY <1>8 DEF Reconcile, BeginApply
<1>9. CASE Supervise  BY <1>9 DEF Supervise, BeginApply
<1>10. CASE Unchanged  BY <1>10 DEF Unchanged, Returns
<1>11. CASE NoBinary  BY <1>11 DEF NoBinary, Returns
<1>12. CASE WriteConfig  BY <1>12 DEF WriteConfig
<1>13. CASE CheckPasses  BY <1>13 DEF CheckPasses
<1>14. CASE CheckRefuses  BY <1>14 DEF CheckRefuses, Returns
<1>15. CASE CheckExpires  BY <1>15 DEF CheckExpires, Returns
<1>16. CASE Revive  BY <1>16 DEF Revive, Restarted, Returns
<1>17. CASE Reload  BY <1>17 DEF Reload
<1>18. CASE NeedsRestart  BY <1>18 DEF NeedsRestart
<1>19. CASE VerifyReload  BY <1>19 DEF VerifyReload, Returns
<1>20. CASE Restart  BY <1>20 DEF Restart, Restarted, Returns
<1>21. CASE RetryBind  BY <1>21 DEF RetryBind
<1>22. CASE RestartUnreachable  BY <1>22 DEF RestartUnreachable, Returns
<1>23. CASE UNCHANGED vars  BY <1>23 DEF vars
<1>24. QED
  BY <1>1, <1>2, <1>3, <1>4, <1>5, <1>6, <1>7, <1>8, <1>9, <1>10, <1>11, <1>12, <1>13, <1>14, <1>15, <1>16, <1>17, <1>18, <1>19, <1>20, <1>21, <1>22, <1>23 DEF Next, Daemon, Apply

\* A process keeps having a file.
LEMMA PresentStep ==
    ASSUME IInv, [Next]_vars
    PROVE  Present'
<1> USE NoneIsNone DEF IInv, TypeOK, process, loop, apply, Fault, NoFault, Present, Applying, Checking, Swapping
<1>1. CASE Edit  BY <1>1 DEF Edit
<1>2. CASE HandleHup  BY <1>2 DEF HandleHup
<1>3. CASE SingBoxExits  BY <1>3 DEF SingBoxExits
<1>4. CASE ProbeRestart  BY <1>4 DEF ProbeRestart
<1>5. CASE DaemonExits  BY <1>5 DEF DaemonExits
<1>6. CASE DaemonStarts  BY <1>6 DEF DaemonStarts
<1>7. CASE ReadSignature  BY <1>7 DEF ReadSignature
<1>8. CASE Reconcile  BY <1>8 DEF Reconcile, BeginApply
<1>9. CASE Supervise  BY <1>9 DEF Supervise, BeginApply
<1>10. CASE Unchanged  BY <1>10 DEF Unchanged, Returns
<1>11. CASE NoBinary  BY <1>11 DEF NoBinary, Returns
<1>12. CASE WriteConfig  BY <1>12 DEF WriteConfig
<1>13. CASE CheckPasses  BY <1>13 DEF CheckPasses
<1>14. CASE CheckRefuses  BY <1>14 DEF CheckRefuses, Returns
<1>15. CASE CheckExpires  BY <1>15 DEF CheckExpires, Returns
<1>16. CASE Revive  BY <1>16 DEF Revive, Restarted, Returns
<1>17. CASE Reload  BY <1>17 DEF Reload
<1>18. CASE NeedsRestart  BY <1>18 DEF NeedsRestart
<1>19. CASE VerifyReload  BY <1>19 DEF VerifyReload, Returns
<1>20. CASE Restart  BY <1>20 DEF Restart, Restarted, Returns
<1>21. CASE RetryBind  BY <1>21 DEF RetryBind
<1>22. CASE RestartUnreachable  BY <1>22 DEF RestartUnreachable, Returns
<1>23. CASE UNCHANGED vars  BY <1>23 DEF vars
<1>24. QED
  BY <1>1, <1>2, <1>3, <1>4, <1>5, <1>6, <1>7, <1>8, <1>9, <1>10, <1>11, <1>12, <1>13, <1>14, <1>15, <1>16, <1>17, <1>18, <1>19, <1>20, <1>21, <1>22, <1>23 DEF Next, Daemon, Apply

\* The file stays acceptable.
LEMMA UsableStep ==
    ASSUME IInv, [Next]_vars
    PROVE  Usable'
<1> USE NoneIsNone DEF IInv, TypeOK, process, loop, apply, Fault, NoFault, Usable, Checking, Swapping, Present
<1>1. CASE Edit  BY <1>1 DEF Edit
<1>2. CASE HandleHup  BY <1>2 DEF HandleHup
<1>3. CASE SingBoxExits  BY <1>3 DEF SingBoxExits
<1>4. CASE ProbeRestart  BY <1>4 DEF ProbeRestart
<1>5. CASE DaemonExits  BY <1>5 DEF DaemonExits
<1>6. CASE DaemonStarts  BY <1>6 DEF DaemonStarts
<1>7. CASE ReadSignature  BY <1>7 DEF ReadSignature
<1>8. CASE Reconcile  BY <1>8 DEF Reconcile, BeginApply
<1>9. CASE Supervise  BY <1>9 DEF Supervise, BeginApply
<1>10. CASE Unchanged  BY <1>10 DEF Unchanged, Returns
<1>11. CASE NoBinary  BY <1>11 DEF NoBinary, Returns
<1>12. CASE WriteConfig  BY <1>12 DEF WriteConfig
<1>13. CASE CheckPasses  BY <1>13 DEF CheckPasses
<1>14. CASE CheckRefuses  BY <1>14 DEF CheckRefuses, Returns
<1>15. CASE CheckExpires  BY <1>15 DEF CheckExpires, Returns
<1>16. CASE Revive  BY <1>16 DEF Revive, Restarted, Returns
<1>17. CASE Reload  BY <1>17 DEF Reload
<1>18. CASE NeedsRestart  BY <1>18 DEF NeedsRestart
<1>19. CASE VerifyReload  BY <1>19 DEF VerifyReload, Returns
<1>20. CASE Restart  BY <1>20 DEF Restart, Restarted, Returns
<1>21. CASE RetryBind  BY <1>21 DEF RetryBind
<1>22. CASE RestartUnreachable  BY <1>22 DEF RestartUnreachable, Returns
<1>23. CASE UNCHANGED vars  BY <1>23 DEF vars
<1>24. QED
  BY <1>1, <1>2, <1>3, <1>4, <1>5, <1>6, <1>7, <1>8, <1>9, <1>10, <1>11, <1>12, <1>13, <1>14, <1>15, <1>16, <1>17, <1>18, <1>19, <1>20, <1>21, <1>22, <1>23 DEF Next, Daemon, Apply

\* The invariant holds in every reachable state.
THEOREM Invariance ==
    ASSUME 1 \in Configs
    PROVE  Spec => []IInv
<1>1. IInv /\ [Next]_vars => IInv'
  BY TypeStep, SettledStep, CheckingStep, SwappingStep, ApplyingStep,
     VouchingStep, PresentStep, UsableStep DEF IInv
<1>2. QED  BY <1>1, InitIInv, PTL DEF Spec

\* sing-box never runs a configuration its check refuses, and every variable
\* of the loop keeps its type.
THEOREM TypeCorrect ==
    ASSUME 1 \in Configs
    PROVE  Spec => []TypeOK
<1>1. IInv => TypeOK  BY DEF IInv
<1>2. QED  BY <1>1, Invariance, PTL

\* An apply that vouched for a configuration (ApplyOutcome UNCHANGED, APPLIED)
\* left sing-box running that configuration, unless an apply was cut short.
THEOREM VouchedRuns ==
    ASSUME 1 \in Configs
    PROVE  Spec => []VouchedUnlessTorn
<1>1. IInv => VouchedUnlessTorn
  BY DEF IInv, TypeOK, VouchedUnlessTorn, VouchedIsLive, Settled, Vouching
<1>2. QED  BY <1>1, Invariance, PTL

\* Between applies the file is one that sing-box accepts (the last known-good
\* one is kept when a new one is refused), unless an apply was cut short.
THEOREM LastGoodIsKept ==
    ASSUME 1 \in Configs
    PROVE  Spec => []LastGoodKept
<1>1. IInv => LastGoodKept  BY DEF IInv, LastGoodKept, Usable
<1>2. QED  BY <1>1, Invariance, PTL
----------------------------------------------------------------------------
(* Order: nothing old comes back.                                          *)

\* While edits move forward, what runs is never ahead of the file, and no file
\* or configuration in hand is ahead of the state.
Ordered ==
    /\ live <= file
    /\ file <= want
    /\ new <= want
    /\ pc = "apply" => file <= new
    /\ pc = "check" => file = new /\ old <= new
    /\ pc = "check" /\ new \in Rejected => live <= old
    /\ pc \in {"swap", "verify", "restart"} => file = new

\* Configurations, and the absence of one, are natural numbers.
LEMMA Numbers ==
    ASSUME TypeOK
    PROVE  /\ want \in Nat /\ file \in Nat /\ live \in Nat
           /\ new \in Nat /\ old \in Nat
  BY ApplierAssumption DEF TypeOK, Configs, None

\* Every step keeps the order, and loads nothing older than what runs.
LEMMA OrderedStep ==
    ASSUME Revisits = FALSE, TypeOK, Ordered, [Next]_vars
    PROVE  Ordered' /\ (live # None /\ live' # None => live' >= live)
<1> USE Numbers DEF Ordered, process, loop, apply, None
<1>1. CASE Edit  BY <1>1, ApplierAssumption DEF Edit, Configs
<1>2. CASE HandleHup  BY <1>2 DEF HandleHup
<1>3. CASE SingBoxExits  BY <1>3 DEF SingBoxExits
<1>4. CASE ProbeRestart  BY <1>4 DEF ProbeRestart
<1>5. CASE DaemonExits  BY <1>5 DEF DaemonExits
<1>6. CASE DaemonStarts  BY <1>6 DEF DaemonStarts
<1>7. CASE ReadSignature  BY <1>7 DEF ReadSignature
<1>8. CASE Reconcile  BY <1>8 DEF Reconcile, BeginApply
<1>9. CASE Supervise  BY <1>9 DEF Supervise, BeginApply
<1>10. CASE Unchanged  BY <1>10 DEF Unchanged, Returns
<1>11. CASE NoBinary  BY <1>11 DEF NoBinary, Returns
<1>12. CASE WriteConfig  BY <1>12 DEF WriteConfig
<1>13. CASE CheckPasses  BY <1>13 DEF CheckPasses
<1>14. CASE CheckRefuses  BY <1>14 DEF CheckRefuses, Returns
<1>15. CASE CheckExpires  BY <1>15 DEF CheckExpires, Returns
<1>16. CASE Revive  BY <1>16 DEF Revive, Restarted, Returns
<1>17. CASE Reload  BY <1>17 DEF Reload
<1>18. CASE NeedsRestart  BY <1>18 DEF NeedsRestart
<1>19. CASE VerifyReload  BY <1>19 DEF VerifyReload, Returns
<1>20. CASE Restart  BY <1>20 DEF Restart, Restarted, Returns
<1>21. CASE RetryBind  BY <1>21 DEF RetryBind
<1>22. CASE RestartUnreachable  BY <1>22 DEF RestartUnreachable, Returns
<1>23. CASE UNCHANGED vars  BY <1>23 DEF vars
<1>24. QED
  BY <1>1, <1>2, <1>3, <1>4, <1>5, <1>6, <1>7, <1>8, <1>9, <1>10, <1>11, <1>12, <1>13, <1>14, <1>15, <1>16, <1>17, <1>18, <1>19, <1>20, <1>21, <1>22, <1>23 DEF Next, Daemon, Apply

\* While edits only move forward, no late signal, restored file or restart puts
\* an older configuration back into a running sing-box.
THEOREM NothingRegresses ==
    ASSUME 1 \in Configs, Revisits = FALSE
    PROVE  Spec => NoRegression
<1>1. Init => Ordered  BY DEF Init, Ordered, None
<1>2. TypeOK /\ Ordered /\ [Next]_vars => Ordered'  BY OrderedStep
<1>3. TypeOK /\ Ordered /\ [Next]_vars
        => [live # None /\ live' # None => live' >= live]_live
  BY OrderedStep
<1>4. QED  BY <1>1, <1>2, <1>3, TypeCorrect, PTL DEF Spec, NoRegression
=============================================================================
