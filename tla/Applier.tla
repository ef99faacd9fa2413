------------------------------ MODULE Applier ------------------------------
(***************************************************************************)
(* The daemon's applier loop (daemon.run_applier), Engine.reconcile and    *)
(* Runner.apply (singbox.py) over one user-owned sing-box process.         *)
(*                                                                         *)
(* state.json compiles to a configuration, here a number.  The loop reads  *)
(* the state's signature, applies the configuration (write the file, check *)
(* it, reload or restart sing-box, verify) and supervises the process.     *)
(* Users edit state.json, sing-box exits, starts fail and SIGHUP is acted  *)
(* upon late, between any two steps.  The privileged helper, the port      *)
(* reallocation of a failed bind and the clock are not in this module.     *)
(***************************************************************************)
EXTENDS Integers

CONSTANTS
    MaxConfig,       \* bound: configurations are 1..MaxConfig
    Rejected,        \* the configurations `sing-box check` refuses
    MaxFaults,       \* bound: environment faults in a behaviour
    Revisits         \* TRUE: an edit may bring back an earlier configuration

Configs == 1..MaxConfig
None == 0            \* no file, no process, nothing read

ASSUME ApplierAssumption ==
    /\ MaxConfig \in Nat
    /\ Rejected \subseteq Configs
    /\ MaxFaults \in Nat
    /\ Revisits \in BOOLEAN

VARIABLES
    want,      \* the configuration state.json compiles to
    file,      \* the sing-box configuration file
    live,      \* what the running sing-box loaded, None when it is down
    hup,       \* SIGHUP delivered and not acted upon
    pc,        \* the loop thread
    caller,    \* who asked for the apply: the loop's reconcile or supervision
    new, old,  \* Runner.apply's locals
    sig, lastSig, ok, retry, expected,  \* run_applier's locals
    vouched,   \* history: what the last apply vouched for, None when it failed
    torn,      \* history: an apply ended between replacing the file and using it
    faults

process == <<live, hup>>
loop == <<sig, lastSig, ok, retry, expected>>
apply == <<caller, new, old>>
vars == <<want, file, live, hup, pc, caller, new, old,
          sig, lastSig, ok, retry, expected, vouched, torn, faults>>

TypeOK ==
    /\ want \in Configs
    /\ file \in Configs \cup {None}
    /\ live \in (Configs \ Rejected) \cup {None}
    /\ hup \in BOOLEAN
    /\ pc \in {"down", "loop", "apply", "check", "revive", "swap", "verify", "restart"}
    /\ caller \in {"reconcile", "supervise"}
    /\ new \in Configs \cup {None}
    /\ old \in Configs \cup {None}
    /\ sig \in Configs \cup {None}
    /\ lastSig \in Configs \cup {None}
    /\ ok \in BOOLEAN
    /\ retry \in BOOLEAN
    /\ expected \in BOOLEAN
    /\ vouched \in Configs \cup {None}
    /\ torn \in BOOLEAN
    /\ faults \in 0..MaxFaults

Init ==
    /\ want = 1
    /\ file = None /\ live = None /\ hup = FALSE
    /\ pc = "loop"
    /\ caller = "reconcile" /\ new = None /\ old = None
    /\ sig = None /\ lastSig = None
    /\ ok = TRUE /\ retry = FALSE /\ expected = FALSE
    /\ vouched = None
    /\ torn = FALSE
    /\ faults = 0

\* One of the boundedly many faults happens in this step.
Fault == faults < MaxFaults /\ faults' = faults + 1
NoFault == UNCHANGED faults

----------------------------------------------------------------------------
(* The environment.                                                        *)

Edit ==
    /\ \E c \in Configs : /\ c > want \/ (Revisits /\ c # want)
                          /\ want' = c
    /\ UNCHANGED <<file, process, pc, apply, loop, vouched, torn, faults>>

\* sing-box acts on SIGHUP: it loads the file as it is by now, or exits.
HandleHup ==
    /\ hup
    /\ hup' = FALSE
    /\ \/ file \notin Rejected /\ live' = file /\ NoFault
       \/ file \in Rejected /\ live' = None /\ NoFault
       \/ live' = None /\ Fault
    /\ UNCHANGED <<want, file, pc, apply, loop, vouched, torn>>

SingBoxExits ==
    /\ live # None
    /\ Fault
    /\ live' = None /\ hup' = FALSE
    /\ UNCHANGED <<want, file, pc, apply, loop, vouched, torn>>

\* Mutant of Restarted: a start is not refused for a configuration it rejects.
RestartedBlindly ==
    /\ hup' = FALSE
    /\ \/ live' = file /\ NoFault
       \/ live' = None /\ Fault

\* Stop and start, under the lifecycle lock: the process runs the file, or
\* dies at once because the file is refused or a port is taken.
Restarted ==
    /\ hup' = FALSE
    /\ \/ file # None /\ file \notin Rejected /\ live' = file /\ NoFault
       \/ file \in Rejected \cup {None} /\ live' = None /\ NoFault
       \/ live' = None /\ Fault

\* The probe thread's auto-reconnect restarts sing-box between two applies,
\* also one that has exited; the start may fail.
ProbeRestart ==
    /\ pc = "loop" \/ (pc = "apply" /\ caller = "reconcile")
    /\ Fault
    /\ hup' = FALSE
    /\ live' = None \/ (file \notin Rejected \cup {None} /\ live' = file)
    /\ UNCHANGED <<want, file, pc, apply, loop, vouched, torn>>

\* The daemon stops or is killed and leaves sing-box running.
DaemonExits ==
    /\ pc # "down"
    /\ Fault
    /\ pc' = "down"
    /\ torn' = (torn \/ pc \in {"check", "swap"})
    /\ UNCHANGED <<want, file, process, apply, loop, vouched>>

\* A new daemon adopts the sing-box it finds.
DaemonStarts ==
    /\ pc = "down"
    /\ pc' = "loop"
    /\ sig' = None /\ lastSig' = None
    /\ ok' = TRUE /\ retry' = FALSE /\ expected' = FALSE
    /\ vouched' = None
    /\ UNCHANGED <<want, file, process, apply, torn, faults>>

----------------------------------------------------------------------------
(* The loop.                                                               *)

ReadSignature ==
    /\ pc = "loop"
    /\ sig # want
    /\ sig' = want
    /\ UNCHANGED <<want, file, process, pc, apply, lastSig, ok, retry, expected,
                   vouched, torn, faults>>

\* Engine(Store.load()) reads the state a second time.
BeginApply(who) ==
    /\ pc' = "apply"
    /\ caller' = who
    /\ new' = want
    /\ UNCHANGED <<want, file, process, old, loop, vouched, torn, faults>>

Reconcile == /\ pc = "loop"
             /\ sig # lastSig \/ (~ok /\ retry)
             /\ BeginApply("reconcile")

\* An unexpected exit, once a reconcile has succeeded in this daemon's life.
Supervise == /\ pc = "loop"
             /\ live = None
             /\ expected
             /\ BeginApply("supervise")

\* Mutant of Returns: a failure waits for an edit, as a refusal does.
ReturnsForGood(outcome) ==
    /\ pc' = "loop"
    /\ vouched' = IF outcome = "ok" THEN new ELSE None
    /\ IF caller = "reconcile"
       THEN /\ lastSig' = sig
            /\ ok' = (outcome = "ok")
            /\ retry' = FALSE
            /\ expected' = (expected \/ outcome = "ok")
       ELSE UNCHANGED <<lastSig, ok, retry, expected>>
    /\ UNCHANGED <<want, caller, new, old, sig>>

\* Back in the loop: only a reconcile of the loop's own records its outcome.
\* A refused configuration waits for an edit, any other failure for a timer.
Returns(outcome) ==
    /\ pc' = "loop"
    /\ vouched' = IF outcome = "ok" THEN new ELSE None
    /\ IF caller = "reconcile"
       THEN /\ lastSig' = sig
            /\ ok' = (outcome = "ok")
            /\ retry' = (outcome = "failed")
            /\ expected' = (expected \/ outcome = "ok")
       ELSE UNCHANGED <<lastSig, ok, retry, expected>>
    /\ UNCHANGED <<want, caller, new, old, sig>>

----------------------------------------------------------------------------
(* Runner.apply.                                                           *)

Unchanged ==
    /\ pc = "apply"
    /\ new = file /\ live # None
    /\ Returns("ok")
    /\ UNCHANGED <<file, process, torn, faults>>

\* The binary cannot be obtained.
NoBinary ==
    /\ pc = "apply"
    /\ new # file \/ live = None
    /\ Fault
    /\ Returns("failed")
    /\ UNCHANGED <<file, process, torn>>

\* Mutant of WriteConfig: the file to fall back to is read only once.
WriteConfigOnce ==
    /\ pc = "apply"
    /\ IF new # file \/ live = None THEN NoFault ELSE Fault
    /\ old' = IF old = None THEN file ELSE old
    /\ file' = new
    /\ pc' = "check"
    /\ UNCHANGED <<want, process, caller, new, loop, vouched, torn>>

\* The file is replaced before it is checked.  A control API that does not
\* answer leads here with an unchanged configuration too.
WriteConfig ==
    /\ pc = "apply"
    /\ IF new # file \/ live = None THEN NoFault ELSE Fault
    /\ old' = file
    /\ file' = new
    /\ pc' = "check"
    /\ UNCHANGED <<want, process, caller, new, loop, vouched, torn>>

CheckPasses ==
    /\ pc = "check"
    /\ new \notin Rejected
    /\ pc' = "swap"
    /\ torn' = FALSE
    /\ UNCHANGED <<want, file, process, apply, loop, vouched, faults>>

\* Mutant of CheckRefuses: the refused file stays.
CheckRefusesKeeps ==
    /\ pc = "check"
    /\ new \in Rejected
    /\ Returns("rejected")
    /\ UNCHANGED <<file, process, torn, faults>>

\* Refused: the previous file comes back, and its process if it is down.
CheckRefuses ==
    /\ pc = "check"
    /\ new \in Rejected
    /\ file' = IF old # None THEN old ELSE file
    /\ IF old # None /\ live = None
       THEN /\ pc' = "revive"
            /\ UNCHANGED <<want, apply, loop, vouched>>
       ELSE Returns("rejected")
    /\ UNCHANGED <<process, torn, faults>>

\* `sing-box check` is killed after its time limit and the apply raises.
CheckExpires ==
    /\ pc = "check"
    /\ Fault
    /\ Returns("failed")
    /\ torn' = TRUE
    /\ UNCHANGED <<file, process>>

Revive ==
    /\ pc = "revive"
    /\ Restarted
    /\ Returns("rejected")
    /\ UNCHANGED <<file, torn>>

\* Mutant of Reload: the signal goes nowhere.
ReloadUnsent ==
    /\ pc = "swap"
    /\ live # None
    /\ pc' = "verify"
    /\ UNCHANGED <<want, file, process, apply, loop, vouched, torn, faults>>

Reload ==
    /\ pc = "swap"
    /\ live # None
    /\ hup' = TRUE
    /\ pc' = "verify"
    /\ UNCHANGED <<want, file, live, apply, loop, vouched, torn, faults>>

\* Nothing runs, or the reloaded process did not come back.
NeedsRestart ==
    /\ \/ pc = "swap" /\ live = None /\ NoFault
       \/ pc = "verify" /\ live = None /\ NoFault
       \/ pc = "verify" /\ live # None /\ Fault
    /\ pc' = "restart"
    /\ UNCHANGED <<want, file, process, apply, loop, vouched, torn>>

\* The control API answers: so does that of the instance being replaced.
VerifyReload ==
    /\ pc = "verify"
    /\ live # None
    /\ Returns("ok")
    /\ UNCHANGED <<file, process, torn, faults>>

Restart ==
    /\ pc = "restart"
    /\ Restarted
    /\ Returns(IF live' = None THEN "failed" ELSE "ok")
    /\ UNCHANGED <<file, torn>>

\* A start that failed on a port in use is retried with the same configuration.
RetryBind ==
    /\ pc = "restart"
    /\ Fault
    /\ live' = None /\ hup' = FALSE
    /\ pc' = "apply"
    /\ UNCHANGED <<want, file, apply, loop, vouched, torn>>

\* Started, but its control API stays silent: reported failed, left running.
RestartUnreachable ==
    /\ pc = "restart"
    /\ file \notin Rejected
    /\ Fault
    /\ live' = file /\ hup' = FALSE
    /\ Returns("failed")
    /\ UNCHANGED <<file, torn>>

Apply == \/ Unchanged \/ NoBinary \/ WriteConfig
         \/ CheckPasses \/ CheckRefuses \/ CheckExpires \/ Revive
         \/ Reload \/ NeedsRestart \/ VerifyReload
         \/ Restart \/ RetryBind \/ RestartUnreachable

Daemon == ReadSignature \/ Reconcile \/ Supervise \/ Apply

Next == \/ Edit \/ HandleHup \/ SingBoxExits \/ ProbeRestart
        \/ DaemonExits \/ DaemonStarts
        \/ Daemon

\* The loop ticks every second and its applies end; sing-box handles signals
\* it receives; the service manager or the next command starts a dead daemon.
Fairness == /\ WF_vars(Daemon)
            /\ WF_vars(HandleHup)
            /\ WF_vars(DaemonStarts)
            /\ SF_vars(ReadSignature)

Spec == Init /\ [][Next]_vars
FairSpec == Spec /\ Fairness
----------------------------------------------------------------------------
(* Properties.                                                             *)

\* Between applies, a running sing-box that was vouched for (UNCHANGED:
\* "config identical and the process is healthy", APPLIED: "new config live")
\* runs the configuration it was vouched for, once pending signals are handled.
VouchedIsLive ==
    pc = "loop" /\ vouched # None /\ live # None /\ ~hup => live = vouched

\* The same, as long as no apply was cut short with its file already in place.
VouchedUnlessTorn == torn \/ VouchedIsLive

\* Between applies the file is one that sing-box accepts, whatever was refused
\* in between: it is what the next start, of any process, will run.
LastGoodKept ==
    pc = "loop" /\ (live # None \/ expected) => torn \/ file \notin Rejected

\* While edits only move forward, no step puts an older configuration back
\* into a running sing-box: no late signal, no restored file, no restart.
NoRegression == [][live # None /\ live' # None => live' >= live]_live

\* Once edits and faults stop, sing-box ends up running the wanted
\* configuration, unless sing-box refuses it or an apply was cut short.
Converges == <>[](torn \/ want \in Rejected \/ live = want)
=============================================================================
