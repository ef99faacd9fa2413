------------------------------ MODULE TunTrial ------------------------------
(***************************************************************************)
(* System-wide TUN mode and its trial: a dead-man's switch that turns TUN  *)
(* off again unless somebody confirms in time.  The trial is a marker file *)
(* with a nonce and a deadline, and a detached watchdog process that knows *)
(* the nonce.  Arm, confirm, expire, recovery and the explicit on and off  *)
(* take tun-trial.lock; the holder may fail or be killed between any two   *)
(* of its steps.                                                           *)
(***************************************************************************)
EXTENDS Integers, FiniteSets

CONSTANTS MaxTrials,   \* bound on the trials armed
          Windows,     \* lengths of a trial, in ticks
          MaxFaults    \* bound on killed holders and damaged markers

ASSUME TrialAssumption ==
  MaxTrials \in Nat /\ MaxFaults \in Nat /\ Windows \subseteq Nat \ {0}

VARIABLES tun,      \* router.tun in state.json
          applied,  \* TUN in the configuration sing-box runs
          marker,   \* tun.trial: [nonce, left], or with nonce NoMarker or Bad
          dogs,     \* watchdog processes, [nonce, left]
          op,       \* who holds the lock: [kind, at, nonce, left, window]
          boot,     \* daemon: "down", "settle" (before its first reconcile), "run"
          decided,  \* history: trials ended by a person
          latest,   \* history: the trial armed last
          faults    \* history: how many faults happened

vars == <<tun, applied, marker, dogs, op, boot, decided, latest, faults>>

NoMarker == 0
Bad == -1                 \* unreadable or invalid
Trials == 1..MaxTrials
Gone == [nonce |-> NoMarker, left |-> 0]
Nobody == [kind |-> "none", at |-> "-", nonce |-> 0, left |-> 0, window |-> 0]
Hold(kind, at) == [Nobody EXCEPT !.kind = kind, !.at = at]
Pending == marker.nonce \in Trials      \* _tun_trial_read() is not None
Elapsed(n) == IF n = 0 THEN 0 ELSE n - 1

Init ==
  /\ tun = FALSE /\ applied = FALSE
  /\ marker = Gone
  /\ dogs = {}
  /\ op = Nobody
  /\ boot = "run"
  /\ decided = {} /\ latest = 0 /\ faults = 0
---------------------------------------------------------------------------
(* Taking the lock *)

\* The deadline is computed before the lock is taken, the watchdog's own sleep
\* starts after it: waiting costs the former only.
Arm(window, waited) ==
  /\ op = Nobody
  /\ latest < MaxTrials
  /\ op' = [kind |-> "arm", at |-> "write", nonce |-> latest + 1,
            left |-> window - waited, window |-> window]
  /\ UNCHANGED <<tun, applied, marker, dogs, boot, decided, latest, faults>>

Toggle(kind) ==
  /\ op = Nobody
  /\ op' = Hold(kind, "unlink")
  /\ UNCHANGED <<tun, applied, marker, dogs, boot, decided, latest, faults>>

ConfirmLate ==
  /\ Pending
  /\ marker' = Gone
  /\ decided' = decided \cup {marker.nonce}
  /\ UNCHANGED <<tun, applied, dogs, op, boot, latest, faults>>

\* The only step of tun_trial_confirm under the lock.
Confirm == op = Nobody /\ ConfirmLate

\* A watchdog wakes; if the marker is not its own it exits.
Expire(d) ==
  /\ op = Nobody
  /\ d.left = 0
  /\ dogs' = dogs \ {d}
  /\ op' = IF Pending /\ marker.nonce = d.nonce
           THEN [Hold("revert", "unlink") EXCEPT !.nonce = d.nonce] ELSE Nobody
  /\ UNCHANGED <<tun, applied, marker, boot, decided, latest, faults>>

\* The starting daemon settles what it finds before anything is applied.
Settle ==
  /\ boot = "settle"
  /\ op = Nobody
  /\ \/ /\ marker = Gone
        /\ boot' = "run"
        /\ op' = op
     \/ /\ marker # Gone
        /\ op' = IF Pending /\ marker.left > 0
                 THEN [Hold("recover", "spawn") EXCEPT !.nonce = marker.nonce, !.window = marker.left]
                 ELSE [Hold("recover", "unlink") EXCEPT !.nonce = marker.nonce]
        /\ boot' = boot
  /\ UNCHANGED <<tun, applied, marker, dogs, decided, latest, faults>>
---------------------------------------------------------------------------
(* Steps under the lock *)

Goto(at) == op' = [op EXCEPT !.at = at]
\* Releasing the lock; the recovering daemon goes on to its loop.
Released == op' = Nobody /\ boot' = IF op.kind = "recover" THEN "run" ELSE boot

WriteMarker ==
  /\ op.at = "write"
  /\ marker' = [nonce |-> op.nonce, left |-> op.left]
  /\ latest' = op.nonce
  /\ Goto("spawn")
  /\ UNCHANGED <<tun, applied, dogs, boot, decided, faults>>

\* Recovery takes a watchdog for granted.
SpawnArmed ==
  /\ op.at = "spawn"
  /\ IF op.kind = "arm"
     THEN dogs' = dogs \cup {[nonce |-> op.nonce, left |-> op.window]} /\ Goto("set") /\ UNCHANGED boot
     ELSE Released /\ UNCHANGED dogs
  /\ UNCHANGED <<tun, applied, marker, decided, latest, faults>>

\* A re-armed watchdog sleeps for what is left and keeps the nonce.
Spawn ==
  /\ op.at = "spawn"
  /\ dogs' = dogs \cup {[nonce |-> op.nonce, left |-> op.window]}
  /\ IF op.kind = "arm" THEN Goto("set") /\ UNCHANGED boot ELSE Released
  /\ UNCHANGED <<tun, applied, marker, decided, latest, faults>>

\* Nothing is turned off when no daemon runs.
UnlinkOnly ==
  /\ op.at = "unlink"
  /\ marker' = Gone
  /\ decided' = IF op.kind \in {"on", "off"} THEN decided \cup {latest} ELSE decided
  /\ IF boot = "down" \/ (op.kind = "recover" /\ ~tun) THEN Released ELSE Goto("set") /\ UNCHANGED boot
  /\ UNCHANGED <<tun, applied, dogs, latest, faults>>

Unlink ==
  /\ op.at = "unlink"
  /\ marker' = Gone
  /\ decided' = IF op.kind \in {"on", "off"} THEN decided \cup {latest} ELSE decided
  /\ IF op.kind = "recover" /\ ~tun THEN Released ELSE Goto("set") /\ UNCHANGED boot
  /\ UNCHANGED <<tun, applied, dogs, latest, faults>>

\* _set_tun: the flag, then daemon.ensure_running.
SetTun ==
  /\ op.at = "set"
  /\ tun' = (op.kind \in {"arm", "on"})
  /\ Goto("ensure")
  /\ UNCHANGED <<applied, marker, dogs, boot, decided, latest, faults>>

EnsureRunning ==
  /\ op.at = "ensure"
  /\ op' = Nobody
  /\ boot' = IF op.kind = "recover" THEN "run" ELSE IF boot = "down" THEN "settle" ELSE boot
  /\ UNCHANGED <<tun, applied, marker, dogs, decided, latest, faults>>

\* The holder raises or is killed: the lock is free, the rest is not done.  A
\* recovery that raises is logged and the daemon goes on; one killed is not.
Cut ==
  /\ op # Nobody
  /\ faults < MaxFaults
  /\ faults' = faults + 1
  /\ Released \/ (op' = Nobody /\ op.kind = "recover" /\ boot' = "down")
  /\ UNCHANGED <<tun, applied, marker, dogs, decided, latest>>
---------------------------------------------------------------------------
(* Around the lock *)

Reconcile ==
  /\ boot = "run"
  /\ applied # tun
  /\ applied' = tun
  /\ UNCHANGED <<tun, marker, dogs, op, boot, decided, latest, faults>>

DaemonStarts ==
  /\ boot = "down"
  /\ boot' = "settle"
  /\ UNCHANGED <<tun, applied, marker, dogs, op, decided, latest, faults>>

\* sing-box and the watchdogs outlive the daemon.
DaemonDies ==
  /\ boot # "down" /\ op.kind # "recover"
  /\ boot' = "down"
  /\ UNCHANGED <<tun, applied, marker, dogs, op, decided, latest, faults>>

\* A power loss or a recreated container leaves the two files.
PowerLoss ==
  /\ op = Nobody \/ faults < MaxFaults
  /\ faults' = IF op = Nobody THEN faults ELSE faults + 1
  /\ applied' = FALSE /\ dogs' = {} /\ op' = Nobody /\ boot' = "down"
  /\ UNCHANGED <<tun, marker, decided, latest>>

MarkerDamaged ==
  /\ Pending /\ op = Nobody
  /\ faults < MaxFaults
  /\ faults' = faults + 1
  /\ marker' = [marker EXCEPT !.nonce = Bad]
  /\ UNCHANGED <<tun, applied, dogs, op, boot, decided, latest>>

\* Deadlines and sleeps count down; an overdue one stays at zero.
Tick ==
  /\ \E d \in dogs \cup {marker, op} : d.left > 0
  /\ marker' = [marker EXCEPT !.left = Elapsed(@)]
  /\ dogs' = {[d EXCEPT !.left = Elapsed(@)] : d \in dogs}
  /\ op' = [op EXCEPT !.left = Elapsed(@)]
  /\ UNCHANGED <<tun, applied, boot, decided, latest, faults>>

Holder == WriteMarker \/ Spawn \/ Unlink \/ SetTun \/ EnsureRunning
SomeExpire == \E d \in dogs : Expire(d)
People ==
  \/ \E w \in Windows : \E waited \in 0..w : Arm(w, waited)
  \/ \E kind \in {"on", "off"} : Toggle(kind)
  \/ Confirm
Faults == Cut \/ DaemonDies \/ PowerLoss \/ MarkerDamaged
Next == People \/ SomeExpire \/ Settle \/ Holder \/ Reconcile \/ DaemonStarts \/ Faults \/ Tick

\* Time passes, the holder works, a waiting watchdog or daemon gets the lock in
\* the end, and the running daemon polls.  Nobody promises to start a daemon.
Fairness ==
  /\ WF_vars(Tick) /\ WF_vars(Holder) /\ WF_vars(Reconcile)
  /\ SF_vars(SomeExpire) /\ SF_vars(Settle)
Spec == Init /\ [][Next]_vars /\ Fairness
---------------------------------------------------------------------------
(* Properties *)

OnTrial == tun /\ latest # 0 /\ latest \notin decided
Armed == marker.nonce = latest /\ (boot = "run" => \E d \in dogs : d.nonce = latest)

\* While TUN is on under a trial nobody decided, its revert is pending: its
\* marker is there, and a running daemon has a watchdog for it.  It holds
\* through daemon restarts and power loss, but not through a holder cut short.
RevertPending == OnTrial /\ op = Nobody /\ faults = 0 => Armed

\* A decision that a person made and saw made is never undone by a watchdog or
\* by recovery: they revert only trials nobody decided (service.py:2127).
HumanWins ==
  [][ SetTun /\ op.kind \in {"revert", "recover"} => op.nonce \notin decided ]_vars

\* Without faults, TUN applied under a trial ends: the trial is decided or TUN
\* is taken down, also when daemon or machine died in between.  If the daemon
\* dies after the revert, sing-box keeps TUN until one is started.
TrialEnds ==
  \A n \in Trials :
    (applied /\ marker.nonce = n) ~> 
      (~applied \/ (~tun /\ boot = "down") \/ latest # n \/ n \in decided \/ faults > 0)
=============================================================================
