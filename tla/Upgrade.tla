------------------------------- MODULE Upgrade -------------------------------
(***************************************************************************)
(* Upgrading the package from the command line or from the Web API.  The   *)
(* owning package manager replaces the files under a per-user lock; the    *)
(* running daemon must then be replaced too: by a restart that the caller  *)
(* asks for, or by its own watcher, which exits so that a supervisor       *)
(* starts the new code.  The Web handler lives in the very process that is *)
(* to be replaced, and its response has to get out first.                  *)
(***************************************************************************)
EXTENDS Integers, FiniteSets

CONSTANTS Callers,    \* concurrent requests
          Web,        \* those of them that are threads of the daemon
          MaxVersion  \* bound on the releases

VARIABLES pkg,        \* version on disk
          published,  \* newest release
          app,        \* the supervised daemon: [at, version, homebrew]
          call,       \* caller -> [at, before, latest, changed, queued]
          restarts,   \* detached lifecycle processes that will restart the daemon
          hand        \* history: somebody ran the package manager by hand

vars == <<pkg, published, app, call, restarts, hand>>

Fresh == [at |-> "idle", before |-> 0, latest |-> 0, changed |-> FALSE, queued |-> FALSE]
Started(homebrew) == [at |-> "run", version |-> pkg, homebrew |-> homebrew]

InFlight(p) == call[p].at \notin {"idle", "done", "cut"}
Locked == {p \in Callers : call[p].at \in {"before", "latest", "manager", "verify"}}
\* upgrade_restart_deferred: handlers from admission to the flushed response.
Leases == {p \in Web : InFlight(p)}
Goto(p, at) == call' = [call EXCEPT ![p].at = at]

Init ==
  /\ pkg = 1 /\ published = 1
  /\ \E homebrew \in BOOLEAN : app = Started(homebrew)
  /\ call = [p \in Callers |-> Fresh]
  /\ restarts = 0 /\ hand = FALSE
---------------------------------------------------------------------------
(* A request, from admission to its answer *)

\* _guarded("upgrade"): one Web request at a time; then the lease.
Request(p) ==
  /\ call[p].at = "idle"
  /\ p \in Web => app.at # "down" /\ Leases = {}
  /\ Goto(p, "lock")
  /\ UNCHANGED <<pkg, published, app, restarts, hand>>

TakeLockAnyway(p) ==
  /\ call[p].at = "lock"
  /\ Goto(p, "before")
  /\ UNCHANGED <<pkg, published, app, restarts, hand>>

\* _upgrade_lock does not wait.
TakeLock(p) ==
  /\ call[p].at = "lock"
  /\ Goto(p, IF Locked = {} THEN "before" ELSE "answer")
  /\ UNCHANGED <<pkg, published, app, restarts, hand>>

ReadBefore(p) ==
  /\ call[p].at = "before"
  /\ call' = [call EXCEPT ![p].before = pkg, ![p].at = "latest"]
  /\ UNCHANGED <<pkg, published, app, restarts, hand>>

\* The network answers with the newest release, or not at all.
FetchLatest(p) ==
  /\ call[p].at = "latest"
  /\ \/ call' = [call EXCEPT ![p].latest = published,
                             ![p].at = IF published > call[p].before THEN "manager" ELSE "answer"]
     \/ Goto(p, "answer")
  /\ UNCHANGED <<pkg, published, app, restarts, hand>>

\* The manager installs the newest release there is by then, or fails, with or
\* without having replaced the package; a timeout looks like a failure.
Replaces == pkg' # pkg /\ pkg = app.version
RunManager(p) ==
  /\ call[p].at = "manager"
  /\ \/ pkg' = published /\ call' = [call EXCEPT ![p].at = "verify", ![p].changed = Replaces]
     \/ pkg' = published /\ call' = [call EXCEPT ![p].at = "answer", ![p].changed = Replaces]
     \/ pkg' = pkg /\ call' = [call EXCEPT ![p].at = "answer"]
  /\ UNCHANGED <<published, app, restarts, hand>>

\* The postcondition, then the hand-over of the restart: a Web request queues
\* it on its lease, a command restarts at once, Homebrew leaves it to the
\* watcher.
Advanced(p) == pkg > call[p].before /\ pkg >= call[p].latest
Verify(p) ==
  /\ call[p].at = "verify"
  /\ LET asks == Advanced(p) /\ ~app.homebrew /\ app.at # "down" IN
     /\ call' = [call EXCEPT ![p].at = "answer", ![p].queued = asks /\ p \in Web]
     /\ restarts' = IF asks /\ p \notin Web THEN restarts + 1 ELSE restarts
  /\ UNCHANGED <<pkg, published, app, hand>>

\* The response is flushed; the lease ends and the queued restart is spawned.
Answer(p) ==
  /\ call[p].at = "answer"
  /\ Goto(p, "done")
  /\ restarts' = IF call[p].queued THEN restarts + 1 ELSE restarts
  /\ UNCHANGED <<pkg, published, app, hand>>
---------------------------------------------------------------------------
(* The daemon *)

\* The handlers die with the process.
Down ==
  /\ app' = [app EXCEPT !.at = "down"]
  /\ call' = [p \in Callers |-> IF p \in Leases THEN [call[p] EXCEPT !.at = "cut"] ELSE call[p]]

\* The watcher reads the installed version, under Homebrew by a slow process.
Probe ==
  /\ app.at = "run"
  /\ app.version # pkg
  /\ app' = [app EXCEPT !.at = "probed"]
  /\ UNCHANGED <<pkg, published, call, restarts, hand>>

DecideAnyway ==
  /\ app.at = "probed"
  /\ app' = [app EXCEPT !.at = "exit"]
  /\ UNCHANGED <<pkg, published, call, restarts, hand>>

DecideOnce ==
  /\ app.at = "probed"
  /\ app' = [app EXCEPT !.at = IF Leases # {} THEN "unwatched" ELSE "exit"]
  /\ UNCHANGED <<pkg, published, call, restarts, hand>>

\* A lease puts the decision off to the next poll.
Decide ==
  /\ app.at = "probed"
  /\ app' = [app EXCEPT !.at = IF Leases # {} THEN "run" ELSE "exit"]
  /\ UNCHANGED <<pkg, published, call, restarts, hand>>

Exit ==
  /\ app.at = "exit"
  /\ Down
  /\ UNCHANGED <<pkg, published, restarts, hand>>

\* A detached restart, through the service manager.
Restart ==
  /\ restarts > 0
  /\ restarts' = restarts - 1
  /\ Down
  /\ UNCHANGED <<pkg, published, hand>>

SupervisorStarts ==
  /\ app.at = "down"
  /\ app' = Started(app.homebrew)
  /\ UNCHANGED <<pkg, published, call, restarts, hand>>
---------------------------------------------------------------------------
Publish ==
  /\ published < MaxVersion
  /\ published' = published + 1
  /\ UNCHANGED <<pkg, app, call, restarts, hand>>

\* Somebody runs the package manager by hand.
ByHand ==
  /\ pkg < published
  /\ pkg' = published
  /\ hand' = TRUE
  /\ UNCHANGED <<published, app, call, restarts>>

Requests == \E p \in Callers : TakeLock(p) \/ ReadBefore(p) \/ FetchLatest(p) \/ RunManager(p) \/ Verify(p) \/ Answer(p)
Daemon == Probe \/ Decide \/ Exit \/ Restart \/ SupervisorStarts
Next == (\E p \in Callers : Request(p)) \/ Requests \/ Daemon \/ Publish \/ ByHand

\* Requests end, since the network, the manager and a slow client are given a
\* time limit each; the daemon polls, and the supervisor restarts it.
Fairness ==
  /\ \A p \in Callers : WF_vars(TakeLock(p) \/ ReadBefore(p) \/ FetchLatest(p) \/ RunManager(p) \/ Verify(p) \/ Answer(p))
  /\ WF_vars(Probe \/ Decide \/ Exit \/ SupervisorStarts) /\ WF_vars(Restart)
Spec == Init /\ [][Next]_vars /\ Fairness
---------------------------------------------------------------------------
(* Properties *)

\* An upgrade that replaced the version the daemon runs gets its answer out: the
\* watcher that sees the replacement does not end the process before
\* (daemon.py:640).
AnswerNotCut == [][ Exit => \A p \in Leases : ~call[p].changed ]_vars

\* A package manager is only run for a release newer than what is installed,
\* also by a caller that met another upgrade ("never its stale pre-lock
\* observation", upgrade.py:594), unless somebody ran the manager by hand.
NoStaleUpgrade ==
  [][ \A p \in Callers : RunManager(p) => call[p].latest > pkg \/ hand ]_vars

\* However the package was replaced, the daemon ends up running it.
NewCodeRuns == <>[](app.at = "run" /\ app.version = pkg)
=============================================================================
