------------------------------ MODULE Lifecycle ------------------------------
(***************************************************************************)
(* One daemon per home, started by whichever command needs it.  A daemon   *)
(* holds applier.lock and writes its identity into it; commands find the   *)
(* daemon through applier.pid, which spawners, daemons, duplicates and     *)
(* stopping commands all write.  No service manager is installed.          *)
(***************************************************************************)
EXTENDS Integers, FiniteSets

CONSTANTS Commands,   \* commands, each runs once
          MaxDaemons, \* bound on the daemons spawned
          MaxDeaths   \* bound on daemons killed from outside

VARIABLES daemon,     \* the n-th daemon spawned: where it is
          flock,      \* who holds applier.lock
          holder,     \* identity in applier.lock
          pidfile,    \* identity in applier.pid
          command,    \* command -> [at, kind, pid]
          deaths,     \* history: daemons killed from outside
          crossed     \* history: a stop or restart ran beside another command or began
                      \* before a spawned daemon came to the lock, or a spawner named
                      \* its child after that

vars == <<daemon, flock, holder, pidfile, command, deaths, crossed>>

None == 0
Pids == 1..MaxDaemons
Ready == [at |-> "ready", kind |-> "none", pid |-> None]
Alive(d) == d # None /\ daemon[d] \notin {"unborn", "dead"}
RunningPidTrusts == pidfile
\* proc.read_pidfile: the identity counts only while its process lives.
RunningPid == IF Alive(pidfile) THEN pidfile ELSE None
Active(c) == command[c].at \notin {"ready", "done"}
Goto(c, at) == command' = [command EXCEPT ![c].at = at]

Init ==
  /\ daemon = [d \in Pids |-> "unborn"]
  /\ flock = None /\ holder = None /\ pidfile = None
  /\ command = [c \in Commands |-> Ready]
  /\ deaths = 0 /\ crossed = FALSE
---------------------------------------------------------------------------
(* Commands: ensure_running, stop, and restart, which is one after the other *)

Begin(c, kind) ==
  /\ command[c].at = "ready"
  /\ command' = [command EXCEPT ![c] = [at |-> IF kind = "ensure" THEN "check" ELSE "read",
                                        kind |-> kind, pid |-> None]]
  /\ crossed' = \/ crossed
                \/ \E b \in Commands \ {c} : Active(b) /\ {kind, command[b].kind} # {"ensure"}
                \/ kind # "ensure" /\ \E d \in Pids : daemon[d] = "starting"
  /\ UNCHANGED <<daemon, flock, holder, pidfile, deaths>>

Check(c) ==
  /\ command[c].at = "check"
  /\ Goto(c, IF RunningPid # None THEN "done" ELSE "spawn")
  /\ UNCHANGED <<daemon, flock, holder, pidfile, deaths, crossed>>

Spawn(c) ==
  /\ command[c].at = "spawn"
  /\ \E d \in Pids :
       /\ daemon[d] = "unborn" /\ \A e \in 1..(d - 1) : daemon[e] # "unborn"
       /\ daemon' = [daemon EXCEPT ![d] = "starting"]
       /\ command' = [command EXCEPT ![c].at = "name", ![c].pid = d]
  /\ UNCHANGED <<flock, holder, pidfile, deaths, crossed>>

\* The spawner writes its child's identity; if the child has exited already,
\* one that never verifies.
Name(c) ==
  /\ command[c].at = "name"
  /\ pidfile' = command[c].pid
  /\ Goto(c, "done")
  /\ crossed' = (crossed \/ daemon[command[c].pid] # "starting")
  /\ UNCHANGED <<daemon, flock, holder, deaths>>

AfterStop(c) == IF command[c].kind = "restart" THEN "check" ELSE "done"

ReadPid(c) ==
  /\ command[c].at = "read"
  /\ IF RunningPid = None
     THEN pidfile' = None /\ Goto(c, AfterStop(c))
     ELSE /\ command' = [command EXCEPT ![c].at = "term", ![c].pid = RunningPid]
          /\ UNCHANGED pidfile
  /\ UNCHANGED <<daemon, flock, holder, deaths, crossed>>

Dies(d) ==
  /\ daemon' = [daemon EXCEPT ![d] = "dead"]
  /\ flock' = IF flock = d THEN None ELSE flock

\* SIGTERM: before the handler is installed it kills, later it ends the loop.
Term(c) ==
  LET d == command[c].pid IN
  /\ command[c].at = "term"
  /\ Goto(c, "poll")
  /\ IF daemon[d] \in {"starting", "locked", "ready"} THEN Dies(d)
     ELSE /\ daemon' = [daemon EXCEPT ![d] = IF @ = "running" THEN "stopping" ELSE @]
          /\ UNCHANGED flock
  /\ UNCHANGED <<holder, pidfile, deaths, crossed>>

Gone(c) ==
  /\ command[c].at = "poll"
  /\ RunningPid = None
  /\ Goto(c, "forget")
  /\ UNCHANGED <<daemon, flock, holder, pidfile, deaths, crossed>>

\* Four seconds passed: SIGKILL to the process read first.
Kill(c) ==
  /\ command[c].at = "poll"
  /\ RunningPid # None
  /\ Goto(c, "forget")
  /\ Dies(command[c].pid)
  /\ UNCHANGED <<holder, pidfile, deaths, crossed>>

Forget(c) ==
  /\ command[c].at = "forget"
  /\ pidfile' = None
  /\ Goto(c, AfterStop(c))
  /\ UNCHANGED <<daemon, flock, holder, deaths, crossed>>
---------------------------------------------------------------------------
(* run_applier *)

TakeLock(d) ==
  /\ daemon[d] = "starting"
  /\ flock = None
  /\ flock' = d /\ holder' = None
  /\ daemon' = [daemon EXCEPT ![d] = "locked"]
  /\ UNCHANGED <<pidfile, command, deaths, crossed>>

DuplicateLeaves(d) ==
  /\ daemon[d] = "starting"
  /\ flock # None
  /\ daemon' = [daemon EXCEPT ![d] = "dead"]
  /\ UNCHANGED <<flock, holder, pidfile, command, deaths, crossed>>

\* The loser puts the holder back into the pidfile its spawner overwrote.
DuplicateExits(d) ==
  /\ daemon[d] = "starting"
  /\ flock # None
  /\ pidfile' = IF Alive(holder) THEN holder ELSE pidfile
  /\ daemon' = [daemon EXCEPT ![d] = "dead"]
  /\ UNCHANGED <<flock, holder, command, deaths, crossed>>

WriteRecord(d) ==
  /\ daemon[d] = "locked"
  /\ holder' = d
  /\ daemon' = [daemon EXCEPT ![d] = "ready"]
  /\ UNCHANGED <<flock, pidfile, command, deaths, crossed>>

\* Recovery, router port, API thread; then the signal handlers and its pid.
EnterLoop(d) ==
  /\ daemon[d] = "ready"
  /\ pidfile' = d
  /\ daemon' = [daemon EXCEPT ![d] = "running"]
  /\ UNCHANGED <<flock, holder, command, deaths, crossed>>

CleanUp(d) ==
  /\ daemon[d] = "stopping"
  /\ pidfile' = IF RunningPid = d THEN None ELSE pidfile
  /\ daemon' = [daemon EXCEPT ![d] = "leaving"]
  /\ UNCHANGED <<flock, holder, command, deaths, crossed>>

\* The lock goes with the process, after the pidfile.
Leave(d) ==
  /\ daemon[d] = "leaving"
  /\ Dies(d)
  /\ UNCHANGED <<holder, pidfile, command, deaths, crossed>>

\* A serving daemon is killed from outside; the pidfile stays.
Killed(d) ==
  /\ daemon[d] = "running" /\ deaths < MaxDeaths
  /\ deaths' = deaths + 1
  /\ Dies(d)
  /\ UNCHANGED <<holder, pidfile, command, crossed>>

CommandSteps(c) ==
  Check(c) \/ Spawn(c) \/ Name(c) \/ ReadPid(c) \/ Term(c) \/ Gone(c) \/ Forget(c)
DaemonSteps(d) ==
  TakeLock(d) \/ DuplicateExits(d) \/ WriteRecord(d) \/ EnterLoop(d) \/ CleanUp(d) \/ Leave(d)
Next ==
  \/ \E c \in Commands, kind \in {"ensure", "stop", "restart"} : Begin(c, kind)
  \/ \E c \in Commands : CommandSteps(c) \/ Kill(c)
  \/ \E d \in Pids : DaemonSteps(d) \/ Killed(d)

\* Started commands and daemons go on.
Fairness ==
  /\ \A c \in Commands : WF_vars(CommandSteps(c) \/ Kill(c))
  /\ \A d \in Pids : WF_vars(DaemonSteps(d))
Spec == Init /\ [][Next]_vars /\ Fairness
---------------------------------------------------------------------------
(* Properties *)

Quiet == (\A c \in Commands : ~Active(c)) /\ (\A d \in Pids : daemon[d] \in {"unborn", "running", "dead"})
Running == \E d \in Pids : daemon[d] = "running"

\* When everything is at rest the pidfile names the running daemon, however
\* many commands raced to start one and whatever was killed: the duplicate
\* repairs what its spawner overwrote, "otherwise `anyhop stop` would miss the
\* real daemon" (daemon.py:455).
NamedWhenQuiet ==
  Quiet /\ ~crossed => \A d \in Pids : daemon[d] = "running" => RunningPid = d

Stopping == \E c \in Commands : Active(c) /\ command[c].kind # "ensure"
Parting == \E d \in Pids : daemon[d] \in {"stopping", "leaving"}

\* A command that needs a daemon gets one, also after kills and beside others
\* that need one: what it takes for a running daemon is one, and of several
\* spawned one stays.
EnsureRuns ==
  \A c \in Commands, n \in 0..MaxDeaths :
    (command[c].kind = "ensure" /\ command[c].at = "check" /\ deaths = n /\ ~crossed /\ ~Parting)
      ~> (Running \/ deaths # n \/ crossed \/ Stopping)
=============================================================================
