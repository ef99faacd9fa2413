------------------------------ MODULE MCDaemon ------------------------------
(***************************************************************************)
(* The daemon's process, its upgrade, its traffic worker, and the geo      *)
(* cache that processes share.  The four modules share no state: each is a *)
(* branch, and focus says which one moves.                                 *)
(***************************************************************************)
EXTENDS Upgrade

CONSTANTS w1, u1,                                  \* two of Callers
          Commands, MaxDaemons, MaxDeaths,         \* Lifecycle
          c1, c2,                                  \* two of Commands
          Conns, Ref(_),                           \* Traffic
          MaxBytes, MaxGens, MaxFailures,
          Categories, Procs, Digests, Unrecorded   \* Geo

\* Connections are counted, and the mark of a missing digest is none.
ASSUME DaemonAssumption ==
  /\ IsFiniteSet(Conns) /\ MaxBytes \in Nat
  /\ Unrecorded \notin Digests

VARIABLES daemon, flock, holder, pidfile, command, deaths, crossed,
          box, conn, acc, sample, banked, deleted, carried, slack, gone, readded, failures,
          record, files, refs, proc,
          focus

\* All connections leave through one channel.
OneChannel(k) == "channel"

L == INSTANCE Lifecycle
M == INSTANCE Traffic
G == INSTANCE Geo

lifeVars == <<daemon, flock, holder, pidfile, command, deaths, crossed>>
trafficVars == <<box, conn, acc, sample, banked, deleted, carried, slack, gone, readded, failures>>
geoVars == <<record, files, refs, proc>>
all == <<vars, lifeVars, trafficVars, geoVars, focus>>

InUpgrade(A) == focus = "upgrade" /\ A /\ UNCHANGED <<lifeVars, trafficVars, geoVars, focus>>
InLifecycle(A) == focus = "lifecycle" /\ A /\ UNCHANGED <<vars, trafficVars, geoVars, focus>>
InTraffic(A) == focus = "traffic" /\ A /\ UNCHANGED <<vars, lifeVars, geoVars, focus>>
InGeo(A) == focus = "geo" /\ A /\ UNCHANGED <<vars, lifeVars, trafficVars, focus>>

DaemonInit ==
  /\ focus \in {"upgrade", "lifecycle", "traffic", "geo"}
  /\ Init /\ L!Init /\ M!Init /\ G!Init
  /\ focus # "upgrade" => app.homebrew
DaemonNext ==
  InUpgrade(Next) \/ InLifecycle(L!Next) \/ InTraffic(M!Next) \/ InGeo(G!Next)

UpgradeCall(p) ==
  TakeLock(p) \/ ReadBefore(p) \/ FetchLatest(p) \/ RunManager(p) \/ Verify(p) \/ Answer(p)
LifecycleCommand(c) == L!CommandSteps(c) \/ L!Kill(c)

\* The fairness of the modules.  Only one of them moves in a behaviour, so
\* a condition of one and a condition of another are stated as one.
DaemonFairness ==
  /\ WF_all(InUpgrade(UpgradeCall(w1)) \/ InLifecycle(LifecycleCommand(c1)) \/ InTraffic(M!Sampling))
  /\ WF_all(InUpgrade(UpgradeCall(u1)) \/ InLifecycle(LifecycleCommand(c2)))
  /\ WF_all(InUpgrade(Probe \/ Decide \/ Exit \/ SupervisorStarts) \/ InLifecycle(L!DaemonSteps(1)))
  /\ WF_all(InUpgrade(Restart) \/ InLifecycle(L!DaemonSteps(2)))
  /\ \A d \in 3..MaxDaemons : WF_all(InLifecycle(L!DaemonSteps(d)))
DaemonSpec == DaemonInit /\ [][DaemonNext]_all /\ DaemonFairness
---------------------------------------------------------------------------
(* The properties of the modules that EXTENDS does not bring *)

\* Lifecycle: at rest the pidfile names the running daemon.
NamedWhenQuiet == L!NamedWhenQuiet
\* Lifecycle: a command that needs a daemon gets one.
EnsureRuns == L!EnsureRuns
\* Traffic: a total never exceeds what the channel carried.
NeverOvercounts == M!NeverOvercounts
\* Traffic: a removed channel's row does not come back, but with a bank under way.
DeletedStaysDeleted == M!DeletedStaysDeleted
\* Traffic: carried bytes are banked in time.
BytesAreBanked == M!BytesAreBanked
\* Geo: a refresh that met nobody leaves every category it read cached.
RefreshHeals == G!RefreshHeals
=============================================================================
