---------------------------- MODULE DaemonProofs ----------------------------
(***************************************************************************)
(* Theorems about the components of MCDaemon: upgrades, the geo cache, the *)
(* traffic totals and the daemon's lifecycle, each for every value of its  *)
(* constants.                                                              *)
(***************************************************************************)
EXTENDS MCDaemon, Foundations

---------------------------------------------------------------------------
(* Upgrade *)

UpgradeSteps == {"idle", "lock", "before", "latest", "manager", "verify", "answer", "done", "cut"}
UpgradeCalls == [at : UpgradeSteps, before : Int, latest : Int, changed : BOOLEAN, queued : BOOLEAN]

\* Versions only grow, and the package is never newer than what is published.
UpgradeTypes ==
  /\ pkg \in Int /\ published \in Int /\ pkg <= published
  /\ app \in [at : {"run", "probed", "exit", "down"}, version : Int, homebrew : BOOLEAN]
  /\ call \in [Callers -> UpgradeCalls]
  /\ hand \in BOOLEAN
  /\ app.version <= pkg

\* The lock admits one caller.  What it read before stays true while it holds
\* the lock, but for a manager run by hand.
LockInv ==
  /\ \A p, q \in Locked : p = q
  /\ \A p \in Callers : call[p].at \in {"latest", "manager"} => call[p].before = pkg \/ hand
  /\ \A p \in Callers : call[p].at = "manager" => call[p].latest > call[p].before

\* Once the watcher saw a replacement no call can still be the one that
\* replaces the running version; when it decided, none in flight had.
LeaseInv ==
  /\ app.at \in {"probed", "exit"} => app.version < pkg
  /\ \A p \in Callers :
       call[p].at \in {"idle", "lock", "before", "latest", "manager"} => ~call[p].changed
  /\ app.at = "exit" => \A p \in Leases : ~call[p].changed

UpgradeInv == UpgradeTypes /\ LockInv /\ LeaseInv
---------------------------------------------------------------------------
\* A first start is well typed, and no call is under way.
LEMMA UpgradeInit == Init => UpgradeInv
<1> SUFFICES ASSUME Init PROVE UpgradeInv
  OBVIOUS
<1>1. /\ call = [p \in Callers |-> Fresh] /\ Fresh \in UpgradeCalls
      /\ Fresh.at = "idle" /\ Fresh.changed = FALSE
  BY DEF Init, Fresh, UpgradeCalls, UpgradeSteps
<1>2. UpgradeTypes
  <2>1. PICK homebrew \in BOOLEAN : app = Started(homebrew)
    BY DEF Init
  <2>2. app \in [at : {"run", "probed", "exit", "down"}, version : Int, homebrew : BOOLEAN]
    BY <2>1 DEF Init, Started
  <2>3. app.version <= pkg /\ pkg \in Int /\ published \in Int /\ pkg <= published
    BY <2>1 DEF Init, Started
  <2>4. call \in [Callers -> UpgradeCalls] /\ hand \in BOOLEAN
    BY <1>1 DEF Init
  <2> QED
    BY <2>2, <2>3, <2>4 DEF UpgradeTypes
<1>3. LockInv /\ LeaseInv
  BY <1>1 DEF Init, LockInv, LeaseInv, Started, Locked
<1> QED
  BY <1>2, <1>3 DEF UpgradeInv

\* A caller that goes on to answer, with or without a restart to ask for.
LEMMA Answered ==
  ASSUME call \in [Callers -> UpgradeCalls], NEW p \in Callers, NEW queues \in BOOLEAN,
         call' = [call EXCEPT ![p].at = "answer", ![p].queued = queues]
  PROVE  /\ call' \in [Callers -> UpgradeCalls]
         /\ call'[p].at = "answer" /\ call'[p].changed = call[p].changed
         /\ \A q \in Callers \ {p} : call'[q] = call[q]
<1> DEFINE there == [call EXCEPT ![p].at = "answer"]
<1>1. call[p] \in UpgradeCalls /\ "answer" \in UpgradeSteps
  BY DEF UpgradeSteps
<1>2. there[p] \in UpgradeCalls /\ there[p].at = "answer" /\ there[p].changed = call[p].changed
  BY <1>1 DEF UpgradeCalls
<1>3. there \in [Callers -> UpgradeCalls] /\ \A q \in Callers \ {p} : there[q] = call[q]
  BY <1>1, <1>2
<1>4. call' = [there EXCEPT ![p].queued = queues]
  OBVIOUS
<1> HIDE DEF there
<1> DEFINE entry == [there[p] EXCEPT !.queued = queues]
<1>5. entry \in UpgradeCalls /\ entry.at = "answer" /\ entry.changed = call[p].changed
  BY <1>2 DEF UpgradeCalls
<1>6. call' = [there EXCEPT ![p] = entry]
  BY <1>3, <1>4
<1> HIDE DEF entry
<1> QED
  BY <1>3, <1>5, <1>6

\* Every step of a caller, the daemon, the supervisor and the world keeps the
\* invariant.
LEMMA UpgradeInductive ==
  ASSUME Web \subseteq Callers, UpgradeInv, [Next]_vars
  PROVE  UpgradeInv'
<1> USE DEF UpgradeInv, UpgradeTypes, LockInv, LeaseInv, UpgradeCalls, UpgradeSteps, Locked, Leases, InFlight
<1>1. ASSUME NEW p \in Callers, Request(p) PROVE UpgradeInv'
  BY <1>1 DEF Request, Goto
<1>2. ASSUME NEW p \in Callers, TakeLock(p) PROVE UpgradeInv'
  BY <1>2 DEF TakeLock, Goto
<1>3. ASSUME NEW p \in Callers, ReadBefore(p) PROVE UpgradeInv'
  BY <1>3 DEF ReadBefore
<1>4. ASSUME NEW p \in Callers, FetchLatest(p) PROVE UpgradeInv'
  <2>1. UpgradeTypes'
    BY <1>4 DEF FetchLatest, Goto
  <2>2. LockInv'
    BY <1>4 DEF FetchLatest, Goto
  <2>3. LeaseInv'
    <3>1. app.at \in {"probed", "exit"} => app.version < pkg /\ pkg <= pkg'
      BY <1>4 DEF FetchLatest, Goto
    <3>2. UNCHANGED app /\ \A q \in Callers \ {p} : call'[q] = call[q]
      BY <1>4 DEF FetchLatest, Goto
    <3>3. call'[p].at \in {"idle", "lock", "before", "latest", "manager"} => ~call'[p].changed
      BY <1>4 DEF FetchLatest, Goto
    <3>4. app.at = "exit" /\ p \in Leases => ~call'[p].changed
      BY <1>4 DEF FetchLatest, Goto
    <3>5. p \in Web => p \in Leases
      BY <1>4 DEF FetchLatest, Goto
    <3>6. (app.at \in {"probed", "exit"} => app.version < pkg)'
      BY <3>1, <3>2, <2>1
    <3>7. \A q \in Callers :
            (call[q].at \in {"idle", "lock", "before", "latest", "manager"} => ~call[q].changed)'
      BY <3>2, <3>3
    <3>8. (app.at = "exit" => \A q \in Leases : ~call[q].changed)'
      BY <3>2, <3>4, <3>5
    <3> QED
      BY <3>6, <3>7, <3>8
  <2> QED
    BY <2>1, <2>2, <2>3
<1>5. ASSUME NEW p \in Callers, RunManager(p) PROVE UpgradeInv'
  <2>1. UpgradeTypes'
    BY <1>5 DEF RunManager, Replaces
  <2>2. LockInv'
    BY <1>5 DEF RunManager, Replaces
  <2>3. LeaseInv'
    <3>1. app.at \in {"probed", "exit"} => app.version < pkg /\ pkg <= pkg'
      BY <1>5 DEF RunManager, Replaces
    <3>2. UNCHANGED app /\ \A q \in Callers \ {p} : call'[q] = call[q]
      BY <1>5 DEF RunManager, Replaces
    <3>3. call'[p].at \in {"idle", "lock", "before", "latest", "manager"} => ~call'[p].changed
      BY <1>5 DEF RunManager, Replaces
    <3>4. app.at = "exit" /\ p \in Leases => ~call'[p].changed
      BY <1>5 DEF RunManager, Replaces
    <3>5. p \in Web => p \in Leases
      BY <1>5 DEF RunManager, Replaces
    <3>6. (app.at \in {"probed", "exit"} => app.version < pkg)'
      BY <3>1, <3>2, <2>1
    <3>7. \A q \in Callers :
            (call[q].at \in {"idle", "lock", "before", "latest", "manager"} => ~call[q].changed)'
      BY <3>2, <3>3
    <3>8. (app.at = "exit" => \A q \in Leases : ~call[q].changed)'
      BY <3>2, <3>4, <3>5
    <3> QED
      BY <3>6, <3>7, <3>8
  <2> QED
    BY <2>1, <2>2, <2>3
<1>6. ASSUME NEW p \in Callers, Verify(p) PROVE UpgradeInv'
  <2> DEFINE asks == Advanced(p) /\ ~app.homebrew /\ app.at # "down"
             queues == asks /\ p \in Web
  <2>a. call' = [call EXCEPT ![p].at = "answer", ![p].queued = queues]
    BY <1>6 DEF Verify
  <2>b. UNCHANGED <<pkg, published, app, hand>> /\ call[p].at = "verify"
    BY <1>6 DEF Verify
  <2>c. queues \in BOOLEAN
    BY Zenon DEF Advanced
  <2>d. call \in [Callers -> UpgradeCalls]
    OBVIOUS
  <2>e. /\ call' \in [Callers -> UpgradeCalls]
        /\ call'[p].at = "answer" /\ call'[p].changed = call[p].changed
        /\ \A q \in Callers \ {p} : call'[q] = call[q]
    <3> HIDE DEF queues, UpgradeInv, UpgradeTypes, LockInv, LeaseInv, UpgradeCalls, UpgradeSteps
    <3> QED
      BY <2>a, <2>c, <2>d, Answered
  <2>1. UpgradeTypes'
    BY <2>b, <2>e
  <2>2. LockInv'
    BY <2>b, <2>e
  <2>3. LeaseInv'
    <3>1. app.at \in {"probed", "exit"} => app.version < pkg /\ pkg <= pkg'
      BY <1>6 DEF Verify, Advanced
    <3>2. UNCHANGED app /\ \A q \in Callers \ {p} : call'[q] = call[q]
      BY <1>6 DEF Verify, Advanced
    <3>3. call'[p].at \in {"idle", "lock", "before", "latest", "manager"} => ~call'[p].changed
      BY <1>6 DEF Verify, Advanced
    <3>4. app.at = "exit" /\ p \in Leases => ~call'[p].changed
      BY <1>6 DEF Verify, Advanced
    <3>5. p \in Web => p \in Leases
      BY <1>6 DEF Verify, Advanced
    <3>6. (app.at \in {"probed", "exit"} => app.version < pkg)'
      BY <3>1, <3>2, <2>1
    <3>7. \A q \in Callers :
            (call[q].at \in {"idle", "lock", "before", "latest", "manager"} => ~call[q].changed)'
      BY <3>2, <3>3
    <3>8. (app.at = "exit" => \A q \in Leases : ~call[q].changed)'
      BY <3>2, <3>4, <3>5
    <3> QED
      BY <3>6, <3>7, <3>8
  <2> QED
    BY <2>1, <2>2, <2>3
<1>7. ASSUME NEW p \in Callers, Answer(p) PROVE UpgradeInv'
  BY <1>7 DEF Answer, Goto
<1>8. CASE Probe
  BY <1>8 DEF Probe
<1>9. CASE Decide
  BY <1>9 DEF Decide
<1>10. CASE Exit
  BY <1>10 DEF Exit, Down
<1>11. CASE Restart
  BY <1>11 DEF Restart, Down
<1>12. CASE SupervisorStarts
  BY <1>12 DEF SupervisorStarts, Started
<1>13. CASE Publish
  BY <1>13 DEF Publish
<1>14. CASE ByHand
  BY <1>14 DEF ByHand
<1>15. CASE UNCHANGED vars
  BY <1>15 DEF vars
<1> QED
  BY <1>1, <1>2, <1>3, <1>4, <1>5, <1>6, <1>7, <1>8, <1>9, <1>10, <1>11, <1>12, <1>13, <1>14, <1>15
  DEF Next, Requests, Daemon

\* The watcher never ends the daemon under an upgrade that replaced the version
\* it runs and has not answered (run_applier, upgrade_restart_deferred).
THEOREM AnswersGetOut ==
  ASSUME Web \subseteq Callers
  PROVE  Spec => AnswerNotCut
<1>1. UpgradeInv /\ [Next]_vars => [Exit => \A p \in Leases : ~call[p].changed]_vars
  BY DEF UpgradeInv, LeaseInv, Exit
<1>2. UpgradeInv /\ [Next]_vars => UpgradeInv'
  BY UpgradeInductive
<1> QED
  BY <1>1, <1>2, UpgradeInit, PTL DEF Spec, AnswerNotCut

\* Whoever runs the package manager has seen a release newer than what is on
\* disk at that moment (upgrade.run under its lock).
THEOREM NeverStale ==
  ASSUME Web \subseteq Callers
  PROVE  Spec => NoStaleUpgrade
<1>1. UpgradeInv /\ [Next]_vars
        => [\A p \in Callers : RunManager(p) => call[p].latest > pkg \/ hand]_vars
  BY DEF UpgradeInv, UpgradeTypes, LockInv, RunManager, UpgradeCalls
<1>2. UpgradeInv /\ [Next]_vars => UpgradeInv'
  BY UpgradeInductive
<1> QED
  BY <1>1, <1>2, UpgradeInit, PTL DEF Spec, NoStaleUpgrade

---------------------------------------------------------------------------
(* Geo: what a refresh that met nobody leaves *)

GeoPlaces == {"idle", "fetch", "record", "prune", "sweep", "create"}
GeoProcs == [at : GeoPlaces, cats : SUBSET Categories, op : {"none", "write", "refresh"},
             got : Digests \cup {Unrecorded}, keep : SUBSET (Categories \X (Digests \cup {Unrecorded})),
             alone : BOOLEAN]
GeoTypes ==
  /\ record \in [Categories -> Digests \cup {Unrecorded}]
  /\ refs \subseteq Categories
  /\ proc \in [Procs -> GeoProcs]

\* What it fetched is recorded, and stays so while nobody else is at work; it
\* prunes with that record in mind.
LoneRefresh(p) ==
  proc[p].op = "refresh" /\ proc[p].alone =>
    /\ proc[p].at \in {"record", "prune", "sweep"} => proc[p].got \in Digests
    /\ proc[p].at \in {"prune", "sweep"} => \A c \in proc[p].cats : record[c] = proc[p].got
    /\ proc[p].at = "sweep" => \A c \in proc[p].cats : <<c, proc[p].got>> \in proc[p].keep

GeoInv == GeoTypes /\ \A p \in Procs : LoneRefresh(p)

\* No process at first.
LEMMA GeoInit == G!Init => GeoInv
<1> SUFFICES ASSUME G!Init PROVE GeoInv
  OBVIOUS
<1>1. G!Idle \in GeoProcs /\ G!Idle.op = "none"
  BY DEF G!Idle, GeoProcs, GeoPlaces
<1> QED
  BY <1>1 DEF G!Init, GeoInv, GeoTypes, LoneRefresh

\* A step of p that leaves it at r: the types, and what the others see.
LEMMA GeoStep ==
  ASSUME proc \in [Procs -> GeoProcs], NEW p \in Procs, NEW r \in GeoProcs, G!Step(p, r)
  PROVE  /\ proc' \in [Procs -> GeoProcs]
         /\ proc'[p].at = r.at /\ proc'[p].op = r.op /\ proc'[p].cats = r.cats
         /\ proc'[p].got = r.got /\ proc'[p].keep = r.keep
         /\ proc'[p].alone => r.alone
         /\ \A q \in Procs \ {p} : proc'[q].op = "none" \/ ~proc'[q].alone
<1>1. G!Idle \in GeoProcs /\ G!Idle.op = "none"
  BY DEF G!Idle, GeoProcs, GeoPlaces
<1> DEFINE m == G!Met(p, r)
<1>2. m \in GeoProcs /\ (m.alone => r.alone)
      /\ m.at = r.at /\ m.cats = r.cats /\ m.op = r.op /\ m.got = r.got /\ m.keep = r.keep
  BY DEF G!Met, GeoProcs
<1>3. \A q \in Procs : [proc[q] EXCEPT !.alone = FALSE] \in GeoProcs
                       /\ ~[proc[q] EXCEPT !.alone = FALSE].alone
  BY DEF GeoProcs
<1>4. proc' = [q \in Procs |-> IF q = p THEN m
                               ELSE IF proc[q] = G!Idle THEN G!Idle
                               ELSE [proc[q] EXCEPT !.alone = FALSE]]
  BY DEF G!Step
<1> HIDE DEF m
<1> QED
  BY <1>1, <1>2, <1>3, <1>4 DEF m

\* Hence whoever stepped, the others are no lone refreshes afterwards.
LEMMA GeoStepInv ==
  ASSUME GeoTypes, NEW p \in Procs, NEW r \in GeoProcs, G!Step(p, r),
         GeoTypes', LoneRefresh(p)'
  PROVE  GeoInv'
<1>1. \A q \in Procs \ {p} : proc'[q].op = "none" \/ ~proc'[q].alone
  BY GeoStep DEF GeoTypes
<1> QED
  BY <1>1 DEF GeoInv, LoneRefresh

\* Every step of a process, and what happens around them, keeps the invariant.
LEMMA GeoInductive ==
  ASSUME GeoInv, [G!Next]_G!vars
  PROVE  GeoInv'
<1> USE DEF GeoInv, GeoTypes
<1>a. G!Idle \in GeoProcs /\ G!Idle.op = "none"
  BY DEF G!Idle, GeoProcs, GeoPlaces
<1>1. ASSUME NEW p \in Procs, NEW c \in Categories, G!BeginWrite(p, c) PROVE GeoInv'
  <2> DEFINE r == [G!Idle EXCEPT !.at = IF G!Cached(c) THEN "create" ELSE "fetch",
                                 !.op = "write", !.cats = {c}]
  <2>1. r \in GeoProcs /\ r.op = "write"
    BY DEF G!Idle, GeoProcs, GeoPlaces
  <2>2. G!Step(p, r) /\ UNCHANGED <<record, refs>>
    BY <1>1 DEF G!BeginWrite
  <2> HIDE DEF r
  <2> QED
    BY <2>1, <2>2, GeoStep, GeoStepInv DEF LoneRefresh
<1>2. ASSUME NEW p \in Procs, G!BeginRefresh(p) PROVE GeoInv'
  <2> DEFINE r == [G!Idle EXCEPT !.at = "fetch", !.op = "refresh", !.cats = refs]
  <2>1. r \in GeoProcs /\ r.at = "fetch"
    BY DEF G!Idle, GeoProcs, GeoPlaces
  <2>2. G!Step(p, r) /\ UNCHANGED <<record, refs>>
    BY <1>2 DEF G!BeginRefresh
  <2> HIDE DEF r
  <2> QED
    BY <2>1, <2>2, GeoStep, GeoStepInv DEF LoneRefresh
<1>3. ASSUME NEW p \in Procs, NEW digest \in Digests, G!Fetch(p, digest) PROVE GeoInv'
  <2> DEFINE r == [proc[p] EXCEPT !.at = "record", !.got = digest]
  <2>1. r \in GeoProcs /\ r.at = "record" /\ r.got = digest
    BY DEF GeoProcs, GeoPlaces
  <2>2. G!Step(p, r) /\ UNCHANGED <<record, refs>>
    BY <1>3 DEF G!Fetch
  <2> HIDE DEF r
  <2> QED
    BY <2>1, <2>2, GeoStep, GeoStepInv DEF LoneRefresh
<1>4. ASSUME NEW p \in Procs, G!FetchFails(p) PROVE GeoInv'
  BY <1>4, <1>a, GeoStep, GeoStepInv DEF G!FetchFails, LoneRefresh
<1>5. ASSUME NEW p \in Procs, G!Record(p) PROVE GeoInv'
  <2> DEFINE r == [proc[p] EXCEPT !.at = "prune"]
  <2>1. /\ r \in GeoProcs /\ r.at = "prune"
        /\ r.got = proc[p].got /\ r.op = proc[p].op /\ r.cats = proc[p].cats
        /\ r.alone = proc[p].alone
    BY DEF GeoProcs, GeoPlaces
  <2>2. G!Step(p, r) /\ refs' = refs /\ record' = G!Recorded(p) /\ proc[p].at = "record"
    BY <1>5 DEF G!Record, G!At
  <2>3. proc[p].got \in Digests \cup {Unrecorded}
    BY DEF GeoProcs
  <2>4. /\ record' \in [Categories -> Digests \cup {Unrecorded}]
        /\ \A c \in Categories : c \in proc[p].cats => record'[c] = proc[p].got
    BY <2>2, <2>3 DEF G!Recorded
  <2>5. proc[p].cats \subseteq Categories
    BY DEF GeoProcs
  <2> HIDE DEF r
  <2> QED
    BY <2>1, <2>2, <2>4, <2>5, GeoStep, GeoStepInv DEF LoneRefresh
<1>6. ASSUME NEW p \in Procs, G!PruneKeeps(p) PROVE GeoInv'
  <2> DEFINE keep == {<<c, record[c]>> : c \in Categories}
             r == [proc[p] EXCEPT !.at = "sweep", !.keep = keep]
  <2>0. keep \subseteq Categories \X (Digests \cup {Unrecorded})
        /\ \A c \in Categories : <<c, record[c]>> \in keep
    OBVIOUS
  <2> HIDE DEF keep
  <2>1. /\ r \in GeoProcs /\ r.at = "sweep" /\ r.keep = keep
        /\ r.got = proc[p].got /\ r.op = proc[p].op /\ r.cats = proc[p].cats
        /\ r.alone = proc[p].alone
    BY <2>0 DEF GeoProcs, GeoPlaces
  <2>2. G!Step(p, r) /\ UNCHANGED <<record, refs>> /\ proc[p].at = "prune"
    BY <1>6 DEF G!PruneKeeps, G!At, keep
  <2>3. proc[p].cats \subseteq Categories
    BY DEF GeoProcs
  <2> HIDE DEF r
  <2> QED
    BY <2>0, <2>1, <2>2, <2>3, GeoStep, GeoStepInv DEF LoneRefresh
<1>7. ASSUME NEW p \in Procs, G!Sweep(p) PROVE GeoInv'
  <2> DEFINE r == G!AfterSweep(p)
  <2>1. r \in GeoProcs /\ r.at \in {"create", "idle"}
    BY <1>a DEF G!AfterSweep, GeoProcs, GeoPlaces, G!Idle
  <2>2. G!Step(p, r) /\ UNCHANGED <<record, refs>>
    BY <1>7 DEF G!Sweep
  <2> HIDE DEF r
  <2> QED
    BY <2>1, <2>2, GeoStep, GeoStepInv DEF LoneRefresh
<1>8. ASSUME NEW p \in Procs, G!Create(p) PROVE GeoInv'
  <2>1. refs' \subseteq Categories
    BY <1>8 DEF G!Create, GeoProcs
  <2> QED
    BY <1>8, <1>a, <2>1, GeoStep, GeoStepInv DEF G!Create, LoneRefresh
<1>9. ASSUME NEW c \in Categories, G!RemoveRow(c) PROVE GeoInv'
  BY <1>9 DEF G!RemoveRow, LoneRefresh
<1>10. ASSUME NEW f \in files, G!LoseFile(f) PROVE GeoInv'
  BY <1>10 DEF G!LoseFile, LoneRefresh
<1>11. CASE UNCHANGED G!vars
  BY <1>11 DEF G!vars, LoneRefresh
<1> QED
  BY <1>1, <1>2, <1>3, <1>4, <1>5, <1>6, <1>7, <1>8, <1>9, <1>10, <1>11 DEF G!Next

\* A refresh that met no other command leaves every category it read cached:
\* its sweep keeps the file that the record it wrote names (geo.refresh, prune).
THEOREM RefreshRepairs == G!Spec => RefreshHeals
<1>1. ASSUME GeoInv, NEW p \in Procs, proc[p].op = "refresh" /\ proc[p].alone, G!Sweep(p),
             NEW c \in proc[p].cats, <<c, proc[p].got>> \in files
      PROVE  G!Cached(c)'
  <2>1. proc[p].at = "sweep" /\ record' = record /\ files' = files \cap proc[p].keep
    BY <1>1 DEF G!Sweep, G!At
  <2>2. proc[p].got \in Digests /\ record[c] = proc[p].got /\ <<c, proc[p].got>> \in proc[p].keep
    BY <1>1, <2>1 DEF GeoInv, LoneRefresh
  <2>3. record'[c] # Unrecorded /\ <<c, record'[c]>> \in files'
    BY <1>1, <2>1, <2>2, DaemonAssumption
  <2> QED
    BY <2>3 DEF G!Cached
<1>2. GeoInv /\ [G!Next]_G!vars
        => [\A p \in Procs : proc[p].op = "refresh" /\ proc[p].alone /\ G!Sweep(p) =>
             \A c \in proc[p].cats : <<c, proc[p].got>> \in files => (G!Cached(c))']_G!vars
  BY <1>1
<1>3. GeoInv /\ [G!Next]_G!vars => GeoInv'
  BY GeoInductive
<1> QED
  BY <1>2, <1>3, GeoInit, PTL DEF G!Spec, RefreshHeals, G!RefreshHeals
---------------------------------------------------------------------------
(* Traffic: why a total stays below what was carried *)

Of(r) == {k \in Conns : Ref(k) = r}
Refs == M!Refs
Samples == [at : {"rest", "fetch", "observe", "check", "insert"}, gen : Nat,
            snap : SUBSET (Conns \X (0..MaxBytes)), skip : SUBSET Refs, first : SUBSET Refs]
TrafficTypes ==
  /\ box \in Nat \ {0}
  /\ conn \in [Conns -> [open : BOOLEAN, bytes : 0..MaxBytes]]
  /\ acc = [gen |-> acc.gen, seen |-> acc.seen] /\ acc.gen \in Nat /\ acc.gen <= box
  /\ DOMAIN acc.seen \subseteq Conns
  /\ \A k \in DOMAIN acc.seen : acc.seen[k] \in 0..MaxBytes
  /\ sample \in Samples /\ sample.gen <= box
  /\ banked \in [Refs -> Nat] /\ carried \in [Refs -> Nat]
  /\ gone \subseteq Refs /\ readded \in BOOLEAN

\* The two samples that may still matter: the accumulator's, and the worker's.
Current == acc.gen = box
Observing == (sample.at = "observe" \/ M!Banking) /\ sample.gen = box

\* A connection has bytes before it is sampled, and never fewer than sampled;
\* of two samples of one generation the later one knows what is still open.
SampleInv ==
  /\ \A k \in Conns : conn[k].open => conn[k].bytes >= 1
  /\ \A s, t \in sample.snap : s[1] = t[1] => s = t
  /\ \A s \in sample.snap : s[2] >= 1 /\ s[2] <= conn[s[1]].bytes
  /\ Current => \A k \in DOMAIN acc.seen : acc.seen[k] >= 1 /\ acc.seen[k] <= conn[k].bytes
  /\ Current /\ Observing =>
       /\ \A s \in sample.snap : M!Seen(s[1]) <= s[2]
       /\ \A k \in M!Open \ DOMAIN M!Snapped : k \notin DOMAIN acc.seen

\* What the accumulator may still bank for a connection, with the sample under
\* way or with a later one; what it may if that sample is its first.
Snap(k) == IF k \in DOMAIN M!Snapped THEN M!Snapped[k] ELSE 0
Owed == [k \in Conns |-> IF k \in M!Open THEN conn[k].bytes - M!Seen(k)
                         ELSE IF Observing /\ k \in DOMAIN M!Snapped THEN Snap(k) - M!Seen(k)
                         ELSE 0]
Later == [k \in Conns |-> IF k \in M!Open THEN conn[k].bytes - Snap(k) ELSE 0]

TotalsInv ==
  \A r \in Refs :
    /\ banked[r] <= carried[r]
    /\ Current => banked[r] + SumFunctionOnSet(Owed, Of(r)) <= carried[r]
    /\ Observing => banked[r] + SumFunctionOnSet(Later, Of(r)) <= carried[r]

\* What is about to be banked belongs to the accumulator's generation, whatever
\* sing-box does meanwhile, and was carried; a channel is let through only
\* between its look for a tombstone and the commit.
BankingInv ==
  /\ M!Banking => acc.gen = sample.gen /\ \A r \in Refs : banked[r] + M!Deltas[r] <= carried[r]
  /\ sample.first # {} => sample.at = "insert"

\* A removed channel keeps its tombstone, unless its provider was added again.
TombstoneInv == \A r \in gone : readded \/ M!Tombstoned(r)

TrafficInv == TrafficTypes /\ SampleInv /\ TotalsInv /\ BankingInv /\ TombstoneInv

\* Nothing is open and nothing sampled at first.
LEMMA TrafficInit == M!Init => TrafficInv
<1> SUFFICES ASSUME M!Init PROVE TrafficInv
  OBVIOUS
<1> USE DEF M!Init, M!Rest, M!Unstarted
<1>1. TrafficTypes
  <2>1. conn \in [Conns -> [open : BOOLEAN, bytes : 0..MaxBytes]]
    BY DaemonAssumption
  <2>2. sample \in Samples /\ sample.gen <= box /\ box \in Nat \ {0}
    BY DEF Samples
  <2>3. /\ acc = [gen |-> acc.gen, seen |-> acc.seen] /\ acc.gen \in Nat /\ acc.gen <= box
        /\ DOMAIN acc.seen = {}
    OBVIOUS
  <2>4. banked \in [Refs -> Nat] /\ carried \in [Refs -> Nat] /\ gone \subseteq Refs /\ readded \in BOOLEAN
    BY DEF Refs
  <2> QED
    BY <2>1, <2>2, <2>3, <2>4 DEF TrafficTypes
<1>2. SampleInv
  BY DEF SampleInv, Current, M!Open
<1>3. TotalsInv
  BY DEF TotalsInv, Current, Observing, Refs, M!Banking
<1>4. BankingInv
  BY DEF BankingInv, M!Banking
<1> QED
  BY <1>1, <1>2, <1>3, <1>4 DEF TrafficInv, TombstoneInv

\* What a snapshot says of a connection.
LEMMA SnappedIs ==
  ASSUME TrafficTypes, SampleInv
  PROVE  /\ DOMAIN M!Snapped \subseteq Conns
         /\ \A k \in DOMAIN M!Snapped :
              /\ <<k, M!Snapped[k]>> \in sample.snap
              /\ M!Snapped[k] \in 1..MaxBytes /\ M!Snapped[k] <= conn[k].bytes
         /\ \A s \in sample.snap : s[1] \in DOMAIN M!Snapped /\ M!Snapped[s[1]] = s[2]
<1>1. sample.snap \subseteq Conns \X (0..MaxBytes)
  BY DEF TrafficTypes, Samples
<1>2. DOMAIN M!Snapped = {s[1] : s \in sample.snap}
  BY DEF M!Snapped
<1>3. ASSUME NEW s \in sample.snap
      PROVE  /\ s[1] \in DOMAIN M!Snapped /\ M!Snapped[s[1]] = s[2]
             /\ s[1] \in Conns /\ s[2] \in 1..MaxBytes /\ s[2] <= conn[s[1]].bytes
  <2>1. s = <<s[1], s[2]>> /\ s[1] \in Conns /\ s[2] \in 0..MaxBytes
    BY <1>1
  <2>2. s[2] >= 1 /\ s[2] <= conn[s[1]].bytes
    BY DEF SampleInv
  <2>3. \A n \in 0..MaxBytes : <<s[1], n>> \in sample.snap => n = s[2]
    BY <2>1 DEF SampleInv
  <2>4. M!Snapped[s[1]] = CHOOSE n \in 0..MaxBytes : <<s[1], n>> \in sample.snap
    BY DEF M!Snapped
  <2> QED
    BY <1>2, <2>1, <2>2, <2>3, <2>4
<1>4. \A k \in DOMAIN M!Snapped : \E s \in sample.snap : k = s[1]
  BY <1>2
<1>5. \A s \in sample.snap : s = <<s[1], s[2]>>
  BY <1>1
<1> QED
  BY <1>3, <1>4, <1>5

\* What the accumulator saw of a connection: nothing, or as many bytes.
LEMMA SeenType ==
  ASSUME TrafficTypes
  PROVE  \A k \in Conns : M!Seen(k) \in 0..MaxBytes
  BY DaemonAssumption DEF TrafficTypes, M!Seen

\* The two terms that are summed up are numbers.
LEMMA OwedTypes ==
  ASSUME TrafficTypes, SampleInv
  PROVE  /\ \A k \in Conns : Owed[k] \in Int /\ Later[k] \in Nat /\ Snap(k) \in 0..MaxBytes
         /\ Current => \A k \in Conns : Owed[k] \in Nat
<1> SUFFICES ASSUME NEW k \in Conns
             PROVE  /\ Owed[k] \in Int /\ Later[k] \in Nat /\ Snap(k) \in 0..MaxBytes
                    /\ Current => Owed[k] \in Nat
  OBVIOUS
<1>1. conn[k].bytes \in 0..MaxBytes /\ MaxBytes \in Nat /\ M!Seen(k) \in 0..MaxBytes
  BY SeenType, DaemonAssumption DEF TrafficTypes
<1>2. Snap(k) \in 0..MaxBytes /\ Snap(k) <= conn[k].bytes
  <2>1. k \in DOMAIN M!Snapped => M!Snapped[k] \in 1..MaxBytes /\ M!Snapped[k] <= conn[k].bytes
    BY SnappedIs
  <2> QED
    BY <1>1, <2>1 DEF Snap
<1>3. Current => M!Seen(k) <= conn[k].bytes
  BY <1>1 DEF SampleInv, M!Seen
<1>4. Current /\ Observing /\ k \in DOMAIN M!Snapped => M!Seen(k) <= Snap(k)
  BY SnappedIs DEF SampleInv, Snap
<1>5. Later[k] \in Nat
  BY <1>1, <1>2 DEF Later
<1>6. Owed[k] \in Int
  BY <1>1, <1>2 DEF Owed
<1>7. Current => Owed[k] \in Nat
  BY <1>1, <1>2, <1>3, <1>4 DEF Owed
<1> QED
  BY <1>2, <1>5, <1>6, <1>7

\* A channel has finitely many connections.
LEMMA OfFinite == \A r \in Refs : Of(r) \subseteq Conns /\ IsFiniteSet(Of(r))
  BY FS_Subset, DaemonAssumption DEF Of

\* Traffic's sums are those of Foundations.
LEMMA SumInTraffic == \A f, S : M!SumFunctionOnSet(f, S) = SumFunctionOnSet(f, S)
  BY DEF SumFunctionOnSet, FoldFunctionOnSet, MapThenFoldSet,
         M!SumFunctionOnSet, M!FoldFunctionOnSet, M!MapThenFoldSet

\* What one sample banks for a channel.
LEMMA DeltasType ==
  ASSUME TrafficTypes, SampleInv
  PROVE  \A r \in Refs : M!Deltas[r] \in Nat
<1> SUFFICES ASSUME NEW r \in Refs PROVE M!Deltas[r] \in Nat
  OBVIOUS
<1> DEFINE S == {k \in DOMAIN M!Snapped : Ref(k) = r}
<1>1. S \in SUBSET Conns /\ IsFiniteSet(S)
  BY SnappedIs, FS_Subset, DaemonAssumption
<1>2. ASSUME NEW k \in S PROVE M!Increases[k] \in Nat
  <2>1. k \in DOMAIN M!Snapped /\ k \in Conns /\ MaxBytes \in Nat
    BY <1>1, DaemonAssumption
  <2>2. M!Snapped[k] \in 1..MaxBytes /\ M!Seen(k) \in 0..MaxBytes
    BY <2>1, SnappedIs, SeenType
  <2> QED
    BY <2>1, <2>2 DEF M!Increases
<1>3. SumFunctionOnSet(M!Increases, S) \in Int
  BY <1>1, <1>2, SumType
<1>4. SumFunctionOnSet(M!Increases, S) >= 0
  BY <1>1, <1>2, SumSign
<1>5. M!Deltas[r] = SumFunctionOnSet(M!Increases, S)
  BY SumInTraffic DEF M!Deltas, Refs
<1> QED
  BY <1>3, <1>4, <1>5

\* Connections are written one by one, or closed.
LEMMA ClosedTypes ==
  ASSUME conn \in [Conns -> [open : BOOLEAN, bytes : 0..MaxBytes]], NEW ks, M!Closed(ks)
  PROVE  /\ conn' \in [Conns -> [open : BOOLEAN, bytes : 0..MaxBytes]]
         /\ UNCHANGED <<carried, banked>>
         /\ \A k \in Conns :
              /\ k \in ks => conn'[k].open = FALSE /\ conn'[k].bytes = MaxBytes
              /\ k \notin ks => conn'[k] = conn[k]
<1>1. M!Spent \in [open : BOOLEAN, bytes : 0..MaxBytes]
      /\ M!Spent.open = FALSE /\ M!Spent.bytes = MaxBytes
  BY DaemonAssumption DEF M!Spent
<1>2. conn' = [k \in Conns |-> IF k \in ks THEN M!Spent ELSE conn[k]] /\ UNCHANGED <<carried, banked>>
  BY DEF M!Closed
<1> QED
  BY <1>1, <1>2

LEMMA CarryTypes ==
  ASSUME conn \in [Conns -> [open : BOOLEAN, bytes : 0..MaxBytes]],
         carried \in [Refs -> Nat], NEW k \in Conns, M!Carry(k)
  PROVE  /\ conn' \in [Conns -> [open : BOOLEAN, bytes : 0..MaxBytes]]
         /\ carried' \in [Refs -> Nat]
         /\ conn'[k].open = TRUE /\ conn'[k].bytes = conn[k].bytes + 1
         /\ \A j \in Conns \ {k} : conn'[j] = conn[j]
         /\ carried'[Ref(k)] = carried[Ref(k)] + 1
         /\ \A r \in Refs \ {Ref(k)} : carried'[r] = carried[r]
<1> DEFINE raised == [open |-> TRUE, bytes |-> conn[k].bytes + 1]
<1>1. conn' = [conn EXCEPT ![k] = raised] /\ conn[k].bytes < MaxBytes
  BY DEF M!Carry
<1>2. raised \in [open : BOOLEAN, bytes : 0..MaxBytes]
      /\ raised.open = TRUE /\ raised.bytes = conn[k].bytes + 1
  BY <1>1, DaemonAssumption
<1>3. carried' = [carried EXCEPT ![Ref(k)] = carried[Ref(k)] + 1] /\ Ref(k) \in Refs
  BY DEF M!Carry, Refs, M!Refs
<1> HIDE DEF raised
<1> QED
  BY <1>1, <1>2, <1>3

\* Banking: what a channel gains, and what the accumulator saw last.
LEMMA BankTypes ==
  ASSUME TrafficTypes, SampleInv, M!Bank
  PROVE  /\ banked' \in [Refs -> Nat] /\ carried' = carried
         /\ acc' = [gen |-> acc.gen, seen |-> M!Snapped]
         /\ \A r \in Refs :
              banked'[r] = IF M!Dropped(r) THEN banked[r] ELSE banked[r] + M!Deltas[r]
<1>1. banked' = [r \in Refs |-> IF M!Dropped(r) THEN banked[r] ELSE banked[r] + M!Deltas[r]]
      /\ carried' = carried
  BY DEF M!Bank, Refs
<1>2. \A r \in Refs : M!Deltas[r] \in Nat /\ banked[r] \in Nat
  BY DeltasType DEF TrafficTypes
<1>3. acc' = [acc EXCEPT !.seen = M!Snapped] /\ acc = [gen |-> acc.gen, seen |-> acc.seen]
  BY DEF M!Bank, TrafficTypes
<1>4. acc' = [gen |-> acc.gen, seen |-> M!Snapped]
  BY <1>3
<1> QED
  BY <1>1, <1>2, <1>4

\* Every step keeps the types.
LEMMA TrafficTypesStep ==
  ASSUME TrafficTypes, SampleInv, [M!Next]_M!vars
  PROVE  TrafficTypes'
<1>s. ASSUME NEW k \in DOMAIN M!Snapped PROVE k \in Conns /\ M!Snapped[k] \in 0..MaxBytes
  <2>1. k \in Conns /\ M!Snapped[k] \in 1..MaxBytes
    BY SnappedIs
  <2> QED
    BY <2>1, DaemonAssumption
<1> USE DEF TrafficTypes
<1>1. ASSUME NEW k \in Conns, M!Carry(k) PROVE TrafficTypes'
  <2>1. UNCHANGED <<box, acc, sample, banked, deleted, gone, readded>>
    BY <1>1 DEF M!Carry
  <2> QED
    BY <1>1, <2>1, CarryTypes
<1>2. ASSUME NEW k \in Conns, M!Close(k) PROVE TrafficTypes'
  <2>1. M!Closed({k}) /\ UNCHANGED <<box, acc, sample, deleted, gone, readded>>
    BY <1>2 DEF M!Close
  <2> QED
    BY <2>1, ClosedTypes
<1>3. CASE M!Reload
  <2>1. M!Closed(M!Open) /\ UNCHANGED <<box, acc, sample, deleted, gone, readded>>
    BY <1>3 DEF M!Reload
  <2> QED
    BY <2>1, ClosedTypes
<1>4. CASE M!RestartBox
  <2>1. M!Closed(M!Open) /\ box' = box + 1 /\ UNCHANGED <<acc, sample, deleted, gone, readded>>
    BY <1>4 DEF M!RestartBox
  <2>2. /\ conn' \in [Conns -> [open : BOOLEAN, bytes : 0..MaxBytes]]
        /\ UNCHANGED <<carried, banked>>
    BY <2>1, ClosedTypes
  <2>3. box' \in Nat \ {0} /\ acc.gen <= box' /\ sample.gen \in Nat /\ sample.gen <= box'
    BY <2>1 DEF Samples
  <2> QED
    BY <2>1, <2>2, <2>3
<1>5. CASE M!ReadGeneration
  <2>1. sample' = [at |-> "fetch", gen |-> box, snap |-> {}, skip |-> {}, first |-> {}]
    BY <1>5 DEF M!ReadGeneration, M!Rest
  <2>2. UNCHANGED <<box, conn, acc, banked, deleted, carried, gone, readded>>
    BY <1>5 DEF M!ReadGeneration
  <2>3. sample' \in Samples /\ sample'.gen = box
    BY <2>1 DEF Samples
  <2> QED
    BY <2>2, <2>3
<1>6. CASE M!FetchConnections
  <2> DEFINE snap == {<<k, conn[k].bytes>> : k \in M!Open}
  <2>1. sample' = [sample EXCEPT !.at = "observe", !.snap = snap]
    BY <1>6 DEF M!FetchConnections
  <2>2. snap \in SUBSET (Conns \X (0..MaxBytes))
    BY DEF M!Open
  <2>3. UNCHANGED <<box, conn, acc, banked, deleted, carried, gone, readded>>
    BY <1>6 DEF M!FetchConnections
  <2> HIDE DEF snap
  <2>4. sample' \in Samples /\ sample'.gen = sample.gen
    BY <2>1, <2>2 DEF Samples
  <2> QED
    BY <2>3, <2>4
<1>7. M!Rest \in Samples /\ M!Rest.gen = 0
  BY DEF M!Rest, Samples
<1>8. CASE M!Observe
  <2>1. sample.gen = box /\ UNCHANGED <<box, conn, banked, carried, deleted, gone, readded>>
    BY <1>8 DEF M!Observe
  <2>3. CASE M!Baseline
    <3>1. acc' = [gen |-> sample.gen, seen |-> M!Snapped] /\ sample' = M!Rest
      BY <2>3 DEF M!Baseline
    <3> QED
      BY <1>7, <2>1, <1>s, <3>1
  <2>4. CASE M!Advance
    <3>1. acc' = [gen |-> acc.gen, seen |-> M!Snapped] /\ sample' = M!Rest
      BY <2>4 DEF M!Advance
    <3> QED
      BY <1>7, <2>1, <1>s, <3>1
  <2>5. CASE sample' = [sample EXCEPT !.at = "check"] /\ acc' = acc
    <3>1. sample' \in Samples /\ sample'.gen = sample.gen
      BY <2>5 DEF Samples
    <3> QED
      BY <2>1, <2>5, <3>1
  <2> QED
    BY <1>8, <2>3, <2>4, <2>5 DEF M!Observe
<1>17. CASE M!LookUp
  <2>1. UNCHANGED <<box, conn, acc, banked, carried, gone, readded>>
    BY <1>17 DEF M!LookUp
  <2>2. PICK r \in Refs :
          sample' = IF M!Tombstoned(r) THEN [sample EXCEPT !.skip = @ \cup {r}]
                    ELSE [sample EXCEPT !.at = "insert", !.first = {r}]
    BY <1>17 DEF M!LookUp, M!Growing, Refs
  <2>3. sample' \in Samples /\ sample'.gen = sample.gen
    BY <2>2 DEF Samples
  <2> QED
    BY <2>1, <2>3
<1>18. CASE M!Bank
  <2>1. /\ banked' \in [Refs -> Nat] /\ carried' = carried
        /\ acc' = [gen |-> acc.gen, seen |-> M!Snapped]
    BY <1>18, BankTypes
  <2>2. sample' = M!Rest /\ UNCHANGED <<box, conn, gone, readded>>
    BY <1>18 DEF M!Bank
  <2> QED
    BY <1>7, <2>1, <2>2, <1>s
<1>19. CASE M!BankFails
  BY <1>7, <1>19 DEF M!BankFails
<1>9. CASE M!Discard
  BY <1>7, <1>9 DEF M!Discard
<1>10. CASE M!FetchFails
  BY <1>7, <1>10 DEF M!FetchFails
<1>11. CASE M!DaemonRestarts
  <2>1. acc' = [gen |-> 0, seen |-> <<>>] /\ sample' = M!Rest
        /\ UNCHANGED <<box, conn, banked, carried, gone, readded>>
    BY <1>11 DEF M!DaemonRestarts, M!Unstarted
  <2> QED
    BY <1>7, <2>1
<1>12. ASSUME NEW r \in Refs, M!RemoveChannel(r) PROVE TrafficTypes'
  BY <1>12 DEF M!RemoveChannel
<1>13. ASSUME NEW r \in Refs, M!ReviveChannel(r) PROVE TrafficTypes'
  BY <1>13 DEF M!ReviveChannel
<1>14. CASE M!RemoveProvider
  <2>1. banked' = [r \in Refs |-> 0] /\ gone' = Refs
        /\ UNCHANGED <<box, conn, acc, sample, carried, readded>>
    BY <1>14 DEF M!RemoveProvider, Refs
  <2> QED
    BY <2>1
<1>15. CASE M!ReviveProvider
  BY <1>15 DEF M!ReviveProvider
<1>16. CASE UNCHANGED M!vars
  BY <1>16 DEF M!vars
<1> QED
  BY <1>1, <1>2, <1>3, <1>4, <1>5, <1>6, <1>8, <1>9, <1>10, <1>11, <1>12, <1>13, <1>14, <1>15, <1>16,
     <1>17, <1>18, <1>19
  DEF M!Next, M!Sampling, Refs

\* Counters only grow, and the box's generation too.
LEMMA BytesGrow ==
  ASSUME TrafficTypes, SampleInv, conn' \in [Conns -> [open : BOOLEAN, bytes : 0..MaxBytes]],
         UNCHANGED <<acc, sample>>, box' = box \/ box' > box,
         \A k \in Conns : /\ conn[k].bytes <= conn'[k].bytes
                          /\ conn'[k].open => conn'[k].bytes >= 1
                          /\ conn'[k].open => conn[k].open \/ conn[k].bytes = 0
  PROVE  SampleInv'
<1>1. \A s \in sample.snap : s[1] \in Conns /\ s[2] \in Nat /\ s[2] <= conn'[s[1]].bytes
  BY SnappedIs, DaemonAssumption DEF TrafficTypes, Samples, SampleInv
<1>2. (Current' => Current) /\ (Observing' => Observing)
  BY DEF TrafficTypes, Samples, Current, Observing, M!Banking
<1>3. M!Snapped' = M!Snapped /\ \A k \in Conns : M!Seen(k)' = M!Seen(k)
  BY DEF M!Snapped, M!Seen
<1>4. ASSUME Current', NEW k \in DOMAIN acc.seen
      PROVE  acc.seen[k] >= 1 /\ acc.seen[k] <= conn'[k].bytes
  BY <1>2, <1>4, DaemonAssumption DEF TrafficTypes, SampleInv
<1>5. ASSUME Current', Observing'
      PROVE  /\ \A s \in sample.snap : M!Seen(s[1]) <= s[2]
             /\ \A k \in (M!Open)' \ DOMAIN M!Snapped : k \notin DOMAIN acc.seen
  <2>1. ASSUME NEW k \in (M!Open)' \ DOMAIN M!Snapped, k \in DOMAIN acc.seen PROVE FALSE
    <3>1. k \in Conns /\ conn'[k].open
      BY DEF M!Open
    <3>2. CASE conn[k].open
      BY <1>2, <1>5, <2>1, <3>1, <3>2 DEF SampleInv, M!Open
    <3>3. CASE conn[k].bytes = 0
      BY <1>2, <1>5, <2>1, <3>1, <3>3 DEF TrafficTypes, SampleInv
    <3> QED
      BY <3>1, <3>2, <3>3
  <2> QED
    BY <1>2, <1>5, <2>1 DEF SampleInv
<1> QED
  BY <1>1, <1>3, <1>4, <1>5 DEF SampleInv

LEMMA ClosedGrow ==
  ASSUME TrafficTypes, SampleInv, NEW ks, M!Closed(ks)
  PROVE  \A k \in Conns : /\ conn[k].bytes <= conn'[k].bytes
                          /\ conn'[k].open => conn'[k].bytes >= 1 /\ conn[k].open
<1>1. \A k \in Conns : conn[k].bytes \in 0..MaxBytes /\ MaxBytes \in Nat
  BY DaemonAssumption DEF TrafficTypes
<1>2. \A k \in Conns : /\ k \in ks => conn'[k].open = FALSE /\ conn'[k].bytes = MaxBytes
                       /\ k \notin ks => conn'[k] = conn[k]
  BY ClosedTypes DEF TrafficTypes
<1>3. \A k \in Conns : conn[k].open => conn[k].bytes >= 1
  BY DEF SampleInv
<1>4. ASSUME NEW k \in Conns
      PROVE  /\ conn[k].bytes <= conn'[k].bytes
             /\ conn'[k].open => conn'[k].bytes >= 1 /\ conn[k].open
  <2>1. CASE k \in ks
    <3>1. conn[k].bytes \in 0..MaxBytes /\ MaxBytes \in Nat
      BY <1>1
    <3>2. conn'[k].open = FALSE /\ conn'[k].bytes = MaxBytes
      BY <1>2, <2>1
    <3> QED
      BY <3>1, <3>2
  <2>2. CASE k \notin ks
    BY <1>1, <1>2, <1>3, <2>2
  <2> QED
    BY <2>1, <2>2
<1> QED
  BY <1>4

\* Every step keeps the samples in order.
LEMMA SampleStep ==
  ASSUME TrafficTypes, SampleInv, [M!Next]_M!vars
  PROVE  SampleInv'
<1>t. TrafficTypes'
  BY TrafficTypesStep
<1>1. ASSUME NEW k \in Conns, M!Carry(k) PROVE SampleInv'
  <2>1. UNCHANGED <<box, acc, sample>> /\ (conn[k].open \/ conn[k].bytes = 0)
    BY <1>1 DEF M!Carry
  <2>2. /\ conn'[k].bytes = conn[k].bytes + 1
        /\ \A j \in Conns \ {k} : conn'[j] = conn[j]
    BY <1>1, CarryTypes DEF TrafficTypes
  <2>3. \A j \in Conns : conn[j].bytes \in Nat /\ (conn[j].open => conn[j].bytes >= 1)
    BY DaemonAssumption DEF TrafficTypes, SampleInv
  <2>4. \A j \in Conns : /\ conn[j].bytes <= conn'[j].bytes
                         /\ conn'[j].open => conn'[j].bytes >= 1
                         /\ conn'[j].open => conn[j].open \/ conn[j].bytes = 0
    BY <2>1, <2>2, <2>3
  <2>5. conn' \in [Conns -> [open : BOOLEAN, bytes : 0..MaxBytes]]
    BY <1>t DEF TrafficTypes
  <2> QED
    BY <2>1, <2>4, <2>5, BytesGrow
<1>2. ASSUME NEW ks, M!Closed(ks), UNCHANGED <<acc, sample>>, box' = box \/ box' > box PROVE SampleInv'
  <2>1. conn' \in [Conns -> [open : BOOLEAN, bytes : 0..MaxBytes]]
    BY <1>t DEF TrafficTypes
  <2> QED
    BY <1>2, <2>1, ClosedGrow, BytesGrow
<1>3. ASSUME NEW k \in Conns, M!Close(k) PROVE SampleInv'
  BY <1>2, <1>3 DEF M!Close
<1>4. CASE M!Reload
  BY <1>2, <1>4 DEF M!Reload
<1>5. CASE M!RestartBox
  <2>1. M!Closed(M!Open) /\ UNCHANGED <<acc, sample>> /\ box' = box + 1 /\ box \in Nat
    BY <1>5 DEF M!RestartBox, TrafficTypes
  <2> QED
    BY <1>2, <2>1
<1>6. ASSUME sample'.snap = {}, sample'.at \in {"rest", "fetch"}, UNCHANGED <<box, conn>>,
             acc' = acc \/ acc' = [gen |-> 0, seen |-> <<>>]
      PROVE  SampleInv'
  <2>1. ~Observing'
    BY <1>6 DEF Observing, M!Banking
  <2>2. Current' => \A k \in DOMAIN acc'.seen : acc'.seen[k] >= 1 /\ acc'.seen[k] <= conn'[k].bytes
    <3>1. CASE acc' = acc
      BY <1>6, <3>1 DEF Current, SampleInv
    <3>2. CASE acc' = [gen |-> 0, seen |-> <<>>]
      BY <3>2
    <3> QED
      BY <1>6, <3>1, <3>2
  <2> QED
    BY <1>6, <2>1, <2>2 DEF SampleInv
<1>7. CASE M!ReadGeneration
  <2>1. sample'.snap = {} /\ sample'.at = "fetch" /\ UNCHANGED <<box, conn, acc>>
    BY <1>7 DEF M!ReadGeneration, M!Rest
  <2> QED
    BY <1>6, <2>1
<1>8. M!Rest.snap = {} /\ M!Rest.at = "rest"
  BY DEF M!Rest
<1>9. CASE M!Discard \/ M!FetchFails \/ M!DaemonRestarts \/ M!BankFails
  <2>1. sample' = M!Rest /\ UNCHANGED <<box, conn>>
        /\ (acc' = acc \/ acc' = [gen |-> 0, seen |-> <<>>])
    BY <1>9 DEF M!Discard, M!FetchFails, M!DaemonRestarts, M!BankFails, M!Unstarted
  <2> QED
    BY <1>6, <1>8, <2>1
<1>10. CASE M!FetchConnections
  <2> DEFINE snap == {<<k, conn[k].bytes>> : k \in M!Open}
  <2>1. sample' = [sample EXCEPT !.at = "observe", !.snap = snap] /\ UNCHANGED <<box, conn, acc>>
    BY <1>10 DEF M!FetchConnections
  <2>2. \A s \in snap : s[1] \in M!Open /\ s[1] \in Conns /\ s[2] = conn[s[1]].bytes
                        /\ s = <<s[1], conn[s[1]].bytes>>
    BY DEF M!Open
  <2>3. \A k \in M!Open : <<k, conn[k].bytes>> \in snap
    OBVIOUS
  <2> HIDE DEF snap
  <2>4. sample'.snap = snap /\ sample'.gen = sample.gen
    BY <2>1 DEF TrafficTypes, Samples
  <2>5. \A s, t \in snap : s[1] = t[1] => s = t
    BY <2>2
  <2>6. \A s \in snap : s[2] >= 1 /\ s[2] <= conn[s[1]].bytes
    BY <2>2, DaemonAssumption DEF TrafficTypes, SampleInv, M!Open
  <2>7. (M!Open)' = M!Open /\ (Current' => Current)
        /\ \A k \in Conns : M!Seen(k)' = M!Seen(k)
    BY <2>1 DEF M!Open, Current, M!Seen
  <2>8. \A k \in M!Open : k \in DOMAIN (M!Snapped)'
    <3>1. DOMAIN (M!Snapped)' = {s[1] : s \in sample'.snap}
      BY DEF M!Snapped
    <3>2. ASSUME NEW k \in M!Open PROVE \E s \in snap : s[1] = k
      <4>1. <<k, conn[k].bytes>>[1] = k
        OBVIOUS
      <4> QED
        BY <2>3, <4>1
    <3> QED
      BY <2>4, <3>1, <3>2
  <2>9. ASSUME Current, NEW s \in snap PROVE M!Seen(s[1]) <= s[2]
    <3>1. s[1] \in Conns /\ s[2] = conn[s[1]].bytes /\ s[2] \in Nat
      BY <2>2, DaemonAssumption DEF TrafficTypes
    <3>2. s[1] \in DOMAIN acc.seen => acc.seen[s[1]] <= conn[s[1]].bytes
      BY <2>9 DEF SampleInv
    <3> QED
      BY <3>1, <3>2 DEF M!Seen
  <2>10. Current' /\ Observing' =>
           /\ \A s \in sample'.snap : M!Seen(s[1])' <= s[2]
           /\ \A k \in (M!Open)' \ DOMAIN (M!Snapped)' : k \notin DOMAIN acc'.seen
    BY <2>2, <2>4, <2>7, <2>8, <2>9
  <2>11. \A k \in Conns : conn'[k].open => conn'[k].bytes >= 1
    BY <2>1 DEF SampleInv
  <2>12. Current' => \A k \in DOMAIN acc'.seen : acc'.seen[k] >= 1 /\ acc'.seen[k] <= conn'[k].bytes
    BY <2>1, <2>7 DEF SampleInv
  <2>13. /\ \A s, t \in sample'.snap : s[1] = t[1] => s = t
         /\ \A s \in sample'.snap : s[2] >= 1 /\ s[2] <= conn'[s[1]].bytes
    BY <2>1, <2>4, <2>5, <2>6
  <2> QED
    BY <2>10, <2>11, <2>12, <2>13 DEF SampleInv
<1>11. ASSUME sample' = M!Rest, UNCHANGED <<box, conn>>, acc'.seen = M!Snapped PROVE SampleInv'
  <2>1. ~Observing' /\ sample'.snap = {}
    BY <1>8, <1>11 DEF Observing, M!Banking
  <2>2. ASSUME NEW k \in DOMAIN M!Snapped
        PROVE  k \in Conns /\ M!Snapped[k] >= 1 /\ M!Snapped[k] <= conn[k].bytes
    <3>1. k \in Conns /\ M!Snapped[k] \in 1..MaxBytes /\ M!Snapped[k] <= conn[k].bytes
      BY SnappedIs
    <3> QED
      BY <3>1, DaemonAssumption
  <2> QED
    BY <1>11, <2>1, <2>2 DEF SampleInv
<1>15. ASSUME UNCHANGED <<box, conn, acc>>, sample'.snap = sample.snap, Observing' => Observing
       PROVE  SampleInv'
  BY <1>15 DEF SampleInv, Current, M!Open, M!Snapped, M!Seen
<1>16. CASE M!Observe
  <2>1. sample.at = "observe" /\ UNCHANGED <<box, conn>>
    BY <1>16 DEF M!Observe
  <2>2. CASE M!Baseline
    BY <1>11, <2>1, <2>2 DEF M!Baseline
  <2>3. CASE M!Advance
    <3>1. acc' = [gen |-> acc.gen, seen |-> M!Snapped] /\ sample' = M!Rest
      BY <2>3 DEF M!Advance, TrafficTypes
    <3> QED
      BY <1>11, <2>1, <3>1
  <2>4. CASE sample' = [sample EXCEPT !.at = "check"] /\ acc' = acc
    <3>1. sample'.snap = sample.snap /\ sample'.gen = sample.gen
      BY <2>4 DEF TrafficTypes, Samples
    <3> QED
      BY <1>15, <2>1, <2>4, <3>1 DEF Observing
  <2> QED
    BY <1>16, <2>2, <2>3, <2>4 DEF M!Observe
<1>17. CASE M!LookUp
  <2>1. UNCHANGED <<box, conn, acc>> /\ sample.at = "check"
    BY <1>17 DEF M!LookUp
  <2>2. sample'.snap = sample.snap /\ sample'.gen = sample.gen
    BY <1>17 DEF M!LookUp, TrafficTypes, Samples
  <2> QED
    BY <1>15, <2>1, <2>2 DEF Observing, M!Banking
<1>18. CASE M!Bank
  <2>1. sample' = M!Rest /\ UNCHANGED <<box, conn>>
    BY <1>18 DEF M!Bank
  <2>2. acc' = [gen |-> acc.gen, seen |-> M!Snapped]
    BY <1>18, BankTypes
  <2> QED
    BY <1>11, <2>1, <2>2
<1>12. ASSUME UNCHANGED <<box, conn, acc, sample>> PROVE SampleInv'
  BY <1>12, <1>15 DEF Observing, M!Banking
<1>13. ASSUME NEW r \in Refs, M!RemoveChannel(r) \/ M!ReviveChannel(r) PROVE SampleInv'
  BY <1>12, <1>13 DEF M!RemoveChannel, M!ReviveChannel
<1>14. CASE M!RemoveProvider \/ M!ReviveProvider \/ UNCHANGED M!vars
  BY <1>12, <1>14 DEF M!RemoveProvider, M!ReviveProvider, M!vars
<1> QED
  BY <1>1, <1>3, <1>4, <1>5, <1>7, <1>9, <1>10, <1>13, <1>14, <1>16, <1>17, <1>18
  DEF M!Next, M!Sampling, Refs

\* The sums a channel's total is compared with are numbers, too.
LEMMA TotalTypes ==
  ASSUME TrafficTypes, SampleInv
  PROVE  \A r \in Refs : /\ SumFunctionOnSet(Owed, Of(r)) \in Int
                         /\ SumFunctionOnSet(Later, Of(r)) \in Int
                         /\ SumFunctionOnSet(Later, Of(r)) >= 0
                         /\ Current => SumFunctionOnSet(Owed, Of(r)) >= 0
<1> SUFFICES ASSUME NEW r \in Refs
             PROVE  /\ SumFunctionOnSet(Owed, Of(r)) \in Int
                    /\ SumFunctionOnSet(Later, Of(r)) \in Int
                    /\ SumFunctionOnSet(Later, Of(r)) >= 0
                    /\ Current => SumFunctionOnSet(Owed, Of(r)) >= 0
  OBVIOUS
<1>1. Of(r) \subseteq Conns /\ IsFiniteSet(Of(r))
  BY OfFinite
<1>2. \A k \in Of(r) : /\ Owed[k] \in Int /\ Later[k] \in Int /\ Later[k] >= 0
                       /\ Current => Owed[k] >= 0
  BY <1>1, OwedTypes
<1> QED
  BY <1>1, <1>2, SumType, SumSign

LEMMA TypesAfter ==
  ASSUME TrafficTypes', SampleInv'
  PROVE  /\ \A k \in Conns : Owed'[k] \in Int /\ Later'[k] \in Nat
         /\ Current' => \A k \in Conns : Owed'[k] \in Nat
         /\ \A r \in Refs : /\ SumFunctionOnSet(Owed', Of(r)) \in Int
                            /\ SumFunctionOnSet(Later', Of(r)) \in Int
<1>1. (\A k \in Conns : Owed[k] \in Int /\ Later[k] \in Nat /\ Snap(k) \in 0..MaxBytes)'
      /\ (Current => \A k \in Conns : Owed[k] \in Nat)'
  BY OwedTypes, PTL
<1>2. \A k \in Conns : Owed'[k] \in Int /\ Later'[k] \in Nat
  BY <1>1
<1> QED
  BY <1>1, <1>2, OfFinite, SumType

\* A total keeps its bound when no step adds to what may be banked.
LEMMA TotalsKept ==
  ASSUME TrafficTypes, SampleInv, TotalsInv, TrafficTypes', SampleInv', carried' = carried,
         \A r \in Refs : banked'[r] <= banked[r],
         Current' => Current /\ \A k \in Conns : Owed'[k] <= Owed[k],
         Observing' => Observing /\ \A k \in Conns : Later'[k] <= Later[k]
  PROVE  TotalsInv'
<1> SUFFICES ASSUME NEW r \in Refs
             PROVE  /\ banked'[r] <= carried'[r]
                    /\ Current' => banked'[r] + SumFunctionOnSet(Owed', Of(r)) <= carried'[r]
                    /\ Observing' => banked'[r] + SumFunctionOnSet(Later', Of(r)) <= carried'[r]
  BY DEF TotalsInv, Of, Refs, M!Refs
<1>1. banked[r] \in Nat /\ banked'[r] \in Nat /\ carried[r] \in Nat /\ banked'[r] <= banked[r]
  BY DEF TrafficTypes, Refs, M!Refs
<1>2. Of(r) \subseteq Conns /\ IsFiniteSet(Of(r))
  BY OfFinite
<1>3. Current' => SumFunctionOnSet(Owed', Of(r)) <= SumFunctionOnSet(Owed, Of(r))
  BY <1>2, OwedTypes, TypesAfter, SumOrder
<1>4. Observing' => SumFunctionOnSet(Later', Of(r)) <= SumFunctionOnSet(Later, Of(r))
  BY <1>2, OwedTypes, TypesAfter, SumOrder
<1>5. /\ SumFunctionOnSet(Owed, Of(r)) \in Int /\ SumFunctionOnSet(Later, Of(r)) \in Int
      /\ SumFunctionOnSet(Owed', Of(r)) \in Int /\ SumFunctionOnSet(Later', Of(r)) \in Int
  BY TotalTypes, TypesAfter
<1>6. /\ banked[r] <= carried[r]
      /\ Current => banked[r] + SumFunctionOnSet(Owed, Of(r)) <= carried[r]
      /\ Observing => banked[r] + SumFunctionOnSet(Later, Of(r)) <= carried[r]
  BY DEF TotalsInv
<1> QED
  BY <1>1, <1>3, <1>4, <1>5, <1>6

\* The terms for a connection, by whether it is open.
LEMMA Terms ==
  \A k \in Conns :
    /\ k \in M!Open => /\ Owed[k] = conn[k].bytes - M!Seen(k)
                       /\ Later[k] = conn[k].bytes - Snap(k)
    /\ k \notin M!Open => /\ Later[k] = 0
                          /\ Owed[k] = IF Observing /\ k \in DOMAIN M!Snapped
                                        THEN Snap(k) - M!Seen(k) ELSE 0
  BY DEF Owed, Later

LEMMA TermsAfter ==
  \A k \in Conns :
    /\ k \in (M!Open)' => /\ Owed'[k] = conn'[k].bytes - M!Seen(k)'
                          /\ Later'[k] = conn'[k].bytes - Snap(k)'
    /\ k \notin (M!Open)' => /\ Later'[k] = 0
                             /\ Owed'[k] = IF Observing' /\ k \in DOMAIN (M!Snapped)'
                                           THEN Snap(k)' - M!Seen(k)' ELSE 0
  BY DEF Owed, Later

\* Closing a connection gives up what was not sampled yet.
LEMMA ClosedTotals ==
  ASSUME TrafficTypes, SampleInv, TotalsInv, TrafficTypes', SampleInv',
         NEW ks \in SUBSET M!Open, M!Closed(ks), UNCHANGED <<acc, sample>>,
         Current' => Current, Observing' => box' = box
  PROVE  TotalsInv'
<1>1. /\ UNCHANGED <<carried, banked>>
      /\ \A k \in Conns : /\ k \in ks => conn'[k].open = FALSE
                          /\ k \notin ks => conn'[k] = conn[k]
  BY ClosedTypes DEF TrafficTypes
<1>2. \A k \in Conns : M!Seen(k)' = M!Seen(k) /\ Snap(k)' = Snap(k)
  BY DEF M!Seen, Snap, M!Snapped
<1>3. DOMAIN (M!Snapped)' = DOMAIN M!Snapped /\ (Observing' => Observing)
  BY DEF M!Snapped, Observing, M!Banking
<1>4. ASSUME NEW k \in Conns
      PROVE  /\ Current' => Owed'[k] <= Owed[k]
             /\ Observing' => Later'[k] <= Later[k]
  <2>1. /\ conn[k].bytes \in Nat /\ M!Seen(k) \in Nat /\ Snap(k) \in Nat
        /\ Owed[k] \in Int /\ Later[k] \in Nat /\ (Current => Owed[k] >= 0)
    BY OwedTypes, SeenType, DaemonAssumption DEF TrafficTypes
  <2>2. Snap(k) <= conn[k].bytes
    <3>1. k \in DOMAIN M!Snapped => M!Snapped[k] <= conn[k].bytes
      BY SnappedIs
    <3> QED
      BY <2>1, <3>1 DEF Snap
  <2>3. CASE k \in ks
    <3>1. k \in M!Open /\ k \notin (M!Open)'
      BY <1>1, <2>3 DEF M!Open
    <3> QED
      BY <1>2, <2>1, <2>2, <3>1, Terms, TermsAfter
  <2>4. CASE k \notin ks
    <3>1. conn'[k] = conn[k] /\ (k \in (M!Open)' <=> k \in M!Open)
      BY <1>1, <2>4 DEF M!Open
    <3> QED
      BY <1>2, <1>3, <2>1, <3>1, Terms, TermsAfter
  <2> QED
    BY <2>3, <2>4
<1>5. \A r \in Refs : banked'[r] <= banked[r]
  BY <1>1 DEF TrafficTypes
<1> QED
  BY <1>1, <1>3, <1>4, <1>5, TotalsKept

\* A byte is carried before it is banked.
LEMMA CarryTotals ==
  ASSUME TrafficTypes, SampleInv, TotalsInv, TrafficTypes', SampleInv',
         NEW j \in Conns, M!Carry(j)
  PROVE  TotalsInv'
<1>1. /\ UNCHANGED <<box, acc, sample, banked>> /\ (conn[j].open \/ conn[j].bytes = 0)
  BY DEF M!Carry
<1>2. /\ conn'[j].open = TRUE /\ conn'[j].bytes = conn[j].bytes + 1
      /\ \A k \in Conns \ {j} : conn'[k] = conn[k]
      /\ carried'[Ref(j)] = carried[Ref(j)] + 1
      /\ \A r \in Refs \ {Ref(j)} : carried'[r] = carried[r]
  BY CarryTypes DEF TrafficTypes
<1>3. \A k \in Conns : M!Seen(k)' = M!Seen(k) /\ Snap(k)' = Snap(k)
  BY <1>1 DEF M!Seen, Snap, M!Snapped
<1>4. DOMAIN (M!Snapped)' = DOMAIN M!Snapped /\ Observing' = Observing /\ Current' = Current
  BY <1>1 DEF M!Snapped, Observing, M!Banking, Current
<1>5. \A k \in Conns : /\ conn[k].bytes \in Nat /\ M!Seen(k) \in Nat /\ Snap(k) \in Nat
                       /\ Owed[k] \in Int /\ Later[k] \in Nat
  BY OwedTypes, SeenType, DaemonAssumption DEF TrafficTypes
<1>6. ASSUME NEW k \in Conns \ {j}
      PROVE  Owed'[k] = Owed[k] /\ Later'[k] = Later[k]
  <2>1. conn'[k] = conn[k] /\ (k \in (M!Open)' <=> k \in M!Open)
    BY <1>2 DEF M!Open
  <2> QED
    BY <1>3, <1>4, <2>1, Terms, TermsAfter
<1>7. (Current => Owed'[j] <= Owed[j] + 1) /\ Later'[j] <= Later[j] + 1
  <2>1. j \in (M!Open)'
    BY <1>2 DEF M!Open
  <2>2. Owed'[j] = conn[j].bytes + 1 - M!Seen(j) /\ Later'[j] = conn[j].bytes + 1 - Snap(j)
    <3>1. Owed'[j] = conn'[j].bytes - M!Seen(j)' /\ Later'[j] = conn'[j].bytes - Snap(j)'
      BY <2>1, TermsAfter
    <3>2. M!Seen(j)' = M!Seen(j) /\ Snap(j)' = Snap(j)
      BY <1>3
    <3> QED
      BY <1>2, <1>5, <3>1, <3>2
  <2>3. CASE conn[j].open
    <3>1. j \in M!Open
      BY <2>3 DEF M!Open
    <3> QED
      BY <1>5, <2>2, <3>1, Terms
  <2>4. CASE ~conn[j].open
    <3>1. conn[j].bytes = 0 /\ j \notin M!Open
      BY <1>1, <2>4 DEF M!Open
    <3>2. Snap(j) = 0 /\ j \notin DOMAIN M!Snapped
      <4>1. j \in DOMAIN M!Snapped => M!Snapped[j] \in 1..MaxBytes /\ M!Snapped[j] <= 0
        BY <3>1, SnappedIs
      <4> QED
        BY <4>1, DaemonAssumption DEF Snap
    <3>3. Current => M!Seen(j) = 0
      BY <3>1, DaemonAssumption DEF TrafficTypes, SampleInv, M!Seen
    <3> QED
      BY <1>5, <2>2, <3>1, <3>2, <3>3, Terms
  <2> QED
    BY <2>3, <2>4
<1> SUFFICES ASSUME NEW r \in Refs
             PROVE  /\ banked'[r] <= carried'[r]
                    /\ Current' => banked'[r] + SumFunctionOnSet(Owed', Of(r)) <= carried'[r]
                    /\ Observing' => banked'[r] + SumFunctionOnSet(Later', Of(r)) <= carried'[r]
  BY DEF TotalsInv, Of, Refs, M!Refs
<1>8. Of(r) \subseteq Conns /\ IsFiniteSet(Of(r)) /\ (j \in Of(r) <=> r = Ref(j))
  BY OfFinite DEF Of
<1>9. /\ SumFunctionOnSet(Owed, Of(r)) \in Int /\ SumFunctionOnSet(Later, Of(r)) \in Int
      /\ SumFunctionOnSet(Owed', Of(r)) \in Int /\ SumFunctionOnSet(Later', Of(r)) \in Int
      /\ \A k \in Conns : Owed'[k] \in Int /\ Later'[k] \in Int
      /\ banked[r] \in Nat /\ carried[r] \in Nat
  BY TotalTypes, TypesAfter DEF TrafficTypes
<1>10. /\ banked[r] <= carried[r]
       /\ Current => banked[r] + SumFunctionOnSet(Owed, Of(r)) <= carried[r]
       /\ Observing => banked[r] + SumFunctionOnSet(Later, Of(r)) <= carried[r]
  BY DEF TotalsInv
<1>11. CASE r = Ref(j)
  <2>1. /\ Current => SumFunctionOnSet(Owed', Of(r)) <= SumFunctionOnSet(Owed, Of(r)) + 1
        /\ SumFunctionOnSet(Later', Of(r)) <= SumFunctionOnSet(Later, Of(r)) + 1
    <3>1. j \in Of(r) /\ \A k \in Of(r) \ {j} : Owed'[k] <= Owed[k] /\ Later'[k] <= Later[k]
      BY <1>5, <1>6, <1>8, <1>11
    <3>2. \A k \in Of(r) : Owed'[k] \in Int /\ Later'[k] \in Int /\ Owed[k] \in Int /\ Later[k] \in Int
      BY <1>5, <1>8, <1>9
    <3> QED
      BY <1>7, <1>8, <3>1, <3>2, SumRaised
  <2> QED
    BY <1>1, <1>2, <1>4, <1>9, <1>10, <1>11, <2>1
<1>12. CASE r # Ref(j)
  <2>1. /\ SumFunctionOnSet(Owed', Of(r)) <= SumFunctionOnSet(Owed, Of(r))
        /\ SumFunctionOnSet(Later', Of(r)) <= SumFunctionOnSet(Later, Of(r))
    <3>1. \A k \in Of(r) : /\ Owed'[k] \in Int /\ Later'[k] \in Int
                           /\ Owed[k] \in Int /\ Later[k] \in Int
                           /\ Owed'[k] <= Owed[k] /\ Later'[k] <= Later[k]
      BY <1>5, <1>6, <1>8, <1>9, <1>12
    <3> QED
      BY <1>8, <3>1, SumOrder
  <2> QED
    BY <1>1, <1>2, <1>4, <1>9, <1>10, <1>12, <2>1
<1> QED
  BY <1>11, <1>12

\* A snapshot, once read, misses nothing of what is carried at that moment.
LEMMA FetchTotals ==
  ASSUME TrafficTypes, SampleInv, TotalsInv, TrafficTypes', SampleInv', M!FetchConnections
  PROVE  TotalsInv'
<1> DEFINE snap == {<<k, conn[k].bytes>> : k \in M!Open}
<1>1. /\ sample.at = "fetch" /\ sample' = [sample EXCEPT !.at = "observe", !.snap = snap]
      /\ UNCHANGED <<box, conn, acc, banked, carried>>
  BY DEF M!FetchConnections
<1>2. sample'.snap = snap /\ sample'.gen = sample.gen
  BY <1>1 DEF TrafficTypes, Samples
<1>3. (M!Open)' = M!Open /\ (Current' <=> Current) /\ ~Observing
      /\ \A k \in Conns : M!Seen(k)' = M!Seen(k)
  BY <1>1 DEF M!Open, Current, Observing, M!Banking, M!Seen
<1>4. \A k \in M!Open : <<k, conn[k].bytes>> \in snap
  OBVIOUS
<1>5. \A s \in snap : s[1] \in M!Open
  OBVIOUS
<1> HIDE DEF snap
<1>6. /\ \A s \in snap : s[1] \in DOMAIN (M!Snapped)' /\ (M!Snapped)'[s[1]] = s[2]
      /\ DOMAIN (M!Snapped)' = {s[1] : s \in snap}
  <2>1. (\A s \in sample.snap : s[1] \in DOMAIN M!Snapped /\ M!Snapped[s[1]] = s[2])'
    BY SnappedIs, PTL
  <2>2. DOMAIN (M!Snapped)' = {s[1] : s \in sample'.snap}
    BY DEF M!Snapped
  <2> QED
    BY <1>2, <2>1, <2>2
<1>7. ASSUME NEW k \in Conns
      PROVE  Owed'[k] <= Owed[k] /\ Later'[k] = 0
  <2>1. conn[k].bytes \in Nat /\ M!Seen(k) \in Nat /\ Owed[k] \in Int
    BY OwedTypes, SeenType, DaemonAssumption DEF TrafficTypes
  <2>2. CASE k \in M!Open
    <3>1. Snap(k)' = conn[k].bytes
      <4>1. <<k, conn[k].bytes>>[1] = k /\ <<k, conn[k].bytes>>[2] = conn[k].bytes
        OBVIOUS
      <4>2. k \in DOMAIN (M!Snapped)' /\ (M!Snapped)'[k] = conn[k].bytes
        BY <1>4, <1>6, <2>2, <4>1
      <4> QED
        BY <4>2 DEF Snap
    <3>2. /\ Owed'[k] = conn'[k].bytes - M!Seen(k)' /\ Later'[k] = conn'[k].bytes - Snap(k)'
          /\ Owed[k] = conn[k].bytes - M!Seen(k)
      BY <1>3, <2>2, Terms, TermsAfter
    <3> QED
      BY <1>1, <1>3, <2>1, <3>1, <3>2
  <2>3. CASE k \notin M!Open
    <3>1. k \notin DOMAIN (M!Snapped)'
      BY <1>5, <1>6, <2>3
    <3>2. Owed'[k] = 0 /\ Later'[k] = 0 /\ Owed[k] = 0
      BY <1>3, <2>3, <3>1, Terms, TermsAfter
    <3> QED
      BY <3>2
  <2> QED
    BY <2>2, <2>3
<1> SUFFICES ASSUME NEW r \in Refs
             PROVE  /\ banked'[r] <= carried'[r]
                    /\ Current' => banked'[r] + SumFunctionOnSet(Owed', Of(r)) <= carried'[r]
                    /\ Observing' => banked'[r] + SumFunctionOnSet(Later', Of(r)) <= carried'[r]
  BY DEF TotalsInv, Of, Refs, M!Refs
<1>8. Of(r) \subseteq Conns /\ IsFiniteSet(Of(r))
  BY OfFinite
<1>9. /\ SumFunctionOnSet(Owed, Of(r)) \in Int
      /\ SumFunctionOnSet(Owed', Of(r)) \in Int /\ SumFunctionOnSet(Later', Of(r)) \in Int
      /\ banked[r] \in Nat /\ carried[r] \in Nat
  BY TotalTypes, TypesAfter DEF TrafficTypes
<1>10. SumFunctionOnSet(Owed', Of(r)) <= SumFunctionOnSet(Owed, Of(r))
  BY <1>7, <1>8, OwedTypes, TypesAfter, SumOrder
<1>11. SumFunctionOnSet(Later', Of(r)) <= 0
  <2>1. \A k \in Of(r) : Later'[k] \in Int /\ Later'[k] <= 0
    BY <1>7, <1>8
  <2> QED
    BY <1>8, <2>1, SumSign
<1>12. /\ banked[r] <= carried[r]
       /\ Current => banked[r] + SumFunctionOnSet(Owed, Of(r)) <= carried[r]
  BY DEF TotalsInv
<1> QED
  BY <1>1, <1>3, <1>9, <1>10, <1>11, <1>12

\* The accumulator has seen what the sample says: what it may bank from there on
\* is what it may after the sample.
LEMMA SampledTotals ==
  ASSUME TrafficTypes, SampleInv, TotalsInv, TrafficTypes', SampleInv',
         UNCHANGED <<box, conn, carried>>, sample' = M!Rest, acc'.seen = M!Snapped,
         \A r \in Refs : banked'[r] <= carried[r],
         Current' => \A r \in Refs : banked'[r] + SumFunctionOnSet(Later, Of(r)) <= carried[r]
  PROVE  TotalsInv'
<1>1. ~Observing' /\ (M!Open)' = M!Open /\ \A k \in Conns : M!Seen(k)' = Snap(k)
  BY DEF M!Rest, Observing, M!Banking, M!Open, M!Seen, Snap
<1>2. ASSUME NEW k \in Conns PROVE Owed'[k] = Later[k]
  <2>1. CASE k \in M!Open
    BY <1>1, <2>1, Terms, TermsAfter
  <2>2. CASE k \notin M!Open
    BY <1>1, <2>2, Terms, TermsAfter
  <2> QED
    BY <2>1, <2>2
<1> SUFFICES ASSUME NEW r \in Refs
             PROVE  /\ banked'[r] <= carried'[r]
                    /\ Current' => banked'[r] + SumFunctionOnSet(Owed', Of(r)) <= carried'[r]
                    /\ Observing' => banked'[r] + SumFunctionOnSet(Later', Of(r)) <= carried'[r]
  BY DEF TotalsInv, Of, Refs, M!Refs
<1>3. Of(r) \subseteq Conns /\ IsFiniteSet(Of(r))
  BY OfFinite
<1>4. /\ SumFunctionOnSet(Owed', Of(r)) \in Int /\ SumFunctionOnSet(Later, Of(r)) \in Int
      /\ banked'[r] \in Nat /\ carried[r] \in Nat
  BY TotalTypes, TypesAfter DEF TrafficTypes, Refs, M!Refs
<1>5. SumFunctionOnSet(Owed', Of(r)) <= SumFunctionOnSet(Later, Of(r))
  <2>1. \A k \in Of(r) : Owed'[k] \in Int /\ Later[k] \in Int /\ Owed'[k] <= Later[k]
    BY <1>2, <1>3, OwedTypes, TypesAfter
  <2> QED
    BY <1>3, <2>1, SumOrder
<1> QED
  BY <1>1, <1>4, <1>5

\* What a sample banks is owed now, and no longer after it.
LEMMA DeltasOwed ==
  ASSUME TrafficTypes, SampleInv, Current, Observing
  PROVE  \A r \in Refs : M!Deltas[r] + SumFunctionOnSet(Later, Of(r)) <= SumFunctionOnSet(Owed, Of(r))
<1> DEFINE inc == [k \in Conns |-> IF k \in DOMAIN M!Snapped
                                    THEN M!Snapped[k] - M!Seen(k) ELSE 0]
<1>4. ASSUME NEW k \in DOMAIN M!Snapped
      PROVE  /\ k \in Conns /\ M!Snapped[k] \in Nat /\ M!Seen(k) \in Nat
             /\ M!Seen(k) <= M!Snapped[k]
  <2>1. k \in Conns /\ M!Snapped[k] \in 1..MaxBytes /\ <<k, M!Snapped[k]>> \in sample.snap
    BY SnappedIs
  <2>2. <<k, M!Snapped[k]>>[1] = k /\ <<k, M!Snapped[k]>>[2] = M!Snapped[k]
    OBVIOUS
  <2>3. M!Seen(k) <= M!Snapped[k]
    BY <2>1, <2>2 DEF SampleInv
  <2> QED
    BY <2>1, <2>3, SeenType, DaemonAssumption
<1>5. ASSUME NEW k \in Conns
      PROVE  inc[k] \in Nat /\ Owed[k] = Later[k] + inc[k]
  <2>1. conn[k].bytes \in Nat /\ M!Seen(k) \in Nat
    BY SeenType, DaemonAssumption DEF TrafficTypes
  <2>2. inc[k] \in Nat
    BY <1>4
  <2>3. CASE k \in DOMAIN M!Snapped
    <3>1. Snap(k) = M!Snapped[k] /\ inc[k] = M!Snapped[k] - M!Seen(k) /\ M!Snapped[k] \in Nat
      BY <1>4, <2>3 DEF Snap
    <3>2. CASE k \in M!Open
      <4>1. Owed[k] = conn[k].bytes - M!Seen(k) /\ Later[k] = conn[k].bytes - M!Snapped[k]
        BY <3>1, <3>2, Terms
      <4> QED
        BY <2>1, <2>2, <3>1, <4>1
    <3>3. CASE k \notin M!Open
      <4>1. Owed[k] = M!Snapped[k] - M!Seen(k) /\ Later[k] = 0
        BY <2>3, <3>1, <3>3, Terms
      <4> QED
        BY <2>1, <2>2, <3>1, <4>1
    <3> QED
      BY <3>2, <3>3
  <2>4. CASE k \notin DOMAIN M!Snapped
    <3>1. Snap(k) = 0 /\ inc[k] = 0
      BY <2>4 DEF Snap
    <3>2. CASE k \in M!Open
      <4>1. M!Seen(k) = 0
        BY <2>4, <3>2 DEF SampleInv, M!Seen
      <4>2. Owed[k] = conn[k].bytes - 0 /\ Later[k] = conn[k].bytes - 0
        BY <3>1, <3>2, <4>1, Terms
      <4> QED
        BY <2>1, <3>1, <4>2
    <3>3. CASE k \notin M!Open
      <4>1. Owed[k] = 0 /\ Later[k] = 0
        BY <2>4, <3>3, Terms
      <4> QED
        BY <3>1, <4>1
    <3> QED
      BY <3>2, <3>3
  <2> QED
    BY <2>2, <2>3, <2>4
<1> SUFFICES ASSUME NEW r \in Refs
             PROVE  M!Deltas[r] + SumFunctionOnSet(Later, Of(r)) <= SumFunctionOnSet(Owed, Of(r))
  OBVIOUS
<1>6. Of(r) \subseteq Conns /\ IsFiniteSet(Of(r))
  BY OfFinite
<1> DEFINE part == {k \in DOMAIN M!Snapped : Ref(k) = r}
<1>7. part \in SUBSET Of(r) /\ part \subseteq DOMAIN M!Snapped
  BY <1>4 DEF Of
<1>8. M!Deltas[r] = SumFunctionOnSet(M!Increases, part)
  BY SumInTraffic DEF M!Deltas, Refs
<1>9. \A k \in part : M!Increases[k] \in Int /\ inc[k] \in Int /\ M!Increases[k] <= inc[k]
  <2> SUFFICES ASSUME NEW k \in part
               PROVE  M!Increases[k] \in Int /\ inc[k] \in Int /\ M!Increases[k] <= inc[k]
    OBVIOUS
  <2>1. k \in DOMAIN M!Snapped /\ k \in Conns
    BY <1>4, <1>7
  <2>2. M!Increases[k] = M!Snapped[k] - M!Seen(k) /\ inc[k] = M!Snapped[k] - M!Seen(k)
    BY <1>4, <2>1 DEF M!Increases
  <2> QED
    BY <1>4, <2>1, <2>2
<1> HIDE DEF inc, part
<1>10. M!Deltas[r] <= SumFunctionOnSet(inc, Of(r))
  <2>1. IsFiniteSet(part)
    BY <1>6, <1>7, FS_Subset
  <2>2. SumFunctionOnSet(M!Increases, part) <= SumFunctionOnSet(inc, part)
    BY <1>9, <2>1, SumOrder
  <2>3. \A k \in Of(r) : inc[k] \in Int /\ inc[k] >= 0
    BY <1>5, <1>6
  <2>4. SumFunctionOnSet(inc, part) <= SumFunctionOnSet(inc, Of(r))
    BY <1>6, <1>7, <2>3, SumSubset
  <2>5. /\ SumFunctionOnSet(inc, Of(r)) \in Int /\ SumFunctionOnSet(inc, part) \in Int
        /\ SumFunctionOnSet(M!Increases, part) \in Int
    BY <1>6, <1>7, <1>9, <2>1, <2>3, SumType
  <2> QED
    BY <1>8, <2>2, <2>4, <2>5
<1>11. SumFunctionOnSet(Owed, Of(r)) = SumFunctionOnSet(Later, Of(r)) + SumFunctionOnSet(inc, Of(r))
  <2>1. \A k \in Of(r) : Later[k] \in Int /\ inc[k] \in Int /\ Owed[k] = Later[k] + inc[k]
    BY <1>5, <1>6, OwedTypes
  <2> QED
    BY <1>6, <2>1, SumPlus
<1>12. SumFunctionOnSet(Later, Of(r)) \in Int /\ SumFunctionOnSet(inc, Of(r)) \in Int /\ M!Deltas[r] \in Nat
  <2>1. \A k \in Of(r) : inc[k] \in Int
    BY <1>5, <1>6
  <2> QED
    BY <1>6, <2>1, TotalTypes, DeltasType, SumType
<1> QED
  BY <1>10, <1>11, <1>12

\* The first sample of a generation, and one with which nothing grew, bank nothing.
LEMMA ObserveTotals ==
  ASSUME TrafficTypes, SampleInv, TotalsInv, TrafficTypes', SampleInv', M!Observe,
         M!Baseline \/ M!Advance
  PROVE  TotalsInv'
<1>1. Observing /\ UNCHANGED <<box, conn, banked, carried>> /\ sample' = M!Rest
  BY DEF M!Observe, M!Baseline, M!Advance, Observing
<1>2. acc'.seen = M!Snapped
  BY DEF M!Baseline, M!Advance, TrafficTypes
<1>3. \A r \in Refs : /\ banked[r] <= carried[r]
                      /\ banked[r] + SumFunctionOnSet(Later, Of(r)) <= carried[r]
  BY <1>1 DEF TotalsInv
<1> QED
  BY <1>1, <1>2, <1>3, SampledTotals

\* The transaction banks what the sample says grew: no more than was carried,
\* and what is owed after it is that much less.
LEMMA BankTotals ==
  ASSUME TrafficTypes, SampleInv, TotalsInv, BankingInv, TrafficTypes', SampleInv', M!Bank
  PROVE  TotalsInv'
<1>1. M!Banking /\ sample' = M!Rest /\ UNCHANGED <<box, conn, carried>>
  BY DEF M!Bank, M!ToBank, M!Banking
<1>2. /\ acc' = [gen |-> acc.gen, seen |-> M!Snapped]
      /\ \A r \in Refs :
           banked'[r] = IF M!Dropped(r) THEN banked[r] ELSE banked[r] + M!Deltas[r]
  BY BankTypes
<1>3. \A r \in Refs : banked[r] \in Nat /\ carried[r] \in Nat /\ M!Deltas[r] \in Nat
  BY DeltasType DEF TrafficTypes
<1>4. \A r \in Refs : banked'[r] \in Nat /\ banked'[r] <= banked[r] + M!Deltas[r]
  BY <1>2, <1>3
<1>5. \A r \in Refs : banked'[r] <= carried[r]
  BY <1>1, <1>3, <1>4 DEF BankingInv
<1>6. ASSUME Current', NEW r \in Refs
      PROVE  banked'[r] + SumFunctionOnSet(Later, Of(r)) <= carried[r]
  <2>1. Current /\ Observing
    BY <1>1, <1>2, <1>6 DEF Current, Observing, BankingInv
  <2>2. M!Deltas[r] + SumFunctionOnSet(Later, Of(r)) <= SumFunctionOnSet(Owed, Of(r))
    BY <2>1, DeltasOwed
  <2>3. banked[r] + SumFunctionOnSet(Owed, Of(r)) <= carried[r]
    BY <2>1 DEF TotalsInv
  <2>4. SumFunctionOnSet(Owed, Of(r)) \in Int /\ SumFunctionOnSet(Later, Of(r)) \in Int
    BY TotalTypes
  <2> QED
    BY <1>3, <1>4, <2>2, <2>3, <2>4
<1> QED
  BY <1>1, <1>2, <1>5, <1>6, SampledTotals

\* Every step keeps the totals below what was carried.
LEMMA TotalsStep ==
  ASSUME TrafficTypes, SampleInv, TotalsInv, BankingInv, [M!Next]_M!vars
  PROVE  TotalsInv'
<1>t. TrafficTypes' /\ SampleInv'
  BY TrafficTypesStep, SampleStep
<1>1. ASSUME NEW k \in Conns, M!Carry(k) PROVE TotalsInv'
  BY <1>t, <1>1, CarryTotals
<1>2. ASSUME NEW k \in Conns, M!Close(k) PROVE TotalsInv'
  <2>1. /\ {k} \in SUBSET M!Open /\ M!Closed({k}) /\ UNCHANGED <<box, acc, sample>>
    BY <1>2 DEF M!Close
  <2>2. (Current' => Current) /\ (Observing' => box' = box)
    BY <2>1 DEF Current
  <2> QED
    BY <1>t, <2>1, <2>2, ClosedTotals
<1>3. CASE M!Reload
  <2>1. M!Closed(M!Open) /\ UNCHANGED <<box, acc, sample>>
    BY <1>3 DEF M!Reload
  <2>2. (Current' => Current) /\ (Observing' => box' = box)
    BY <2>1 DEF Current
  <2> QED
    BY <1>t, <2>1, <2>2, ClosedTotals
<1>4. CASE M!RestartBox
  <2>1. M!Closed(M!Open) /\ box' = box + 1 /\ UNCHANGED <<acc, sample>>
    BY <1>4 DEF M!RestartBox
  <2>2. ~Current' /\ ~Observing'
    BY <2>1 DEF TrafficTypes, Samples, Current, Observing
  <2> QED
    BY <1>t, <2>1, <2>2, ClosedTotals
<1>5. ASSUME UNCHANGED <<box, conn, carried>>, \A r \in Refs : banked'[r] <= banked[r],
             acc' = acc \/ acc'.gen = 0,
             (sample'.snap = sample.snap /\ (Observing' => Observing)) \/ ~Observing'
      PROVE  TotalsInv'
  <2>1. (Current' => acc' = acc /\ Current) /\ (Observing' => sample'.snap = sample.snap /\ Observing)
    BY <1>5 DEF TrafficTypes, Current
  <2>2. (M!Open)' = M!Open
    BY <1>5 DEF M!Open
  <2>s. ASSUME Observing' PROVE M!Snapped' = M!Snapped /\ \A k \in Conns : Snap(k)' = Snap(k)
    <3>1. sample'.snap = sample.snap
      BY <2>1, <2>s
    <3> QED
      BY <3>1 DEF M!Snapped, Snap
  <2>3. ASSUME NEW k \in Conns, Current' PROVE Owed'[k] <= Owed[k]
    <3>1. M!Seen(k)' = M!Seen(k) /\ Owed[k] \in Nat /\ conn'[k] = conn[k]
      BY <1>5, <2>1, <2>3, OwedTypes DEF M!Seen
    <3>2. CASE Observing' \/ k \in M!Open
      <4>1. Observing' => Observing /\ M!Snapped' = M!Snapped /\ Snap(k)' = Snap(k)
        BY <2>1, <2>s
      <4>2. CASE k \in M!Open
        BY <2>2, <3>1, <4>2, Terms, TermsAfter
      <4>3. CASE k \notin M!Open
        BY <2>2, <3>1, <3>2, <4>1, <4>3, Terms, TermsAfter
      <4> QED
        BY <4>2, <4>3
    <3>3. CASE ~Observing' /\ k \notin M!Open
      BY <2>2, <3>1, <3>3, TermsAfter
    <3> QED
      BY <3>2, <3>3
  <2>4. ASSUME NEW k \in Conns, Observing' PROVE Later'[k] <= Later[k]
    <3>1. Snap(k)' = Snap(k) /\ conn'[k] = conn[k] /\ Later[k] \in Nat
      BY <1>5, <2>s, <2>4, OwedTypes
    <3>2. CASE k \in M!Open
      BY <2>2, <3>1, <3>2, Terms, TermsAfter
    <3>3. CASE k \notin M!Open
      BY <2>2, <3>1, <3>3, Terms, TermsAfter
    <3> QED
      BY <3>2, <3>3
  <2> QED
    BY <1>t, <1>5, <2>1, <2>3, <2>4, TotalsKept
<1>6. \A r \in Refs : banked[r] \in Nat
  BY DEF TrafficTypes
<1>7. M!Rest.at = "rest"
  BY DEF M!Rest
<1>8. CASE M!ReadGeneration
  <2>1. sample'.at = "fetch" /\ UNCHANGED <<box, conn, carried, banked, acc>>
    BY <1>8 DEF M!ReadGeneration, M!Rest
  <2>2. ~Observing' /\ \A r \in Refs : banked'[r] <= banked[r]
    BY <1>6, <2>1 DEF Observing, M!Banking
  <2> QED
    BY <1>5, <2>1, <2>2
<1>9. CASE M!FetchConnections
  BY <1>t, <1>9, FetchTotals
<1>10. CASE M!FetchFails \/ M!Discard \/ M!BankFails \/ M!DaemonRestarts
  <2>1. /\ sample' = M!Rest /\ UNCHANGED <<box, conn, carried, banked>>
        /\ acc' = acc \/ acc' = [gen |-> 0, seen |-> <<>>]
    BY <1>10 DEF M!FetchFails, M!Discard, M!BankFails, M!DaemonRestarts, M!Unstarted
  <2>2. ~Observing' /\ \A r \in Refs : banked'[r] <= banked[r]
    BY <1>6, <1>7, <2>1 DEF Observing, M!Banking
  <2> QED
    BY <1>5, <2>1, <2>2
<1>14. ASSUME UNCHANGED <<box, conn, carried, banked, acc>>, sample'.snap = sample.snap,
              Observing' => Observing
       PROVE  TotalsInv'
  <2>1. \A r \in Refs : banked'[r] <= banked[r]
    BY <1>6, <1>14
  <2> QED
    BY <1>5, <1>14, <2>1
<1>11. CASE M!Observe
  <2>1. CASE M!Baseline \/ M!Advance
    BY <1>t, <1>11, <2>1, ObserveTotals
  <2>2. CASE sample' = [sample EXCEPT !.at = "check"] /\ acc' = acc
    <3>1. sample.at = "observe" /\ UNCHANGED <<box, conn, carried, banked>>
      BY <1>11 DEF M!Observe
    <3>2. sample'.snap = sample.snap /\ sample'.gen = sample.gen
      BY <2>2 DEF TrafficTypes, Samples
    <3> QED
      BY <1>14, <2>2, <3>1, <3>2 DEF Observing
  <2> QED
    BY <1>11, <2>1, <2>2 DEF M!Observe
<1>17. CASE M!LookUp
  <2>1. UNCHANGED <<box, conn, carried, banked, acc>> /\ sample.at = "check"
    BY <1>17 DEF M!LookUp
  <2>2. sample'.snap = sample.snap /\ sample'.gen = sample.gen
    BY <1>17 DEF M!LookUp, TrafficTypes, Samples
  <2> QED
    BY <1>14, <2>1, <2>2 DEF Observing, M!Banking
<1>18. CASE M!Bank
  BY <1>t, <1>18, BankTotals
<1>s. sample' = sample => (UNCHANGED box => (Observing' => Observing)) /\ sample'.snap = sample.snap
  BY DEF Observing, M!Banking
<1>12. ASSUME NEW q \in Refs, M!RemoveChannel(q) PROVE TotalsInv'
  <2>1. banked' = [banked EXCEPT ![q] = 0] /\ UNCHANGED <<box, conn, carried, acc, sample>>
    BY <1>12 DEF M!RemoveChannel
  <2>2. \A r \in Refs : banked'[r] <= banked[r]
    BY <1>6, <2>1 DEF TrafficTypes
  <2> QED
    BY <1>5, <1>s, <2>1, <2>2
<1>13. CASE M!RemoveProvider
  <2>1. banked' = [r \in Refs |-> 0] /\ UNCHANGED <<box, conn, carried, acc, sample>>
    BY <1>13 DEF M!RemoveProvider, Refs
  <2>2. \A r \in Refs : banked'[r] <= banked[r]
    BY <1>6, <2>1
  <2> QED
    BY <1>5, <1>s, <2>1, <2>2
<1>15. ASSUME NEW q \in Refs, M!ReviveChannel(q) PROVE TotalsInv'
  BY <1>14, <1>15, <1>s DEF M!ReviveChannel
<1>16. CASE M!ReviveProvider \/ UNCHANGED M!vars
  BY <1>14, <1>16, <1>s DEF M!ReviveProvider, M!vars
<1> QED
  BY <1>1, <1>2, <1>3, <1>4, <1>8, <1>9, <1>10, <1>11, <1>12, <1>13, <1>15, <1>16, <1>17, <1>18
  DEF M!Next, M!Sampling, Refs

\* What is about to be banked depends on the accumulator and the snapshot alone.
LEMMA DeltasKept ==
  ASSUME acc' = acc, sample'.snap = sample.snap
  PROVE  M!Deltas' = M!Deltas
<1>1. M!Snapped' = M!Snapped
  BY DEF M!Snapped
<1>2. M!Increases' = M!Increases
  BY <1>1 DEF M!Increases, M!Seen
<1> QED
  BY <1>1, <1>2 DEF M!Deltas, M!Refs

\* Every step keeps what is about to be banked within what was carried.
LEMMA BankingStep ==
  ASSUME TrafficTypes, SampleInv, TotalsInv, BankingInv, [M!Next]_M!vars
  PROVE  BankingInv'
<1>n. \A r \in Refs : banked[r] \in Nat /\ carried[r] \in Nat /\ M!Deltas[r] \in Nat
  BY DeltasType DEF TrafficTypes
<1>t. TrafficTypes'
  BY TrafficTypesStep
<1>m. \A r \in Refs : banked'[r] \in Nat /\ carried'[r] \in Nat
  BY <1>t DEF TrafficTypes, Refs, M!Refs
<1>r. Refs' = Refs
  BY DEF Refs, M!Refs
<1>1. ASSUME UNCHANGED <<acc, sample>>,
             \A r \in Refs : banked'[r] <= banked[r] /\ carried[r] <= carried'[r]
      PROVE  BankingInv'
  <2>1. M!Deltas' = M!Deltas /\ (M!Banking' <=> M!Banking)
    BY <1>1, DeltasKept DEF M!Banking
  <2>2. ASSUME M!Banking, NEW r \in Refs PROVE banked'[r] + M!Deltas[r] <= carried'[r]
    <3>1. banked[r] + M!Deltas[r] <= carried[r]
      BY <2>2 DEF BankingInv
    <3> QED
      BY <1>1, <1>m, <1>n, <3>1
  <2> QED
    BY <1>1, <1>r, <2>1, <2>2 DEF BankingInv
<1>2. ASSUME ~M!Banking', sample'.first = {} PROVE BankingInv'
  BY <1>2 DEF BankingInv
<1>3. ASSUME NEW k \in Conns, M!Carry(k) PROVE BankingInv'
  <2>1. UNCHANGED <<acc, sample, banked>>
    BY <1>3 DEF M!Carry
  <2>2. /\ carried'[Ref(k)] = carried[Ref(k)] + 1
        /\ \A r \in Refs \ {Ref(k)} : carried'[r] = carried[r]
    BY <1>3, CarryTypes DEF TrafficTypes
  <2>3. \A r \in Refs : banked'[r] <= banked[r] /\ carried[r] <= carried'[r]
    BY <1>n, <2>1, <2>2
  <2> QED
    BY <1>1, <2>1, <2>3
<1>4. ASSUME UNCHANGED <<acc, sample, carried>>, \A r \in Refs : banked'[r] <= banked[r] PROVE BankingInv'
  BY <1>1, <1>4, <1>n
<1>5. ASSUME UNCHANGED <<acc, sample, carried, banked>> PROVE BankingInv'
  BY <1>4, <1>5, <1>n
<1>6. ASSUME NEW k \in Conns, M!Close(k) PROVE BankingInv'
  BY <1>5, <1>6 DEF M!Close, M!Closed
<1>7. CASE M!Reload \/ M!RestartBox \/ UNCHANGED M!vars
  BY <1>5, <1>7 DEF M!Reload, M!RestartBox, M!Closed, M!vars
<1>8. sample' = M!Rest => ~M!Banking' /\ sample'.first = {}
  BY DEF M!Rest, M!Banking
<1>9. CASE M!ReadGeneration
  <2>1. ~M!Banking' /\ sample'.first = {}
    BY <1>9 DEF M!ReadGeneration, M!Rest, M!Banking
  <2> QED
    BY <1>2, <2>1
<1>10. CASE M!FetchConnections
  <2> DEFINE snap == {<<k, conn[k].bytes>> : k \in M!Open}
  <2>1. sample' = [sample EXCEPT !.at = "observe", !.snap = snap] /\ sample.at = "fetch"
    BY <1>10 DEF M!FetchConnections
  <2> HIDE DEF snap
  <2>2. sample'.at = "observe" /\ sample'.first = {}
    BY <2>1 DEF TrafficTypes, Samples, BankingInv
  <2> QED
    BY <1>2, <2>2 DEF M!Banking
<1>11. CASE M!FetchFails \/ M!Discard \/ M!Bank \/ M!BankFails \/ M!DaemonRestarts
  <2>1. sample' = M!Rest
    BY <1>11 DEF M!FetchFails, M!Discard, M!Bank, M!BankFails, M!DaemonRestarts
  <2> QED
    BY <1>2, <1>8, <2>1
<1>12. CASE M!Observe
  <2>1. sample.at = "observe" /\ sample.gen = box /\ UNCHANGED <<banked, carried>>
    BY <1>12 DEF M!Observe
  <2>2. CASE M!Baseline \/ M!Advance
    BY <1>2, <1>8, <2>2 DEF M!Baseline, M!Advance
  <2>3. CASE ~M!FirstOfGeneration /\ sample' = [sample EXCEPT !.at = "check"] /\ acc' = acc
    <3>1. sample'.snap = sample.snap /\ sample'.gen = sample.gen /\ sample'.first = {}
      BY <2>1, <2>3 DEF TrafficTypes, Samples, BankingInv
    <3>2. M!Deltas' = M!Deltas /\ acc'.gen = sample'.gen /\ Current /\ Observing
      BY <2>1, <2>3, <3>1, DeltasKept DEF M!FirstOfGeneration, Current, Observing
    <3>3. ASSUME NEW r \in Refs PROVE banked[r] + M!Deltas[r] <= carried[r]
      <4>1. M!Deltas[r] + SumFunctionOnSet(Later, Of(r)) <= SumFunctionOnSet(Owed, Of(r))
        BY <3>2, DeltasOwed
      <4>2. banked[r] + SumFunctionOnSet(Owed, Of(r)) <= carried[r]
        BY <3>2 DEF TotalsInv
      <4>3. /\ SumFunctionOnSet(Owed, Of(r)) \in Int
            /\ SumFunctionOnSet(Later, Of(r)) \in Int /\ SumFunctionOnSet(Later, Of(r)) >= 0
        BY TotalTypes
      <4> QED
        BY <1>n, <4>1, <4>2, <4>3
    <3> QED
      BY <1>r, <2>1, <3>1, <3>2, <3>3 DEF BankingInv
  <2> QED
    BY <1>12, <2>2, <2>3 DEF M!Observe
<1>13. CASE M!LookUp
  <2>1. UNCHANGED <<acc, banked, carried>> /\ sample.at = "check"
    BY <1>13 DEF M!LookUp
  <2>2. /\ sample'.snap = sample.snap /\ sample'.gen = sample.gen
        /\ sample'.at = "insert" \/ sample'.first = sample.first
    BY <1>13 DEF M!LookUp, TrafficTypes, Samples
  <2>3. M!Deltas' = M!Deltas /\ M!Banking
    BY <2>1, <2>2, DeltasKept DEF M!Banking
  <2> QED
    BY <1>r, <2>1, <2>2, <2>3 DEF BankingInv
<1>14. ASSUME NEW q \in Refs, M!RemoveChannel(q) PROVE BankingInv'
  <2>1. banked' = [banked EXCEPT ![q] = 0] /\ UNCHANGED <<acc, sample, carried>>
    BY <1>14 DEF M!RemoveChannel
  <2>2. \A r \in Refs : banked'[r] <= banked[r]
    BY <1>n, <2>1 DEF TrafficTypes
  <2> QED
    BY <1>4, <2>1, <2>2
<1>15. CASE M!RemoveProvider
  <2>1. banked' = [r \in Refs |-> 0] /\ UNCHANGED <<acc, sample, carried>>
    BY <1>15 DEF M!RemoveProvider, Refs
  <2>2. \A r \in Refs : banked'[r] <= banked[r]
    BY <1>n, <2>1
  <2> QED
    BY <1>4, <2>1, <2>2
<1>16. ASSUME NEW q \in Refs, M!ReviveChannel(q) PROVE BankingInv'
  BY <1>5, <1>16 DEF M!ReviveChannel
<1>17. CASE M!ReviveProvider
  BY <1>5, <1>17 DEF M!ReviveProvider
<1> QED
  BY <1>3, <1>6, <1>7, <1>9, <1>10, <1>11, <1>12, <1>13, <1>14, <1>15, <1>16, <1>17
  DEF M!Next, M!Sampling, Refs

\* Every step keeps the tombstones of what was removed.
LEMMA TombstoneStep ==
  ASSUME TrafficTypes, TombstoneInv, [M!Next]_M!vars
  PROVE  TombstoneInv'
<1> USE DEF M!Tombstoned
<1>1. ASSUME UNCHANGED <<deleted, gone, readded>> PROVE TombstoneInv'
  BY <1>1 DEF TombstoneInv
<1>2. ASSUME NEW k \in Conns, M!Carry(k) \/ M!Close(k) PROVE TombstoneInv'
  BY <1>1, <1>2 DEF M!Carry, M!Close
<1>3. CASE M!Reload \/ M!RestartBox \/ UNCHANGED M!vars
  BY <1>1, <1>3 DEF M!Reload, M!RestartBox, M!vars
<1>4. CASE M!ReadGeneration \/ M!FetchConnections \/ M!Discard \/ M!FetchFails
           \/ M!LookUp \/ M!BankFails \/ M!DaemonRestarts
  BY <1>1, <1>4 DEF M!ReadGeneration, M!FetchConnections, M!Discard, M!FetchFails,
                    M!LookUp, M!BankFails, M!DaemonRestarts
<1>5. CASE M!Observe \/ M!Bank
  BY <1>1, <1>5 DEF M!Observe, M!Bank
<1>6. ASSUME NEW q \in Refs, M!RemoveChannel(q) PROVE TombstoneInv'
  <2>1. deleted' = deleted \cup {q} /\ gone' = gone \cup {q} /\ readded' = readded
    BY <1>6 DEF M!RemoveChannel
  <2> QED
    BY <2>1 DEF TrafficTypes, TombstoneInv
<1>7. ASSUME NEW q \in Refs, M!ReviveChannel(q) PROVE TombstoneInv'
  <2>1. /\ M!Everything \notin deleted /\ deleted' = deleted \ {q} /\ gone' = gone \ {q}
        /\ readded' = readded
    BY <1>7 DEF M!ReviveChannel
  <2> QED
    BY <2>1 DEF TombstoneInv
<1>8. CASE M!RemoveProvider
  <2>1. deleted' = {M!Everything} /\ gone' = Refs
    BY <1>8 DEF M!RemoveProvider, Refs
  <2> QED
    BY <2>1 DEF TombstoneInv
<1>9. CASE M!ReviveProvider
  BY <1>9 DEF M!ReviveProvider, TombstoneInv
<1> QED
  BY <1>2, <1>3, <1>4, <1>5, <1>6, <1>7, <1>8, <1>9 DEF M!Next, M!Sampling, Refs

LEMMA TrafficInductive == TrafficInv /\ [M!Next]_M!vars => TrafficInv'
  BY TrafficTypesStep, SampleStep, TotalsStep, BankingStep, TombstoneStep DEF TrafficInv

\* Only the commit of a sample adds to a row.
LEMMA OnlyBankAdds ==
  ASSUME TrafficTypes, [M!Next]_M!vars, NEW r \in Refs, banked'[r] > banked[r]
  PROVE  M!Bank
<1>1. banked[r] \in Nat
  BY DEF TrafficTypes
<1>2. UNCHANGED banked => FALSE
  BY <1>1
<1>3. ASSUME NEW q \in Refs, M!RemoveChannel(q) PROVE FALSE
  <2>1. banked' = [banked EXCEPT ![q] = 0]
    BY <1>3 DEF M!RemoveChannel
  <2> QED
    BY <1>1, <2>1 DEF TrafficTypes
<1>4. CASE M!RemoveProvider
  <2>1. banked'[r] = 0
    BY <1>4 DEF M!RemoveProvider, Refs
  <2> QED
    BY <1>1, <2>1
<1> QED
  BY <1>2, <1>3, <1>4
  DEF M!Next, M!Sampling, Refs, M!vars, M!Carry, M!Close, M!Closed, M!Reload, M!RestartBox,
      M!ReadGeneration, M!FetchConnections, M!FetchFails, M!Observe, M!Discard, M!LookUp, M!BankFails,
      M!DaemonRestarts, M!ReviveChannel, M!ReviveProvider

\* A channel's total never exceeds what the channel carried, however samples,
\* reloads, restarts of sing-box and of the daemon, database failures and
\* removals meet (metrics.TrafficAccumulator, MetricsStore.add_traffic).
THEOREM TotalsAreCarried == M!Spec => []NeverOvercounts
<1>1. TrafficInv => NeverOvercounts
  BY DEF TrafficInv, TotalsInv, Refs, NeverOvercounts, M!NeverOvercounts
<1> QED
  BY <1>1, TrafficInit, TrafficInductive, PTL DEF M!Spec

\* No bank writes the row of a channel that was removed before the sample looked
\* for its tombstone, or that is not the channel whose insert opens the
\* transaction (MetricsStore.add_deltas, remove_channel, remove_provider).
THEOREM RemovedStayRemoved == M!Spec => DeletedStaysDeleted
<1> DEFINE Step == \A r \in gone : banked'[r] > banked[r] =>
                     readded \/ (sample.at = "insert" /\ r \in sample.first)
<1>1. ASSUME TrafficInv, [M!Next]_M!vars PROVE Step
  <2> SUFFICES ASSUME NEW r \in gone, banked'[r] > banked[r], ~readded
               PROVE  sample.at = "insert" /\ r \in sample.first
    OBVIOUS
  <2>1. r \in Refs
    BY <1>1 DEF TrafficInv, TrafficTypes
  <2>2. M!Bank
    BY <1>1, <2>1, OnlyBankAdds DEF TrafficInv
  <2>3. ~M!Dropped(r)
    <3>1. banked'[r] = IF M!Dropped(r) THEN banked[r] ELSE banked[r] + M!Deltas[r]
      BY <1>1, <2>1, <2>2, BankTypes DEF TrafficInv
    <3>2. banked[r] \in Nat
      BY <1>1, <2>1 DEF TrafficInv, TrafficTypes
    <3> QED
      BY <3>1, <3>2
  <2>4. M!Tombstoned(r)
    BY <1>1 DEF TrafficInv, TombstoneInv
  <2>5. r \in sample.first
    BY <2>3, <2>4 DEF M!Dropped
  <2> QED
    BY <1>1, <2>5 DEF TrafficInv, BankingInv
<1>2. ASSUME TrafficInv, [M!Next]_M!vars
      PROVE  [Step]_M!vars
  BY <1>1, <1>2
<1> QED
  BY <1>2, TrafficInit, TrafficInductive, PTL DEF M!Spec, DeletedStaysDeleted, M!DeletedStaysDeleted
---------------------------------------------------------------------------
(* Lifecycle: why the pidfile names the running daemon *)

Stages == {"unborn", "starting", "locked", "ready", "running", "stopping", "leaving", "dead"}
Places == {"ready", "check", "spawn", "name", "read", "term", "poll", "forget", "done"}
Stops == {"read", "term", "poll", "forget"}
Slots == [at : Places, kind : {"none", "ensure", "stop", "restart"}, pid : Nat]
LifeTypes ==
  /\ daemon \in [L!Pids -> Stages]
  /\ pidfile \in L!Pids \cup {0} /\ holder \in L!Pids \cup {0}
  /\ command \in [Commands -> Slots]
  /\ \A c \in Commands :
       /\ command[c].at \in {"name", "term", "poll"} => command[c].pid \in L!Pids
       /\ command[c].at \in Stops => command[c].kind # "ensure"
  /\ crossed \in BOOLEAN

\* The lock belongs to the daemon past it; from its record on, so does holder.
LockHeld ==
  /\ \A d \in L!Pids : daemon[d] \in {"locked", "ready", "running", "stopping", "leaving"} => flock = d
  /\ \A d \in L!Pids : daemon[d] \in {"ready", "running", "stopping", "leaving"} => holder = d

\* A stop that met nobody meets at most the daemon it stops.
Alone ==
  /\ \A b, c \in Commands :
       b # c /\ L!Active(b) /\ L!Active(c) => command[c].kind = "ensure"
  /\ \A c \in Commands :
       /\ command[c].at \in Stops => \A d \in L!Pids : daemon[d] # "starting"
       /\ command[c].at = "term" =>
            \A d \in L!Pids : d # command[c].pid => daemon[d] \in {"unborn", "dead"}
       /\ command[c].at \in {"poll", "forget"} =>
            \A d \in L!Pids : daemon[d] \in {"unborn", "dead", "stopping", "leaving"}

\* What has overwritten a running daemon's name is a duplicate that will put it
\* back.
Named ==
  \A d \in L!Pids : daemon[d] = "running" =>
    pidfile = d \/ (pidfile \in L!Pids /\ daemon[pidfile] = "starting")

LifeInv == LifeTypes /\ LockHeld /\ (~crossed => Alone /\ Named)

LEMMA LifeInit == L!Init => LifeInv
<1> SUFFICES ASSUME L!Init PROVE LifeInv
  OBVIOUS
<1>1. /\ daemon = [d \in L!Pids |-> "unborn"] /\ pidfile = 0 /\ holder = 0 /\ crossed = FALSE
      /\ command = [c \in Commands |-> [at |-> "ready", kind |-> "none", pid |-> 0]]
  BY DEF L!Init, L!Ready, L!None
<1>2. LifeTypes
  BY <1>1 DEF LifeTypes, Stages, Slots, Places, Stops
<1>3. LockHeld /\ Named
  BY <1>1 DEF LockHeld, Named
<1>4. Alone
  BY <1>1 DEF Alone, Stops, L!Active
<1> QED
  BY <1>2, <1>3, <1>4 DEF LifeInv

\* Going on with a command changes where it is, and that alone.
LEMMA GotoIs ==
  ASSUME LifeTypes, NEW c \in Commands, NEW at \in Places, L!Goto(c, at)
  PROVE  /\ command' \in [Commands -> Slots]
         /\ command'[c].at = at /\ command'[c].kind = command[c].kind
         /\ command'[c].pid = command[c].pid
         /\ \A b \in Commands \ {c} : command'[b] = command[b]
<1> DEFINE e == [command[c] EXCEPT !.at = at]
<1>1. command' = [command EXCEPT ![c] = e]
  BY DEF L!Goto
<1>2. e \in Slots /\ e.at = at /\ e.kind = command[c].kind /\ e.pid = command[c].pid
  BY DEF LifeTypes, Slots
<1> HIDE DEF e
<1> QED
  BY <1>1, <1>2 DEF LifeTypes

\* What each step of a command writes.
LEMMA BeginIs ==
  ASSUME LifeTypes, NEW c \in Commands, NEW kind \in {"ensure", "stop", "restart"}, L!Begin(c, kind)
  PROVE  /\ command' \in [Commands -> Slots]
         /\ command'[c].at = IF kind = "ensure" THEN "check" ELSE "read"
         /\ command'[c].kind = kind /\ command'[c].pid = 0
         /\ \A b \in Commands \ {c} : command'[b] = command[b]
         /\ UNCHANGED <<daemon, flock, holder, pidfile>> /\ crossed' \in BOOLEAN
         /\ ~crossed' => /\ ~crossed
                         /\ \A b \in Commands \ {c} :
                              L!Active(b) => kind = "ensure" /\ command[b].kind = "ensure"
                         /\ kind # "ensure" => \A d \in L!Pids : daemon[d] # "starting"
<1> DEFINE e == [at |-> IF kind = "ensure" THEN "check" ELSE "read", kind |-> kind, pid |-> 0]
<1>1. /\ command' = [command EXCEPT ![c] = e]
      /\ UNCHANGED <<daemon, flock, holder, pidfile>>
      /\ crossed' = \/ crossed
                    \/ \E b \in Commands \ {c} : L!Active(b) /\ {kind, command[b].kind} # {"ensure"}
                    \/ kind # "ensure" /\ \E d \in L!Pids : daemon[d] = "starting"
  BY DEF L!Begin, L!None
<1>2. e \in Slots /\ e.at = (IF kind = "ensure" THEN "check" ELSE "read") /\ e.kind = kind /\ e.pid = 0
  BY DEF Slots, Places
<1>3. \A x, y : {x, y} = {"ensure"} => x = "ensure" /\ y = "ensure"
  OBVIOUS
<1> HIDE DEF e
<1> QED
  BY <1>1, <1>2, <1>3 DEF LifeTypes

LEMMA SpawnIs ==
  ASSUME LifeTypes, NEW c \in Commands, L!Spawn(c)
  PROVE  \E d \in L!Pids :
           /\ command[c].at = "spawn" /\ daemon[d] = "unborn"
           /\ daemon' = [daemon EXCEPT ![d] = "starting"]
           /\ command' \in [Commands -> Slots]
           /\ command'[c].at = "name" /\ command'[c].kind = command[c].kind
           /\ command'[c].pid = d
           /\ \A b \in Commands \ {c} : command'[b] = command[b]
           /\ UNCHANGED <<flock, holder, pidfile, crossed>>
<1>1. PICK d \in L!Pids :
        /\ command[c].at = "spawn" /\ daemon[d] = "unborn"
        /\ daemon' = [daemon EXCEPT ![d] = "starting"]
        /\ command' = [command EXCEPT ![c].at = "name", ![c].pid = d]
        /\ UNCHANGED <<flock, holder, pidfile, crossed>>
  BY DEF L!Spawn
<1> DEFINE f == [command[c] EXCEPT !.at = "name"]
           e == [f EXCEPT !.pid = d]
<1>2. command' = [command EXCEPT ![c] = e]
  BY <1>1 DEF LifeTypes
<1>3. d \in Nat
  BY DEF L!Pids
<1>4. f \in Slots /\ f.at = "name" /\ f.kind = command[c].kind
  BY DEF LifeTypes, Slots, Places
<1> HIDE DEF f
<1>5. e \in Slots /\ e.at = "name" /\ e.kind = command[c].kind /\ e.pid = d
  BY <1>3, <1>4 DEF Slots
<1> HIDE DEF e
<1>6. /\ command' \in [Commands -> Slots]
      /\ command'[c].at = "name" /\ command'[c].kind = command[c].kind
      /\ command'[c].pid = d
      /\ \A b \in Commands \ {c} : command'[b] = command[b]
  BY <1>2, <1>5 DEF LifeTypes
<1> QED
  BY <1>1, <1>6

LEMMA ReadPidIs ==
  ASSUME LifeTypes, NEW c \in Commands, L!ReadPid(c)
  PROVE  /\ command[c].at = "read" /\ UNCHANGED <<daemon, flock, holder, crossed>>
         /\ command' \in [Commands -> Slots] /\ command'[c].kind = command[c].kind
         /\ \A b \in Commands \ {c} : command'[b] = command[b]
         /\ \/ L!RunningPid = 0 /\ pidfile' = 0 /\ command'[c].at \in {"check", "done"}
            \/ /\ L!RunningPid # 0 /\ pidfile' = pidfile
               /\ command'[c].at = "term" /\ command'[c].pid = L!RunningPid
<1>1. command[c].at = "read" /\ UNCHANGED <<daemon, flock, holder, crossed>>
  BY DEF L!ReadPid
<1>2. CASE L!RunningPid = 0
  <2>1. pidfile' = 0 /\ L!Goto(c, L!AfterStop(c))
    BY <1>2 DEF L!ReadPid, L!None
  <2>2. L!AfterStop(c) \in {"check", "done"} /\ L!AfterStop(c) \in Places
    BY DEF L!AfterStop, Places
  <2> QED
    BY <1>1, <1>2, <2>1, <2>2, GotoIs
<1>3. CASE L!RunningPid # 0
  <2> DEFINE f == [command[c] EXCEPT !.at = "term"]
             e == [f EXCEPT !.pid = L!RunningPid]
  <2>1. command' = [command EXCEPT ![c] = e] /\ pidfile' = pidfile
    BY <1>3 DEF L!ReadPid, L!None, LifeTypes
  <2>2. L!RunningPid \in Nat
    BY DEF LifeTypes, L!RunningPid, L!None, L!Pids
  <2>3. f \in Slots /\ f.at = "term" /\ f.kind = command[c].kind
    BY DEF LifeTypes, Slots, Places
  <2> HIDE DEF f
  <2>4. e \in Slots /\ e.at = "term" /\ e.kind = command[c].kind /\ e.pid = L!RunningPid
    BY <2>2, <2>3 DEF Slots
  <2> HIDE DEF e
  <2> QED
    BY <1>1, <1>3, <2>1, <2>4 DEF LifeTypes
<1> QED
  BY <1>2, <1>3

\* The steps that leave the commands alone.
LEMMA DaemonStepIs ==
  ASSUME LifeTypes, NEW d \in L!Pids, L!DaemonSteps(d) \/ L!Killed(d)
  PROVE  /\ command' = command /\ crossed' = crossed
         /\ daemon' \in [L!Pids -> Stages]
         /\ \A e \in L!Pids \ {d} : daemon'[e] = daemon[e]
         /\ pidfile' \in {pidfile, 0, holder, d} /\ holder' \in {holder, 0, d}
         /\ \/ daemon[d] = "starting" /\ daemon'[d] \in {"locked", "dead"}
            \/ daemon[d] = "locked" /\ daemon'[d] = "ready"
            \/ daemon[d] = "ready" /\ daemon'[d] = "running"
            \/ daemon[d] = "stopping" /\ daemon'[d] = "leaving"
            \/ daemon[d] = "leaving" /\ daemon'[d] = "dead"
            \/ daemon[d] = "running" /\ daemon'[d] = "dead"
<1> USE DEF LifeTypes, Stages
<1>1. CASE L!TakeLock(d)
  BY <1>1 DEF L!TakeLock, L!None
<1>2. CASE L!DuplicateExits(d)
  BY <1>2 DEF L!DuplicateExits
<1>3. CASE L!WriteRecord(d)
  BY <1>3 DEF L!WriteRecord
<1>4. CASE L!EnterLoop(d)
  BY <1>4 DEF L!EnterLoop
<1>5. CASE L!CleanUp(d)
  BY <1>5 DEF L!CleanUp, L!None
<1>6. CASE L!Leave(d)
  BY <1>6 DEF L!Leave, L!Dies
<1>7. CASE L!Killed(d)
  BY <1>7 DEF L!Killed, L!Dies
<1> QED
  BY <1>1, <1>2, <1>3, <1>4, <1>5, <1>6, <1>7 DEF L!DaemonSteps

LEMMA TermIs ==
  ASSUME LifeTypes, NEW c \in Commands, NEW d, d = command[c].pid, L!Term(c) \/ L!Kill(c)
  PROVE  /\ d \in L!Pids
         /\ command' \in [Commands -> Slots] /\ command'[c].kind = command[c].kind
         /\ command'[c].pid = d
         /\ \A b \in Commands \ {c} : command'[b] = command[b]
         /\ UNCHANGED <<holder, pidfile, crossed>>
         /\ daemon' \in [L!Pids -> Stages]
         /\ \A e \in L!Pids \ {d} : daemon'[e] = daemon[e] /\ (flock = e => flock' = e)
         /\ daemon'[d] \in {"unborn", "stopping", "leaving"} =>
              daemon[d] \in {"unborn", "running", "stopping", "leaving"} /\ flock' = flock
         /\ daemon[d] = "unborn" => daemon'[d] \in {"unborn", "dead"}
         /\ daemon'[d] \in {"unborn", "stopping", "leaving", "dead"}
         /\ \/ command[c].at = "term" /\ command'[c].at = "poll"
            \/ command[c].at = "poll" /\ command'[c].at = "forget"
<1>1. command[c].at \in {"term", "poll"} /\ d \in L!Pids
  BY DEF L!Term, L!Kill, LifeTypes
<1>2. UNCHANGED <<holder, pidfile, crossed>>
  BY DEF L!Term, L!Kill
<1>3. CASE L!Kill(c)
  <2>1. /\ command[c].at = "poll" /\ L!Goto(c, "forget")
        /\ daemon' = [daemon EXCEPT ![d] = "dead"]
        /\ flock' = IF flock = d THEN 0 ELSE flock
    BY <1>3 DEF L!Kill, L!Dies, L!None
  <2>2. "forget" \in Places
    BY DEF Places
  <2>3. /\ daemon' \in [L!Pids -> Stages] /\ daemon'[d] = "dead"
        /\ \A e \in L!Pids \ {d} : daemon'[e] = daemon[e] /\ (flock = e => flock' = e)
    BY <1>1, <2>1 DEF LifeTypes, Stages
  <2> QED
    BY <1>1, <1>2, <2>1, <2>2, <2>3, GotoIs
<1>4. CASE L!Term(c)
  <2>1. command[c].at = "term" /\ L!Goto(c, "poll") /\ "poll" \in Places
    BY <1>4 DEF L!Term, Places
  <2>2. CASE daemon[d] \in {"starting", "locked", "ready"}
    <3>1. /\ daemon' = [daemon EXCEPT ![d] = "dead"]
          /\ flock' = IF flock = d THEN 0 ELSE flock
      BY <1>4, <2>2 DEF L!Term, L!Dies, L!None
    <3>2. /\ daemon' \in [L!Pids -> Stages] /\ daemon'[d] = "dead"
          /\ \A e \in L!Pids \ {d} : daemon'[e] = daemon[e] /\ (flock = e => flock' = e)
      BY <1>1, <3>1 DEF LifeTypes, Stages
    <3> QED
      BY <1>1, <1>2, <2>1, <2>2, <3>2, GotoIs
  <2>3. CASE daemon[d] \notin {"starting", "locked", "ready"}
    <3>1. /\ daemon' = [daemon EXCEPT ![d] = IF daemon[d] = "running" THEN "stopping" ELSE daemon[d]]
          /\ flock' = flock
      BY <1>4, <2>3 DEF L!Term
    <3>2. /\ daemon' \in [L!Pids -> Stages]
          /\ daemon'[d] = IF daemon[d] = "running" THEN "stopping" ELSE daemon[d]
          /\ \A e \in L!Pids \ {d} : daemon'[e] = daemon[e]
      BY <1>1, <3>1 DEF LifeTypes, Stages
    <3>3. daemon[d] \in {"unborn", "running", "stopping", "leaving", "dead"}
      BY <1>1, <2>3 DEF LifeTypes, Stages
    <3> QED
      BY <1>1, <1>2, <2>1, <3>1, <3>2, <3>3, GotoIs
  <2> QED
    BY <2>2, <2>3
<1> QED
  BY <1>3, <1>4

\* The other steps of a command: it goes on, or names or forgets a daemon.
LEMMA SimpleIs ==
  ASSUME LifeTypes, NEW c \in Commands,
         L!Check(c) \/ L!Name(c) \/ L!Gone(c) \/ L!Forget(c)
  PROVE  /\ UNCHANGED <<daemon, flock, holder>>
         /\ command' \in [Commands -> Slots] /\ command'[c].kind = command[c].kind
         /\ command'[c].pid = command[c].pid
         /\ \A b \in Commands \ {c} : command'[b] = command[b]
         /\ \/ /\ command[c].at = "check" /\ command'[c].at \in {"done", "spawn"}
               /\ UNCHANGED <<pidfile, crossed>>
            \/ /\ command[c].at = "name" /\ command'[c].at = "done" /\ pidfile' = command[c].pid
               /\ crossed' = (crossed \/ daemon[command[c].pid] # "starting")
            \/ /\ command[c].at = "poll" /\ command'[c].at = "forget"
               /\ L!RunningPid = 0 /\ UNCHANGED <<pidfile, crossed>>
            \/ /\ command[c].at = "forget" /\ command'[c].at \in {"check", "done"}
               /\ pidfile' = 0 /\ crossed' = crossed
<1>1. CASE L!Check(c)
  <2> DEFINE at == IF L!RunningPid # 0 THEN "done" ELSE "spawn"
  <2>1. /\ L!Goto(c, at) /\ at \in Places /\ command[c].at = "check"
        /\ UNCHANGED <<daemon, flock, holder, pidfile, crossed>>
    BY <1>1 DEF L!Check, L!None, Places
  <2>2. at \in {"done", "spawn"}
    OBVIOUS
  <2> HIDE DEF at
  <2> QED
    BY <2>1, <2>2, GotoIs
<1>2. CASE L!Name(c)
  <2>1. /\ L!Goto(c, "done") /\ "done" \in Places /\ command[c].at = "name"
        /\ pidfile' = command[c].pid /\ UNCHANGED <<daemon, flock, holder>>
        /\ crossed' = (crossed \/ daemon[command[c].pid] # "starting")
    BY <1>2 DEF L!Name, Places
  <2> QED
    BY <2>1, GotoIs
<1>3. CASE L!Gone(c)
  <2>1. /\ L!Goto(c, "forget") /\ "forget" \in Places /\ command[c].at = "poll"
        /\ UNCHANGED <<daemon, flock, holder, pidfile, crossed>> /\ L!RunningPid = 0
    BY <1>3 DEF L!Gone, L!None, Places
  <2> QED
    BY <2>1, GotoIs
<1>4. CASE L!Forget(c)
  <2>1. /\ L!Goto(c, L!AfterStop(c)) /\ command[c].at = "forget"
        /\ UNCHANGED <<daemon, flock, holder, crossed>> /\ pidfile' = 0
    BY <1>4 DEF L!Forget, L!None
  <2>2. L!AfterStop(c) \in {"check", "done"} /\ L!AfterStop(c) \in Places
    BY DEF L!AfterStop, Places
  <2> QED
    BY <2>1, <2>2, GotoIs
<1> QED
  BY <1>1, <1>2, <1>3, <1>4

\* Every step keeps the types.
LEMMA LifeTypesStep ==
  ASSUME LifeTypes, [L!Next]_L!vars
  PROVE  LifeTypes'
<1>1. ASSUME NEW c \in Commands, NEW kind \in {"ensure", "stop", "restart"}, L!Begin(c, kind)
      PROVE  LifeTypes'
  BY <1>1, BeginIs DEF LifeTypes, Stops
<1>2. ASSUME NEW c \in Commands, L!Spawn(c) PROVE LifeTypes'
  <2>1. PICK d \in L!Pids :
          /\ command[c].at = "spawn" /\ daemon' = [daemon EXCEPT ![d] = "starting"]
          /\ command' \in [Commands -> Slots]
          /\ command'[c].at = "name" /\ command'[c].kind = command[c].kind
          /\ command'[c].pid = d
          /\ \A b \in Commands \ {c} : command'[b] = command[b]
          /\ UNCHANGED <<flock, holder, pidfile, crossed>>
    BY <1>2, SpawnIs
  <2>2. daemon' \in [L!Pids -> Stages]
    BY <2>1 DEF LifeTypes, Stages
  <2> QED
    BY <2>1, <2>2 DEF LifeTypes, Stops
<1>3. ASSUME NEW c \in Commands, L!ReadPid(c) PROVE LifeTypes'
  <2>1. L!RunningPid # 0 => L!RunningPid \in L!Pids
    BY DEF LifeTypes, L!RunningPid, L!None
  <2>2. command[c].at \in Stops
    BY <1>3, ReadPidIs DEF Stops
  <2> QED
    BY <1>3, <2>1, <2>2, ReadPidIs DEF LifeTypes, Stops
<1>4. ASSUME NEW c \in Commands, L!Term(c) \/ L!Kill(c) PROVE LifeTypes'
  BY <1>4, TermIs DEF LifeTypes, Stops
<1>5. ASSUME NEW c \in Commands, L!Check(c) \/ L!Name(c) \/ L!Gone(c) \/ L!Forget(c)
      PROVE  LifeTypes'
  BY <1>5, SimpleIs DEF LifeTypes, Stops
<1>6. ASSUME NEW d \in L!Pids, L!DaemonSteps(d) \/ L!Killed(d) PROVE LifeTypes'
  BY <1>6, DaemonStepIs DEF LifeTypes
<1>7. CASE UNCHANGED L!vars
  BY <1>7 DEF L!vars, LifeTypes
<1> QED
  BY <1>1, <1>2, <1>3, <1>4, <1>5, <1>6, <1>7 DEF L!Next, L!CommandSteps

\* The lock has one holder, and names it once the holder has written its record.
LEMMA LockStep ==
  ASSUME LifeTypes, LockHeld, [L!Next]_L!vars
  PROVE  LockHeld'
<1> USE DEF LockHeld
<1>1. ASSUME UNCHANGED <<daemon, flock, holder>> PROVE LockHeld'
  BY <1>1
<1>2. ASSUME NEW c \in Commands, L!Spawn(c) PROVE LockHeld'
  <2>1. PICK d \in L!Pids : /\ daemon[d] = "unborn" /\ daemon' = [daemon EXCEPT ![d] = "starting"]
                            /\ UNCHANGED <<flock, holder>>
    BY <1>2, SpawnIs
  <2> QED
    BY <2>1 DEF LifeTypes
<1>3. ASSUME NEW c \in Commands, L!Term(c) \/ L!Kill(c) PROVE LockHeld'
  <2> DEFINE d == command[c].pid
  <2>1. /\ d \in L!Pids /\ holder' = holder
        /\ \A e \in L!Pids \ {d} : daemon'[e] = daemon[e] /\ (flock = e => flock' = e)
        /\ daemon'[d] \in {"unborn", "stopping", "leaving"} =>
             daemon[d] \in {"unborn", "running", "stopping", "leaving"} /\ flock' = flock
        /\ daemon[d] = "unborn" => daemon'[d] \in {"unborn", "dead"}
        /\ daemon'[d] \in {"unborn", "stopping", "leaving", "dead"}
    BY <1>3, TermIs
  <2> HIDE DEF d
  <2>2. ASSUME NEW e \in L!Pids,
               daemon'[e] \in {"locked", "ready", "running", "stopping", "leaving"}
        PROVE  flock' = e /\ (daemon'[e] # "locked" => holder' = e)
    <3>1. CASE e = d
      BY <2>1, <2>2, <3>1
    <3>2. CASE e # d
      BY <2>1, <2>2, <3>2
    <3> QED
      BY <3>1, <3>2
  <2> QED
    BY <2>2
<1>4. ASSUME NEW d \in L!Pids, L!TakeLock(d) PROVE LockHeld'
  <2>1. /\ daemon[d] = "starting" /\ flock = 0 /\ flock' = d
        /\ daemon' = [daemon EXCEPT ![d] = "locked"]
    BY <1>4 DEF L!TakeLock, L!None
  <2>2. \A e \in L!Pids : e # 0
    BY DEF L!Pids
  <2> QED
    BY <2>1, <2>2 DEF LifeTypes
<1>5. ASSUME NEW d \in L!Pids, L!WriteRecord(d) PROVE LockHeld'
  BY <1>5 DEF L!WriteRecord, LifeTypes
<1>6. ASSUME NEW d \in L!Pids, L!DuplicateExits(d) \/ L!EnterLoop(d) \/ L!CleanUp(d)
      PROVE  LockHeld'
  <2>1. /\ UNCHANGED <<flock, holder>>
        /\ \A e \in L!Pids \ {d} : daemon'[e] = daemon[e]
        /\ \/ daemon'[d] = "dead"
           \/ daemon[d] = "ready" /\ daemon'[d] = "running"
           \/ daemon[d] = "stopping" /\ daemon'[d] = "leaving"
    BY <1>6 DEF L!DuplicateExits, L!EnterLoop, L!CleanUp, LifeTypes
  <2> QED
    BY <2>1
<1>7. ASSUME NEW d \in L!Pids, L!Leave(d) \/ L!Killed(d) PROVE LockHeld'
  <2>1. /\ holder' = holder /\ daemon' = [daemon EXCEPT ![d] = "dead"]
        /\ flock' = IF flock = d THEN 0 ELSE flock
    BY <1>7 DEF L!Leave, L!Killed, L!Dies, L!None
  <2> QED
    BY <2>1 DEF LifeTypes
<1>8. ASSUME NEW c \in Commands, NEW kind \in {"ensure", "stop", "restart"}, L!Begin(c, kind)
      PROVE  LockHeld'
  BY <1>1, <1>8, BeginIs
<1>9. ASSUME NEW c \in Commands, L!Check(c) \/ L!Name(c) \/ L!Gone(c) \/ L!Forget(c) \/ L!ReadPid(c)
      PROVE  LockHeld'
  BY <1>1, <1>9, SimpleIs, ReadPidIs
<1>10. CASE UNCHANGED L!vars
  BY <1>1, <1>10 DEF L!vars
<1> QED
  BY <1>2, <1>3, <1>4, <1>5, <1>6, <1>7, <1>8, <1>9, <1>10 DEF L!Next, L!CommandSteps, L!DaemonSteps

\* A command that stops a daemon has no other beside it.
LEMMA StopsAlone ==
  ASSUME LifeTypes, Alone, NEW b \in Commands, NEW c \in Commands, b # c,
         command[b].at \in Stops
  PROVE  ~L!Active(c)
<1>1. L!Active(b) /\ command[b].kind # "ensure"
  BY DEF LifeTypes, L!Active, Stops
<1> QED
  BY <1>1 DEF Alone

\* A step of a command that is not stopping meets nobody who is.
LEMMA NobodyStops ==
  ASSUME LifeTypes, Alone, NEW c \in Commands, L!Active(c), command[c].at \notin Stops
  PROVE  \A b \in Commands : command[b].at \notin Stops
  BY StopsAlone

\* Activity and kinds decide who is alone.
LEMMA PairsKept ==
  ASSUME LifeTypes, Alone, NEW c \in Commands, L!Active(c),
         \A b \in Commands \ {c} : command'[b] = command[b], command'[c].kind = command[c].kind
  PROVE  \A b, x \in Commands :
           b # x /\ L!Active(b)' /\ L!Active(x)' => command'[x].kind = "ensure"
<1>1. \A b \in Commands : (L!Active(b)' => L!Active(b)) /\ command'[b].kind = command[b].kind
  BY DEF L!Active
<1> QED
  BY <1>1 DEF Alone

\* Steps of the daemons: what stops is not disturbed, and a name is put back.
LEMMA DaemonsKeep ==
  ASSUME LifeTypes, LockHeld, Alone, Named, NEW d \in L!Pids, L!DaemonSteps(d) \/ L!Killed(d)
  PROVE  Alone' /\ Named'
<1>1. /\ command' = command
      /\ \A e \in L!Pids \ {d} : daemon'[e] = daemon[e]
      /\ daemon[d] \notin {"unborn", "dead"} /\ daemon'[d] # "starting"
      /\ daemon[d] \in {"stopping", "leaving"} => daemon'[d] \in {"leaving", "dead"}
  BY DaemonStepIs
<1>2. Alone'
  <2>1. ASSUME NEW c \in Commands, command[c].at = "term", NEW e \in L!Pids, e # command[c].pid
        PROVE  daemon'[e] \in {"unborn", "dead"}
    <3>1. e # d
      BY <1>1, <2>1 DEF Alone
    <3> QED
      BY <1>1, <2>1, <3>1 DEF Alone
  <2>2. ASSUME NEW c \in Commands, command[c].at \in {"poll", "forget"}, NEW e \in L!Pids
        PROVE  daemon'[e] \in {"unborn", "dead", "stopping", "leaving"}
    BY <1>1, <2>2 DEF Alone
  <2>3. ASSUME NEW c \in Commands, command[c].at \in Stops, NEW e \in L!Pids
        PROVE  daemon'[e] # "starting"
    BY <1>1, <2>3 DEF Alone
  <2> QED
    BY <1>1, <2>1, <2>2, <2>3 DEF Alone, L!Active
<1>3. ASSUME NEW r \in L!Pids, daemon'[r] = "running"
      PROVE  pidfile' = r \/ (pidfile' \in L!Pids /\ daemon'[pidfile'] = "starting")
  <2>1. CASE r = d
    <3>1. L!EnterLoop(d)
      BY <1>3, <2>1 DEF L!DaemonSteps, L!TakeLock, L!DuplicateExits, L!WriteRecord, L!CleanUp,
                        L!Leave, L!Killed, L!Dies, LifeTypes
    <3> QED
      BY <2>1, <3>1 DEF L!EnterLoop
  <2>2. CASE r # d
    <3>1. daemon[r] = "running" /\ flock = r /\ holder = r /\ r # 0
      BY <1>1, <1>3, <2>2 DEF LockHeld, L!Pids
    <3>2. ASSUME pidfile' = pidfile, daemon[d] # "starting" PROVE
            pidfile' = r \/ (pidfile' \in L!Pids /\ daemon'[pidfile'] = "starting")
      BY <1>1, <3>1, <3>2 DEF Named
    <3>3. CASE L!TakeLock(d)
      BY <3>1, <3>3 DEF L!TakeLock, L!None
    <3>4. CASE L!DuplicateExits(d)
      BY <3>1, <3>4 DEF L!DuplicateExits, L!Alive, L!None
    <3>5. CASE L!CleanUp(d) \/ L!EnterLoop(d)
      <4>1. daemon[d] \in {"stopping", "ready"}
        BY <3>5 DEF L!CleanUp, L!EnterLoop
      <4> QED
        BY <2>2, <3>1, <4>1 DEF LockHeld
    <3>6. CASE L!WriteRecord(d) \/ L!Leave(d) \/ L!Killed(d)
      BY <3>2, <3>6 DEF L!WriteRecord, L!Leave, L!Killed
    <3> QED
      BY <3>3, <3>4, <3>5, <3>6 DEF L!DaemonSteps
  <2> QED
    BY <2>1, <2>2
<1> QED
  BY <1>2, <1>3 DEF Named

\* Steps of the commands that stop nothing.
LEMMA StartersKeep ==
  ASSUME LifeTypes, LockHeld, Alone, Named, LifeTypes', ~crossed', NEW c \in Commands,
         L!Check(c) \/ L!Spawn(c) \/ L!Name(c)
  PROVE  Alone' /\ Named'
<1>1. command[c].at \in {"check", "spawn", "name"} /\ L!Active(c) /\ command[c].at \notin Stops
  BY DEF L!Check, L!Spawn, L!Name, L!Active, Stops
<1>2. /\ \A b \in Commands \ {c} : command'[b] = command[b]
      /\ command'[c].kind = command[c].kind /\ command'[c].at \in {"done", "spawn", "name"}
  BY <1>1, SimpleIs, SpawnIs
<1>3. \A b \in Commands : command'[b].at \notin Stops
  BY <1>1, <1>2, NobodyStops DEF Stops
<1>4. Alone'
  BY <1>1, <1>2, <1>3, PairsKept DEF Alone, Stops
<1>5. CASE L!Check(c)
  BY <1>4, <1>5 DEF L!Check, Named
<1>6. CASE L!Name(c)
  <2>1. /\ daemon' = daemon /\ pidfile' = command[c].pid /\ command[c].pid \in L!Pids
        /\ daemon[command[c].pid] = "starting"
    BY <1>6 DEF L!Name, LifeTypes
  <2> QED
    BY <1>4, <2>1 DEF Named
<1>7. CASE L!Spawn(c)
  <2>1. PICK d \in L!Pids : /\ daemon[d] = "unborn" /\ daemon' = [daemon EXCEPT ![d] = "starting"]
                            /\ pidfile' = pidfile
    BY <1>7, SpawnIs
  <2>2. \A e \in L!Pids : daemon'[e] = IF e = d THEN "starting" ELSE daemon[e]
    BY <2>1 DEF LifeTypes
  <2> QED
    BY <1>4, <2>1, <2>2 DEF Named
<1> QED
  BY <1>4, <1>5, <1>6, <1>7

\* Steps of a command that stops the daemon.
LEMMA StoppersKeep ==
  ASSUME LifeTypes, LockHeld, Alone, Named, LifeTypes', NEW c \in Commands,
         L!ReadPid(c) \/ L!Term(c) \/ L!Kill(c) \/ L!Gone(c) \/ L!Forget(c)
  PROVE  Alone' /\ Named'
<1>1. command[c].at \in Stops /\ L!Active(c) /\ \A d \in L!Pids : daemon[d] # "starting"
  BY DEF L!ReadPid, L!Term, L!Kill, L!Gone, L!Forget, L!Active, Stops, Alone
<1>2. /\ \A b \in Commands \ {c} : command'[b] = command[b]
      /\ command'[c].kind = command[c].kind
  BY SimpleIs, ReadPidIs, TermIs
<1>3. \A b \in Commands \ {c} : ~L!Active(b) /\ command'[b].at \notin Stops
  BY <1>1, <1>2, StopsAlone DEF L!Active, Stops
<1>4. \A b, x \in Commands :
        b # x /\ L!Active(b)' /\ L!Active(x)' => command'[x].kind = "ensure"
  BY <1>1, <1>2, PairsKept
<1>5. ASSUME command'[c].at \in Stops => \A d \in L!Pids : daemon'[d] # "starting",
             command'[c].at = "term" =>
               \A d \in L!Pids : d # command'[c].pid => daemon'[d] \in {"unborn", "dead"},
             command'[c].at \in {"poll", "forget"} =>
               \A d \in L!Pids : daemon'[d] \in {"unborn", "dead", "stopping", "leaving"}
      PROVE  Alone'
  BY <1>3, <1>4, <1>5 DEF Alone, Stops
<1>6. CASE L!ReadPid(c)
  <2>1. daemon' = daemon
    BY <1>6, ReadPidIs
  <2>2. CASE L!RunningPid = 0
    <3>1. pidfile' = 0 /\ command'[c].at \in {"check", "done"}
      BY <1>6, <2>2, ReadPidIs
    <3>2. ASSUME NEW d \in L!Pids, daemon[d] = "running" PROVE FALSE
      <4>1. pidfile = d /\ d # 0
        BY <1>1, <3>2 DEF Named, L!Pids
      <4> QED
        BY <2>2, <3>2, <4>1 DEF L!RunningPid, L!Alive, L!None
    <3> QED
      BY <1>5, <2>1, <3>1, <3>2 DEF Named, Stops
  <2>3. CASE L!RunningPid # 0
    <3>1. pidfile' = pidfile /\ command'[c].at = "term" /\ command'[c].pid = L!RunningPid
      BY <1>6, <2>3, ReadPidIs
    <3>2. L!RunningPid \in L!Pids /\ daemon[L!RunningPid] \notin {"unborn", "dead", "starting"}
      BY <1>1, <2>3 DEF L!RunningPid, L!Alive, L!None, LifeTypes
    <3>3. ASSUME NEW d \in L!Pids, d # L!RunningPid PROVE daemon[d] \in {"unborn", "dead"}
      BY <1>1, <3>2, <3>3 DEF LockHeld, LifeTypes, Stages
    <3>4. Alone'
      BY <1>1, <1>5, <2>1, <3>1, <3>3
    <3> QED
      BY <2>1, <3>1, <3>4 DEF Named
  <2> QED
    BY <2>2, <2>3
<1>7. ASSUME command'[c].at \in {"poll", "forget"} \/ ~(command'[c].at \in Stops),
             \A d \in L!Pids : daemon'[d] \in {"unborn", "dead", "stopping", "leaving"}
      PROVE  Alone' /\ Named'
  <2>1. Alone'
    BY <1>5, <1>7 DEF Stops
  <2> QED
    BY <1>7, <2>1 DEF Named
<1>8. CASE L!Term(c) \/ L!Kill(c)
  <2> DEFINE p == command[c].pid
  <2>1. /\ p \in L!Pids /\ command'[c].at \in {"poll", "forget"}
        /\ \A e \in L!Pids \ {p} : daemon'[e] = daemon[e]
        /\ daemon'[p] \in {"unborn", "stopping", "leaving", "dead"}
        /\ command[c].at \in {"term", "poll"}
    BY <1>8, TermIs
  <2>2. \A e \in L!Pids \ {p} : daemon[e] \in {"unborn", "dead", "stopping", "leaving"}
    BY <2>1 DEF Alone
  <2> QED
    BY <1>7, <2>1, <2>2
<1>9. CASE L!Gone(c) \/ L!Forget(c)
  <2>1. /\ daemon' = daemon /\ command[c].at \in {"poll", "forget"}
        /\ command'[c].at \in {"forget", "check", "done"}
    BY <1>9, SimpleIs DEF L!Gone, L!Forget
  <2> QED
    BY <1>7, <2>1 DEF Alone, Stops
<1> QED
  BY <1>6, <1>8, <1>9

LEMMA LifeInductive == LifeInv /\ [L!Next]_L!vars => LifeInv'
<1> SUFFICES ASSUME LifeInv, [L!Next]_L!vars PROVE LifeInv'
  OBVIOUS
<1>1. LifeTypes' /\ LockHeld'
  BY LifeTypesStep, LockStep DEF LifeInv
<1>2. ASSUME ~crossed' PROVE Alone' /\ Named'
  <2>1. ~crossed => Alone /\ Named
    BY DEF LifeInv
  <2>2. CASE \E c \in Commands, kind \in {"ensure", "stop", "restart"} : L!Begin(c, kind)
    <3>1. PICK c \in Commands, kind \in {"ensure", "stop", "restart"} : L!Begin(c, kind)
      BY <2>2
    <3>2. /\ command'[c].at = IF kind = "ensure" THEN "check" ELSE "read"
          /\ command'[c].kind = kind
          /\ \A b \in Commands \ {c} : command'[b] = command[b]
          /\ UNCHANGED <<daemon, pidfile>> /\ ~crossed
          /\ \A b \in Commands \ {c} :
               L!Active(b) => kind = "ensure" /\ command[b].kind = "ensure"
          /\ kind # "ensure" => \A d \in L!Pids : daemon[d] # "starting"
      BY <1>2, <3>1, BeginIs DEF LifeInv
    <3>3. \A b \in Commands \ {c} : L!Active(b)' = L!Active(b)
      BY <3>2 DEF L!Active
    <3>4. \A b, x \in Commands :
            b # x /\ L!Active(b)' /\ L!Active(x)' => command'[x].kind = "ensure"
      BY <2>1, <3>2, <3>3 DEF Alone
    <3>5. Alone'
      BY <2>1, <3>2, <3>4 DEF Alone, Stops
    <3> QED
      BY <2>1, <3>2, <3>5 DEF Named
  <2>3. ASSUME NEW c \in Commands, L!CommandSteps(c) \/ L!Kill(c) PROVE Alone' /\ Named'
    <3>1. CASE L!Check(c) \/ L!Spawn(c) \/ L!Name(c)
      <4>1. ~crossed
        BY <1>2, <3>1 DEF L!Check, L!Spawn, L!Name
      <4> QED
        BY <1>1, <1>2, <2>1, <3>1, <4>1, StartersKeep DEF LifeInv
    <3>2. CASE L!ReadPid(c) \/ L!Term(c) \/ L!Kill(c) \/ L!Gone(c) \/ L!Forget(c)
      <4>1. ~crossed
        BY <1>2, <3>2 DEF L!ReadPid, L!Term, L!Kill, L!Gone, L!Forget
      <4> QED
        BY <1>1, <2>1, <3>2, <4>1, StoppersKeep DEF LifeInv
    <3> QED
      BY <2>3, <3>1, <3>2 DEF L!CommandSteps
  <2>4. ASSUME NEW d \in L!Pids, L!DaemonSteps(d) \/ L!Killed(d) PROVE Alone' /\ Named'
    <3>1. ~crossed
      BY <1>2, <2>4, DaemonStepIs DEF LifeInv
    <3> QED
      BY <2>1, <2>4, <3>1, DaemonsKeep DEF LifeInv
  <2>5. CASE UNCHANGED L!vars
    BY <1>2, <2>1, <2>5 DEF L!vars, Alone, Named, L!Active
  <2> QED
    BY <2>2, <2>3, <2>4, <2>5 DEF L!Next
<1> QED
  BY <1>1, <1>2 DEF LifeInv

\* At rest the pidfile names the running daemon, however many commands raced to
\* start one and whatever was killed, unless a stop ran into such a race: a
\* duplicate puts back what its spawner overwrote (daemon.run_applier).
THEOREM RunningIsNamed == L!Spec => []NamedWhenQuiet
<1>1. LifeInv => NamedWhenQuiet
  <2> SUFFICES ASSUME LifeInv, L!Quiet, ~crossed, NEW d \in L!Pids, daemon[d] = "running"
               PROVE  L!RunningPid = d
    BY DEF NamedWhenQuiet, L!NamedWhenQuiet
  <2>1. pidfile = d
    BY DEF LifeInv, Named, L!Quiet
  <2> QED
    BY <2>1 DEF L!RunningPid, L!Alive, L!None, L!Pids
<1> QED
  BY <1>1, LifeInit, LifeInductive, PTL DEF L!Spec
=============================================================================
