# anyhop: TLA+ models and proofs

anyhop keeps one `sing-box` process matched to a declarative setup: a CLI, a
dashboard and a daemon edit `state.json` and `credentials.yaml`, and the daemon
compiles them into one sing-box configuration, applies it, supervises the
process, probes every channel and repairs what died. This directory holds TLA+
models of that program, the TLC configurations that check them on small
instances, and TLAPS proofs of the results that matter for every instance.
Paths below are relative to the repository; `anyhop/` is `src/anyhop/`.

## 1. The system

| component | state it keeps | operations | what makes it correct |
|---|---|---|---|
| setup transactions (`anyhop/txn.py`, `credentials.py`) | `setup.lock`, `setup-journal.json`, `credentials.yaml`, the `_setup_commit` stamp in `state.json` | journal, stage, commit, roll back, recover | a compound change happens entirely or not at all, whoever crashes |
| setup operations (`service.py`, `bundle.py`) | none: they plan from the files, then commit through a transaction | provider add / update / remove, bundle import, restore, boot sync | a provider and its credential come and go together |
| state store (`state.py`) | `state.json`: providers, channels, ports, rules, probe and reconnect bookkeeping | one locked read-modify-write per operation, atomic replacement | no lost update, restrict-only references, unique ports |
| applier loop (`daemon.py: run_applier`) | loop locals: signature, last outcome, retry timer, crash counter | read signature, reconcile, supervise, self-exit on upgrade | sing-box ends up on the wanted configuration and stays there |
| sing-box runner (`singbox.py: Runner`) | configuration file, process, pidfile, lifecycle lock | apply (write, check, reload or restart, verify), start, stop | last known-good kept; reports say what is true |
| config compiler (`engine.py`) | none | compile state, retry binds, recover stolen ports | unusable targets block, they never leak |
| reconnect (`reconnect.py`) | per channel: fails, attempts, back-off, nonce, given up; process restart budget | advance after each probe pass | a stale result never lands; bounded restarts |
| probing (`engine.probe_all`, `probe.py`) | last result per channel | measure, then store under a fingerprint | a result belongs to the channel it was measured on |
| ports (`state.py`, `engine.py`) | port, home port, declared flag | allocate, move a stolen one, return home | no two owners, declared ports never move |
| routing (`routes.py`, `tracer.py`, `engine._router_config`) | ordered rules, kill switch, LAN-direct | edit under revisions, compile, explain | the explanation is what the compiled rules do |
| TUN trial (`service.py`) | trial file, TUN flag | arm, confirm, expire, recover | an unconfirmed trial always ends |
| metrics (`metrics.py`) | totals, per-generation baselines, tombstones | observe, remove, revive | each byte counted once, none for removed channels |
| helper (`helper.py`, `helperctl.py`) | root sing-box and its generation | start, stop, reload for one home | never two processes of one home |
| daemon lifecycle (`daemon.py`, `daemonctl.py`) | instance lock, pidfile, upgrade lease | start, duplicate repair, upgrade exit | one applier; no exit under a pending response |
| HTTP API (`api/`) | login tokens, sessions, revocation time, stream slots | log in, authorise, revoke | a token is used once; revoked means revoked |
| upgrade, backup | lock, lease; archive set and digest | run; run when changed, prune | no partial install believed; retention kept |
| files, processes (`fsio.py`, `proc.py`) | none | durable atomic write, flock, verified pid | used as such by everything above |
| providers, geo data, output, dashboard | none that persists past a call | provider APIs, parsing, rendering | inputs of the others |

How they interact: every writer of `state.json` goes through `state.transaction`
(a per-file lock and an atomic replacement); compound writers hold `setup.lock`
around both files. The daemon learns of edits only by polling the file (1 Hz).
Its loop thread owns reconcile and supervision; the probe, metrics and backup
threads run beside it, and the probe thread may restart sing-box. Inside one
process `singbox.lifecycle_lock` serialises apply, start, stop and restart.
Across processes only the files and the pidfile connect them.

What is hard here: operations planned before a lock and committed after it;
a crash between two files; SIGHUP as an unacknowledged message to a process that
may be down or being replaced; two reads of one file taken for one; failures
with three different retry rules; results of slow network calls that land on a
channel which changed meanwhile. `PROJECT.json` lists each hazard at its line.

## 2. The modules

### SetupOps, AtomicSetup, SetupTxn

`SetupOps` says what each of the six compound operations does to the two files:
`CredsAfter` is the change to `credentials.yaml`, `EntryAfter` and
`ManagedAfter` that to `state.json`. A provider's entry is `Absent`, `Bare` (no
channel) or the token its channel's WireGuard parameters were derived from; one
channel stands for all of a provider's. Providers here are token providers, and
channels enabled ones: configuration providers keep no credential.

`AtomicSetup` is the promise: an operation changes both files in one step.

`SetupTxn` is the code. Each process plans an operation from the files without a
lock (`Plan`, guarded by `Admitted`: what `service.py` and `bundle.py` validate
first), then runs `setup_transaction` one file access at a time:

| step (`pc`) | code | actions |
|---|---|---|
| waiting | `fsio.locked(setup.lock)` | `Acquire` |
| locked, rollback, rolled | `_recover_locked` | `RecoverNothing`, `RecoverSkipped`, `RecoverUncommitted`, `RollBack`, `RollBackDone` |
| recovered | snapshot and id | `Snapshot`; `RecoverOnly` for a starting daemon |
| snapped | the journal | `WriteJournal` |
| open | `credentials.set_` / `transaction` / `replace_all` | `StageCredentials` |
| staged | `state.transaction`, stamped | `WriteState`: the commit point |
| written | `_clear_journal` | `CommitDone` |
| any of open, staged, written | the `except BaseException` clause | `Fail`, `Abort`, `AbortDone` |
| closed | the lock is released | `Release` |
| syncing, pruning | `apply_sync` without a transaction, and its clean-up | `SyncState`, `PruneCredentials` |

`Crash` stands for a death, or an I/O error nobody catches, at any of them.

The refinement maps `AtomicSetup`'s credentials to `Effective`: the file, unless
a journal exists whose id is not the stamp, in which case what that journal
holds. It is what the next operation will see, so a rollback is a stutter and
`WriteState` is the one step that changes anything.

### Applier

`Applier` composes `daemon.run_applier`, `Engine.reconcile` and `Runner.apply`
with a user-owned sing-box. A configuration is a number; `want` is what
`state.json` compiles to, `file` what the disk holds, `live` what the process
loaded. The loop thread's `pc` follows one apply: `apply` (compare with the
file), `check` (file replaced, `sing-box check` running), `revive`, `swap`,
`verify`, `restart`. `Returns` is the tail of the loop body: it records the
outcome, tells a refused configuration (waits for an edit) from a failure (waits
for a timer), and is where `vouched` remembers what an outcome promised. SIGHUP
is a message: `Reload` sends it, `HandleHup` acts on it at any later time, on
whatever the file holds by then. `Edit`, `SingBoxExits`, `ProbeRestart`,
`DaemonExits` and failing starts happen between any two steps; the boundedly
many of them are counted by `faults`.

`vouched` and `torn` are history variables: no guard reads them. `torn` says
that an apply ended between replacing the file and using it (its check timed
out, or the daemon died there) and no later check has passed since; that is the
defect of finding 3, and the properties that hold are stated outside it so that
they keep their meaning for everything else.

The clock is abstracted: timers fire at any time, so back-off delays are not in
the model and no property depends on them.

### Reconnect

`Reconnect` is the daemon's probe thread against everyone who edits its
channels. `conf` is a channel's fingerprint (enabled, port, WireGuard
parameters), `probe` its last result, `rc` its reconnect dict; the three live in
`state.json`, so each action that writes them is one `state.transaction`.

| step (`pc`) | code | actions |
|---|---|---|
| idle | `_probe_pass` loads the store | `StartPass` |
| probing | requests are out, then `set_probes` | `PublishProbes` |
| probed | `run_pass` on a second load | `Snapshot` |
| planning | decisions, then `prepare_reconnects` | `Claim` |
| resolving | one provider request per claimed attempt, `finish_reconnect_attempt` | `Resolve`, `EndPass` |

`Crash` ends a pass at any step: the daemon dies or an exception is caught by
`_probe_pass`. `Reimport`, `Readd`, `Disable`, `Enable`, `RestartCommand` are the
commands, `MovePort` the applier's port recovery and `Test` a probe by another
process; all happen between any two steps. `Reimport` stands for every command
that may change parameters and clears the dict: re-import, bundle, token update,
pin, unpin. Removal alone is not modelled: a removed channel has no state to
hurt until it is added again, which is `Readd`.

Back-offs are a choice (`due`), failures are counted up to the threshold only
(`Counted`: past it the number is never used), the random attempt id is one of
two values that differs from the one it replaces. `touched` and `tries` are
history variables.

### Bundle

`Bundle` applies files to a setup that people edit meanwhile. `setup` is what a
bundle describes, as `state.json` stores it: channels (on, place, parameters,
port, `managed`), the provider's mark, rulesets in order, the router's toggles.
`Stage` is what `bundle.py` does before the lock: validate against the state it
read and choose parameters (`Resolved`). `Commit` is `merge_setup`,
`sync_setup` or `restore_setup`, on the state found then. `People` are the
commands and the daemon's reconnect. The three commits are functions of a setup
and a bundle, so that the properties can apply them again to any reachable
setup: a second sync, an export restored here or on an empty machine.

SetupTxn shows that an apply is one step on both files; Bundle looks into what
that step does to the state and leaves the credentials out. `byHand` is history.

### RuleTable, Routing

`RuleTable` is the ordered list of rows with one action per `Store` method that
edits it, the commands that enable, disable and remove channels, and one client
that read a page earlier and writes with its revision. A revision is compared by
content, as its digest is.

`Routing` extends it with what a table means. `Compiled` is the list
`Engine._router_config` lays out for sing-box, `Verdict` sing-box's first match,
`Traced` the walk of `tracer.trace`, `Shadowed` the lint of `routes.py`. A flow
is a door (router port or TUN), a family, a kind of port and the set of matchers
describing it. The state is everything that changes the meaning of the rows:
flags, channels on, off or without parameters, declared ports held, geo files
present, readable or not, router port up or not; the properties quantify over
all flows in each of those states. Of a channel that is off neither what it
lacks nor its port is kept: it is left out either way. Compiler and tracer each
decide on their own what a channel is: `Built` is what `Engine._build_config`
materialises, `Configured` what `tracer.trace` takes for it from `state.json`
alone. They differ by the channels whose declared port a reconcile found held
(`env.held`, chosen among `Declared`), which only the engine of that reconcile
knows; and a geo file can be one that sing-box reads and `anyhop/srs.py` does
not (`env.unread`). There the two disagree, findings 18 and 19; `TracerAgrees`
excepts exactly these (`MissesHeld`, `MissesFile`), and is false when either is
left out. `RoutingNext` reaches tables by creation only: `RuleTable` shows that
no other edit leads out of the tables reached so.

### Channels

The channel commands of `service.py`: each loads the state (`Plan`), asks the
provider for a server where it needs one (`Resolve`, slow), and commits in a
transaction that compares a revision, a fingerprint, or nothing. `stale` records
the slots written by parameters that were resolved for another intent: the
defects of finding 9, outside which the two properties hold.

### Ports

Owners are channels in order and then the router; each has a port, a home port
and a mark for declared ones. Commands allocate, declare and remove; foreign
programs take and leave ports; `Reconcile` follows `Engine.reconcile`:
`RestoreHome` for all owners in one transaction, `Apply` with its bind retries,
the holder lookup, which can fail, `Reallocate`, and the second apply without
the declared owners whose port is held. `rec.held` is what that reconcile found
held, `foreign` what is held now. `Settles` speaks of now: what stays unbound in
the end is held by somebody, or `Stranded`, left out for a holder that has gone
since, which no reconcile notices (finding 20). Without that exception it is false.

### TunTrial

Who holds `tun-trial.lock` is `op`, its steps those of `tun_trial_arm`,
`_expire`, `_recover` and `tun_mode`: marker, watchdog, flag, daemon. Between
any two of them the holder may be killed (`Cut`); the daemon dies, the machine
loses power, the marker is damaged at any time. Deadlines and sleeps are clocks
counted in ticks, the only clock in these models: an arm that waited for the lock
has a deadline nearer than its watchdog's sleep.

### Lifecycle

The daemons of one home and the commands that start, stop and restart them:
`applier.lock`, the identity in it, `applier.pid` and who writes it when.
`crossed` is history: a stop or restart ran beside another command or began
while a spawned daemon had not come to the lock, or a spawner wrote its child's
identity after the child had come to it. What holds without it is claimed; what
breaks with it is finding 16 and a hazard. The middle case was met while
proving, and takes three commands: two race to start a daemon, and a stop reads
the duplicate's identity, ends it before it has repaired the pidfile and removes
the file that should name the other.

### Upgrade

Requests from the command line and the dashboard (a thread of the daemon that is
to be replaced), the upgrade lock, the package manager as a step that installs
what is newest by then or fails with or without a change, the postcondition, the
restart handed over with the answer, and the daemon's own watcher with the lease
that puts it off. A supervisor restarts the daemon. `AnswerNotCut` is about a
request that replaced the package itself (`changed`). A request let in between the
watcher's decision and its exit, after someone else had replaced the package, has
nothing to install; its answer may be cut.

### Geo

The records in `state.json`, the content-addressed files and the rows referring
to categories, with rule writes and refreshes of several processes interleaved
at each access, files lost at any time, and upstream contents changing.

### Traffic

sing-box's connections with their counters, the worker's sample (generation,
connections, generation again), the accumulator's watermarks, and `metrics.db`
with its tombstones. `add_deltas` is two kinds of steps, because sqlite3 opens a
transaction at the first write only: `LookUp` reads one channel's tombstone in
autocommit and skips the channel or goes on to its insert; `Bank` is the
transaction that this insert opens, in which the other channels are looked up and
written. A removal can commit between the two, and the row of the channel looked
up (`sample.first`) then comes back, finding 21; `DeletedStaysDeleted` excepts that
one row of that one bank. `carried`, `slack`, `gone`, `readded` are history: what
went through, what was given up knowingly (closed between samples, a first
interval, a removed channel), and which rows must stay away.

### How they compose

`AtomicSetup` is refined by `SetupTxn`. `RuleTable` is extended by `Routing`.
`Applier` takes the probe thread's restart from `Reconnect`, and `Reconnect`
takes edits and port moves as commands. The modules that share no state are
checked together: `MCEdits`, `MCDaemon` and `MCNetwork` each have a variable
`focus`, chosen once, that says which module moves; the others rest. A state of
such a run is a state of one module, an `all`-stutter of the rest, so its
properties are those of the module alone. As only one module moves in a
behaviour, a fairness condition of one and a condition of another are stated as
one (the disjunction of the two actions, all but one of them disabled for good).
What a module takes as a sequence or a function of the instance is a constant of
the composing module (`Owners`, `Ref`), so that the theorems are about any; so are
the channels, matchers and bounds of the table alone and of the routed table,
which differ (`TableChannels`, `RoutedChannels`, ...).

Not built: `Applier` composed with `Reconnect` and its restart budget, `Applier`
over a helper-owned process, `Reconnect` composed with `SetupTxn`.

## 3. The runs

| run | instance | what it shows |
|---|---|---|
| `setup_crash` | 1 process, 2 providers, 2 tokens, all operations, 2 transactions | `Atomic` with a crash or an error at every step: one process is enough for every crash, rollback and rerun, two providers for operations that touch some and leave others |
| `setup_race` | 2 processes, 1 provider, 2 tokens, add / update / remove / restore, 3 transactions | `Atomic` and `ProviderHasCredential` when plans overlap: three transactions let one commit, one crash and one recover |
| `setup_unreadable` | 1 process, 1 provider, all operations, unreadable or damaged journals | `CommittedCredentialsStay`: skipping a recovery never undoes a commit |
| `setup_import_crash` | 1 process, imports | violated, finding 1 |
| `applier` | 4 configurations, the third refused, 3 faults | `VouchedUnlessTorn`, `LastGoodKept`, `NoRegression`, `Converges` |
| `applier_check_timeout` | 3 configurations, 1 fault | violated, finding 3 |
| `reconnect` | 1 token channel, threshold 2, 2 attempts, 2 parameter versions, 4 edits, 1 crash | `DisabledIsInert`, `StaleNeverLands`, `AttemptsAreOwn`, `Decided` |
| `sync` | 2 channels, 5 bundles, 3 ports, 2 names, 2 rows | `SetupSound`, `HandMadeStays`, `SyncIdempotent`, `RestoreRoundTrip` |
| `sync_moved_rule` | the same | violated, finding 6 |
| `edits` | table: 1 channel, 3 rows; routing: 2 channels, one of them declared and carrying IPv6, 5 matchers, 2 rows; channels: 2 slots, 2 servers, 2 commands | `RulesSound`; `RoutesTracerAgrees`, `RoutesClaimedNeverLeaks`, `RoutesUnmatchedNeverLeaks`, `RoutesLintIsSound`; `PinHolds`, `EnabledHasParams` |
| `daemon` | upgrade: 2 requests, 3 releases; lifecycle: 2 commands, 3 daemons, 1 kill; traffic: 2 connections of 2 bytes, 2 generations, 1 failure; geo: 1 category, 2 processes, 2 contents | `AnswerNotCut`, `NoStaleUpgrade`, `NewCodeRuns`; `NamedWhenQuiet`, `EnsureRuns`; `NeverOvercounts`, `DeletedStaysDeleted`, `BytesAreBanked`; `RefreshHeals` |
| `network` | TUN: 2 trials, 1 fault; ports: 2 owners, 3 ports, 2 edits, 3 foreign moves | `RevertPending`, `HumanWins`, `TrialEnds`; `UniqueOwners`, `Settles` |

Bounds. `MaxTxns` bounds the journals ever written, `MaxConfig` the edits (they
move forward unless `Revisits`), `MaxFaults` the faults of a behaviour. Three
faults let an exit, a failed start and an interrupted check meet in one apply;
four configurations allow an accepted one on either side of the refused one.
`setup_crash` uses symmetry of providers and tokens, which the code never
orders; it checks no liveness. In `reconnect` four edits allow a change before
and after the claim of two passes (disable, enable, re-add, re-import); channels
are written together but never read one for another, so one stands for all. The
proofs below show that these bounds hide nothing for the properties proved.

The other bounds are the smallest at which each mutant of `PROJECT.json` is
found and each action fires. Three rows let a ruleset be split by another and a
row be moved past one; two rows and five matchers let each kind of matcher
precede each, which is what first match, shadowing and the IPv6 guards are
about; a flow is described by at most two matchers, one for each row; the
declared channel is the one with IPv6, so that a held port takes the row's
target away, the last IPv6 channel, or both. Two channel commands are enough for
a plan, a change and a late commit; no code compares three. The bundles of
`sync` cover a channel stated, unstated, disabled, declared and dropped, and
rulesets that change target, order and presence; the ten kinds of edits are open
between any two applies. Three ports for two owners leave one to move to and
none after a foreign program took it. Two trials let one be confirmed or expire
while the other is armed. Three daemons let two commands race while one daemon
dies. Three releases let one appear after the version check and one more while
the manager runs. Two bytes on each of two connections of one channel let a
sample fall between them.

Deadlock is not an error in these models: with its bounds used up a system may
rest.

Fairness. `Applier!FairSpec`, used only by `Converges`: the loop ticks each
second and every call it makes is bounded by a timeout (weak fairness of
`Daemon`); it reads the state before it decides in each turn, so it also reads
it while applies keep interrupting (strong fairness of `ReadSignature`);
sing-box handles signals it gets; a service manager or the next command starts a
dead daemon. Nothing is assumed of edits, exits, failing starts or the probe
thread. `Converges` says that, these over, sing-box runs the wanted
configuration unless it refuses it.

`Reconnect!FairSpec`, used only by `Decided`: passes start every half minute and
everything in them has a deadline (weak fairness of `Pass`); a back-off is at
most ten minutes, so a channel is due again and again (strong fairness of a
claim with that channel due). Edits and crashes are bounded, nothing is assumed
of results. `Decided` says that a channel which stays enabled and dead is given
up.

`TunTrial`: time passes, the holder of the lock goes on, the daemon polls; a
watchdog that woke and a daemon that settles wait in `flock`, which serves them
in the end although others keep taking the lock (strong fairness). Nobody is
assumed to start a daemon: `TrialEnds` accepts the flag off with no daemon.
`Lifecycle`: commands and daemons that started go on; nobody begins one.
`Upgrade`: network, manager and slow clients have timeouts, the watcher polls,
and a service manager starts the daemon again (the watcher exits only where it
knows of one). `Ports`: the loop retries on
its timer, a bind is retried finitely often, and a holder that stays is found by
`lsof` or `/proc` in the end (strong fairness of the apply's outcome and of
`Identified`). `Traffic`: the metrics worker samples each interval.

### Findings

Runs 1, 3 and 6 exhibit theirs; the others were met while modelling, are excluded
from the properties by a named variable or condition where one is given, and
stand in `PROJECT.json` with the quoted text they contradict.

1. **An import rerun after a crash loses its credential** (`bundle.py:1162`).
   `apply_import` plans its credential writes against a snapshot taken before
   the lock, thus before recovery. If a crashed import had staged the same
   credential, there seems to be nothing to write; taking the lock then rolls
   it back, and the provider is committed without one. `apply_sync` has the same
   shape, and its state-only path does not even take the lock.
2. **A token update can outlive its provider** (`service.py:239`). The provider
   is looked up before the lock and not again under it, so an update that waited
   for a removal commits an orphan credential.
3. **A timed-out check is reported live** (`singbox.py:952`). The file is
   replaced before `sing-box check`; after a timeout the retry finds file and
   configuration equal and the old process healthy, and returns `UNCHANGED`.
   `torn` marks it.
4. **An edit and its reversal can be missed** (`daemon.py:677`). Signature and
   configuration come from different reads; the stored signature may describe
   another configuration than the one applied, until the next edit.
5. **A rejected first reconcile may leave sing-box down** (`daemon.py:683`).
   The comment in `singbox.py:960` counts on supervision, which needs an earlier
   success, and the retry timer is infinite after a rejection.
6. **A moved rule takes a hand-made ruleset with it** (`state.py:1603`).
   `move_rules` keeps `managed` on the moved row, and a sync owns a ruleset with
   one managed row: the next one prunes it, rows written by people included.
7. **The order revision can come back** (`state.py:496`). It digests ids that
   are reused, so a removal and a creation leave it valid.
8. **Two pins can meet on one server** (`service.py:493`): the check is outside
   the transaction.
9. **Parameters of one server under a pin to another** (`service.py:226`,
   `1077`). Token updates and enables without a revision write by id what was
   resolved for an earlier pin (`stale`); an enable with a revision takes the
   one for its second write from a fresh read, and may adopt another client's
   change.
10. **A prune can sweep a recorded file** (`geodata.py:434`): the records are
    read before the directory. `RefreshHeals` is about refreshes that met nobody.
11. **A trial's end cut short leaves TUN on** (`service.py:2139`): the marker
    goes first. `RevertPending` and `TrialEnds` except it (`faults`).
12. **Two held declared ports keep everything down** (`engine.py:631`); one is
    degraded as intended. `Settles` says so.
13. **A channel can be committed enabled without parameters** (`state.py:1918`)
    by an apply planned before it lost them. `RestoreRoundTrip` assumes
    `EnabledIsUsable`.
14. **A later declaration can find its port given away** (`state.py:1916`)
    within one bundle; the apply is refused.
15. **Imports append rulesets** (`state.py:1990`), though documented as
    idempotent, and **syncs keep the old order** of rulesets (`state.py:2095`),
    though list order is documented as priority.
16. **A slow spawner can name a dead child** (`daemon.py:373`), after the child
    repaired or replaced the pidfile (`crossed`).
17. **Re-adding a provider lifts its channels' tombstones** (`metrics.py:188`):
    the provider's removal replaced them (`readded`).
18. **The tracer does not know held ports** (`tracer.py:235`). Channels whose
    declared port is held are left out of the configuration (`engine.py:239`), so
    their rows reject; the tracer answers that the destination exits through them,
    or that IPv6 goes its way when the one left out was the last to carry it.
19. **A file that only sing-box reads is reported as a block** (`tracer.py:190`),
    "the engine compiles this rule to an unscoped reject", though the engine hands
    the rule set to sing-box as it is.
20. **A freed declared port is not bound** (`daemon.py:675`). The reconcile that
    left its owner out succeeded, so the next waits for a change of `state.json`;
    the log says "until you free the port" (`engine.py:697`), the channel's error
    text that a restart is needed as well.
21. **A removal can slip into a bank** (`metrics.py:117`). The tombstone is looked
    up before the transaction opens, though "checked in the same SQLite
    transaction as the insert" (`metrics.py:100`).

## 4. What is proved

`SetupTxnProofs`, `ApplierProofs`, `ReconnectProofs`, `BundleProofs`,
`EditsProofs` (Channels, RuleTable, Routing), `DaemonProofs` (Upgrade, Lifecycle,
Traffic, Geo) and `NetworkProofs` (TunTrial, Ports) hold the theorems, and
`Foundations` the facts about data that they share; TLAPS checks them for every value of the constants, within the
assumptions named in the modules (`ConstantsAssumption`, `ProtocolAssumption`,
`ApplierAssumption`, `ReconnectAssumption`, `TrialAssumption`,
`DaemonAssumption`, `OwnersAssumption`, `EditsAssumption`, `BundleAssumption`: model
values are distinct, bounds are naturals, connections are finitely many, the owners are a
sequence, at least one failure is swallowed before the first attempt, what lies
in a matcher or in a LAN range is described by it, no port is 0, a file that
validation let through declares a channel once and gives every ruleset matchers).

**Foundations.** The library's induction theorems take an operator, which the
provers cannot instantiate; `NatSetInduction`, `IntervalInduction` and
`SubsetInduction` say the same of a set, proved from the well-foundedness of
`<` and the cardinality of finite sets. `IterationExists`: a function defined by
recursion over an interval is what its equation says. `SumEquation` and what
follows from it (`SumOrder`, `SumPlus`, `SumRaised`, ...): the sum of a function
over a finite set, whichever order its definition chooses. `FlattenIs`: the
elements of concatenated sequences are theirs, in lexicographic order, none left
out; `LeastIs` and `GreatestIs`: bounded sets of naturals have both. `Rank`:
members of a set of positions counted from the left, no number given twice or skipped.

**SetupTxn.** `IInv` joins the types to four facts: only the holder of the lock
is at a critical step (`LockStep`); the files and the holder's locals agree with
its step, for instance at `staged` the journal is the holder's, holds its
snapshot, and the stamp is not yet its id (`ProgressStep`); ids grow and neither
file names one never drawn (`IdStep`); nobody prunes outside the lock
(`NoPruneStep`). None of the properties is inductive without them: atomicity at
`WriteState` needs the journal to be the holder's own, which needs the lock.
From `IInv`: `TypeCorrect`, `Atomicity` (each step is an abstract step or a
stutter under `Effective`), `CommittedStays`. `CredentialBeforeProvider` adds
that the operation each process carries brings a token for what it adds.

They assume `Disciplined`: no boot sync, and journals that can be read. A sync
writes both files outside `setup.lock`, and a skipped recovery gives up
atomicity by design; those cases stay with TLC. `CredentialBeforeProvider` also
assumes `PairedOnly`, the operations that write both halves, because with
imports it is false (finding 1).

**Applier.** The inductive invariant says what runs in relation to the file at
each step of an apply: when settled, `live` is `file` or a signal is pending;
during a check `live` is the old file; what was vouched for is the file; a
refused file exists only inside an apply or after a torn one. From it:
`TypeCorrect`, `VouchedRuns`, `LastGoodIsKept`, and with `Revisits = FALSE`
`NothingRegresses`.

**Reconnect.** `DisabledIsInert` supports itself: a result needs an enabled
fingerprint, an answer needs an attempt id, which a disabled channel's empty dict
does not have. `AttemptsAreOwn` needs `Owned`: the dict of an attempt in flight is
still what the claim wrote, or was cleared. `StaleNeverLands` needs
`TouchedHasNoAttempt`: after a command has cleared a dict the claim of the running
pass may count a failure on it but never attempt, since an attempt follows earlier
failures (`AttemptAfterFailures`, where the threshold of at least two matters). So
the id that `finish_reconnect_attempt` compares covers the case its fingerprint
cannot see: a command that leaves the same parameters.

**Bundle.** `SetupSound` supports itself once the setup is typed and not refused,
and an apply in flight was planned from a file (`BundleInv`; of a restore also that
its targets are in the file, since its commit does not look again). The work is in
the applies, each a composition of functions from setups to setups with a lemma
apiece: a declared channel takes a port nobody has (`UpsertIs`, and for all of a
file `UpsertedIs`, by induction along the file), converging rules keeps the
unmanaged ones in order (`ConvergedIs`), pruning spares the channels rules use
(`PrunedIs`), the commit checks the targets again (`CheckedIs`); a restore gives
free ports one after the other (`FillsGive`). From it `AppliesAreSound`, for any
staleness of the plan, and from what the parts of a sync leave alone
`SyncSparesPeople`. `ExportsComeBack` adds of a setup that an absent channel is off
and holds no port (`Apart`); then an export names each present channel once
(`ListingIs`, `ExportIs`), planning it chooses the parameters it states
(`ExportPlans`), the restore is not refused for want of a port (`RoomIsLeft`, a
pigeonhole, and `FillsFit`), and what is restored exports the same (`ExportRestored`).
It assumes as many ports as channels: ports run from the base to 65535.
`SyncSettles` shows that what a sync leaves is `Settled`, a predicate of one setup
and the file, and that a settled setup is left as it is (`SyncedSettles`,
`SettledStays`). The file is planned as before because the parameters that the
first sync wrote are found with their place (`PlanStays`). Its rules converge to
themselves because the managed rulesets are `InStep` with the file: the n-th of a
name is the n-th spec's, kept ones first and new ones behind, and there are as many
as the file asks for (`ConvergedInStep`, `InStepStays`).

**TunTrial.** `IInv` says which steps a holder of the lifecycle lock takes for
which kind of command (`StepInv`), that a trial whose marker is there, or which is
being reverted, was not decided (`UndecidedInv`), what the holder has already done
(`HolderInv`: an arm at its last steps has written the marker and spawned the
watchdog), and what remains pending while a command holds the lock
(`PendingInv`), where `RevertPending` itself says nothing. From it
`DecisionsStand`, whatever the faults, and `RevertIsPending`, which excepts a holder
cut short, both for any windows and trials.

**Upgrade.** The lock admits one caller, and what it read stays true until it
writes unless someone replaces the package by hand, which the properties except;
once the watcher saw the disk differ, no caller can newly be the replacing one
without a lease (`LeaseInv`). From it `AnswersGetOut` and `NeverStale`. Both take
`Web \subseteq Callers` as their hypothesis.

**Channels.** No command knows what the channels are when it commits;
`ChannelsInv` therefore says only what a command holds at its step: a server answered for its
own pin, or else for the pin it read, and for an enable parameters resolved or
read. Whether that still fits is decided by the commit: the revision, the
fingerprint of a reconnect, or an entry in `stale`. From it `PinsHold` and
`EnabledRuns`, assuming `Sane`: configuration slots are slots, and no server is
called `None`.

**RuleTable.** `TableInv` is the property and the types, and that a page showing
a ruleset shows rows: an edit under a revision is of a ruleset that is still
there. The work is in the edits, each shown to be a choice of rows in table order
(`PickKeeps`), rows put in where they split no ruleset, with numbers nobody has
(`SpliceKeeps`), one after the other (`UpdatedKeeps`, `MoveKeeps`), or whole
rulesets in another order (`ReorderedKeeps`). From it `TableStaysSound`, for any
length of the table and any channels and matchers.

**Routing.** What the state must be is little: a typed table and typed flags
(`RoutingInv`). The argument is about the compiled list: the first of two
concatenated lists that decides a flow gives the verdict (`VerdictOfTwo`), the
rules of a row decide where the row hits, and as the tracer says
(`RowDecides`), hence the rows by the first that hits (`RowsDecide`), and the
whole list in the order of its parts (`CompiledAnswers`). Against that answer
stand the tracer's (`TracerAlwaysAgrees`: the two find the same first row unless
it is one with an unreadable file, `RowHits`, and say the same of it unless its
channel's port is held, `RowsAgree`; with the last IPv6 channel held, all IPv6 is
rejected before any row), the two promises that nothing leaks
(`ClaimedFlowsStayIn`, `UnmatchedFlowsStayIn`), and the lint: a row behind one
that hits whatever it hits is never first (`LeftOut`,
`ShadowedRowsDecideNothing`). `EditsAssumption` says what these need
of matchers and flows: a matcher is its type and value, the outer of two hits what the
inner does, an address in a LAN range is a LAN address, no channel is called
"direct".

**Ports.** `UniqueOwners` supports itself once the ports are typed (`PortsInv`),
since every write asks for a port nobody has; the work is in sending all owners
home in one transaction, where each step must keep what the earlier ones left
(`AllSentHome`, by `IntervalInduction` over the owners sent). `PortsHaveOneOwner`
is about any list of owners.

**Traffic.** `NeverOvercounts` compares a stored total with what connections
carried, and is false of the next sample unless one knows what that will add.
`TotalsInv` therefore bounds the total plus everything the watermarks still owe
(`Owed`), and, while a sample is in the worker's hands, plus what it and the
following one will bring (`Later`); `SampleInv` says what a sample can be by the
time it is observed: no newer than the connections, no older than the watermarks
of its generation. Between
the look-up and the bank nothing moves the watermarks, and what is about to be
banked was carried and belongs to their generation (`BankingInv`). From it
`TotalsAreCarried`. `RemovedStayRemoved` needs `TombstoneInv`, that a removed
channel has a tombstone unless its provider was added again, and that only a bank
raises a total (`OnlyBankAdds`): a bank drops what has a tombstone but for the
channel it had looked up.

**Lifecycle.** Whoever holds the lock is a daemon past it, and only one is
(`LockHeld`). Outside `crossed` a stop has no company (`Alone`), and for each
daemon that runs the pidfile names it, or a duplicate that has still to come to
the lock and will put it back (`Named`), which at rest leaves the first:
`RunningIsNamed`.

**Geo.** A refresh that met nobody has, at each of its steps, done its part for
each category it read (`LoneRefresh`): recorded what it fetched, kept in the
prune what is recorded. `RefreshRepairs`.

So every safety property that a passing run checks is also a theorem, under the
hypotheses named above. Only model-checked: all liveness (`Converges`, `Decided`, `TrialEnds`, `EnsureRuns`,
`NewCodeRuns`, `Settles`, `BytesAreBanked`), everything with a boot sync or an
unreadable journal, and the violations.

## 5. Not modelled

Data formats, parsing, rendering, provider APIs, decoding of geo files,
throughput measurement, the dashboard, packaging: their results enter as
arbitrary values. Login tokens and sessions (`api/auth.py`) are access control
over one locked dictionary, and backups one thread that writes and deletes files
it alone names: neither has an order of steps worth a model. The privileged
helper would need `Applier` over two owners of a process.

Within the modelled components: TUN re-exec, the restart budget and which
parameters were live when a probe ran, the order of metrics after a commit,
`reconcile_tombstones` and queries over time, restarts asked by other processes
beside an apply, service-manager units, detection of the package channel,
quarantine and migration of `state.json`, and in the setup modules disabled
channels and configuration providers (`Bundle` and `Channels` have both).
