----------------------------- MODULE Reconnect -----------------------------
(***************************************************************************)
(* Probing and automatic reconnect: Engine.probe_all and reconnect.run_pass *)
(* on the daemon's probe thread, against the commands and the port moves   *)
(* that edit the same channels in state.json meanwhile.                    *)
(*                                                                         *)
(* A pass works on snapshots; between a snapshot and the write that uses   *)
(* it lie network requests.  Each write compares the channel's fingerprint *)
(* (enabled, port, WireGuard parameters) and what it expects to find.      *)
(*                                                                         *)
(* The back-off is a choice: an attempt is due or not yet.  The restart of *)
(* sing-box that configuration channels queue changes nothing here.        *)
(***************************************************************************)
EXTENDS Naturals

CONSTANTS
    Channels,
    TokenChannels,   \* those of providers with an API to re-resolve from
    FailThreshold,   \* failures swallowed before the first attempt
    MaxAttempts,
    MaxWg,           \* bound: versions of a channel's WireGuard parameters
    MaxEdits,        \* bound: commands and port moves in a behaviour
    MaxCrashes       \* bound: passes cut short

ASSUME ReconnectAssumption ==
    /\ TokenChannels \subseteq Channels
    /\ FailThreshold \in Nat /\ FailThreshold >= 2
    /\ MaxAttempts \in Nat /\ MaxAttempts >= 1
    /\ MaxWg \in Nat /\ MaxEdits \in Nat /\ MaxCrashes \in Nat

VARIABLES
    conf,      \* per channel: its fingerprint
    probe,     \* per channel: the last result
    rc,        \* per channel: the reconnect dict
    pc,        \* the probe thread
    seen,      \* the fingerprints before the probes
    base,      \* run_pass's snapshot
    todo,      \* channels whose attempt this pass claimed and has to resolve
    touched,   \* history: channels a command changed since run_pass's snapshot
    tries,     \* history: attempts since a command or a recovery
    edits, crashes

store == <<conf, probe, rc>>
pass == <<pc, seen, base, todo>>
bounds == <<edits, crashes>>
vars == <<conf, probe, rc, pc, seen, base, todo, touched, tries, edits, crashes>>

Fingerprints == [enabled : BOOLEAN, port : {"home", "moved"}, wg : 0..MaxWg]
Results == {"none", "ok", "bad", "stopped"}
Nonces == {1, 2}
NoRc == [fails |-> 0, attempts |-> 0, nonce |-> 0, failed |-> FALSE]
Reconnects == [fails : 0..FailThreshold, attempts : 0..MaxAttempts,
               nonce : Nonces \cup {0}, failed : BOOLEAN]
Snapshots == [conf : [Channels -> Fingerprints], probe : [Channels -> Results],
              rc : [Channels -> Reconnects]]

TypeOK ==
    /\ conf \in [Channels -> Fingerprints]
    /\ probe \in [Channels -> Results]
    /\ rc \in [Channels -> Reconnects]
    /\ pc \in {"idle", "probing", "probed", "planning", "resolving"}
    /\ seen \in [Channels -> Fingerprints]
    /\ base \in Snapshots
    /\ todo \subseteq TokenChannels
    /\ touched \subseteq Channels
    /\ tries \in [Channels -> 0..MaxAttempts]
    /\ edits \in 0..MaxEdits
    /\ crashes \in 0..MaxCrashes

Fresh == [enabled |-> TRUE, port |-> "home", wg |-> 0]

Init ==
    /\ conf = [c \in Channels |-> Fresh]
    /\ probe = [c \in Channels |-> "none"]
    /\ rc = [c \in Channels |-> NoRc]
    /\ pc = "idle"
    /\ seen = conf
    /\ base = [conf |-> conf, probe |-> probe, rc |-> rc]
    /\ todo = {}
    /\ touched = {}
    /\ tries = [c \in Channels |-> 0]
    /\ edits = 0 /\ crashes = 0

----------------------------------------------------------------------------
(* The probe pass.                                                         *)

StartPass ==
    /\ pc = "idle"
    /\ \E c \in Channels : conf[c].enabled
    /\ seen' = conf
    /\ pc' = "probing"
    /\ UNCHANGED <<store, base, todo, touched, tries, bounds>>

\* Mutant of PublishProbes: a result lands on whatever the channel is by now.
PublishLate ==
    /\ pc = "probing"
    /\ \E out \in [Channels -> {"ok", "bad"}] \cup [Channels -> {"stopped"}] :
         probe' = [c \in Channels |-> IF seen[c].enabled THEN out[c] ELSE probe[c]]
    /\ pc' = "probed"
    /\ UNCHANGED <<conf, rc, seen, base, todo, touched, tries, bounds>>

\* Every channel that was enabled has a result, and keeps it if it is unchanged.
PublishProbes ==
    /\ pc = "probing"
    /\ \E out \in [Channels -> {"ok", "bad"}] \cup [Channels -> {"stopped"}] :
         probe' = [c \in Channels |->
                      IF seen[c].enabled /\ conf[c] = seen[c] THEN out[c] ELSE probe[c]]
    /\ pc' = "probed"
    /\ UNCHANGED <<conf, rc, seen, base, todo, touched, tries, bounds>>

Snapshot ==
    /\ pc = "probed"
    /\ base' = [conf |-> conf, probe |-> probe, rc |-> rc]
    /\ touched' = {}
    /\ pc' = "planning"
    /\ UNCHANGED <<store, seen, todo, tries, bounds>>

----------------------------------------------------------------------------
(* What run_pass makes of a channel in its snapshot.                       *)

\* A channel never probed counts as failing.
Failing(c) == /\ base.conf[c].enabled
              /\ base.probe[c] \in {"bad", "none"}
              /\ ~base.rc[c].failed

Recovering(c) == /\ base.conf[c].enabled
                 /\ base.probe[c] = "ok"
                 /\ base.rc[c] # NoRc

\* Failures are counted up to the threshold: beyond it the number is not used.
Counted(r) == [r EXCEPT !.fails = IF @ < FailThreshold THEN @ + 1 ELSE @]

OverThreshold(c) == Counted(base.rc[c]).fails = FailThreshold

\* The first attempt is due at once, later ones when the back-off is over.
Ready(c, due) == /\ Failing(c) /\ OverThreshold(c)
                 /\ c \in due \/ base.rc[c].attempts = 0

\* Mutant of GivesUp: one attempt too many is asked for, and never made.
GivesUpLate(c, due) == Ready(c, due) /\ base.rc[c].attempts > MaxAttempts

GivesUp(c, due) == Ready(c, due) /\ base.rc[c].attempts = MaxAttempts

\* Mutant of Attempts: the last attempt is made once more while giving up.
AttemptsOnceMore(c, due) == Ready(c, due) /\ base.rc[c].attempts <= MaxAttempts

Attempts(c, due) == Ready(c, due) /\ base.rc[c].attempts < MaxAttempts

\* A random id: different from any that is still around.
NewNonce(r) == IF r.nonce = 1 THEN 2 ELSE 1

Attempted(r) == [Counted(r) EXCEPT !.attempts = @ + 1, !.nonce = NewNonce(r)]

Replacement(c, due) ==
    IF Recovering(c) THEN NoRc
    ELSE IF GivesUp(c, due) THEN [Counted(base.rc[c]) EXCEPT !.failed = TRUE]
    ELSE IF Attempts(c, due) THEN Attempted(base.rc[c])
    ELSE IF Failing(c) THEN Counted(base.rc[c]) ELSE base.rc[c]

\* Mutant of Unclaimed: the dict it replaces is not compared.
UnclaimedAnyway(c) == conf[c] = base.conf[c]

\* The channel and its bookkeeping are those of the snapshot.
Unclaimed(c) == conf[c] = base.conf[c] /\ rc[c] = base.rc[c]

\* prepare_reconnects: every counter is durable before anything is attempted.
Claim(due) ==
    /\ pc = "planning"
    /\ LET claims == {c \in Channels : (Failing(c) \/ Recovering(c)) /\ Unclaimed(c)}
           trying == {c \in claims : Attempts(c, due)}
       IN /\ rc' = [c \in Channels |-> IF c \in claims THEN Replacement(c, due) ELSE rc[c]]
          /\ todo' = trying \cap TokenChannels
          /\ tries' = [c \in Channels |->
                          IF c \in trying THEN tries[c] + 1
                          ELSE IF c \in claims /\ Recovering(c) THEN 0 ELSE tries[c]]
    /\ pc' = "resolving"
    /\ UNCHANGED <<conf, probe, seen, base, touched, bounds>>

\* Mutant of Current: the result of an attempt needs only the same channel.
CurrentConf(c) == conf[c] = base.conf[c]

\* finish_reconnect_attempt: the channel and the attempt are still the same.
Current(c) == /\ conf[c] = base.conf[c]
              /\ rc[c].nonce = NewNonce(base.rc[c])

\* The provider's answer: the same parameters (a pinned server, no better
\* choice) or others, a failure to retry, or one that no retry can mend.
Resolve(c) ==
    /\ pc = "resolving"
    /\ c \in todo
    /\ todo' = todo \ {c}
    /\ \/ /\ \E w \in {conf[c].wg, conf[c].wg + 1} \cap 0..MaxWg :
               conf' = IF Current(c) THEN [conf EXCEPT ![c].wg = w] ELSE conf
          /\ rc' = IF Current(c) THEN [rc EXCEPT ![c] = Attempted(base.rc[c])] ELSE rc
       \/ /\ rc' = IF Current(c) THEN [rc EXCEPT ![c] = Attempted(base.rc[c])] ELSE rc
          /\ UNCHANGED conf
       \/ /\ rc' = IF Current(c)
                   THEN [rc EXCEPT ![c] = [Attempted(base.rc[c]) EXCEPT !.failed = TRUE]]
                   ELSE rc
          /\ UNCHANGED conf
    /\ UNCHANGED <<probe, pc, seen, base, touched, tries, bounds>>

EndPass ==
    /\ pc = "resolving"
    /\ todo = {}
    /\ pc' = "idle"
    /\ UNCHANGED <<store, seen, base, todo, touched, tries, bounds>>

\* The daemon dies, or the pass raises and the next one starts over.
Crash ==
    /\ pc # "idle"
    /\ crashes < MaxCrashes
    /\ crashes' = crashes + 1
    /\ pc' = "idle"
    /\ todo' = {}
    /\ UNCHANGED <<store, seen, base, touched, tries, edits>>

----------------------------------------------------------------------------
(* The others.                                                             *)

Edited == edits < MaxEdits /\ edits' = edits + 1

\* A command's intervention on c: its bookkeeping starts over.
Touch(c) == /\ touched' = touched \cup {c}
            /\ rc' = [rc EXCEPT ![c] = NoRc]
            /\ tries' = [tries EXCEPT ![c] = 0]
            /\ UNCHANGED <<pass, crashes>>

\* A re-import, a new token, a pin or a bundle: other parameters or the same.
Reimport(c) ==
    /\ Edited
    /\ \E w \in {conf[c].wg, conf[c].wg + 1} \cap 0..MaxWg :
         conf' = [conf EXCEPT ![c].wg = w]
    /\ Touch(c)
    /\ UNCHANGED probe

Readd(c) ==
    /\ Edited
    /\ \E w \in {conf[c].wg, conf[c].wg + 1} \cap 0..MaxWg :
         conf' = [conf EXCEPT ![c] = [Fresh EXCEPT !.wg = w]]
    /\ probe' = [probe EXCEPT ![c] = "none"]
    /\ Touch(c)

Disable(c) ==
    /\ Edited
    /\ conf[c].enabled
    /\ conf' = [conf EXCEPT ![c].enabled = FALSE]
    /\ probe' = [probe EXCEPT ![c] = "none"]
    /\ Touch(c)

Enable(c) ==
    /\ Edited
    /\ ~conf[c].enabled
    /\ conf' = [conf EXCEPT ![c].enabled = TRUE]
    /\ touched' = touched \cup {c}
    /\ UNCHANGED <<probe, rc, pass, tries, crashes>>

\* `anyhop restart` clears every channel's dict.
RestartCommand ==
    /\ Edited
    /\ rc' = [c \in Channels |-> NoRc]
    /\ tries' = [c \in Channels |-> 0]
    /\ touched' = Channels
    /\ UNCHANGED <<conf, probe, pass, crashes>>

\* The applier moves a port another program holds, or puts it back.
MovePort(c) ==
    /\ Edited
    /\ \E port \in {"home", "moved"} : conf' = [conf EXCEPT ![c].port = port]
    /\ UNCHANGED <<probe, rc, pass, touched, tries, crashes>>

\* `anyhop test` or the dashboard probes c as well and publishes like a pass: a
\* result for what c was earlier, and no longer is, is dropped.
Test(c) ==
    /\ \E asked \in Fingerprints, out \in {"ok", "bad", "stopped"} :
         /\ asked.enabled
         /\ conf[c] = asked
         /\ probe' = [probe EXCEPT ![c] = out]
    /\ UNCHANGED <<conf, rc, pass, touched, tries, bounds>>

Edits == \/ \E c \in Channels : Reimport(c) \/ Readd(c) \/ Disable(c) \/ Enable(c)
         \/ RestartCommand
         \/ \E c \in Channels : MovePort(c)

Pass == \/ StartPass \/ PublishProbes \/ Snapshot
        \/ \E due \in SUBSET Channels : Claim(due)
        \/ \E c \in Channels : Resolve(c)
        \/ EndPass

Next == Pass \/ Crash \/ Edits \/ \E c \in Channels : Test(c)

\* Passes start every half minute and every request in them has a deadline;
\* back-offs are at most ten minutes, so each channel's comes to an end.
Fairness ==
    /\ WF_vars(Pass)
    /\ \A c \in Channels : SF_vars(\E due \in SUBSET Channels : c \in due /\ Claim(due))

Spec == Init /\ [][Next]_vars
FairSpec == Spec /\ Fairness
----------------------------------------------------------------------------
(* Properties.                                                             *)

\* A disabled channel has no probe result and no reconnect bookkeeping, even
\* when it was disabled in the middle of a pass: nothing dials its provider.
DisabledIsInert ==
    \A c \in Channels : ~conf[c].enabled => probe[c] = "none" /\ rc[c] = NoRc

\* Re-resolved parameters never replace those of a channel that a command has
\* changed since the pass read it.
StaleNeverLands ==
    [][edits' = edits =>
         \A c \in Channels : conf'[c].wg # conf[c].wg => c \notin touched]_vars

\* The counted attempts are those made since the last command or recovery, so
\* only they can make reconnect give a channel up; a crash loses none.
AttemptsAreOwn ==
    \A c \in Channels : /\ rc[c].attempts = tries[c]
                        /\ rc[c].failed => tries[c] > 0

\* A channel that stays enabled and dead is not retried for ever.
Decided ==
    \A c \in Channels :
        <>[](conf[c].enabled /\ probe[c] = "bad") => <>[](rc[c].failed)
=============================================================================
