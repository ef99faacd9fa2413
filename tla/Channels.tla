------------------------------ MODULE Channels ------------------------------
(***************************************************************************)
(* The channel commands of the service layer.  Each loads the state,       *)
(* plans, asks the provider for a server where it needs one, which takes   *)
(* long, and commits in a transaction that may or may not check that the   *)
(* channel is still the one it planned for.  Rules that block a removal    *)
(* are RuleTable's.                                                        *)
(***************************************************************************)
EXTENDS FiniteSets

CONSTANTS Slots,     \* channel ids
          ConfSlots, \* a subset: those of a provider whose channels are .conf files
          Servers,
          Jobs       \* commands and daemon passes, each runs once

VARIABLES entry, \* id -> Absent or [pin, wg, on]
          job,   \* job -> [kind, at, id, pin, rev, read, got]
          stale  \* history: ids written by parameters resolved for another intent

vars == <<entry, job, stale>>

None == "none"
Absent == [pin |-> None, wg |-> None, on |-> FALSE, is |-> FALSE]
Made(pin, wg, on) == [pin |-> pin, wg |-> wg, on |-> on, is |-> TRUE]
Unresolved == [s \in Slots |-> None]
Waiting == [kind |-> None, at |-> "ready", id |-> None, pin |-> None, rev |-> FALSE,
            read |-> [s \in Slots |-> Absent], got |-> Unresolved]
Done(j) == [Waiting EXCEPT !.at = "done", !.kind = job[j].kind]
Goto(j, at) == job' = [job EXCEPT ![j].at = at]
Finish(j) == job' = [job EXCEPT ![j] = Done(j)]

Init ==
  /\ \E s \in Slots, pin \in Servers \cup {None}, wg \in Servers \cup {None}, on \in BOOLEAN :
       /\ pin # None /\ wg # None => pin = wg
       /\ on => wg # None
       /\ s \in ConfSlots => pin = None
       /\ entry = [t \in Slots |-> IF t = s THEN Made(pin, wg, on) ELSE Absent]
  /\ job = [j \in Jobs |-> Waiting]
  /\ stale = {}
---------------------------------------------------------------------------
(* Planning: the state the command loads, its checks and what it needs *)

ServerFree(store, server, s) ==
  \A t \in Slots \ {s} : store[t].is => server \notin {store[t].pin, store[t].wg}
\* _next_id: the first number that is not taken.
NextId == CHOOSE s \in Slots \ ConfSlots : ~entry[s].is
NeedsServerNever(c) == FALSE
NeedsServer(c) == c.wg = None

Plan(j, kind, s, pin, rev, at) ==
  /\ job[j].at = "ready"
  /\ job' = [job EXCEPT ![j] = [Waiting EXCEPT !.kind = kind, !.at = at, !.id = s, !.pin = pin,
                                               !.rev = rev, !.read = entry]]
  /\ UNCHANGED <<entry, stale>>

\* An add names no slot: it gets the next free one as it commits.
ChannelAdd(j) == \E s \in Slots \ ConfSlots : ~entry[s].is /\ Plan(j, "add", s, None, FALSE, "resolve")
ChannelAddPinned(j) ==
  \E server \in Servers :
    /\ \E s \in Slots \ ConfSlots : ~entry[s].is /\ ServerFree(entry, server, s)
                                    /\ Plan(j, "add", s, server, FALSE, "resolve")
ImportConf(j) == \E s \in ConfSlots : Plan(j, "conf", s, None, FALSE, "commit")
SetServer(j) ==
  \E s \in Slots \ ConfSlots, server \in Servers, rev \in BOOLEAN :
    /\ entry[s].is /\ entry[s].pin # server /\ ServerFree(entry, server, s)
    /\ Plan(j, "pin", s, server, rev, "resolve")
SetServerAuto(j) ==
  \E s \in Slots, rev \in BOOLEAN :
    /\ entry[s].is /\ entry[s].pin # None
    /\ Plan(j, "unpin", s, None, rev, "commit")
Enable(j) ==
  \E s \in Slots, rev \in BOOLEAN :
    /\ entry[s].is /\ ~entry[s].on
    /\ NeedsServer(entry[s]) => s \notin ConfSlots
    /\ Plan(j, "enable", s, None, rev, IF NeedsServer(entry[s]) THEN "resolve" ELSE "commit")
Disable(j) ==
  \E s \in Slots, rev \in BOOLEAN :
    entry[s].is /\ entry[s].on /\ Plan(j, "disable", s, None, rev, "commit")
RemoveChannel(j) == \E s \in Slots : entry[s].is /\ Plan(j, "remove", s, None, FALSE, "commit")
UpdateToken(j) == Plan(j, "token", None, None, FALSE, "resolve")
Reconnect(j) == \E s \in Slots \ ConfSlots : entry[s].on /\ Plan(j, "reconnect", s, None, TRUE, "resolve")

\* The channels a job resolves, and the servers the provider may answer for one:
\* the pinned one, or for a channel without a pin any, to a reconnect another one.
Resolves(j) == IF job[j].kind = "token" THEN {s \in Slots \ ConfSlots : job[j].read[s].is} ELSE {job[j].id}
Wanted(j, s) == IF job[j].pin # None THEN {job[j].pin}
                ELSE IF job[j].read[s].pin # None THEN {job[j].read[s].pin}
                ELSE IF job[j].kind = "reconnect" THEN Servers \ {job[j].read[s].wg} ELSE Servers

\* A token update leaves the channels the provider fails out; the others give up.
Resolve(j) ==
  /\ job[j].at = "resolve"
  /\ \E got \in [Slots -> Servers \cup {None}] :
       /\ \A s \in Slots : got[s] \in IF s \in Resolves(j) THEN Wanted(j, s) \cup {None} ELSE {None}
       /\ job' = [job EXCEPT ![j] =
            IF job[j].kind # "token" /\ got[job[j].id] = None THEN Done(j)
            ELSE [job[j] EXCEPT !.got = got,
                                !.at = IF job[j].kind = "enable" THEN "params" ELSE "commit"]]
  /\ UNCHANGED <<entry, stale>>
---------------------------------------------------------------------------
(* Commits *)

\* _require_revision, and the fingerprint of a reconnect.
PlannedAnyway(j) == TRUE
Planned(j) == LET s == job[j].id IN job[j].read[s] = entry[s]
Allowed(j) == job[j].rev => Planned(j)
Conflict(j) ==
  /\ job[j].at \in {"params", "commit"} /\ ~Allowed(j)
  /\ Finish(j)
  /\ UNCHANGED <<entry, stale>>
Commits(j, kind) == job[j].kind = kind /\ job[j].at = "commit" /\ Allowed(j)
Vanished(j, kinds) ==
  /\ job[j].kind \in kinds /\ job[j].at \in {"params", "commit"} /\ Allowed(j)
  /\ ~entry[job[j].id].is
  /\ Finish(j)
  /\ UNCHANGED <<entry, stale>>

Created(s) == stale' = stale \ {s}

CommitAdd(j) ==
  /\ Commits(j, "add")
  /\ \E s \in Slots \ ConfSlots : ~entry[s].is
  /\ entry' = [entry EXCEPT ![NextId] = Made(job[j].pin, job[j].got[job[j].id], TRUE)]
  /\ Finish(j)
  /\ Created(NextId)
\* upsert_channel: a known id gets the file's parameters and stays as it was.
CommitConf(j) ==
  LET s == job[j].id IN
  /\ Commits(j, "conf")
  /\ \E wg \in Servers : entry' = [entry EXCEPT ![s] = Made(None, wg, IF entry[s].is THEN entry[s].on ELSE TRUE)]
  /\ Finish(j)
  /\ Created(s)
CommitPin(j) ==
  LET s == job[j].id IN
  /\ Commits(j, "pin") /\ entry[s].is
  /\ entry' = [entry EXCEPT ![s].pin = job[j].pin, ![s].wg = job[j].got[s]]
  /\ stale' = stale \ {s}
  /\ Finish(j)
CommitUnpin(j) ==
  LET s == job[j].id IN
  /\ Commits(j, "unpin") /\ entry[s].is
  /\ entry' = [entry EXCEPT ![s].pin = None]
  /\ Finish(j) /\ UNCHANGED stale

\* The parameters land whatever became of the pin since: the history notes it.
Rewritten(j, ss) ==
  /\ entry' = [s \in Slots |-> IF s \in ss THEN [entry[s] EXCEPT !.wg = job[j].got[s]] ELSE entry[s]]
  /\ stale' = stale \cup {s \in ss : ~job[j].rev /\ job[j].read[s].pin # entry[s].pin}
CommitToken(j) ==
  /\ Commits(j, "token")
  /\ Rewritten(j, {s \in Slots : job[j].got[s] # None /\ entry[s].is})
  /\ Finish(j)
CommitReconnect(j) ==
  /\ Commits(j, "reconnect") /\ entry[job[j].id].is
  /\ Rewritten(j, {job[j].id})
  /\ Finish(j)

\* An enable first stores the parameters it resolved ...
CommitParams(j) ==
  /\ job[j].at = "params" /\ Allowed(j)
  /\ entry[job[j].id].is
  /\ Rewritten(j, {job[j].id})
  /\ Goto(j, "reread")
\* ... then reads the state again: its own write, or somebody's after it ...
Reread(j) ==
  /\ job[j].at = "reread"
  /\ job' = [job EXCEPT ![j].at = "commit", ![j].read = entry]
  /\ UNCHANGED <<entry, stale>>
\* ... and turns the channel on, planned with parameters it may have lost since.
CommitEnable(j) ==
  LET s == job[j].id IN
  /\ Commits(j, "enable") /\ entry[s].is
  /\ entry' = [entry EXCEPT ![s].on = TRUE]
  /\ stale' = IF entry[s].wg = None /\ (job[j].got[s] # None \/ job[j].read[s].wg # None)
              THEN stale \cup {s} ELSE stale
  /\ Finish(j)
CommitDisable(j) ==
  LET s == job[j].id IN
  /\ Commits(j, "disable") /\ entry[s].is
  /\ entry' = [entry EXCEPT ![s].on = FALSE]
  /\ Finish(j) /\ UNCHANGED stale
CommitRemove(j) ==
  LET s == job[j].id IN
  /\ Commits(j, "remove") /\ entry[s].is
  /\ entry' = [entry EXCEPT ![s] = Absent]
  /\ stale' = stale \ {s}
  /\ Finish(j)

\* A bundle brings a channel without parameters, turned off.
Import(s, pin) ==
  /\ s \notin ConfSlots /\ ~entry[s].is
  /\ entry' = [entry EXCEPT ![s] = Made(pin, None, FALSE)]
  /\ stale' = stale \ {s}
  /\ UNCHANGED job
---------------------------------------------------------------------------
Plans(j) ==
  \/ ChannelAdd(j) \/ ChannelAddPinned(j) \/ ImportConf(j) \/ SetServer(j) \/ SetServerAuto(j)
  \/ Enable(j) \/ Disable(j) \/ RemoveChannel(j) \/ UpdateToken(j) \/ Reconnect(j)
CommitSteps(j) ==
  \/ CommitAdd(j) \/ CommitConf(j) \/ CommitPin(j) \/ CommitUnpin(j) \/ CommitToken(j)
  \/ CommitReconnect(j) \/ CommitParams(j) \/ CommitEnable(j) \/ CommitDisable(j) \/ CommitRemove(j)
JobSteps(j) ==
  \/ Plans(j) \/ Resolve(j) \/ Conflict(j)
  \/ Vanished(j, {"pin", "unpin", "enable", "disable", "remove", "reconnect"})
  \/ CommitSteps(j) \/ Reread(j)
Next ==
  \/ \E j \in Jobs : JobSteps(j)
  \/ \E s \in Slots, pin \in Servers \cup {None} : Import(s, pin)
Spec == Init /\ [][Next]_vars
---------------------------------------------------------------------------
(* Properties *)

\* A pinned channel's parameters are its server's, whatever commands and
\* reconnects overlapped: the pin and its parameters are written together, and
\* parameters resolved for a channel that was re-pinned since are refused.
\* Those a token update or an enable without a revision writes are not, and are
\* excepted ("A pinned channel stays on that server", docs/cli-reference.md:234).
PinHolds == \A s \in Slots \ stale : entry[s].pin # None => entry[s].wg \in {entry[s].pin, None}

\* An enabled channel has parameters to run with, except one that lost them
\* between the plan of its enable and the commit.
EnabledHasParams == \A s \in Slots \ stale : entry[s].on => entry[s].wg # None
=============================================================================
