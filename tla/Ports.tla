-------------------------------- MODULE Ports --------------------------------
(***************************************************************************)
(* Local proxy ports.  A channel or the router owns a port, either chosen  *)
(* by anyhop or declared by a bundle or a command.  The daemon's reconcile *)
(* binds them all in one sing-box, which dies when one cannot be bound: a  *)
(* port that a foreign process holds is then replaced, if anyhop chose it, *)
(* and taken up again when the holder has gone.                            *)
(***************************************************************************)
EXTENDS Integers, Sequences, FiniteSets, FiniteSetsExt, Functions

CONSTANTS Owners,     \* sequence: channels in sorted order, then the router
          PortSet,    \* positive numbers
          MaxEdits,   \* bound on commands
          MaxForeign  \* bound on ports foreign programs take or leave

VARIABLES own,      \* owner -> [port, explicit, home]; port 0: no such owner
          foreign,  \* ports held by other programs
          live,     \* <<owner, port>> bound by the running sing-box
          rec,      \* the daemon: [at, conf, stolen, held]
          tried,    \* the signature the last reconcile began with
          failed,   \* it failed and is retried on a timer
          edits, outside  \* how many of either there were

vars == <<own, foreign, live, rec, tried, failed, edits, outside>>

OwnerSet == {Owners[i] : i \in DOMAIN Owners}
Absent == [port |-> 0, explicit |-> FALSE, home |-> 0]
Idle == [at |-> "idle", conf |-> {}, stolen |-> {}, held |-> {}]

UsedIn(t) == {t[o].port : o \in OwnerSet} \ {0}
Claimed(t) == {<<o, t[o].port>> : o \in {x \in OwnerSet : t[x].port # 0}}
Bound == foreign \cup {b[2] : b \in live}
\* _next_free_port: unclaimed and, to the operating system, free now.
Free(t) == PortSet \ (UsedIn(t) \cup Bound)

Init ==
  /\ own = [o \in OwnerSet |-> Absent]
  /\ foreign = {} /\ live = {}
  /\ rec = Idle
  /\ tried = <<{}, 0>> /\ failed = FALSE
  /\ edits = 0 /\ outside = 0
---------------------------------------------------------------------------
(* Commands, each one transaction *)

Edit(o, entry) ==
  /\ edits < MaxEdits
  /\ edits' = edits + 1
  /\ own' = [own EXCEPT ![o] = entry]
  /\ UNCHANGED <<foreign, live, rec, tried, failed, outside>>

\* _claim_port refuses a port some other owner has.
Claimable(o, p) == p \notin UsedIn([own EXCEPT ![o] = Absent])

AddAutomatic(o) ==
  \E p \in Free(own) :
    own[o] = Absent /\ Edit(o, [port |-> p, explicit |-> FALSE, home |-> 0])

\* add, upsert, merge, sync or restore with a declared port.
Declare(o, p) ==
  /\ Claimable(o, p)
  /\ Edit(o, [own[o] EXCEPT !.port = p, !.explicit = TRUE])

\* A sync whose bundle no longer declares the port.
Undeclare(o) == own[o].explicit /\ Edit(o, [own[o] EXCEPT !.explicit = FALSE])

Remove(o) == own[o] # Absent /\ Edit(o, Absent)

Outside == outside < MaxForeign /\ outside' = outside + 1

ForeignTakes(p) ==
  /\ Outside
  /\ p \notin Bound
  /\ foreign' = foreign \cup {p}
  /\ UNCHANGED <<own, live, rec, tried, failed, edits>>

ForeignLeaves(p) ==
  /\ Outside
  /\ p \in foreign
  /\ foreign' = foreign \ {p}
  /\ UNCHANGED <<own, live, rec, tried, failed, edits>>
---------------------------------------------------------------------------
(* Engine.reconcile *)

\* Edits are numbered: that the signature misses an edit undone between two
\* reads is Applier's subject.
Signature == <<Claimed(own), edits>>

Begin ==
  /\ rec.at = "idle"
  /\ tried # Signature \/ failed
  /\ rec' = [Idle EXCEPT !.at = "restore"]
  /\ tried' = Signature /\ failed' = FALSE
  /\ UNCHANGED <<own, foreign, live, edits, outside>>

GoesHomeClaimed(t, o) ==
  /\ t[o].port # 0 /\ ~t[o].explicit
  /\ t[o].home \notin {0, t[o].port} \cup Bound

GoesHomeHeld(t, o) ==
  /\ t[o].port # 0 /\ ~t[o].explicit
  /\ t[o].home \notin {0} \cup UsedIn(t)

GoesHome(t, o) ==
  /\ t[o].port # 0 /\ ~t[o].explicit
  /\ t[o].home \notin {0} \cup UsedIn(t) \cup Bound

\* restore_home_ports, one owner after the other in one transaction.
Sent(t, o) == IF GoesHome(t, o) THEN [t EXCEPT ![o].port = t[o].home] ELSE t
HomedUpTo[n \in 0..Len(Owners)] == IF n = 0 THEN own ELSE Sent(HomedUpTo[n - 1], Owners[n])
Homed == HomedUpTo[Len(Owners)]

RestoreHome ==
  /\ rec.at = "restore"
  /\ own' = Homed
  /\ rec' = [rec EXCEPT !.at = "apply", !.conf = Claimed(own')]
  /\ UNCHANGED <<foreign, live, tried, failed, edits, outside>>

Conflicts == {b[2] : b \in rec.conf} \cap foreign

\* Inbounds are bound in the order of the config; the first that fails is the
\* one sing-box names before it exits.
FirstConflict ==
  LET blocked == {i \in DOMAIN Owners : \E p \in Conflicts : <<Owners[i], p>> \in rec.conf}
      first == Owners[Min(blocked)]
  IN  {b[2] : b \in {c \in rec.conf : c[1] = first}}

\* Runner.apply; reconcile first repeats the same config a few times.
Apply ==
  /\ rec.at \in {"apply", "again"}
  /\ IF Conflicts = {}
     THEN live' = rec.conf /\ rec' = [Idle EXCEPT !.held = rec.held] /\ failed' = FALSE
     ELSE /\ live' = {}
          /\ \/ rec' = rec /\ failed' = failed
             \/ rec.at = "again" /\ rec' = Idle /\ failed' = TRUE
             \/ /\ rec.at = "apply"
                /\ rec' = [rec EXCEPT !.at = "holders", !.stolen = FirstConflict]
                /\ failed' = failed
  /\ UNCHANGED <<own, foreign, tried, edits, outside>>

\* port_holder, per port.  A listener that is gone is not foreign, and a
\* failed lookup says nothing.
Identified ==
  /\ rec.at = "holders"
  /\ rec.stolen \cap foreign # {}
  /\ rec' = [rec EXCEPT !.at = "move", !.stolen = @ \cap foreign]
  /\ UNCHANGED <<own, foreign, live, tried, failed, edits, outside>>

Unidentified ==
  /\ rec.at = "holders"
  /\ rec' = Idle /\ failed' = TRUE
  /\ UNCHANGED <<own, foreign, live, tried, edits, outside>>

HitBy(t, stolen) == {o \in OwnerSet : t[o].port # 0 /\ t[o].port \in stolen}
Moves(stolen) == {o \in HitBy(own, stolen) : ~own[o].explicit}
HomeOf(o) == IF own[o].home = 0 THEN own[o].port ELSE own[o].home

\* reallocate_channel_ports, then the config is built again without the
\* declared owners whose port is held.
Reallocate ==
  /\ rec.at = "move"
  /\ \E new \in [Moves(rec.stolen) -> Free(own)] :
       /\ IsInjective(new)
       /\ own' = [o \in OwnerSet |->
                    IF o \in Moves(rec.stolen)
                    THEN [own[o] EXCEPT !.port = new[o], !.home = HomeOf(o)] ELSE own[o]]
  /\ LET held == {own[o].port : o \in HitBy(own, rec.stolen) \ Moves(rec.stolen)}
     IN  rec' = [rec EXCEPT !.at = "again",
                            !.conf = {b \in Claimed(own') : b[2] \notin held},
                            !.held = held]
  /\ UNCHANGED <<foreign, live, tried, failed, edits, outside>>

\* No port is left to move to: the error ends this reconcile.
NoFreePort ==
  /\ rec.at = "move"
  /\ Cardinality(Moves(rec.stolen)) > Cardinality(Free(own))
  /\ rec' = Idle /\ failed' = TRUE
  /\ UNCHANGED <<own, foreign, live, tried, edits, outside>>

Commands ==
  \/ \E o \in OwnerSet : AddAutomatic(o) \/ Undeclare(o) \/ Remove(o) \/ \E p \in PortSet : Declare(o, p)
  \/ \E p \in PortSet : ForeignTakes(p) \/ ForeignLeaves(p)
Reconcile ==
  Begin \/ RestoreHome \/ Apply \/ Identified \/ Unidentified \/ Reallocate \/ NoFreePort
Next == Commands \/ Reconcile

\* The daemon's loop goes on, bind retries are finite, and a holder that stays
\* is identified in the end.
Fairness ==
  /\ WF_vars(Begin \/ RestoreHome \/ Reallocate \/ NoFreePort \/ Unidentified)
  /\ SF_vars(Apply /\ rec' # rec)
  /\ SF_vars(Identified)
Spec == Init /\ [][Next]_vars /\ Fairness
---------------------------------------------------------------------------
(* Properties *)

\* No port has two owners, whichever of them were renumbered, sent home,
\* declared or removed in between.
UniqueOwners ==
  \A o, q \in OwnerSet : o # q /\ own[o].port # 0 => own[o].port # own[q].port

\* Owners whose port somebody else holds.
Held == {o \in OwnerSet : own[o].port \in foreign}

\* Declared owners left out of sing-box for a holder that has gone since: the
\* daemon's signature is the same, so nothing binds them (daemon.py:675), although
\* they stay degraded only "until you free the port" (engine.py:697).
Stranded == {o \in OwnerSet : own[o].explicit /\ own[o].port \in rec.held \ foreign}

\* Port recovery comes to rest: when edits and foreign programs stop, no owner
\* is moved to and fro for ever, and sing-box runs all stored ports nobody else
\* holds now, but for the stranded ones.  A declared port that is held costs its
\* owner alone, if it is the only one held.
Settles ==
  <>[]((\A o \in Held : ~own[o].explicit) \/ Cardinality(Held) = 1)
    => <>[](\/ live = {b \in Claimed(own) : b[2] \notin foreign /\ b[1] \notin Stranded}
            \/ Free(own) = {})
=============================================================================
