------------------------------ MODULE SetupOps ------------------------------
(***************************************************************************)
(* The compound setup operations of anyhop: what each of them does to the  *)
(* stored credentials (credentials.yaml) and to the provider entries       *)
(* (state.json).  Pure operators: AtomicSetup applies both effects at      *)
(* once, SetupTxn applies them one file at a time.                         *)
(*                                                                         *)
(* A credential is a token.  A provider entry is Absent, Bare (added, no   *)
(* channel) or the token its channel's WireGuard parameters were derived   *)
(* from: one channel stands for a provider's channels.                     *)
(***************************************************************************)
EXTENDS FiniteSets

CONSTANTS Providers, Tokens, NoToken, Absent, Bare, Kinds

AllKinds == {"add", "update", "remove", "import", "restore", "sync"}

ASSUME ConstantsAssumption ==
    /\ NoToken \notin Tokens
    /\ Absent \notin Tokens
    /\ Bare \notin Tokens
    /\ Absent # Bare
    /\ Kinds \subseteq AllKinds

Creds == [Providers -> Tokens \cup {NoToken}]
Entries == [Providers -> Tokens \cup {Absent, Bare}]

NoCreds == [q \in Providers |-> NoToken]
NoEntries == [q \in Providers |-> Absent]

\* A planned operation: the providers it names and, for each, the credential
\* it will write (NoToken: it leaves the stored one) and the token behind the
\* WireGuard parameters it staged before taking the lock (NoToken: none).
Ops == [kind : Kinds, ps : SUBSET Providers, cred : Creds, wg : Creds]

\* What the operation leaves in credentials.yaml when the file holds c.
CredsAfter(o, c) ==
    [q \in Providers |->
        IF q \in o.ps
        THEN IF o.kind = "remove" THEN NoToken
             ELSE IF o.cred[q] = NoToken THEN c[q] ELSE o.cred[q]
        ELSE IF o.kind = "restore" THEN NoToken ELSE c[q]]

\* The managed providers a boot sync prunes: those its bundle dropped.  One it
\* keeps, for a rule or a hand-made channel, counts as named by the bundle.
Pruned(o, m) == IF o.kind = "sync" THEN m \ o.ps ELSE {}

\* A provider is added once.
Added(e) == IF e = Absent THEN Bare ELSE e

\* A new token refreshes the channels that still exist.
Refreshed(o, q, e) == IF e \in Tokens /\ o.wg[q] \in Tokens THEN o.wg[q] ELSE e

\* A bundle's provider: the channel it stages, else the provider alone.
Upserted(o, q, e) == IF o.wg[q] \in Tokens THEN o.wg[q]
                     ELSE Added(e)

\* A synced provider: as above, but a managed channel that the bundle no longer
\* declares is pruned.
Synced(o, q, e, m) == IF o.wg[q] \in Tokens THEN o.wg[q]
                      ELSE IF q \in m THEN Bare ELSE Added(e)

\* A restored provider owes nothing to what was there.
Restored(o, q) == Upserted(o, q, Absent)

\* What the operation leaves in state.json's providers, from entries e and
\* managed providers m.
EntryAfter(o, e, m) ==
    [q \in Providers |->
        IF q \in Pruned(o, m) THEN Absent
        ELSE IF q \notin o.ps THEN IF o.kind = "restore" THEN Absent ELSE e[q]
        ELSE CASE o.kind = "add" -> Added(e[q])
               [] o.kind = "update" -> Refreshed(o, q, e[q])
               [] o.kind = "remove" -> Absent
               [] o.kind = "import" -> Upserted(o, q, e[q])
               [] o.kind = "sync" -> Synced(o, q, e[q], m)
               [] o.kind = "restore" -> Restored(o, q)]

\* The providers marked "managed": created by a sync and not removed since.
ManagedAfter(o, e, m) ==
    CASE o.kind = "sync" -> (m \cap o.ps) \cup {q \in o.ps : e[q] = Absent}
      [] o.kind = "remove" -> m \ o.ps
      [] o.kind = "restore" -> {}
      [] OTHER -> m
=============================================================================
