------------------------------ MODULE SetupTxn ------------------------------
(***************************************************************************)
(* anyhop's cross-file setup transaction (txn.py) run by several           *)
(* processes: the CLI, the daemon's API threads and a starting daemon.     *)
(*                                                                         *)
(* credentials.yaml and state.json have no common transaction.  An         *)
(* operation takes setup.lock, heals a crashed predecessor, journals the   *)
(* credentials, stages the new ones and then writes state.json, stamped    *)
(* with its transaction id: that write is the commit point.  Every file    *)
(* access is one step, and a process may die, or be left by an I/O error   *)
(* nobody catches, between any two.                                        *)
(*                                                                         *)
(* An operation is planned from the files BEFORE it takes the lock, as in  *)
(* the code: validation and the provider's API are asked in between.       *)
(***************************************************************************)
EXTENDS SetupOps, Naturals

CONSTANTS Procs, Free, NoJournal, NoOp,
          MaxTxns,       \* bound: journals ever written
          UnreadableJournal  \* TRUE: the journal may be unreadable or damaged

ASSUME ProtocolAssumption ==
    /\ Free \notin Procs
    /\ MaxTxns \in Nat
    /\ UnreadableJournal \in BOOLEAN
    /\ NoOp \notin Ops
    /\ NoJournal \notin [id : Nat, creds : Creds]

VARIABLES
    creds,    \* credentials.yaml
    entry,    \* state.json: providers
    managed,  \* state.json: providers a sync owns
    stamp,    \* state.json: _setup_commit, 0 when never stamped
    journal,  \* setup-journal.json
    lock,     \* setup.lock
    lastId,   \* transaction ids are unique; this is the last one drawn
    pc, op, snap, id, gone  \* per process: step, operation, locals

files == <<creds, entry, managed, stamp, journal>>
locals == <<op, snap, id, gone>>
vars == <<creds, entry, managed, stamp, journal, lock, lastId, pc, op, snap, id, gone>>

Steps == {"idle", "waiting", "locked", "rollback", "rolled", "recovered",
          "snapped", "open", "staged", "written", "aborting", "undone",
          "closed", "syncing", "pruning"}

\* The steps taken with setup.lock held.
Critical == Steps \ {"idle", "waiting", "syncing", "pruning"}

Journals == [id : Nat, creds : Creds]

TypeOK ==
    /\ creds \in Creds
    /\ entry \in Entries
    /\ managed \subseteq Providers
    /\ stamp \in Nat
    /\ journal \in Journals \cup {NoJournal}
    /\ lock \in Procs \cup {Free}
    /\ lastId \in Nat
    /\ pc \in [Procs -> Steps]
    /\ op \in [Procs -> Ops \cup {NoOp}]
    /\ snap \in [Procs -> Creds]
    /\ id \in [Procs -> Nat]
    /\ gone \in [Procs -> SUBSET Providers]

Init ==
    /\ creds = NoCreds
    /\ entry = NoEntries
    /\ managed = {}
    /\ stamp = 0
    /\ journal = NoJournal
    /\ lock = Free
    /\ lastId = 0
    /\ pc = [p \in Procs |-> "idle"]
    /\ op = [p \in Procs |-> NoOp]
    /\ snap = [p \in Procs |-> NoCreds]
    /\ id = [p \in Procs |-> 0]
    /\ gone = [p \in Procs |-> {}]

Goto(p, l) == pc' = [pc EXCEPT ![p] = l]

\* The process is done with its operation and forgets its locals.
Forgets(p) == /\ Goto(p, "idle")
              /\ op' = [op EXCEPT ![p] = NoOp]
              /\ snap' = [snap EXCEPT ![p] = NoCreds]
              /\ id' = [id EXCEPT ![p] = 0]
              /\ gone' = [gone EXCEPT ![p] = {}]

----------------------------------------------------------------------------
(* Planning: reads without the lock.                                       *)

\* The WireGuard parameters a bundle stages for provider q: none when it
\* declares no channel, those of the existing channel when it is kept, fresh
\* ones from the bundle's token or, without one, from the stored one.
Stageable(q, tok) ==
    {NoToken} \cup ({entry[q]} \cap Tokens)
              \cup (IF tok = NoToken THEN {creds[q]} ELSE {tok})

AddAdmitted(o) ==
    \E q \in Providers : /\ o.ps = {q}
                         /\ entry[q] = Absent
                         /\ o.cred[q] \in Tokens
                         /\ o.wg[q] = NoToken

\* A replaced token differs from the stored one; channels it cannot resolve
\* keep their parameters.
UpdateAdmitted(o) ==
    \E q \in Providers : /\ o.ps = {q}
                         /\ entry[q] # Absent
                         /\ o.cred[q] \in Tokens \ {creds[q]}
                         /\ o.wg[q] # NoToken =>
                              entry[q] \in Tokens /\ o.wg[q] = o.cred[q]

RemoveAdmitted(o) ==
    /\ o.ps # {}
    /\ \A q \in o.ps :
         entry[q] # Absent /\ o.cred[q] = NoToken /\ o.wg[q] = NoToken

\* A bundle writes a credential only when it differs from the stored one; a
\* provider for which it writes none has one stored.
BundleAdmitted(o) ==
    \A q \in o.ps : o.cred[q] # creds[q] /\ o.wg[q] \in Stageable(q, o.cred[q])

\* A restored bundle brings all its credentials.
RestoreAdmitted(o) ==
    \A q \in o.ps : o.cred[q] \in Tokens /\ o.wg[q] \in Stageable(q, o.cred[q])

\* What each command checks against the files before it starts.
Admitted(o) ==
    /\ \A q \in Providers \ o.ps : o.wg[q] = NoToken /\ o.cred[q] = NoToken
    /\ CASE o.kind = "add" -> AddAdmitted(o)
         [] o.kind = "update" -> UpdateAdmitted(o)
         [] o.kind = "remove" -> RemoveAdmitted(o)
         [] o.kind \in {"import", "sync"} -> BundleAdmitted(o)
         [] o.kind = "restore" -> RestoreAdmitted(o)

\* A sync that plans no credential writes state.json and nothing else.
SyncsStateOnly(o) == o.kind = "sync" /\ o.cred = NoCreds

Plan(p, o) ==
    /\ pc[p] = "idle"
    /\ Admitted(o)
    /\ op' = [op EXCEPT ![p] = o]
    /\ Goto(p, IF SyncsStateOnly(o) THEN "syncing" ELSE "waiting")
    /\ UNCHANGED <<files, lock, lastId, snap, id, gone>>

\* A starting daemon only heals.
PlanRecover(p) ==
    /\ pc[p] = "idle"
    /\ Goto(p, "waiting")
    /\ UNCHANGED <<files, lock, lastId, locals>>

----------------------------------------------------------------------------
(* The transaction.                                                        *)

\* Mutant of Acquire: the lock is not waited for.
AcquireAnyway(p) ==
    /\ pc[p] = "waiting"
    /\ lock' = p
    /\ Goto(p, "locked")
    /\ UNCHANGED <<files, lastId, locals>>

Acquire(p) ==
    /\ pc[p] = "waiting"
    /\ lock = Free
    /\ lock' = p
    /\ Goto(p, "locked")
    /\ UNCHANGED <<files, lastId, locals>>

\* Mutant of RecoverNothing: any journal is dropped, committed or not.
RecoverForgets(p) ==
    /\ pc[p] = "locked"
    /\ journal' = NoJournal
    /\ Goto(p, "recovered")
    /\ UNCHANGED <<creds, entry, managed, stamp, lock, lastId, locals>>

\* Nothing to heal, or a journal whose operation did commit.
RecoverNothing(p) ==
    /\ pc[p] = "locked"
    /\ \/ journal = NoJournal
       \/ journal # NoJournal /\ journal.id = stamp
    /\ journal' = NoJournal
    /\ Goto(p, "recovered")
    /\ UNCHANGED <<creds, entry, managed, stamp, lock, lastId, locals>>

\* The journal cannot be read, or is damaged and set aside: recovery is
\* skipped and the caller goes on.
RecoverSkipped(p) ==
    /\ pc[p] = "locked"
    /\ UnreadableJournal
    /\ journal # NoJournal
    /\ journal' \in {journal, NoJournal}
    /\ Goto(p, "recovered")
    /\ UNCHANGED <<creds, entry, managed, stamp, lock, lastId, locals>>

RecoverUncommitted(p) ==
    /\ pc[p] = "locked"
    /\ journal # NoJournal
    /\ journal.id # stamp
    /\ Goto(p, "rollback")
    /\ UNCHANGED <<files, lock, lastId, locals>>

\* Mutant of RollBack: the journal itself is written back, not its credentials.
RollBackWhole(p) ==
    /\ pc[p] = "rollback"
    /\ creds' = journal
    /\ Goto(p, "rolled")
    /\ UNCHANGED <<entry, managed, stamp, journal, lock, lastId, locals>>

\* Mutant of RollBack: the credentials stay as the crash left them.
RollBackNothing(p) ==
    /\ pc[p] = "rollback"
    /\ Goto(p, "rolled")
    /\ UNCHANGED <<files, lock, lastId, locals>>

RollBack(p) ==
    /\ pc[p] = "rollback"
    /\ creds' = journal.creds
    /\ Goto(p, "rolled")
    /\ UNCHANGED <<entry, managed, stamp, journal, lock, lastId, locals>>

RollBackDone(p) ==
    /\ pc[p] = "rolled"
    /\ journal' = NoJournal
    /\ Goto(p, "recovered")
    /\ UNCHANGED <<creds, entry, managed, stamp, lock, lastId, locals>>

RecoverOnly(p) ==
    /\ pc[p] = "recovered"
    /\ op[p] = NoOp
    /\ Goto(p, "idle")
    /\ lock' = Free
    /\ UNCHANGED <<files, lastId, locals>>

Snapshot(p) ==
    /\ pc[p] = "recovered"
    /\ op[p] # NoOp
    /\ lastId < MaxTxns
    /\ snap' = [snap EXCEPT ![p] = creds]
    /\ lastId' = lastId + 1
    /\ id' = [id EXCEPT ![p] = lastId']
    /\ Goto(p, "snapped")
    /\ UNCHANGED <<files, lock, op, gone>>

WriteJournal(p) ==
    /\ pc[p] = "snapped"
    /\ journal' = [id |-> id[p], creds |-> snap[p]]
    /\ Goto(p, "open")
    /\ UNCHANGED <<creds, entry, managed, stamp, lock, lastId, locals>>

StageCredentials(p) ==
    /\ pc[p] = "open"
    /\ creds' = CredsAfter(op[p], creds)
    /\ Goto(p, "staged")
    /\ UNCHANGED <<entry, managed, stamp, journal, lock, lastId, locals>>

\* The commit point: entries and stamp in one atomic replacement.
WriteState(p) ==
    /\ pc[p] = "staged"
    /\ entry' = EntryAfter(op[p], entry, managed)
    /\ managed' = ManagedAfter(op[p], entry, managed)
    /\ stamp' = id[p]
    /\ gone' = [gone EXCEPT ![p] = {q \in Pruned(op[p], managed) : entry[q] # Absent}]
    /\ Goto(p, "written")
    /\ UNCHANGED <<creds, journal, lock, lastId, op, snap, id>>

\* The body raises: a referenced channel, a taken port, an unreadable or
\* unwritable file, before the state is replaced or right after it.
Fail(p) ==
    /\ pc[p] \in {"open", "staged", "written"}
    /\ Goto(p, "aborting")
    /\ UNCHANGED <<files, lock, lastId, locals>>

CommitDone(p) ==
    /\ pc[p] = "written"
    /\ journal' = NoJournal
    /\ Goto(p, "closed")
    /\ UNCHANGED <<creds, entry, managed, stamp, lock, lastId, locals>>

\* Mutant of Abort: the handler does not ask whether the stamp is there.
AbortBlindly(p) ==
    /\ pc[p] = "aborting"
    /\ creds' = snap[p]
    /\ Goto(p, "undone")
    /\ UNCHANGED <<entry, managed, stamp, journal, lock, lastId, locals>>

\* The exception handler: credentials go back unless the stamp is there.
Abort(p) ==
    /\ pc[p] = "aborting"
    /\ creds' = IF stamp = id[p] THEN creds ELSE snap[p]
    /\ Goto(p, "undone")
    /\ UNCHANGED <<entry, managed, stamp, journal, lock, lastId, locals>>

AbortDone(p) ==
    /\ pc[p] = "undone"
    /\ journal' = NoJournal
    /\ Goto(p, "closed")
    /\ UNCHANGED <<creds, entry, managed, stamp, lock, lastId, locals>>

Release(p) ==
    /\ pc[p] = "closed"
    /\ lock' = Free
    /\ IF gone[p] = {} THEN Forgets(p)
                       ELSE Goto(p, "pruning") /\ UNCHANGED locals
    /\ UNCHANGED <<files, lastId>>

----------------------------------------------------------------------------
(* The boot sync's steps outside setup.lock.                               *)

SyncState(p) ==
    /\ pc[p] = "syncing"
    /\ entry' = EntryAfter(op[p], entry, managed)
    /\ managed' = ManagedAfter(op[p], entry, managed)
    /\ gone' = [gone EXCEPT ![p] = {q \in Pruned(op[p], managed) : entry[q] # Absent}]
    /\ Goto(p, "pruning")
    /\ UNCHANGED <<creds, stamp, journal, lock, lastId, op, snap, id>>

\* The credentials of the providers the sync pruned, whatever happened since.
PruneCredentials(p) ==
    /\ pc[p] = "pruning"
    /\ creds' = [q \in Providers |-> IF q \in gone[p] THEN NoToken ELSE creds[q]]
    /\ Forgets(p)
    /\ UNCHANGED <<entry, managed, stamp, journal, lock, lastId>>

----------------------------------------------------------------------------
\* The process dies or an I/O error escapes: flock releases, files stay.
Crash(p) ==
    /\ pc[p] # "idle"
    /\ lock' = IF lock = p THEN Free ELSE lock
    /\ Forgets(p)
    /\ UNCHANGED <<files, lastId>>

Transaction(p) ==
    \/ Acquire(p) \/ RecoverNothing(p) \/ RecoverSkipped(p) \/ RecoverUncommitted(p)
    \/ RollBack(p) \/ RollBackDone(p) \/ RecoverOnly(p)
    \/ Snapshot(p) \/ WriteJournal(p) \/ StageCredentials(p) \/ WriteState(p)
    \/ CommitDone(p) \/ Fail(p) \/ Abort(p) \/ AbortDone(p) \/ Release(p)

Next == \E p \in Procs :
            \/ \E o \in Ops : Plan(p, o)
            \/ PlanRecover(p)
            \/ Transaction(p)
            \/ SyncState(p)
            \/ PruneCredentials(p)
            \/ Crash(p)

Spec == Init /\ [][Next]_vars
----------------------------------------------------------------------------
(* Properties.                                                             *)

\* The credentials as the next recovery would leave them: the journalled ones
\* until the stamp says that the journal's operation committed.
Effective == IF journal = NoJournal THEN creds
             ELSE IF journal.id = stamp THEN creds ELSE journal.creds

Abstract == INSTANCE AtomicSetup WITH creds <- Effective

\* Both files change together or not at all, whatever crashes and fails
\* (txn.py: "This module makes those compounds all-or-nothing").
Atomic == Abstract!Spec

\* Once state.json carries an operation's stamp nobody undoes the credentials
\* that operation staged, even when journals cannot be read: until its journal
\* is gone they only lose those of providers that are no longer added.
CommittedCredentialsStay ==
    [][journal # NoJournal /\ journal.id = stamp =>
         \A q \in Providers :
            creds'[q] = creds[q] \/ (entry[q] = Absent /\ creds'[q] = NoToken)]_vars

\* A provider that is added has a credential, at every instant and after any
\* crash: a provider entry never becomes durable before its credential.
ProviderHasCredential ==
    \A q \in Providers : entry[q] # Absent => Effective[q] # NoToken
=============================================================================
