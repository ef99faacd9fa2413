--------------------------- MODULE SetupTxnProofs ---------------------------
(***************************************************************************)
(* SetupTxn implements AtomicSetup for every number of processes,          *)
(* providers, tokens and transactions, as long as every writer takes       *)
(* setup.lock (no boot sync) and the journal can be read.                  *)
(***************************************************************************)
EXTENDS SetupTxn, TLAPS

Disciplined == "sync" \notin Kinds /\ UnreadableJournal = FALSE

\* The journal of the transaction p is running.
Journalled(p) == journal = [id |-> id[p], creds |-> snap[p]]

\* Where the files stand at each step of the lock's holder.
Progress(p) ==
    /\ pc[p] \in {"rollback", "rolled"} =>
         journal # NoJournal /\ journal.id # stamp
    /\ pc[p] \in {"recovered", "snapped", "closed"} => journal = NoJournal
    /\ pc[p] \in {"snapped", "open", "staged"} =>
         op[p] \in Ops /\ id[p] = lastId /\ stamp # lastId
    /\ pc[p] \in {"open", "staged", "written", "aborting", "undone"} => Journalled(p)
    /\ pc[p] = "snapped" => creds = snap[p]
    /\ pc[p] = "open" => creds = snap[p]
    /\ pc[p] = "staged" => creds = CredsAfter(op[p], snap[p])
    /\ pc[p] = "written" => stamp = id[p]
    /\ pc[p] = "undone" => stamp = id[p] \/ creds = snap[p]
    /\ pc[p] = "rolled" => creds = journal.creds

IInv ==
    /\ TypeOK
    /\ stamp <= lastId
    /\ journal # NoJournal => journal.id <= lastId
    /\ \A p \in Procs : pc[p] \in Critical <=> lock = p
    /\ \A p \in Procs : gone[p] = {} /\ pc[p] \notin {"syncing", "pruning"}
    /\ \A p \in Procs : Progress(p)

----------------------------------------------------------------------------
\* The effect of an operation on the credentials is a credential map.
LEMMA CredsAfterType ==
    ASSUME NEW o \in Ops, NEW c \in Creds
    PROVE  CredsAfter(o, c) \in Creds
  BY DEF CredsAfter, Creds, Ops

\* The effect of an operation on the entries is an entry map.
LEMMA EntryAfterType ==
    ASSUME NEW o \in Ops, NEW e \in Entries, NEW m \in SUBSET Providers
    PROVE  EntryAfter(o, e, m) \in Entries
<1> SUFFICES ASSUME NEW q \in Providers
             PROVE  EntryAfter(o, e, m)[q] \in Tokens \cup {Absent, Bare}
  BY DEF EntryAfter, Entries
<1>1. e[q] \in Tokens \cup {Absent, Bare}  BY DEF Entries
<1>2. o.kind \in AllKinds  BY ConstantsAssumption DEF Ops
<1>3. QED  BY <1>1, <1>2 DEF EntryAfter, Added, Refreshed, Upserted, Synced, Restored, AllKinds

\* Managed providers stay providers.
LEMMA ManagedAfterType ==
    ASSUME NEW o \in Ops, NEW e \in Entries, NEW m \in SUBSET Providers
    PROVE  ManagedAfter(o, e, m) \subseteq Providers
  BY DEF ManagedAfter, Ops

\* Only a sync prunes.
LEMMA PrunesNothing ==
    ASSUME Disciplined, NEW o \in Ops, NEW m
    PROVE  Pruned(o, m) = {}
  BY DEF Disciplined, Pruned, Ops

\* What the holder finds in the journal it wrote.
LEMMA JournalFields ==
    ASSUME TypeOK, NEW p \in Procs, Journalled(p)
    PROVE  /\ journal # NoJournal
           /\ journal.id = id[p]
           /\ journal.creds = snap[p]
<1>1. journal \in Journals  BY DEF TypeOK, Journalled, Journals
<1>2. QED  BY <1>1, ProtocolAssumption DEF Journalled, Journals

----------------------------------------------------------------------------
\* Init establishes the invariant.
LEMMA InitIInv == Init => IInv
<1> SUFFICES ASSUME Init PROVE IInv  OBVIOUS
<1> USE DEF Init, Steps, Critical
<1>1. NoCreds \in Creds /\ NoEntries \in Entries
  BY DEF NoCreds, NoEntries, Creds, Entries
<1>2. TypeOK  BY <1>1, ProtocolAssumption DEF TypeOK
<1>3. \A p \in Procs : Progress(p)  BY DEF Progress
<1>4. \A p \in Procs : pc[p] \in Critical <=> lock = p
  BY ProtocolAssumption
<1>5. QED  BY <1>2, <1>3, <1>4 DEF IInv

\* Every step preserves the types.
LEMMA TypeStep ==
    ASSUME Disciplined, IInv, [Next]_vars
    PROVE  TypeOK'
<1> USE DEF TypeOK, files, locals, Goto, Steps
<1>0. TypeOK  BY DEF IInv
<1>1. ASSUME NEW p \in Procs, NEW o \in Ops, Plan(p, o) PROVE TypeOK'
  BY <1>0, <1>1 DEF Plan
<1>2. ASSUME NEW p \in Procs, PlanRecover(p) \/ Acquire(p) PROVE TypeOK'
  BY <1>0, <1>2 DEF PlanRecover, Acquire
<1>3. ASSUME NEW p \in Procs,
             RecoverNothing(p) \/ RecoverSkipped(p) \/ RecoverUncommitted(p)
      PROVE  TypeOK'
  BY <1>0, <1>3 DEF RecoverNothing, RecoverSkipped, RecoverUncommitted
<1>4. ASSUME NEW p \in Procs, RollBack(p) PROVE TypeOK'
  <2>1. journal \in Journals  BY <1>0, <1>4 DEF RollBack, IInv, Progress
  <2>2. QED  BY <1>0, <1>4, <2>1 DEF RollBack, Journals
<1>5. ASSUME NEW p \in Procs, RollBackDone(p) \/ RecoverOnly(p) PROVE TypeOK'
  BY <1>0, <1>5 DEF RollBackDone, RecoverOnly
<1>6. ASSUME NEW p \in Procs, Snapshot(p) PROVE TypeOK'
  BY <1>0, <1>6 DEF Snapshot
<1>7. ASSUME NEW p \in Procs, WriteJournal(p) PROVE TypeOK'
  BY <1>0, <1>7 DEF WriteJournal, Journals
<1>8. ASSUME NEW p \in Procs, StageCredentials(p) PROVE TypeOK'
  <2>1. op[p] \in Ops  BY <1>8 DEF StageCredentials, IInv, Progress
  <2>2. CredsAfter(op[p], creds) \in Creds  BY <1>0, <2>1, CredsAfterType
  <2>3. QED  BY <1>0, <1>8, <2>2 DEF StageCredentials
<1>9. ASSUME NEW p \in Procs, WriteState(p) PROVE TypeOK'
  <2>1. op[p] \in Ops  BY <1>9 DEF WriteState, IInv, Progress
  <2>2. EntryAfter(op[p], entry, managed) \in Entries
    BY <1>0, <2>1, EntryAfterType
  <2>3. ManagedAfter(op[p], entry, managed) \subseteq Providers
    BY <1>0, <2>1, ManagedAfterType
  <2>4. Pruned(op[p], managed) = {}  BY <2>1, PrunesNothing
  <2>5. QED  BY <1>0, <1>9, <2>2, <2>3, <2>4 DEF WriteState
<1>10. ASSUME NEW p \in Procs, CommitDone(p) \/ Fail(p) \/ AbortDone(p) PROVE TypeOK'
  BY <1>0, <1>10 DEF CommitDone, Fail, AbortDone
<1>11. ASSUME NEW p \in Procs, Abort(p) PROVE TypeOK'
  BY <1>0, <1>11 DEF Abort
<1>12. NoCreds \in Creds  BY DEF NoCreds, Creds
<1>13. ASSUME NEW p \in Procs, Release(p) \/ Crash(p) PROVE TypeOK'
  BY <1>0, <1>12, <1>13 DEF Release, Crash, Forgets
<1>14. ASSUME NEW p \in Procs, SyncState(p) \/ PruneCredentials(p) PROVE TypeOK'
  BY <1>14 DEF SyncState, PruneCredentials, IInv
<1>15. CASE UNCHANGED vars
  BY <1>0, <1>15 DEF vars
<1>16. QED
  BY <1>1, <1>2, <1>3, <1>4, <1>5, <1>6, <1>7, <1>8, <1>9, <1>10, <1>11,
     <1>13, <1>14, <1>15 DEF Next, Transaction

\* Only the holder of setup.lock is at a critical step, before and after.
LEMMA LockStep ==
    ASSUME Disciplined, IInv, [Next]_vars
    PROVE  (\A p \in Procs : pc[p] \in Critical <=> lock = p)'
<1> USE DEF TypeOK, files, locals, Goto, Steps, Critical, IInv
<1> USE ProtocolAssumption
<1>1. ASSUME NEW p \in Procs, NEW o \in Ops, Plan(p, o)
      PROVE  (\A x \in Procs : pc[x] \in Critical <=> lock = x)'
  <2>1. ~SyncsStateOnly(o)  BY DEF SyncsStateOnly, Disciplined, Ops
  <2>2. QED  BY <1>1, <2>1 DEF Plan
<1>2. ASSUME NEW p \in Procs, PlanRecover(p) \/ Acquire(p)
      PROVE  (\A x \in Procs : pc[x] \in Critical <=> lock = x)'
  BY <1>2 DEF PlanRecover, Acquire
<1>3. ASSUME NEW p \in Procs,
             \/ RecoverNothing(p) \/ RecoverSkipped(p) \/ RecoverUncommitted(p)
             \/ RollBack(p) \/ RollBackDone(p) \/ Snapshot(p) \/ WriteJournal(p)
             \/ StageCredentials(p) \/ WriteState(p) \/ CommitDone(p)
             \/ Fail(p) \/ Abort(p) \/ AbortDone(p)
      PROVE  (\A x \in Procs : pc[x] \in Critical <=> lock = x)'
  BY <1>3 DEF RecoverNothing, RecoverSkipped, RecoverUncommitted, RollBack,
              RollBackDone, Snapshot, WriteJournal, StageCredentials,
              WriteState, CommitDone, Fail, Abort, AbortDone
<1>4. ASSUME NEW p \in Procs, RecoverOnly(p) \/ Release(p) \/ Crash(p)
      PROVE  (\A x \in Procs : pc[x] \in Critical <=> lock = x)'
  BY <1>4 DEF RecoverOnly, Release, Crash, Forgets
<1>5. ASSUME NEW p \in Procs, SyncState(p) \/ PruneCredentials(p)
      PROVE  (\A x \in Procs : pc[x] \in Critical <=> lock = x)'
  BY <1>5 DEF SyncState, PruneCredentials
<1>6. CASE UNCHANGED vars  BY <1>6 DEF vars
<1>7. QED  BY <1>1, <1>2, <1>3, <1>4, <1>5, <1>6 DEF Next, Transaction

\* Nobody prunes outside the lock.
LEMMA NoPruneStep ==
    ASSUME Disciplined, IInv, [Next]_vars
    PROVE  (\A p \in Procs : gone[p] = {} /\ pc[p] \notin {"syncing", "pruning"})'
<1> DEFINE G == \A x \in Procs : gone[x] = {} /\ pc[x] \notin {"syncing", "pruning"}
<1> USE DEF TypeOK, files, locals, Goto, Steps, IInv
<1>1. ASSUME NEW p \in Procs, NEW o \in Ops, Plan(p, o) PROVE G'
  <2>1. ~SyncsStateOnly(o)  BY DEF SyncsStateOnly, Disciplined, Ops
  <2>2. QED  BY <1>1, <2>1 DEF Plan
<1>2. ASSUME NEW p \in Procs,
             \/ PlanRecover(p) \/ Acquire(p)
             \/ RecoverNothing(p) \/ RecoverSkipped(p) \/ RecoverUncommitted(p)
             \/ RollBack(p) \/ RollBackDone(p) \/ Snapshot(p) \/ WriteJournal(p)
             \/ StageCredentials(p) \/ CommitDone(p) \/ RecoverOnly(p)
             \/ Fail(p) \/ Abort(p) \/ AbortDone(p)
      PROVE  G'
  BY <1>2 DEF PlanRecover, Acquire, RecoverNothing, RecoverSkipped,
              RecoverUncommitted, RollBack, RollBackDone, Snapshot, WriteJournal,
              StageCredentials, CommitDone, RecoverOnly, Fail, Abort, AbortDone
<1>3. ASSUME NEW p \in Procs, WriteState(p) PROVE G'
  <2>1. op[p] \in Ops  BY <1>3 DEF WriteState, Progress
  <2>2. Pruned(op[p], managed) = {}  BY <2>1, PrunesNothing
  <2>3. QED  BY <1>3, <2>2 DEF WriteState
<1>4. ASSUME NEW p \in Procs, Release(p) \/ Crash(p) PROVE G'
  BY <1>4 DEF Release, Crash, Forgets
<1>5. ASSUME NEW p \in Procs, SyncState(p) \/ PruneCredentials(p) PROVE G'
  BY <1>5 DEF SyncState, PruneCredentials
<1>6. CASE UNCHANGED vars  BY <1>6 DEF vars
<1>7. QED  BY <1>1, <1>2, <1>3, <1>4, <1>5, <1>6 DEF Next, Transaction

\* The files and the holder's locals stay in step.
LEMMA ProgressStep ==
    ASSUME Disciplined, IInv, [Next]_vars
    PROVE  (\A x \in Procs : Progress(x))'
<1> SUFFICES ASSUME NEW x \in Procs PROVE Progress(x)'
  OBVIOUS
<1> USE DEF TypeOK, files, locals, Goto, Steps, Critical, IInv
<1> USE ProtocolAssumption
\* Steps that leave the files alone and move only a process without the lock.
<1>1. ASSUME NEW p \in Procs, NEW o \in Ops, Plan(p, o) PROVE Progress(x)'
  <2>1. ~SyncsStateOnly(o)  BY DEF SyncsStateOnly, Disciplined, Ops
  <2>2. QED  BY <1>1, <2>1 DEF Plan, Progress, Journalled
<1>2. ASSUME NEW p \in Procs, PlanRecover(p) \/ Acquire(p) PROVE Progress(x)'
  BY <1>2 DEF PlanRecover, Acquire, Progress, Journalled
<1>3. ASSUME NEW p \in Procs, Crash(p) PROVE Progress(x)'
  BY <1>3 DEF Crash, Forgets, Progress, Journalled
\* Steps of the holder: every other process is away from the lock.
<1> DEFINE Away(p) == \A y \in Procs \ {p} : pc[y] \notin Critical
<1>4. ASSUME NEW p \in Procs, RecoverNothing(p) PROVE Progress(x)'
  <2>1. Away(p)  BY <1>4 DEF RecoverNothing
  <2>2. QED  BY <1>4, <2>1 DEF RecoverNothing, Progress
<1>5. ASSUME NEW p \in Procs, RecoverSkipped(p) PROVE Progress(x)'
  BY <1>5 DEF RecoverSkipped, Disciplined
<1>6. ASSUME NEW p \in Procs, RecoverUncommitted(p) PROVE Progress(x)'
  <2>1. Away(p)  BY <1>6 DEF RecoverUncommitted
  <2>2. QED  BY <1>6, <2>1 DEF RecoverUncommitted, Progress
<1>7. ASSUME NEW p \in Procs, RollBack(p) PROVE Progress(x)'
  <2>1. Away(p)  BY <1>7 DEF RollBack
  <2>2. QED  BY <1>7, <2>1 DEF RollBack, Progress
<1>8. ASSUME NEW p \in Procs, RollBackDone(p) PROVE Progress(x)'
  <2>1. Away(p)  BY <1>8 DEF RollBackDone
  <2>2. QED  BY <1>8, <2>1 DEF RollBackDone, Progress
<1>9. ASSUME NEW p \in Procs, RecoverOnly(p) PROVE Progress(x)'
  <2>1. Away(p)  BY <1>9 DEF RecoverOnly
  <2>2. QED  BY <1>9, <2>1 DEF RecoverOnly, Progress
<1>10. ASSUME NEW p \in Procs, Snapshot(p) PROVE Progress(x)'
  <2>1. Away(p)  BY <1>10 DEF Snapshot
  <2>2. stamp # lastId + 1 /\ journal = NoJournal
    BY <1>10 DEF Snapshot, Progress
  <2>3. QED  BY <1>10, <2>1, <2>2 DEF Snapshot, Progress
<1>11. ASSUME NEW p \in Procs, WriteJournal(p) PROVE Progress(x)'
  <2>1. Away(p)  BY <1>11 DEF WriteJournal
  <2>2. QED  BY <1>11, <2>1 DEF WriteJournal, Progress, Journalled
<1>12. ASSUME NEW p \in Procs, StageCredentials(p) PROVE Progress(x)'
  <2>1. Away(p)  BY <1>12 DEF StageCredentials
  <2>2. QED  BY <1>12, <2>1 DEF StageCredentials, Progress, Journalled
<1>13. ASSUME NEW p \in Procs, WriteState(p) PROVE Progress(x)'
  <2>1. Away(p)  BY <1>13 DEF WriteState
  <2>2. QED  BY <1>13, <2>1 DEF WriteState, Progress, Journalled
<1>14. ASSUME NEW p \in Procs, CommitDone(p) \/ AbortDone(p) PROVE Progress(x)'
  <2>1. Away(p)  BY <1>14 DEF CommitDone, AbortDone
  <2>2. QED  BY <1>14, <2>1 DEF CommitDone, AbortDone, Progress
<1>15. ASSUME NEW p \in Procs, Fail(p) PROVE Progress(x)'
  <2>1. Away(p)  BY <1>15 DEF Fail
  <2>2. QED  BY <1>15, <2>1 DEF Fail, Progress, Journalled
<1>16. ASSUME NEW p \in Procs, Abort(p) PROVE Progress(x)'
  <2>1. Away(p)  BY <1>16 DEF Abort
  <2>2. QED  BY <1>16, <2>1 DEF Abort, Progress, Journalled
<1>17. ASSUME NEW p \in Procs, Release(p) PROVE Progress(x)'
  <2>1. Away(p)  BY <1>17 DEF Release
  <2>2. QED  BY <1>17, <2>1 DEF Release, Forgets, Progress
<1>18. ASSUME NEW p \in Procs, SyncState(p) \/ PruneCredentials(p)
       PROVE  Progress(x)'
  BY <1>18 DEF SyncState, PruneCredentials
<1>19. CASE UNCHANGED vars  BY <1>19 DEF vars, Progress, Journalled
<1>20. QED
  BY <1>1, <1>2, <1>3, <1>4, <1>5, <1>6, <1>7, <1>8, <1>9, <1>10, <1>11, <1>12,
     <1>13, <1>14, <1>15, <1>16, <1>17, <1>18, <1>19 DEF Next, Transaction

\* Ids only grow, and neither file names one that was never drawn.
LEMMA IdStep ==
    ASSUME Disciplined, IInv, [Next]_vars
    PROVE  (stamp <= lastId /\ (journal # NoJournal => journal.id <= lastId))'
<1> DEFINE Drawn == stamp <= lastId /\ (journal # NoJournal => journal.id <= lastId)
<1> USE DEF TypeOK, files, locals, IInv
<1>0. /\ stamp \in Nat /\ lastId \in Nat
      /\ journal # NoJournal => journal.id \in Nat
  BY DEF Journals
<1>1. ASSUME NEW p \in Procs, NEW o \in Ops, Plan(p, o) PROVE Drawn'
  BY <1>1 DEF Plan
<1>2. ASSUME NEW p \in Procs,
             \/ PlanRecover(p) \/ Acquire(p) \/ RecoverSkipped(p)
             \/ RecoverUncommitted(p) \/ RecoverOnly(p) \/ Fail(p)
             \/ Release(p) \/ Crash(p)
      PROVE  Drawn'
  BY <1>2 DEF PlanRecover, Acquire, RecoverSkipped, RecoverUncommitted,
              RecoverOnly, Fail, Release, Crash
<1>3. ASSUME NEW p \in Procs,
             \/ RecoverNothing(p) \/ RollBack(p) \/ RollBackDone(p)
             \/ StageCredentials(p) \/ CommitDone(p) \/ Abort(p) \/ AbortDone(p)
      PROVE  Drawn'
  BY <1>3 DEF RecoverNothing, RollBack, RollBackDone, StageCredentials,
              CommitDone, Abort, AbortDone
<1>4. ASSUME NEW p \in Procs, Snapshot(p) PROVE Drawn'
  <2>1. lastId' = lastId + 1 /\ stamp' = stamp /\ journal' = journal
    BY <1>4 DEF Snapshot
  <2>2. QED  BY <1>0, <2>1
<1>5. ASSUME NEW p \in Procs, WriteJournal(p) PROVE Drawn'
  <2>1. id[p] = lastId  BY <1>5 DEF WriteJournal, Progress
  <2>2. QED  BY <1>0, <1>5, <2>1 DEF WriteJournal
<1>6. ASSUME NEW p \in Procs, WriteState(p) PROVE Drawn'
  <2>1. id[p] = lastId  BY <1>6 DEF WriteState, Progress
  <2>2. QED  BY <1>0, <1>6, <2>1 DEF WriteState
<1>7. ASSUME NEW p \in Procs, SyncState(p) \/ PruneCredentials(p) PROVE Drawn'
  BY <1>7 DEF SyncState, PruneCredentials
<1>8. CASE UNCHANGED vars  BY <1>8 DEF vars
<1>9. QED
  BY <1>1, <1>2, <1>3, <1>4, <1>5, <1>6, <1>7, <1>8 DEF Next, Transaction

\* The invariant is inductive.
LEMMA StepIInv ==
    ASSUME Disciplined, IInv, [Next]_vars
    PROVE  IInv'
  BY TypeStep, LockStep, NoPruneStep, ProgressStep, IdStep DEF IInv

\* The invariant holds in every reachable state.
THEOREM Invariance ==
    ASSUME Disciplined
    PROVE  Spec => []IInv
<1>1. Init => IInv  BY InitIInv
<1>2. IInv /\ [Next]_vars => IInv'  BY StepIInv
<1>3. QED  BY <1>1, <1>2, PTL DEF Spec

\* Every variable keeps its type: a file never holds a value of another.
THEOREM TypeCorrect ==
    ASSUME Disciplined
    PROVE  Spec => []TypeOK
<1>1. IInv => TypeOK  BY DEF IInv
<1>2. QED  BY <1>1, Invariance, PTL

----------------------------------------------------------------------------
(* The refinement.                                                         *)

\* A step leaves the effective pair alone, or commits a process's operation.
Simulated == \/ /\ Effective' = Effective
                /\ UNCHANGED <<entry, managed>>
             \/ \E p \in Procs :
                  /\ op[p] \in Ops
                  /\ Effective' = CredsAfter(op[p], Effective)
                  /\ entry' = EntryAfter(op[p], entry, managed)
                  /\ managed' = ManagedAfter(op[p], entry, managed)

\* Every step of the protocol changes both files' meaning at once or not at all.
LEMMA StepSimulated ==
    ASSUME Disciplined, IInv, [Next]_vars
    PROVE  Simulated
<1> USE DEF files, locals, Effective, Simulated
\* Steps that touch none of the files.
<1>1. ASSUME NEW p \in Procs, NEW o \in Ops, Plan(p, o) PROVE Simulated
  BY <1>1 DEF Plan
<1>2. ASSUME NEW p \in Procs,
             \/ PlanRecover(p) \/ Acquire(p) \/ RecoverSkipped(p)
             \/ RecoverUncommitted(p) \/ RecoverOnly(p) \/ Snapshot(p)
             \/ Fail(p) \/ Release(p) \/ Crash(p)
      PROVE  Simulated
  BY <1>2 DEF Disciplined, PlanRecover, Acquire, RecoverSkipped,
              RecoverUncommitted, RecoverOnly, Snapshot, Fail, Release, Crash
\* Healing: the credentials become what they effectively were.
<1>3. ASSUME NEW p \in Procs, RecoverNothing(p) PROVE Simulated
  BY <1>3 DEF RecoverNothing
<1>4. ASSUME NEW p \in Procs, RollBack(p) PROVE Simulated
  <2>1. journal # NoJournal /\ journal.id # stamp
    BY <1>4 DEF RollBack, IInv, Progress
  <2>2. QED  BY <1>4, <2>1 DEF RollBack
<1>5. ASSUME NEW p \in Procs, RollBackDone(p) PROVE Simulated
  <2>1. journal # NoJournal /\ journal.id # stamp /\ creds = journal.creds
    BY <1>5 DEF RollBackDone, IInv, Progress
  <2>2. QED  BY <1>5, <2>1 DEF RollBackDone
\* The journal opens over the credentials it records and covers the staging.
<1>6. ASSUME NEW p \in Procs, WriteJournal(p) PROVE Simulated
  <2>1. journal = NoJournal /\ creds = snap[p]
    BY <1>6 DEF WriteJournal, IInv, Progress
  <2>2. journal'.creds = snap[p]  BY <1>6 DEF WriteJournal
  <2>3. QED  BY <1>6, <2>1, <2>2 DEF WriteJournal
<1>7. ASSUME NEW p \in Procs, StageCredentials(p) PROVE Simulated
  <2>1. Journalled(p) /\ id[p] # stamp
    BY <1>7 DEF StageCredentials, IInv, Progress
  <2>2. journal # NoJournal /\ journal.id # stamp
    BY <2>1, JournalFields DEF IInv
  <2>3. QED  BY <1>7, <2>2 DEF StageCredentials
\* The state write: the journalled credentials give way to the staged ones.
<1>8. ASSUME NEW p \in Procs, WriteState(p) PROVE Simulated
  <2>1. /\ Journalled(p) /\ op[p] \in Ops /\ id[p] # stamp
        /\ creds = CredsAfter(op[p], snap[p])
    BY <1>8 DEF WriteState, IInv, Progress
  <2>2. journal # NoJournal /\ journal.id = id[p] /\ journal.creds = snap[p]
    BY <2>1, JournalFields DEF IInv
  <2>3. Effective = snap[p]  BY <2>1, <2>2
  <2>4. Effective' = creds  BY <1>8, <2>2 DEF WriteState
  <2>5. QED  BY <1>8, <2>1, <2>3, <2>4 DEF WriteState
<1>9. ASSUME NEW p \in Procs, CommitDone(p) PROVE Simulated
  <2>1. Journalled(p) /\ id[p] = stamp
    BY <1>9 DEF CommitDone, IInv, Progress
  <2>2. journal # NoJournal /\ journal.id = stamp
    BY <2>1, JournalFields DEF IInv
  <2>3. QED  BY <1>9, <2>2 DEF CommitDone
\* The handler: a stamped operation stays, any other had no effect yet.
<1>10. ASSUME NEW p \in Procs, Abort(p) PROVE Simulated
  <2>1. Journalled(p)  BY <1>10 DEF Abort, IInv, Progress
  <2>2. journal # NoJournal /\ journal.id = id[p]
    BY <2>1, JournalFields DEF IInv
  <2>3. CASE stamp = id[p]  BY <1>10, <2>2, <2>3 DEF Abort
  <2>4. CASE stamp # id[p]  BY <1>10, <2>2, <2>4 DEF Abort
  <2>5. QED  BY <2>3, <2>4
<1>11. ASSUME NEW p \in Procs, AbortDone(p) PROVE Simulated
  <2>1. Journalled(p) /\ (stamp = id[p] \/ creds = snap[p])
    BY <1>11 DEF AbortDone, IInv, Progress
  <2>2. journal # NoJournal /\ journal.id = id[p] /\ journal.creds = snap[p]
    BY <2>1, JournalFields DEF IInv
  <2>3. Effective = creds  BY <2>1, <2>2
  <2>4. QED  BY <1>11, <2>3 DEF AbortDone
<1>12. ASSUME NEW p \in Procs, SyncState(p) \/ PruneCredentials(p)
       PROVE  Simulated
  BY <1>12 DEF SyncState, PruneCredentials, IInv
<1>13. CASE UNCHANGED vars  BY <1>13 DEF vars
<1>14. QED
  BY <1>1, <1>2, <1>3, <1>4, <1>5, <1>6, <1>7, <1>8, <1>9, <1>10, <1>11, <1>12,
     <1>13 DEF Next, Transaction

\* A simulated step is a step of the abstract specification, or a stutter.
LEMMA SimulatedIsAbstract == Simulated => [Abstract!Next]_(Abstract!vars)
<1>1. \A o \in Ops : /\ Abstract!CredsAfter(o, Effective) = CredsAfter(o, Effective)
                     /\ Abstract!EntryAfter(o, entry, managed)
                          = EntryAfter(o, entry, managed)
                     /\ Abstract!ManagedAfter(o, entry, managed)
                          = ManagedAfter(o, entry, managed)
  BY DEF CredsAfter, EntryAfter, ManagedAfter, Added, Refreshed, Upserted,
         Synced, Restored, Pruned, Abstract!CredsAfter, Abstract!EntryAfter,
         Abstract!ManagedAfter, Abstract!Added, Abstract!Refreshed,
         Abstract!Upserted, Abstract!Synced, Abstract!Restored, Abstract!Pruned
<1>2. Abstract!Ops = Ops  BY DEF Ops, Creds, Abstract!Ops, Abstract!Creds
<1>3. QED
  BY <1>1, <1>2 DEF Simulated, Abstract!Next, Abstract!Commit, Abstract!vars

\* Compound operations are atomic under crashes, failures and any number of
\* processes: the protocol implements AtomicSetup (txn.py).
THEOREM Atomicity ==
    ASSUME Disciplined
    PROVE  Spec => Atomic
<1>1. Init => Abstract!Init
  BY DEF Init, Effective, Abstract!Init, Abstract!NoCreds, Abstract!NoEntries,
         NoCreds, NoEntries
<1>2. IInv /\ [Next]_vars => [Abstract!Next]_(Abstract!vars)
  BY StepSimulated, SimulatedIsAbstract
<1>3. QED
  BY <1>1, <1>2, Invariance, PTL DEF Spec, Atomic, Abstract!Spec

----------------------------------------------------------------------------
(* Nobody undoes a committed operation.                                    *)

\* While a stamped operation's journal exists, no step writes the credentials.
LEMMA CommittedStep ==
    ASSUME Disciplined, IInv, [Next]_vars, journal # NoJournal, journal.id = stamp
    PROVE  creds' = creds
<1> USE DEF files, locals, IInv
<1>1. ASSUME NEW p \in Procs, NEW o \in Ops, Plan(p, o) PROVE creds' = creds
  BY <1>1 DEF Plan
<1>2. ASSUME NEW p \in Procs,
             \/ PlanRecover(p) \/ Acquire(p) \/ RecoverNothing(p)
             \/ RecoverSkipped(p) \/ RecoverUncommitted(p) \/ RollBackDone(p)
             \/ RecoverOnly(p) \/ Snapshot(p) \/ WriteJournal(p) \/ WriteState(p)
             \/ CommitDone(p) \/ Fail(p) \/ AbortDone(p) \/ Release(p) \/ Crash(p)
      PROVE  creds' = creds
  BY <1>2 DEF PlanRecover, Acquire, RecoverNothing, RecoverSkipped,
              RecoverUncommitted, RollBackDone, RecoverOnly, Snapshot,
              WriteJournal, WriteState, CommitDone, Fail, AbortDone, Release, Crash
<1>3. ASSUME NEW p \in Procs, RollBack(p) PROVE creds' = creds
  BY <1>3 DEF RollBack, Progress
<1>4. ASSUME NEW p \in Procs, StageCredentials(p) PROVE creds' = creds
  <2>1. Journalled(p) /\ id[p] # stamp  BY <1>4 DEF StageCredentials, Progress
  <2>2. QED  BY <2>1, JournalFields
<1>5. ASSUME NEW p \in Procs, Abort(p) PROVE creds' = creds
  <2>1. Journalled(p)  BY <1>5 DEF Abort, Progress
  <2>2. id[p] = stamp  BY <2>1, JournalFields
  <2>3. QED  BY <1>5, <2>2 DEF Abort
<1>6. ASSUME NEW p \in Procs, SyncState(p) \/ PruneCredentials(p)
      PROVE  creds' = creds
  BY <1>6 DEF SyncState, PruneCredentials
<1>7. CASE UNCHANGED vars  BY <1>7 DEF vars
<1>8. QED
  BY <1>1, <1>2, <1>3, <1>4, <1>5, <1>6, <1>7 DEF Next, Transaction

\* No failure handler and no recovery undoes an operation that committed,
\* whichever process runs it (txn.py: "no rollback past this line").
THEOREM CommittedStays ==
    ASSUME Disciplined
    PROVE  Spec => CommittedCredentialsStay
<1>1. IInv /\ [Next]_vars =>
        [journal # NoJournal /\ journal.id = stamp =>
           \A q \in Providers :
             creds'[q] = creds[q] \/ (entry[q] = Absent /\ creds'[q] = NoToken)]_vars
  BY CommittedStep
<1>2. QED  BY <1>1, Invariance, PTL DEF Spec, CommittedCredentialsStay

----------------------------------------------------------------------------
(* What the operations that carry both halves achieve.                     *)

PairedOnly == Kinds \subseteq {"add", "update", "remove", "restore"}

\* Such an operation brings a token for each provider it names, or removes it.
Brings(o) == o.kind # "remove" => \A q \in o.ps : o.cred[q] \in Tokens

Carries == \A p \in Procs : op[p] # NoOp => Brings(op[p])

\* Every step keeps the tokens of admitted operations.
LEMMA CarriesStep ==
    ASSUME PairedOnly, TypeOK, Carries, [Next]_vars
    PROVE  Carries'
<1> USE DEF Carries, files, locals, TypeOK, Goto
<1>1. ASSUME NEW p \in Procs, NEW o \in Ops, Plan(p, o) PROVE Carries'
  <2>1. o.kind \in {"add", "update", "remove", "restore"}
    BY DEF PairedOnly, Ops
  <2>2. Brings(o)
    <3>1. Admitted(o)  BY <1>1 DEF Plan
    <3>2. CASE o.kind = "add"  BY <3>1, <3>2 DEF Admitted, AddAdmitted, Brings
    <3>3. CASE o.kind = "update"  BY <3>1, <3>3 DEF Admitted, UpdateAdmitted, Brings
    <3>4. CASE o.kind = "remove"  BY <3>4 DEF Brings
    <3>5. CASE o.kind = "restore"  BY <3>1, <3>5 DEF Admitted, RestoreAdmitted, Brings
    <3>6. QED  BY <2>1, <3>2, <3>3, <3>4, <3>5
  <2>3. QED  BY <1>1, <2>2 DEF Plan
<1>2. ASSUME NEW p \in Procs,
             \/ PlanRecover(p) \/ Transaction(p) \/ SyncState(p)
             \/ PruneCredentials(p) \/ Crash(p)
      PROVE  Carries'
  <2>1. op' = op \/ op' = [op EXCEPT ![p] = NoOp]
    BY <1>2 DEF Transaction, PlanRecover, Acquire, RecoverNothing,
         RecoverSkipped, RecoverUncommitted, RollBack, RollBackDone, RecoverOnly,
         Snapshot, WriteJournal, StageCredentials, WriteState, CommitDone, Fail,
         Abort, AbortDone, Release, SyncState, PruneCredentials, Crash, Forgets
  <2>2. QED  BY <2>1
<1>3. CASE UNCHANGED vars  BY <1>3 DEF vars
<1>4. QED  BY <1>1, <1>2, <1>3 DEF Next

\* An operation that carries a token keeps every provider credentialled.
LEMMA PairedEffect ==
    ASSUME NEW o \in Ops, PairedOnly, Brings(o),
           NEW c \in Creds, NEW e \in Entries, NEW m,
           \A q \in Providers : e[q] # Absent => c[q] # NoToken
    PROVE  \A q \in Providers :
             EntryAfter(o, e, m)[q] # Absent => CredsAfter(o, c)[q] # NoToken
<1> SUFFICES ASSUME NEW q \in Providers, EntryAfter(o, e, m)[q] # Absent
             PROVE  CredsAfter(o, c)[q] # NoToken
  OBVIOUS
<1>1. o.kind \in {"add", "update", "remove", "restore"}  BY DEF PairedOnly, Ops
<1>2. CASE q \notin o.ps
  BY <1>1, <1>2 DEF EntryAfter, CredsAfter, Pruned
<1>3. CASE q \in o.ps /\ o.kind = "remove"
  BY <1>3 DEF EntryAfter, Pruned
<1>4. CASE q \in o.ps /\ o.kind # "remove"
  <2>1. o.cred[q] \in Tokens  BY <1>4 DEF Brings
  <2>2. CredsAfter(o, c)[q] = o.cred[q]
    BY <1>4, <2>1, ConstantsAssumption DEF CredsAfter
  <2>3. QED  BY <2>1, <2>2, ConstantsAssumption
<1>5. QED  BY <1>2, <1>3, <1>4

\* The effective credentials are credentials.
LEMMA EffectiveType == TypeOK => Effective \in Creds
  BY DEF TypeOK, Effective, Journals

\* The two invariants together are inductive.
LEMMA CredentialStep ==
    ASSUME Disciplined, PairedOnly, IInv, Carries, ProviderHasCredential,
           [Next]_vars
    PROVE  ProviderHasCredential'
<1>1. TypeOK  BY DEF IInv
<1>2. CASE Effective' = Effective /\ UNCHANGED <<entry, managed>>
  BY <1>2 DEF ProviderHasCredential
<1>3. ASSUME NEW p \in Procs, op[p] \in Ops,
             Effective' = CredsAfter(op[p], Effective),
             entry' = EntryAfter(op[p], entry, managed)
      PROVE  ProviderHasCredential'
  <2>1. Brings(op[p])
    BY <1>3, ProtocolAssumption DEF Carries
  <2>2. Effective \in Creds /\ entry \in Entries
    BY <1>1, EffectiveType DEF TypeOK
  <2>3. \A q \in Providers : EntryAfter(op[p], entry, managed)[q] # Absent
            => CredsAfter(op[p], Effective)[q] # NoToken
    BY <1>3, <2>1, <2>2, PairedEffect DEF ProviderHasCredential
  <2>4. QED  BY <1>3, <2>3 DEF ProviderHasCredential
<1>4. QED  BY <1>2, <1>3, StepSimulated DEF Simulated

\* While operations that write both halves are the only writers, an added
\* provider has a credential at every instant, across crashes and rollbacks.
THEOREM CredentialBeforeProvider ==
    ASSUME Disciplined, PairedOnly
    PROVE  Spec => []ProviderHasCredential
<1>1. Init => Carries /\ ProviderHasCredential
  BY DEF Init, Carries, ProviderHasCredential, NoEntries
<1>2. IInv /\ Carries /\ ProviderHasCredential /\ [Next]_vars
        => Carries' /\ ProviderHasCredential'
  <2>1. IInv => TypeOK  BY DEF IInv
  <2>2. QED  BY <2>1, CarriesStep, CredentialStep
<1>3. QED  BY <1>1, <1>2, Invariance, PTL DEF Spec
=============================================================================
