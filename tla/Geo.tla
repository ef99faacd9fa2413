-------------------------------- MODULE Geo --------------------------------
(***************************************************************************)
(* The cache of geo rule sets.  A record in state.json names a category's  *)
(* digest, a content-addressed file holds the bytes, and a row of the rule *)
(* table refers to the category.  Rule writes fetch what they refer to     *)
(* first; a refresh fetches everything referred to again; both end by      *)
(* pruning the files no record names.  Downloads take long, and only the   *)
(* single writes to state.json are locked.                                 *)
(***************************************************************************)
EXTENDS Integers, FiniteSets

CONSTANTS Categories, Procs,
          Digests,    \* contents upstream may serve
          Unrecorded  \* no record

VARIABLES record,   \* category -> digest in state.json, or Unrecorded
          files,    \* files present, <<category, digest>>
          refs,     \* categories the rule table refers to
          proc      \* process -> [at, cats, got, keep, alone]

vars == <<record, files, refs, proc>>

Idle == [at |-> "idle", cats |-> {}, op |-> "none", got |-> Unrecorded, keep |-> {}, alone |-> TRUE]
Cached(c) == record[c] # Unrecorded /\ <<c, record[c]>> \in files
Others(p) == {q \in Procs \ {p} : proc[q].at # "idle"}

\* Every step of p also tells the processes at work that they are not alone.
Met(p, r) == IF r = Idle THEN r ELSE [r EXCEPT !.alone = @ /\ Others(p) = {}]
Step(p, r) ==
  proc' = [q \in Procs |-> IF q = p THEN Met(p, r)
                           ELSE IF proc[q] = Idle THEN Idle
                           ELSE [proc[q] EXCEPT !.alone = FALSE]]
At(p, at) == proc[p].at = at

Init ==
  /\ record = [c \in Categories |-> Unrecorded]
  /\ files = {}
  /\ refs = {}
  /\ proc = [p \in Procs |-> Idle]

\* ensure_matchers for one new row: nothing to do when the file verifies.
BeginWrite(p, c) ==
  /\ At(p, "idle")
  /\ Step(p, [Idle EXCEPT !.at = IF Cached(c) THEN "create" ELSE "fetch", !.op = "write", !.cats = {c}])
  /\ UNCHANGED <<record, files, refs>>

\* refresh: what to download is what the table refers to now.
BeginRefresh(p) ==
  /\ At(p, "idle")
  /\ Step(p, [Idle EXCEPT !.at = "fetch", !.op = "refresh", !.cats = refs])
  /\ UNCHANGED <<record, files, refs>>

\* Download and rename into place; the name carries the digest.
Fetch(p, digest) ==
  /\ At(p, "fetch")
  /\ files' = files \cup {<<c, digest>> : c \in proc[p].cats}
  /\ Step(p, [proc[p] EXCEPT !.at = "record", !.got = digest])
  /\ UNCHANGED <<record, refs>>

\* The upstream is unreachable or has no such category: nothing was written.
FetchFails(p) ==
  /\ At(p, "fetch")
  /\ Step(p, Idle)
  /\ UNCHANGED <<record, files, refs>>

RecordedKeepsOld(p) ==
  [c \in Categories |-> IF c \in proc[p].cats /\ record[c] = Unrecorded THEN proc[p].got ELSE record[c]]

\* update_geodata: a write merges its entry, a refresh replaces the table.
Recorded(p) ==
  [c \in Categories |-> IF c \in proc[p].cats THEN proc[p].got
                        ELSE IF proc[p].op = "refresh" THEN Unrecorded ELSE record[c]]

Record(p) ==
  /\ At(p, "record")
  /\ record' = Recorded(p)
  /\ Step(p, [proc[p] EXCEPT !.at = "prune"])
  /\ UNCHANGED <<files, refs>>

\* prune: the records are read, then the directory is swept.
PruneKeeps(p) ==
  /\ At(p, "prune")
  /\ Step(p, [proc[p] EXCEPT !.at = "sweep", !.keep = {<<c, record[c]>> : c \in Categories}])
  /\ UNCHANGED <<record, files, refs>>

AfterSweep(p) == IF proc[p].op = "write" THEN [proc[p] EXCEPT !.at = "create"] ELSE Idle

Sweep(p) ==
  /\ At(p, "sweep")
  /\ files' = files \cap proc[p].keep
  /\ Step(p, AfterSweep(p))
  /\ UNCHANGED <<record, refs>>

Create(p) ==
  /\ At(p, "create")
  /\ refs' = refs \cup proc[p].cats
  /\ Step(p, Idle)
  /\ UNCHANGED <<record, files>>

RemoveRow(c) == refs' = refs \ {c} /\ UNCHANGED <<record, files, proc>>
\* A cache file is lost or no longer matches its digest.
LoseFile(f) == files' = files \ {f} /\ UNCHANGED <<record, refs, proc>>

Next ==
  \/ \E p \in Procs :
       \/ \E c \in Categories : BeginWrite(p, c)
       \/ BeginRefresh(p)
       \/ \E digest \in Digests : Fetch(p, digest)
       \/ FetchFails(p) \/ Record(p) \/ PruneKeeps(p) \/ Sweep(p) \/ Create(p)
  \/ \E c \in Categories : RemoveRow(c)
  \/ \E f \in files : LoseFile(f)

Spec == Init /\ [][Next]_vars
---------------------------------------------------------------------------
\* A refresh that met no other command leaves every category it read cached,
\* whatever was lost or moved upstream before: it repairs the table.
RefreshHeals ==
  [][ \A p \in Procs :
        proc[p].op = "refresh" /\ proc[p].alone /\ Sweep(p) =>
          \A c \in proc[p].cats : <<c, proc[p].got>> \in files => (Cached(c))' ]_vars
=============================================================================
