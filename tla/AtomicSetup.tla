---------------------------- MODULE AtomicSetup ----------------------------
(***************************************************************************)
(* What the setup transaction promises: a compound operation changes the   *)
(* credentials and the provider entries in one step, or not at all.        *)
(***************************************************************************)
EXTENDS SetupOps

VARIABLES creds, entry, managed

vars == <<creds, entry, managed>>

Init == /\ creds = NoCreds
        /\ entry = NoEntries
        /\ managed = {}

Commit(o) == /\ creds' = CredsAfter(o, creds)
             /\ entry' = EntryAfter(o, entry, managed)
             /\ managed' = ManagedAfter(o, entry, managed)

\* A boot sync drops the credentials of providers it pruned, after the fact.
Forget(gone) == /\ \A q \in gone : entry[q] = Absent
                /\ creds' = [q \in Providers |->
                                IF q \in gone THEN NoToken ELSE creds[q]]
                /\ UNCHANGED <<entry, managed>>

Next == \/ \E o \in Ops : Commit(o)
        \/ \E gone \in SUBSET Providers : Forget(gone)

Spec == Init /\ [][Next]_vars
=============================================================================
