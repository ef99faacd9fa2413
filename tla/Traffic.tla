------------------------------- MODULE Traffic -------------------------------
(***************************************************************************)
(* Durable traffic totals.  A worker of the daemon samples the counters of *)
(* sing-box's open connections, and an accumulator that lives as long as   *)
(* the daemon banks what each grew by into metrics.db.  The database       *)
(* forgets a removed channel and keeps a tombstone against late samples.   *)
(***************************************************************************)
EXTENDS Integers, FiniteSets, Functions

CONSTANTS Conns,    \* connection ids, each used by one connection
          Ref(_),   \* the channel a connection leaves through
          MaxBytes, \* bound on a connection's counter
          MaxGens,  \* bound on sing-box starts
          MaxFailures \* bound on failed reads, failed writes and daemon restarts

VARIABLES box,      \* generation of the sing-box process
          conn,     \* id -> [open, bytes]
          acc,      \* the accumulator: [gen, seen]
          sample,   \* the worker: [at, gen, snap, skip, first]; skip and first: the
                    \*  channels whose tombstone it met, or looked for in vain
          banked,   \* channel_traffic, 0 where a channel has no row
          deleted,     \* deleted_channels
          carried,  \* history: bytes each channel carried
          slack,    \* history: carried minus banked when bytes were last given up
          gone,     \* history: removed channels, not created again
          readded,  \* history: the provider was removed and added again
          failures

vars == <<box, conn, acc, sample, banked, deleted, carried, slack, gone, readded, failures>>

Refs == {Ref(k) : k \in Conns}
Everything == "*"
Unstarted == 0
Rest == [at |-> "rest", gen |-> 0, snap |-> {}, skip |-> {}, first |-> {}]
Spent == [open |-> FALSE, bytes |-> MaxBytes]
Open == {k \in Conns : conn[k].open}
Tombstoned(r) == deleted \cap {r, Everything} # {}
\* The history notes, for the channels rs, that what is not banked stays so.
Waive(rs) == slack' = [r \in Refs |-> IF r \in rs THEN carried'[r] - banked'[r] ELSE slack[r]]

Init ==
  /\ box = 1
  /\ conn = [k \in Conns |-> [open |-> FALSE, bytes |-> 0]]
  /\ acc = [gen |-> Unstarted, seen |-> <<>>]
  /\ sample = Rest
  /\ banked = [r \in Refs |-> 0] /\ deleted = {}
  /\ carried = [r \in Refs |-> 0] /\ slack = [r \in Refs |-> 0]
  /\ gone = {} /\ readded = FALSE /\ failures = 0
---------------------------------------------------------------------------
(* sing-box *)

\* A connection opens with its first byte, or carries another one.
Carry(k) ==
  /\ conn[k].bytes < MaxBytes
  /\ conn[k].open \/ conn[k].bytes = 0
  /\ conn' = [conn EXCEPT ![k] = [open |-> TRUE, bytes |-> @.bytes + 1]]
  /\ carried' = [carried EXCEPT ![Ref(k)] = @ + 1]
  /\ UNCHANGED <<box, acc, sample, banked, deleted, slack, gone, readded, failures>>

Closed(ks) ==
  /\ conn' = [k \in Conns |-> IF k \in ks THEN Spent ELSE conn[k]]
  /\ UNCHANGED <<carried, banked>>
  /\ Waive({Ref(k) : k \in ks})

Close(k) ==
  /\ k \in Open
  /\ Closed({k})
  /\ UNCHANGED <<box, acc, sample, deleted, gone, readded, failures>>

\* SIGHUP: the process stays, its connections do not.
Reload ==
  /\ Open # {}
  /\ Closed(Open)
  /\ UNCHANGED <<box, acc, sample, deleted, gone, readded, failures>>

\* The process ends and is started again.
RestartBox ==
  /\ box < MaxGens
  /\ box' = box + 1
  /\ Closed(Open)
  /\ UNCHANGED <<acc, sample, deleted, gone, readded, failures>>
---------------------------------------------------------------------------
(* The worker *)

ReadGeneration ==
  /\ sample.at = "rest"
  /\ sample' = [Rest EXCEPT !.at = "fetch", !.gen = box]
  /\ UNCHANGED <<box, conn, acc, banked, deleted, carried, slack, gone, readded, failures>>

FetchConnections ==
  /\ sample.at = "fetch"
  /\ sample' = [sample EXCEPT !.at = "observe", !.snap = {<<k, conn[k].bytes>> : k \in Open}]
  /\ UNCHANGED <<box, conn, acc, banked, deleted, carried, slack, gone, readded, failures>>

\* The API does not answer: nothing is observed.
FetchFails ==
  /\ sample.at = "fetch" /\ failures < MaxFailures
  /\ failures' = failures + 1
  /\ sample' = Rest
  /\ UNCHANGED <<box, conn, acc, banked, deleted, carried, slack, gone, readded>>

Snapped == [k \in {s[1] : s \in sample.snap} |-> CHOOSE n \in 0..MaxBytes : <<k, n>> \in sample.snap]
Seen(k) == IF k \in DOMAIN acc.seen THEN acc.seen[k] ELSE 0
Increases == [k \in DOMAIN Snapped |->
               IF Snapped[k] >= Seen(k) THEN Snapped[k] - Seen(k) ELSE Snapped[k]]
Deltas == [r \in Refs |-> SumFunctionOnSet(Increases, {k \in DOMAIN Snapped : Ref(k) = r})]

\* The first snapshot of a generation only sets the watermarks.
Baseline ==
  /\ sample' = Rest
  /\ acc' = [gen |-> sample.gen, seen |-> Snapped]
  /\ Waive(Refs)

\* add_deltas looks tombstones up before anything opens a transaction, one
\* channel at a time, until it comes to a channel without one.
Banking == sample.at \in {"check", "insert"}
Growing == {r \in Refs : Deltas[r] > 0}

LookUp ==
  /\ sample.at = "check"
  /\ \E r \in Growing \ sample.skip :
       sample' = IF Tombstoned(r) THEN [sample EXCEPT !.skip = @ \cup {r}]
                 ELSE [sample EXCEPT !.at = "insert", !.first = {r}]
  /\ UNCHANGED <<box, conn, acc, banked, deleted, carried, slack, gone, readded, failures>>

\* That channel's insert opens the transaction, in which the others are looked
\* up; the watermarks follow the commit.
Dropped(r) == r \in sample.skip \/ (Tombstoned(r) /\ r \notin sample.first)
ToBank == sample.at = "insert" \/ (sample.at = "check" /\ Growing \subseteq sample.skip)

\* A late sample brings a forgotten row back.
BankUnchecked ==
  /\ ToBank
  /\ sample' = Rest
  /\ acc' = [acc EXCEPT !.seen = Snapped]
  /\ banked' = [r \in Refs |-> banked[r] + Deltas[r]]
  /\ UNCHANGED <<box, conn, deleted, carried, gone, readded, failures>>
  /\ Waive({})

Bank ==
  /\ ToBank
  /\ sample' = Rest
  /\ acc' = [acc EXCEPT !.seen = Snapped]
  /\ banked' = [r \in Refs |-> IF Dropped(r) THEN banked[r] ELSE banked[r] + Deltas[r]]
  /\ UNCHANGED <<box, conn, deleted, carried, gone, readded, failures>>
  /\ Waive({r \in Refs : Dropped(r)})

BankFailsAfterAdvance ==
  /\ Banking /\ failures < MaxFailures /\ Growing # {}
  /\ failures' = failures + 1
  /\ sample' = Rest
  /\ acc' = [acc EXCEPT !.seen = Snapped]
  /\ UNCHANGED <<box, conn, banked, deleted, carried, slack, gone, readded>>

\* SQLite fails: the transaction is undone and the watermarks stay.
BankFails ==
  /\ Banking /\ failures < MaxFailures /\ Growing # {}
  /\ failures' = failures + 1
  /\ sample' = Rest
  /\ UNCHANGED <<box, conn, acc, banked, deleted, carried, slack, gone, readded>>

FirstOfGenerationIsNew == FALSE
FirstOfGeneration == acc.gen # sample.gen

\* Nothing grew: metrics.db is not opened.
Advance ==
  /\ sample' = Rest
  /\ acc' = [acc EXCEPT !.seen = Snapped]
  /\ UNCHANGED slack

\* The generation is read again; what follows does not look at sing-box.
Observe ==
  /\ sample.at = "observe" /\ sample.gen = box
  /\ UNCHANGED <<box, conn, banked, carried, failures, deleted, gone, readded>>
  /\ \/ FirstOfGeneration /\ Baseline
     \/ ~FirstOfGeneration /\ Growing = {} /\ Advance
     \/ /\ ~FirstOfGeneration /\ Growing # {}
        /\ sample' = [sample EXCEPT !.at = "check"]
        /\ UNCHANGED <<acc, slack>>

Discard ==
  /\ sample.at = "observe" /\ sample.gen # box
  /\ sample' = Rest
  /\ UNCHANGED <<box, conn, acc, banked, deleted, carried, slack, gone, readded, failures>>

\* The accumulator and the worker go with the daemon.
DaemonRestarts ==
  /\ failures < MaxFailures
  /\ failures' = failures + 1
  /\ acc' = [gen |-> Unstarted, seen |-> <<>>]
  /\ sample' = Rest
  /\ UNCHANGED <<box, conn, banked, deleted, carried, gone, readded>>
  /\ Waive(Refs)
---------------------------------------------------------------------------
(* Removals and re-creations, each one transaction of metrics.db *)

RemoveChannel(r) ==
  /\ r \notin gone
  /\ banked' = [banked EXCEPT ![r] = 0]
  /\ deleted' = deleted \cup {r}
  /\ gone' = gone \cup {r}
  /\ UNCHANGED <<box, conn, acc, sample, carried, readded, failures>>
  /\ Waive({r})

ReviveChannel(r) ==
  /\ r \in gone /\ Everything \notin deleted
  /\ deleted' = deleted \ {r}
  /\ gone' = gone \ {r}
  /\ UNCHANGED <<box, conn, acc, sample, banked, carried, readded, failures>>
  /\ Waive({r})

RemoveProvider ==
  /\ Everything \notin deleted /\ ~readded
  /\ banked' = [r \in Refs |-> 0]
  /\ deleted' = {Everything}
  /\ gone' = Refs
  /\ UNCHANGED <<box, conn, acc, sample, carried, readded, failures>>
  /\ Waive(Refs)

ReviveProvider ==
  /\ Everything \in deleted
  /\ deleted' = deleted \ {Everything}
  /\ readded' = TRUE
  /\ UNCHANGED <<box, conn, acc, sample, banked, carried, gone, failures>>
  /\ Waive(Refs)

Sampling == ReadGeneration \/ FetchConnections \/ Observe \/ LookUp \/ Bank \/ Discard
Next ==
  \/ \E k \in Conns : Carry(k) \/ Close(k)
  \/ Reload \/ RestartBox
  \/ Sampling \/ FetchFails \/ BankFails \/ DaemonRestarts
  \/ \E r \in Refs : RemoveChannel(r) \/ ReviveChannel(r)
  \/ RemoveProvider \/ ReviveProvider

\* The loop starts a sample every interval as long as the daemon runs.
Fairness == WF_vars(Sampling)
Spec == Init /\ [][Next]_vars /\ Fairness
---------------------------------------------------------------------------
(* Properties *)

\* A total never exceeds what the channel carried: not after a restart of the
\* daemon under a living sing-box, not after a sample taken twice
\* ("correctness beats completeness", metrics.py:288).
NeverOvercounts == \A r \in Refs : banked[r] <= carried[r]

\* A removed channel's row does not come back with a sample taken before the
\* removal or from a connection that outlives it.  One bank can still write it:
\* the one that had looked for its tombstone when the removal committed.
DeletedStaysDeleted ==
  [][\A r \in gone : banked'[r] > banked[r] => readded \/ (sample.at = "insert" /\ r \in sample.first)]_vars

\* Once a channel carries nothing more, all it carried is banked in the end, also
\* across database failures, but for the bytes of a closed connection, of a
\* removed channel, and of a daemon's or sing-box's first interval.
BytesAreBanked ==
  \A r \in Refs : <>[][carried'[r] = carried[r]]_vars => <>[](banked[r] + slack[r] >= carried[r])
=============================================================================
