---------------------------- MODULE EditsProofs ----------------------------
(***************************************************************************)
(* Theorems about what is edited in state.json.  Channels, for any slots,  *)
(* servers and number of commands: the invariant says what a command knows *)
(* by the step it is at.  RuleTable, for any channels, matchers and length *)
(* of the table: every edit is a choice of rows, rows put in where they    *)
(* split no ruleset, or both.  Routing, for any table, channels and flows: *)
(* the compiled list answers as the list of its parts, in their order.     *)
(***************************************************************************)
EXTENDS MCEdits, Foundations

---------------------------------------------------------------------------
(* Channels: what a command knows at its step *)

Sane == ConfSlots \subseteq Slots /\ None \notin Servers

Known == Servers \cup {None}
Entries == [pin : Known, wg : Known, on : BOOLEAN, is : BOOLEAN]
Kinds == {None, "add", "conf", "pin", "unpin", "enable", "disable", "remove", "token", "reconnect"}
Steps == {"ready", "resolve", "params", "reread", "commit", "done"}
Records == [kind : Kinds, at : Steps, id : Slots \cup {None}, pin : Known, rev : BOOLEAN,
            read : [Slots -> Entries], got : [Slots -> Known]]

ChannelTypes ==
  /\ entry \in [Slots -> Entries]
  /\ stale \subseteq Slots
  /\ job \in [Jobs -> Records]

\* What a command was planned with.
PlanOK(r) ==
  /\ r.at \in {"resolve", "params", "reread", "commit"} => r.kind # None
  /\ r.at \in {"resolve", "params", "reread", "commit"} /\ r.kind # "token" => r.id \in Slots
  /\ r.at \in {"params", "reread"} => r.kind = "enable"
  /\ r.at = "resolve" => r.kind \in {"add", "pin", "enable", "token", "reconnect"}
  /\ r.kind = "token" => ~r.rev
  /\ r.at \in {"resolve", "commit"} /\ r.kind = "reconnect" => r.rev
  /\ r.at = "resolve" /\ r.kind \in {"enable", "token", "reconnect"} => r.pin = None

\* The server a channel without a pin of the command's own was given.
Given(r, s) == r.read[s].pin # None => r.got[s] = r.read[s].pin
\* What the provider answered it.
AnswerOK(r) ==
  /\ r.at = "commit" /\ r.kind \in {"add", "pin"} =>
       r.got[r.id] # None /\ (r.pin # None => r.got[r.id] = r.pin)
  /\ r.at = "commit" /\ r.kind = "token" => \A s \in Slots : r.got[s] # None => Given(r, s)
  /\ r.at = "params" \/ (r.at = "commit" /\ r.kind = "reconnect") => r.got[r.id] # None /\ Given(r, r.id)
  /\ r.at = "reread" => r.got[r.id] # None
  /\ r.at = "commit" /\ r.kind = "enable" => r.got[r.id] # None \/ r.read[r.id].wg # None
JobOK(r) == PlanOK(r) /\ AnswerOK(r)
JobInv == \A j \in Jobs : JobOK(job[j])

ChannelsInv == ChannelTypes /\ JobInv /\ PinHolds /\ EnabledHasParams
---------------------------------------------------------------------------
(* A step of a job leaves the others alone *)

LEMMA JobStep ==
  ASSUME ChannelTypes, JobInv, NEW j \in Jobs, NEW r \in Records, JobOK(r),
         job' = [job EXCEPT ![j] = r]
  PROVE  job' \in [Jobs -> Records] /\ JobInv'
<1>1. job' \in [Jobs -> Records]
  BY DEF ChannelTypes
<1>2. ASSUME NEW k \in Jobs PROVE JobOK(job'[k])
  <2>1. job'[k] = IF k = j THEN r ELSE job[k]
    BY DEF ChannelTypes
  <2> QED BY <2>1 DEF JobInv
<1>3. JobInv'
  BY <1>2 DEF JobInv
<1> QED BY <1>1, <1>3

LEMMA WaitingOK == Waiting \in Records /\ JobOK(Waiting)
<1>1. Absent \in Entries
  BY DEF Absent, Entries, Known
<1>2. Unresolved \in [Slots -> Known]
  BY DEF Unresolved, Known
<1>3. Waiting \in Records
  BY <1>1, <1>2 DEF Waiting, Records, Kinds, Steps, Known
<1> QED BY <1>3 DEF Waiting, JobOK, PlanOK, AnswerOK, None

LEMMA FinishOK ==
  ASSUME ChannelTypes, JobInv, NEW j \in Jobs, Finish(j)
  PROVE  job' \in [Jobs -> Records] /\ JobInv'
<1> DEFINE r == Done(j)
<1>1. job[j].kind \in Kinds /\ (job[j].kind = "token" => ~Waiting.rev)
  BY DEF ChannelTypes, Records, Waiting
<1>2. r \in Records
  BY <1>1, WaitingOK DEF Done, Records, Steps
<1>3. r.at = "done" /\ r.rev = FALSE
  BY WaitingOK DEF Done, Records, Waiting
<1>4. JobOK(r)
  BY <1>3 DEF JobOK, PlanOK, AnswerOK
<1> QED BY <1>2, <1>4, JobStep DEF Finish

LEMMA PlanStep ==
  ASSUME ChannelsInv, NEW j \in Jobs, NEW kind \in Kinds, NEW s \in Slots \cup {None},
         NEW pin \in Known, NEW rev \in BOOLEAN, NEW at \in Steps, Plan(j, kind, s, pin, rev, at),
         kind \notin {None, "add"} \/ at = "resolve", kind # None,
         at \in {"resolve", "commit"}, kind # "token" => s \in Slots,
         at = "resolve" => kind \in {"add", "pin", "enable", "token", "reconnect"},
         at = "commit" => kind \in {"conf", "unpin", "enable", "disable", "remove"},
         kind = "token" => ~rev, kind = "reconnect" => rev,
         kind \in {"enable", "token", "reconnect"} => pin = None,
         at = "commit" /\ kind = "enable" => entry[s].wg # None
  PROVE  ChannelsInv'
<1> DEFINE r == [Waiting EXCEPT !.kind = kind, !.at = at, !.id = s, !.pin = pin, !.rev = rev, !.read = entry]
<1>a. entry \in [Slots -> Entries]
  BY DEF ChannelsInv, ChannelTypes
<1>1. /\ r \in Records
      /\ r.kind = kind /\ r.at = at /\ r.id = s /\ r.pin = pin /\ r.rev = rev /\ r.read = entry
  <2> DEFINE r1 == [Waiting EXCEPT !.kind = kind]
             r2 == [r1 EXCEPT !.at = at]
             r3 == [r2 EXCEPT !.id = s]
             r4 == [r3 EXCEPT !.pin = pin]
             r5 == [r4 EXCEPT !.rev = rev]
             r6 == [r5 EXCEPT !.read = entry]
  <2>1. r1 \in Records /\ r1.kind = kind
    BY WaitingOK DEF Records
  <2>2. r2 \in Records /\ r2.kind = kind /\ r2.at = at
    <3> HIDE DEF r1
    <3> QED BY <2>1 DEF Records
  <2>3. r3 \in Records /\ r3.kind = kind /\ r3.at = at /\ r3.id = s
    <3> HIDE DEF r2
    <3> QED BY <2>2 DEF Records
  <2>4. r4 \in Records /\ r4.kind = kind /\ r4.at = at /\ r4.id = s /\ r4.pin = pin
    <3> HIDE DEF r3
    <3> QED BY <2>3 DEF Records
  <2>5. r5 \in Records /\ r5.kind = kind /\ r5.at = at /\ r5.id = s /\ r5.pin = pin /\ r5.rev = rev
    <3> HIDE DEF r4
    <3> QED BY <2>4 DEF Records
  <2>6. /\ r6 \in Records
        /\ r6.kind = kind /\ r6.at = at /\ r6.id = s /\ r6.pin = pin /\ r6.rev = rev /\ r6.read = entry
    <3> HIDE DEF r5
    <3> QED BY <2>5, <1>a DEF Records
  <2>7. r = r6
    OBVIOUS
  <2> QED BY <2>6, <2>7
<1>3. JobOK(r)
  BY <1>1 DEF JobOK, PlanOK, AnswerOK
<1>4. job' = [job EXCEPT ![j] = r] /\ UNCHANGED <<entry, stale>>
  BY DEF Plan
<1>5. job' \in [Jobs -> Records] /\ JobInv'
  BY <1>1, <1>3, <1>4, JobStep DEF ChannelsInv
<1> HIDE DEF r
<1> QED BY <1>4, <1>5 DEF ChannelsInv, ChannelTypes, PinHolds, EnabledHasParams
---------------------------------------------------------------------------
(* Planning and the provider's answer *)

LEMMA PlansKeep ==
  ASSUME Sane, ChannelsInv, NEW j \in Jobs, Plans(j)
  PROVE  ChannelsInv'
<1> USE DEF Kinds, Steps, Known, None
<1>1. CASE ChannelAdd(j)
  BY <1>1, PlanStep DEF ChannelAdd
<1>2. CASE ChannelAddPinned(j)
  BY <1>2, PlanStep DEF ChannelAddPinned
<1>3. CASE ImportConf(j)
  BY <1>3, PlanStep DEF ImportConf, Sane
<1>4. CASE SetServer(j)
  BY <1>4, PlanStep DEF SetServer
<1>5. CASE SetServerAuto(j)
  BY <1>5, PlanStep DEF SetServerAuto
<1>6. CASE Enable(j)
  <2>1. PICK s \in Slots, rev \in BOOLEAN :
          Plan(j, "enable", s, None, rev, IF NeedsServer(entry[s]) THEN "resolve" ELSE "commit")
    BY <1>6 DEF Enable
  <2>2. CASE NeedsServer(entry[s])
    BY <2>1, <2>2, PlanStep
  <2>3. CASE ~NeedsServer(entry[s])
    BY <2>1, <2>3, PlanStep DEF NeedsServer
  <2> QED BY <2>2, <2>3
<1>7. CASE Disable(j)
  BY <1>7, PlanStep DEF Disable
<1>8. CASE RemoveChannel(j)
  BY <1>8, PlanStep DEF RemoveChannel
<1>9. CASE UpdateToken(j)
  BY <1>9, PlanStep DEF UpdateToken
<1>10. CASE Reconnect(j)
  BY <1>10, PlanStep DEF Reconnect
<1> QED BY <1>1, <1>2, <1>3, <1>4, <1>5, <1>6, <1>7, <1>8, <1>9, <1>10 DEF Plans

\* The provider answers the pin of the command, else that of the channel read.
LEMMA ResolveKeeps ==
  ASSUME ChannelsInv, NEW j \in Jobs, Resolve(j)
  PROVE  ChannelsInv'
<1> DEFINE b == job[j]
<1>1. b \in Records /\ JobOK(b) /\ b.at = "resolve"
  BY DEF ChannelsInv, ChannelTypes, JobInv, Resolve
<1>2. PICK got \in [Slots -> Servers \cup {None}] :
        /\ \A s \in Slots : got[s] \in IF s \in Resolves(j) THEN Wanted(j, s) \cup {None} ELSE {None}
        /\ job' = [job EXCEPT ![j] =
             IF b.kind # "token" /\ got[b.id] = None THEN Done(j)
             ELSE [b EXCEPT !.got = got, !.at = IF b.kind = "enable" THEN "params" ELSE "commit"]]
  BY DEF Resolve
<1>3. UNCHANGED <<entry, stale>>
  BY DEF Resolve
<1>4. job' \in [Jobs -> Records] /\ JobInv'
  <2>1. CASE b.kind # "token" /\ got[b.id] = None
    BY <1>2, <2>1, FinishOK DEF ChannelsInv, Finish
  <2>2. CASE ~(b.kind # "token" /\ got[b.id] = None)
    <3> DEFINE r0 == [b EXCEPT !.got = got]
               r == [r0 EXCEPT !.at = IF b.kind = "enable" THEN "params" ELSE "commit"]
    <3>1. job' = [job EXCEPT ![j] = r]
      BY <1>2, <2>2
    <3>2. /\ r0 \in Records
          /\ r0.got = got /\ r0.kind = b.kind /\ r0.id = b.id /\ r0.pin = b.pin
          /\ r0.rev = b.rev /\ r0.read = b.read
      BY <1>1 DEF Records, Known
    <3>3. /\ r \in Records
          /\ r.got = got /\ r.kind = b.kind /\ r.id = b.id /\ r.pin = b.pin
          /\ r.rev = b.rev /\ r.read = b.read
          /\ r.at = IF b.kind = "enable" THEN "params" ELSE "commit"
      <4> HIDE DEF r0
      <4> QED BY <3>2 DEF Records, Steps
    <3> HIDE DEF r
    <3>4. PlanOK(r)
      BY <1>1, <3>3 DEF JobOK, PlanOK
    <3>5. b.kind \in {"add", "pin"} => got[b.id] # None /\ (b.pin # None => got[b.id] = b.pin)
      BY <1>1, <1>2, <2>2 DEF JobOK, PlanOK, Resolves, Wanted
    <3>6. b.kind = "token" => \A s \in Slots : got[s] # None => (b.read[s].pin # None => got[s] = b.read[s].pin)
      BY <1>1, <1>2 DEF JobOK, PlanOK, Resolves, Wanted
    <3>7. b.kind \in {"enable", "reconnect"} =>
            got[b.id] # None /\ (b.read[b.id].pin # None => got[b.id] = b.read[b.id].pin)
      BY <1>1, <1>2, <2>2 DEF JobOK, PlanOK, Resolves, Wanted
    <3>8. AnswerOK(r)
      BY <1>1, <3>3, <3>5, <3>6, <3>7 DEF AnswerOK, Given, JobOK, PlanOK
    <3> QED BY <3>1, <3>3, <3>4, <3>8, JobStep DEF ChannelsInv, JobOK
  <2> QED BY <2>1, <2>2
<1> QED BY <1>3, <1>4 DEF ChannelsInv, ChannelTypes, PinHolds, EnabledHasParams
---------------------------------------------------------------------------
(* Commits: what becomes of one channel *)

Right(e) ==
  /\ e.pin # None => e.wg \in {e.pin, None}
  /\ e.on => e.wg # None
Fits(s) == s \notin stale => Right(entry[s])
LEMMA FitsAll == ASSUME ChannelsInv, NEW s \in Slots PROVE Fits(s) /\ entry[s] \in Entries
BY DEF ChannelsInv, ChannelTypes, PinHolds, EnabledHasParams, Fits, Right

\* A channel that is written and fits leaves the channels fitting.
LEMMA OneWritten ==
  ASSUME ChannelsInv, NEW s \in Slots, NEW e \in Entries,
         entry' = [entry EXCEPT ![s] = e],
         stale' \subseteq Slots, stale \ {s} \subseteq stale',
         s \notin stale' => Right(e),
         job' \in [Jobs -> Records] /\ JobInv'
  PROVE  ChannelsInv'
<1>1. entry' \in [Slots -> Entries]
  BY DEF ChannelsInv, ChannelTypes
<1>2. ASSUME NEW t \in Slots PROVE Fits(t)'
  <2>1. CASE t = s
    BY <2>1 DEF Fits, ChannelsInv, ChannelTypes
  <2>2. CASE t # s
    <3>1. entry'[t] = entry[t] /\ (t \notin stale' => t \notin stale)
      BY <2>2 DEF ChannelsInv, ChannelTypes
    <3> QED BY <3>1, FitsAll DEF Fits
  <2> QED BY <2>1, <2>2
<1> QED BY <1>1, <1>2 DEF ChannelsInv, ChannelTypes, PinHolds, EnabledHasParams, Fits, Right

\* Parameters resolved for a channel whose pin is still the one read fit it.
LEMMA RewrittenFits ==
  ASSUME ChannelsInv, NEW j \in Jobs, NEW ss \in SUBSET Slots, Rewritten(j, ss),
         \A s \in ss : job[j].got[s] # None /\ Given(job[j], s),
         \A s \in ss : job[j].rev => job[j].read[s].pin = entry[s].pin,
         job' \in [Jobs -> Records] /\ JobInv'
  PROVE  ChannelsInv'
<1>1. job[j].got \in [Slots -> Known] /\ entry \in [Slots -> Entries]
  BY DEF ChannelsInv, ChannelTypes, Records
<1>2. ASSUME NEW s \in Slots PROVE entry'[s] \in Entries /\ Fits(s)'
  <2>1. CASE s \in ss
    <3> DEFINE e == [entry[s] EXCEPT !.wg = job[j].got[s]]
    <3>1. e \in Entries /\ e.pin = entry[s].pin /\ e.wg = job[j].got[s]
      BY <1>1 DEF Entries
    <3>2. entry'[s] = e
      BY <2>1 DEF Rewritten
    <3>3. s \notin stale' => job[j].read[s].pin = entry[s].pin
      BY <2>1 DEF Rewritten
    <3> HIDE DEF e
    <3> QED BY <2>1, <3>1, <3>2, <3>3 DEF Fits, Right, Given
  <2>2. CASE s \notin ss
    <3>1. entry'[s] = entry[s] /\ (s \notin stale' => s \notin stale)
      BY <2>2 DEF Rewritten
    <3> QED BY <3>1, FitsAll DEF Fits
  <2> QED BY <2>1, <2>2
<1>3. entry' \in [Slots -> Entries]
  BY <1>2 DEF Rewritten
<1>4. stale' \subseteq Slots
  BY DEF Rewritten, ChannelsInv, ChannelTypes
<1> QED BY <1>2, <1>3, <1>4 DEF ChannelsInv, ChannelTypes, PinHolds, EnabledHasParams, Fits, Right

\* A step that touches no channel.
LEMMA NoneWritten ==
  ASSUME ChannelsInv, UNCHANGED <<entry, stale>>, job' \in [Jobs -> Records] /\ JobInv'
  PROVE  ChannelsInv'
BY DEF ChannelsInv, ChannelTypes, PinHolds, EnabledHasParams
---------------------------------------------------------------------------
(* Commits: the commands *)

LEMMA WritesKeep ==
  ASSUME Sane, ChannelsInv, NEW j \in Jobs,
         CommitAdd(j) \/ CommitConf(j) \/ CommitPin(j) \/ CommitUnpin(j)
           \/ CommitEnable(j) \/ CommitDisable(j) \/ CommitRemove(j)
  PROVE  ChannelsInv'
<1> DEFINE b == job[j]
           s == b.id
<1>1. b \in Records /\ PlanOK(b) /\ AnswerOK(b)
  BY DEF ChannelsInv, ChannelTypes, JobInv, JobOK
<1>2. job' \in [Jobs -> Records] /\ JobInv'
  BY FinishOK DEF ChannelsInv, CommitAdd, CommitConf, CommitPin, CommitUnpin, CommitEnable, CommitDisable, CommitRemove
<1>3. stale \subseteq Slots /\ \A t \in Slots : entry[t] \in Entries /\ Fits(t)
  BY FitsAll DEF ChannelsInv, ChannelTypes
<1>4. b.kind \notin {None, "token"} /\ b.at = "commit" => s \in Slots
  BY <1>1 DEF PlanOK
<1>5. CASE CommitAdd(j)
  <2> DEFINE e == Made(b.pin, b.got[s], TRUE)
  <2>1. NextId \in Slots
    BY <1>5 DEF CommitAdd, NextId
  <2>2. b.at = "commit" /\ b.kind = "add"
    BY <1>5 DEF CommitAdd, Commits
  <2>3. s \in Slots /\ b.got[s] # None /\ (b.pin # None => b.got[s] = b.pin)
    BY <1>1, <1>4, <2>2 DEF AnswerOK, None
  <2>4. e \in Entries /\ Right(e)
    BY <1>1, <2>3 DEF Made, Entries, Records, Right
  <2>5. entry' = [entry EXCEPT ![NextId] = e] /\ stale' = stale \ {NextId}
    BY <1>5 DEF CommitAdd, Created
  <2> HIDE DEF e
  <2> QED BY <1>2, <1>3, <2>1, <2>4, <2>5, OneWritten
<1>6. CASE CommitConf(j)
  <2>1. s \in Slots
    BY <1>4, <1>6 DEF CommitConf, Commits, None
  <2>2. PICK wg \in Servers : entry' = [entry EXCEPT ![s] = Made(None, wg, IF entry[s].is THEN entry[s].on ELSE TRUE)]
    BY <1>6 DEF CommitConf
  <2> DEFINE e == Made(None, wg, IF entry[s].is THEN entry[s].on ELSE TRUE)
  <2>3. e \in Entries /\ Right(e)
    BY <1>3, <2>1 DEF Made, Entries, Known, Right, Sane
  <2>4. stale' = stale \ {s}
    BY <1>6 DEF CommitConf, Created
  <2> HIDE DEF e
  <2> QED BY <1>2, <1>3, <2>1, <2>2, <2>3, <2>4, OneWritten DEF e
<1>7. CASE CommitPin(j)
  <2> DEFINE e == [entry[s] EXCEPT !.pin = b.pin, !.wg = b.got[s]]
  <2>1. b.at = "commit" /\ b.kind = "pin"
    BY <1>7 DEF CommitPin, Commits
  <2>2. s \in Slots /\ b.got[s] # None /\ (b.pin # None => b.got[s] = b.pin)
    BY <1>1, <1>4, <2>1 DEF AnswerOK, None
  <2>3. e \in Entries /\ e.pin = b.pin /\ e.wg = b.got[s]
    BY <1>1, <1>3, <2>2 DEF Entries, Records
  <2>4. entry' = [entry EXCEPT ![s] = e] /\ stale' = stale \ {s}
    BY <1>7, <2>2 DEF CommitPin, ChannelsInv, ChannelTypes
  <2> HIDE DEF e
  <2>5. Right(e)
    BY <2>2, <2>3 DEF Right
  <2> QED BY <1>2, <1>3, <2>2, <2>3, <2>4, <2>5, OneWritten
<1>8. CASE CommitUnpin(j)
  <2> DEFINE e == [entry[s] EXCEPT !.pin = None]
  <2>1. s \in Slots
    BY <1>4, <1>8 DEF CommitUnpin, Commits, None
  <2>2. e \in Entries /\ e.pin = None /\ e.wg = entry[s].wg /\ e.on = entry[s].on
    BY <1>3, <2>1 DEF Entries, Known
  <2>3. entry' = [entry EXCEPT ![s] = e] /\ stale' = stale
    BY <1>8, <2>1 DEF CommitUnpin, ChannelsInv, ChannelTypes
  <2> HIDE DEF e
  <2>4. s \notin stale' => Right(e)
    BY <1>3, <2>1, <2>2, <2>3 DEF Right, Fits
  <2> QED BY <1>2, <1>3, <2>1, <2>2, <2>3, <2>4, OneWritten
<1>9. CASE CommitEnable(j)
  <2> DEFINE e == [entry[s] EXCEPT !.on = TRUE]
  <2>1. b.at = "commit" /\ b.kind = "enable"
    BY <1>9 DEF CommitEnable, Commits
  <2>2. s \in Slots /\ (b.got[s] # None \/ b.read[s].wg # None)
    BY <1>1, <1>4, <2>1 DEF AnswerOK, None
  <2>3. e \in Entries /\ e.pin = entry[s].pin /\ e.wg = entry[s].wg
    BY <1>3, <2>2 DEF Entries
  <2>4. entry' = [entry EXCEPT ![s] = e]
    BY <1>9, <2>2 DEF CommitEnable, ChannelsInv, ChannelTypes
  <2>5. stale' = IF entry[s].wg = None THEN stale \cup {s} ELSE stale
    BY <1>9, <2>2 DEF CommitEnable
  <2> HIDE DEF e
  <2>6. s \notin stale' => Right(e)
    BY <1>3, <2>2, <2>3, <2>5 DEF Right, Fits
  <2>7. stale' \subseteq Slots /\ stale \ {s} \subseteq stale'
    BY <1>3, <2>2, <2>5
  <2> QED BY <1>2, <2>2, <2>3, <2>4, <2>6, <2>7, OneWritten
<1>10. CASE CommitDisable(j)
  <2> DEFINE e == [entry[s] EXCEPT !.on = FALSE]
  <2>1. s \in Slots
    BY <1>4, <1>10 DEF CommitDisable, Commits, None
  <2>2. e \in Entries /\ e.pin = entry[s].pin /\ e.wg = entry[s].wg /\ ~e.on
    BY <1>3, <2>1 DEF Entries
  <2>3. entry' = [entry EXCEPT ![s] = e] /\ stale' = stale
    BY <1>10, <2>1 DEF CommitDisable, ChannelsInv, ChannelTypes
  <2> HIDE DEF e
  <2>4. s \notin stale' => Right(e)
    BY <1>3, <2>1, <2>2, <2>3 DEF Right, Fits
  <2> QED BY <1>2, <1>3, <2>1, <2>2, <2>3, <2>4, OneWritten
<1>11. CASE CommitRemove(j)
  <2>1. s \in Slots
    BY <1>4, <1>11 DEF CommitRemove, Commits, None
  <2>2. Absent \in Entries /\ Right(Absent)
    BY DEF Absent, Entries, Known, Right
  <2>3. entry' = [entry EXCEPT ![s] = Absent] /\ stale' = stale \ {s}
    BY <1>11 DEF CommitRemove
  <2> QED BY <1>2, <1>3, <2>1, <2>2, <2>3, OneWritten
<1> QED BY <1>5, <1>6, <1>7, <1>8, <1>9, <1>10, <1>11
---------------------------------------------------------------------------
(* Commits: parameters for a channel that exists *)

LEMMA ParametersKeep ==
  ASSUME ChannelsInv, NEW j \in Jobs,
         CommitToken(j) \/ CommitReconnect(j) \/ CommitParams(j) \/ Reread(j)
  PROVE  ChannelsInv'
<1> DEFINE b == job[j]
           s == b.id
<1>1. b \in Records /\ PlanOK(b) /\ AnswerOK(b)
  BY DEF ChannelsInv, ChannelTypes, JobInv, JobOK
<1>2. CASE CommitToken(j)
  <2> DEFINE ss == {t \in Slots : b.got[t] # None /\ entry[t].is}
  <2>1. b.at = "commit" /\ b.kind = "token" /\ ~b.rev
    BY <1>1, <1>2 DEF CommitToken, Commits, PlanOK
  <2>2. \A t \in ss : b.got[t] # None /\ Given(b, t)
    BY <1>1, <2>1 DEF AnswerOK
  <2>3. Rewritten(j, ss) /\ job' \in [Jobs -> Records] /\ JobInv'
    BY <1>2, FinishOK DEF CommitToken, ChannelsInv
  <2> QED BY <2>1, <2>2, <2>3, RewrittenFits
<1>3. CASE CommitReconnect(j)
  <2>1. b.at = "commit" /\ b.kind = "reconnect" /\ Allowed(j)
    BY <1>3 DEF CommitReconnect, Commits
  <2>2. s \in Slots /\ b.got[s] # None /\ Given(b, s)
    BY <1>1, <2>1 DEF PlanOK, AnswerOK
  <2>3. b.rev => b.read[s].pin = entry[s].pin
    BY <2>1 DEF Allowed, Planned
  <2>4. Rewritten(j, {s}) /\ job' \in [Jobs -> Records] /\ JobInv'
    BY <1>3, FinishOK DEF CommitReconnect, ChannelsInv
  <2> QED BY <2>2, <2>3, <2>4, RewrittenFits
<1>4. CASE CommitParams(j)
  <2> DEFINE r == [b EXCEPT !.at = "reread"]
  <2>1. b.at = "params" /\ Allowed(j)
    BY <1>4 DEF CommitParams
  <2>2. s \in Slots /\ b.kind = "enable" /\ b.got[s] # None /\ Given(b, s)
    BY <1>1, <2>1 DEF PlanOK, AnswerOK
  <2>3. b.rev => b.read[s].pin = entry[s].pin
    BY <2>1 DEF Allowed, Planned
  <2>4. r \in Records /\ r.at = "reread" /\ r.kind = b.kind /\ r.id = s /\ r.got = b.got
    BY <1>1 DEF Records, Steps
  <2>5. Rewritten(j, {s}) /\ job' = [job EXCEPT ![j] = r]
    BY <1>4 DEF CommitParams, Goto, ChannelsInv, ChannelTypes
  <2> HIDE DEF r
  <2>6. JobOK(r)
    BY <2>2, <2>4 DEF JobOK, PlanOK, AnswerOK, None
  <2>7. job' \in [Jobs -> Records] /\ JobInv'
    BY <2>4, <2>5, <2>6, JobStep DEF ChannelsInv
  <2> QED BY <2>2, <2>3, <2>5, <2>7, RewrittenFits
<1>5. CASE Reread(j)
  <2> DEFINE r0 == [b EXCEPT !.at = "commit"]
             r == [r0 EXCEPT !.read = entry]
  <2>1. b.at = "reread" /\ UNCHANGED <<entry, stale>>
    BY <1>5 DEF Reread
  <2>2. s \in Slots /\ b.kind = "enable" /\ b.got[s] # None
    BY <1>1, <2>1 DEF PlanOK, AnswerOK
  <2>3. r0 \in Records /\ r0.at = "commit" /\ r0.kind = b.kind /\ r0.id = s /\ r0.got = b.got
    BY <1>1 DEF Records, Steps
  <2>4. r \in Records /\ r.at = "commit" /\ r.kind = b.kind /\ r.id = s /\ r.got = b.got
    <3> HIDE DEF r0
    <3> QED BY <2>3 DEF Records, ChannelsInv, ChannelTypes
  <2>5. job' = [job EXCEPT ![j] = r]
    BY <1>5 DEF Reread, ChannelsInv, ChannelTypes
  <2> HIDE DEF r
  <2>6. JobOK(r)
    BY <2>2, <2>4 DEF JobOK, PlanOK, AnswerOK, None
  <2> QED BY <2>1, <2>4, <2>5, <2>6, JobStep, NoneWritten DEF ChannelsInv
<1> QED BY <1>2, <1>3, <1>4, <1>5

LEMMA ImportKeeps ==
  ASSUME ChannelsInv, NEW s \in Slots, NEW pin \in Known, Import(s, pin)
  PROVE  ChannelsInv'
<1> DEFINE e == Made(pin, None, FALSE)
<1>1. e \in Entries /\ Right(e)
  BY DEF Made, Entries, Known, Right
<1>2. entry' = [entry EXCEPT ![s] = e] /\ stale' = stale \ {s} /\ job' = job
  BY DEF Import
<1>3. job' \in [Jobs -> Records] /\ JobInv' /\ stale \subseteq Slots
  BY <1>2 DEF ChannelsInv, ChannelTypes, JobInv
<1> HIDE DEF e
<1> QED BY <1>1, <1>2, <1>3, OneWritten
---------------------------------------------------------------------------
(* The invariant and the theorems *)

LEMMA ChannelsStart == ASSUME Sane, Init PROVE ChannelsInv
<1>1. JobInv /\ job \in [Jobs -> Records]
  BY WaitingOK DEF Init, JobInv
<1>2. PICK s \in Slots, pin \in Known, wg \in Known, on \in BOOLEAN :
        /\ pin # None /\ wg # None => pin = wg
        /\ on => wg # None
        /\ entry = [t \in Slots |-> IF t = s THEN Made(pin, wg, on) ELSE Absent]
  BY DEF Init, Known
<1>3. Absent \in Entries /\ Right(Absent)
  BY DEF Absent, Entries, Known, Right
<1>4. Made(pin, wg, on) \in Entries /\ Right(Made(pin, wg, on))
  BY <1>2 DEF Made, Entries, Right
<1>5. stale = {} /\ \A t \in Slots : entry[t] \in Entries /\ Right(entry[t])
  BY <1>2, <1>3, <1>4 DEF Init
<1>6. entry \in [Slots -> Entries]
  BY <1>2, <1>3, <1>4
<1> QED BY <1>1, <1>5, <1>6 DEF ChannelsInv, ChannelTypes, PinHolds, EnabledHasParams, Right

LEMMA ChannelsInductive == ASSUME Sane, ChannelsInv, [Next]_vars PROVE ChannelsInv'
<1>1. CASE UNCHANGED vars
  BY <1>1 DEF vars, ChannelsInv, ChannelTypes, JobInv, PinHolds, EnabledHasParams
<1>2. ASSUME NEW j \in Jobs, JobSteps(j) PROVE ChannelsInv'
  <2>1. ASSUME Finish(j), UNCHANGED <<entry, stale>> PROVE ChannelsInv'
    BY <2>1, FinishOK, NoneWritten DEF ChannelsInv
  <2>2. CASE Conflict(j) \/ Vanished(j, {"pin", "unpin", "enable", "disable", "remove", "reconnect"})
    BY <2>1, <2>2 DEF Conflict, Vanished
  <2> QED BY <1>2, <2>2, PlansKeep, ResolveKeeps, WritesKeep, ParametersKeep DEF JobSteps, CommitSteps
<1>3. ASSUME NEW s \in Slots, NEW pin \in Servers \cup {None}, Import(s, pin) PROVE ChannelsInv'
  BY <1>3, ImportKeeps DEF Known
<1> QED BY <1>1, <1>2, <1>3 DEF Next

LEMMA ChannelsStay == ASSUME Sane PROVE Spec => []ChannelsInv
<1>1. Init => ChannelsInv
  BY ChannelsStart
<1>2. ChannelsInv /\ [Next]_vars => ChannelsInv'
  BY ChannelsInductive
<1> QED BY <1>1, <1>2, PTL DEF Spec

\* A pinned channel's parameters are its server's through any overlap of
\* commands, reconnects and imports (service.py's channel commands), for any
\* number of them, except those a token update or an unchecked enable wrote.
THEOREM PinsHold == ASSUME Sane PROVE Spec => []PinHolds
<1>1. ChannelsInv => PinHolds
  BY DEF ChannelsInv
<1> QED BY <1>1, ChannelsStay, PTL

\* An enabled channel has parameters to run with, for any number of commands,
\* except one that lost them between the plan of its enable and the commit.
THEOREM EnabledRuns == ASSUME Sane PROVE Spec => []EnabledHasParams
<1>1. ChannelsInv => EnabledHasParams
  BY DEF ChannelsInv
<1> QED BY <1>1, ChannelsStay, PTL
---------------------------------------------------------------------------
(* RuleTable: what every edit keeps *)

TableRow == [id : Nat, rs : Nat, m : TableMatchers, target : R!Targets, name : Names]
DistinctIds(t) == \A i, j \in DOMAIN t : t[i].id = t[j].id => i = j
Grouped(t) == t \in Seq(TableRow) /\ R!Contiguous(t) /\ DistinctIds(t)
Bounded(t) == \A i \in DOMAIN t : t[i].id \in 1..TableIds /\ t[i].rs \in 1..TableIds
Usable(t) == \A i \in DOMAIN t : R!TargetUsable(t[i].target)

TableInv ==
  /\ Grouped(rules) /\ Bounded(rules) /\ Usable(rules)
  /\ chan \in [TableChannels -> {"absent", "off", "on"}]
  /\ seen.kind = "ruleset" => seen.content # <<>>

LEMMA SameInTable ==
  /\ \A ss : R!FlattenSeq(ss) = FlattenSeq(ss)
  /\ \A S : R!Min(S) = Min(S) /\ R!Max(S) = Max(S)
BY DEF R!FlattenSeq, FlattenSeq, R!Min, Min, R!Max, Max

LEMMA CountInTable == \A S : R!Cardinality(S) = Cardinality(S)
BY DEF R!Cardinality, Cardinality

\* The rows u of t at some positions, h saying which.
Picks(t, at, u, h) ==
  /\ u \in Seq(TableRow)
  /\ h \in [1..Len(u) -> DOMAIN t \cap at]
  /\ \A j \in 1..Len(u) : u[j] = t[h[j]]
  /\ \A j, k \in 1..Len(u) : j < k => h[j] < h[k]
  /\ \A i \in DOMAIN t \cap at : \E j \in 1..Len(u) : h[j] = i

LEMMA RowsAtPicks ==
  ASSUME NEW t \in Seq(TableRow), NEW at
  PROVE  \E h : Picks(t, at, R!RowsAt(t, at), h)
<1> DEFINE ss == [i \in DOMAIN t |-> IF i \in at THEN <<t[i]>> ELSE <<>>]
           u == R!RowsAt(t, at)
<1>1. DOMAIN t = 1..Len(t) /\ Len(t) \in Nat /\ \A i \in 1..Len(t) : t[i] \in TableRow
  OBVIOUS
<1>2. ss \in Seq(Seq(TableRow)) /\ Len(ss) = Len(t)
  <2>1. \A i \in 1..Len(t) : ss[i] \in Seq(TableRow)
    BY <1>1
  <2> QED
    BY <1>1, <2>1
<1>3. u = FlattenSeq(ss)
  BY SameInTable DEF R!RowsAt
<1>4. /\ \A i \in 1..Len(t) : i \in at => Len(ss[i]) = 1 /\ ss[i][1] = t[i]
      /\ \A i \in 1..Len(t) : i \notin at => Len(ss[i]) = 0
  BY <1>1
<1> HIDE DEF ss, u
<1>5. PICK from, place : Flattened(ss, Len(t), u, from, place)
  BY <1>2, <1>3, FlattenIs
<1>6. u \in Seq(TableRow)
  BY <1>2, <1>3, FlattenIs
<1>7. \A j \in 1..Len(u) :
        from[j] \in 1..Len(t) /\ place[j] \in 1..Len(ss[from[j]]) /\ u[j] = ss[from[j]][place[j]]
  BY <1>5 DEF Flattened
<1>8. \A j \in 1..Len(u) : from[j] \in DOMAIN t \cap at /\ place[j] = 1 /\ u[j] = t[from[j]]
  BY <1>1, <1>4, <1>7
<1>9. from \in [1..Len(u) -> DOMAIN t \cap at]
  BY <1>5, <1>8 DEF Flattened
<1>10. \A j, k \in 1..Len(u) : j < k => from[j] < from[k]
  BY <1>5, <1>8 DEF Flattened
<1>11. \A i \in DOMAIN t \cap at : \E j \in 1..Len(u) : from[j] = i
  BY <1>1, <1>4, <1>5 DEF Flattened
<1>12. Picks(t, at, u, from)
  BY <1>6, <1>8, <1>9, <1>10, <1>11 DEF Picks
<1> QED
  BY <1>12 DEF u

\* Leaving rows out keeps a table grouped.
LEMMA PickKeeps ==
  ASSUME NEW t, Grouped(t), NEW at, NEW u, NEW h, Picks(t, at, u, h)
  PROVE  /\ Grouped(u)
         /\ Bounded(t) => Bounded(u)
         /\ Usable(t) => Usable(u)
<1>1. /\ DOMAIN u = 1..Len(u) /\ Len(u) \in Nat /\ DOMAIN t = 1..Len(t) /\ Len(t) \in Nat
      /\ \A j \in 1..Len(u) : h[j] \in DOMAIN t /\ h[j] \in Nat /\ u[j] = t[h[j]]
  BY DEF Picks, Grouped
<1>2. \A j, k \in 1..Len(u) : j < k => h[j] < h[k]
  BY DEF Picks
<1>3. \A i, j \in DOMAIN t :
        i < j /\ t[i].rs = t[j].rs =>
          t[i].target = t[j].target /\ \A k \in i..j : t[k].rs = t[i].rs
  BY DEF Grouped, R!Contiguous
<1>4. R!Contiguous(u)
  <2> SUFFICES ASSUME NEW i \in DOMAIN u, NEW j \in DOMAIN u, i < j, u[i].rs = u[j].rs
               PROVE  u[i].target = u[j].target /\ \A k \in i..j : u[k].rs = u[i].rs
    BY DEF R!Contiguous
  <2>1. h[i] \in DOMAIN t /\ h[j] \in DOMAIN t /\ h[i] < h[j] /\ u[i] = t[h[i]] /\ u[j] = t[h[j]]
    BY <1>1, <1>2
  <2>2. u[i].target = u[j].target /\ \A k \in h[i]..h[j] : t[k].rs = u[i].rs
    BY <1>3, <2>1
  <2>3. ASSUME NEW k \in i..j PROVE u[k].rs = u[i].rs
    <3>1. k \in 1..Len(u) /\ i \in 1..Len(u) /\ j \in 1..Len(u)
      BY <1>1
    <3>2. (k = i \/ h[i] < h[k]) /\ (k = j \/ h[k] < h[j])
      BY <1>2, <3>1
    <3>3. h[k] \in h[i]..h[j] /\ u[k] = t[h[k]]
      BY <1>1, <2>1, <3>1, <3>2
    <3> QED
      BY <2>2, <3>3
  <2> QED
    BY <2>2, <2>3
<1>5. DistinctIds(u)
  <2> SUFFICES ASSUME NEW i \in DOMAIN u, NEW j \in DOMAIN u, u[i].id = u[j].id
               PROVE  i = j
    BY DEF DistinctIds
  <2>1. h[i] = h[j]
    BY <1>1 DEF Grouped, DistinctIds
  <2>2. ~(i < j) /\ ~(j < i)
    BY <1>1, <1>2, <2>1
  <2> QED
    BY <1>1, <2>2
<1>6. u \in Seq(TableRow)
  BY DEF Picks
<1>7. Bounded(t) => Bounded(u)
  BY <1>1 DEF Bounded
<1>8. Usable(t) => Usable(u)
  BY <1>1 DEF Usable
<1> QED
  BY <1>4, <1>5, <1>6, <1>7, <1>8 DEF Grouped

\* u is t with some rows put in after position at.
Splice(t, at, rows, u) ==
  /\ u \in Seq(TableRow) /\ Len(u) = Len(t) + Len(rows)
  /\ \A j \in 1..Len(u) :
       u[j] = IF j <= at THEN t[j]
              ELSE IF j <= at + Len(rows) THEN rows[j - at] ELSE t[j - Len(rows)]

LEMMA SplicedIs ==
  ASSUME NEW t \in Seq(TableRow), NEW rows \in Seq(TableRow), NEW at \in 0..Len(t)
  PROVE  Splice(t, at, rows, R!Spliced(t, at, rows))
<1> DEFINE a == SubSeq(t, 1, at)
           b == SubSeq(t, at + 1, Len(t))
<1>0. Len(t) \in Nat /\ Len(rows) \in Nat
  OBVIOUS
<1>1. a \in Seq(TableRow) /\ Len(a) = at /\ \A j \in 1..at : a[j] = t[j]
  BY <1>0
<1>2. b \in Seq(TableRow) /\ Len(b) = Len(t) - at /\ \A j \in 1..(Len(t) - at) : b[j] = t[at + j]
  BY <1>0
<1> HIDE DEF a, b
<1> DEFINE c == a \o rows
<1>3. c \in Seq(TableRow) /\ Len(c) = at + Len(rows)
      /\ \A j \in 1..Len(c) : c[j] = IF j <= at THEN t[j] ELSE rows[j - at]
  BY <1>0, <1>1
<1> HIDE DEF c
<1> DEFINE u == c \o b
<1>4. u \in Seq(TableRow) /\ Len(u) = Len(t) + Len(rows)
      /\ \A j \in 1..Len(u) : u[j] = IF j <= Len(c) THEN c[j] ELSE b[j - Len(c)]
  <2>1. c \in Seq(TableRow) /\ b \in Seq(TableRow)
    BY <1>2, <1>3
  <2>2. u \in Seq(TableRow) /\ Len(u) = Len(c) + Len(b)
        /\ \A j \in 1..(Len(c) + Len(b)) : u[j] = IF j <= Len(c) THEN c[j] ELSE b[j - Len(c)]
    BY <2>1
  <2>3. Len(c) + Len(b) = Len(t) + Len(rows)
    BY <1>0, <1>2, <1>3
  <2> HIDE DEF u
  <2> QED
    BY <2>2, <2>3
<1> HIDE DEF u
<1>5. \A j \in 1..Len(u) :
        u[j] = IF j <= at THEN t[j]
               ELSE IF j <= at + Len(rows) THEN rows[j - at] ELSE t[j - Len(rows)]
  <2> SUFFICES ASSUME NEW j \in 1..Len(u)
               PROVE  u[j] = IF j <= at THEN t[j]
                             ELSE IF j <= at + Len(rows) THEN rows[j - at] ELSE t[j - Len(rows)]
    OBVIOUS
  <2>1. CASE j <= Len(c)
    <3>1. j \in 1..Len(c) /\ j <= at + Len(rows)
      BY <1>0, <1>3, <2>1
    <3> QED
      BY <1>3, <1>4, <2>1, <3>1
  <2>2. CASE ~(j <= Len(c))
    <3>1. j - Len(c) \in 1..(Len(t) - at) /\ at + (j - Len(c)) = j - Len(rows) /\ ~(j <= at) /\ ~(j <= at + Len(rows))
      BY <1>0, <1>3, <1>4, <2>2
    <3> QED
      BY <1>2, <1>4, <2>2, <3>1
  <2> QED
    BY <2>1, <2>2
<1>6. R!Spliced(t, at, rows) = u
  BY DEF R!Spliced, u, c, a, b
<1> QED
  BY <1>4, <1>5, <1>6 DEF Splice

LEMMA AppendedIs ==
  ASSUME NEW t \in Seq(TableRow), NEW rows \in Seq(TableRow)
  PROVE  Splice(t, Len(t), rows, t \o rows)
<1> DEFINE u == t \o rows
<1>1. u \in Seq(TableRow) /\ Len(u) = Len(t) + Len(rows) /\ Len(t) \in Nat /\ Len(rows) \in Nat
      /\ \A j \in 1..Len(u) : u[j] = IF j <= Len(t) THEN t[j] ELSE rows[j - Len(t)]
  OBVIOUS
<1> HIDE DEF u
<1>2. Splice(t, Len(t), rows, u)
  BY <1>1 DEF Splice
<1> QED
  BY <1>2 DEF u

\* New rows of one ruleset and one target may go in where no ruleset is split,
\* at the end of their own ruleset if it has rows already.
OneRuleset(rows, rs, target) == \A n \in DOMAIN rows : rows[n].rs = rs /\ rows[n].target = target
NewIds(t, rows) == DistinctIds(rows) /\ \A n \in DOMAIN rows, i \in DOMAIN t : rows[n].id # t[i].id
FitsAt(t, at, rs, target) ==
  /\ at \in 0..Len(t)
  /\ \A i \in 1..at, k \in (at + 1)..Len(t) : t[i].rs # t[k].rs
  /\ \A i \in DOMAIN t : t[i].rs = rs =>
       i <= at /\ t[i].target = target /\ \A k \in i..at : t[k].rs = rs

LEMMA SpliceKeeps ==
  ASSUME NEW t, Grouped(t), NEW rows \in Seq(TableRow), NEW rs, NEW target, NEW at,
         OneRuleset(rows, rs, target), NewIds(t, rows), FitsAt(t, at, rs, target),
         NEW u, Splice(t, at, rows, u)
  PROVE  /\ Grouped(u)
         /\ Usable(t) /\ R!TargetUsable(target) => Usable(u)
<1> DEFINE L == Len(rows)
           old(j) == IF j <= at THEN j ELSE j - L
           new(j) == j > at /\ j <= at + L
<1>1. /\ Len(t) \in Nat /\ L \in Nat /\ at \in 0..Len(t) /\ Len(u) = Len(t) + L
      /\ DOMAIN t = 1..Len(t) /\ DOMAIN rows = 1..L /\ DOMAIN u = 1..Len(u)
  BY DEF Grouped, FitsAt, Splice
<1>2. \A j \in DOMAIN u : new(j) => j - at \in DOMAIN rows /\ u[j] = rows[j - at]
  BY <1>1 DEF Splice
<1>3. \A j \in DOMAIN u : ~new(j) => old(j) \in DOMAIN t /\ u[j] = t[old(j)] /\ (j <= at <=> old(j) <= at)
  BY <1>1 DEF Splice
<1>4. \A j \in DOMAIN u : new(j) => u[j].rs = rs /\ u[j].target = target
  BY <1>2 DEF OneRuleset
<1>5. \A i, j \in DOMAIN t :
        i < j /\ t[i].rs = t[j].rs =>
          t[i].target = t[j].target /\ \A k \in i..j : t[k].rs = t[i].rs
  BY DEF Grouped, R!Contiguous
<1>6. /\ \A i \in 1..at, k \in (at + 1)..Len(t) : t[i].rs # t[k].rs
      /\ \A i \in DOMAIN t : t[i].rs = rs =>
           i <= at /\ t[i].target = target /\ \A k \in i..at : t[k].rs = rs
  BY DEF FitsAt
<1>7. \A i, j \in DOMAIN u : ~new(i) /\ ~new(j) => (i < j <=> old(i) < old(j)) /\ (i = j <=> old(i) = old(j))
  BY <1>1
<1>8. R!Contiguous(u)
  <2> SUFFICES ASSUME NEW i \in DOMAIN u, NEW j \in DOMAIN u, i < j, u[i].rs = u[j].rs
               PROVE  u[i].target = u[j].target /\ \A k \in i..j : u[k].rs = u[i].rs
    BY DEF R!Contiguous
  <2>0. \A k \in i..j : k \in DOMAIN u
    BY <1>1
  <2>1. CASE new(i) /\ new(j)
    <3>1. \A k \in i..j : new(k)
      BY <1>1, <2>1
    <3> HIDE DEF new
    <3> QED
      BY <1>4, <2>0, <2>1, <3>1
  <2>2. CASE new(i) /\ ~new(j)
    <3>1. ~(j <= at) /\ t[old(j)].rs = rs /\ old(j) \in DOMAIN t /\ ~(old(j) <= at)
      BY <1>1, <1>3, <1>4, <2>2
    <3> HIDE DEF old, new
    <3> QED
      BY <1>6, <3>1
  <2>3. CASE ~new(i) /\ new(j)
    <3>1. i <= at /\ i \in DOMAIN t /\ u[i] = t[i] /\ t[i].rs = rs
      BY <1>1, <1>3, <1>4, <2>3
    <3>2. t[i].target = target /\ \A k \in i..at : t[k].rs = rs
      BY <1>6, <3>1
    <3>3. ASSUME NEW k \in i..j PROVE u[k].rs = rs
      <4>1. CASE k <= at
        <5>1. k \in i..at /\ u[k] = t[k]
          BY <1>1, <1>3, <2>0, <4>1
        <5> QED
          BY <3>2, <5>1
      <4>2. CASE ~(k <= at)
        <5>1. new(k)
          BY <1>1, <2>3, <4>2
        <5> HIDE DEF new
        <5> QED
          BY <1>4, <2>0, <5>1
      <4> QED
        BY <4>1, <4>2
    <3>4. u[j].target = target
      <4> HIDE DEF new
      <4> QED
        BY <1>4, <2>3
    <3> QED
      BY <3>1, <3>2, <3>3, <3>4
  <2>4. CASE ~new(i) /\ ~new(j)
    <3>1. old(i) \in DOMAIN t /\ old(j) \in DOMAIN t /\ old(i) < old(j) /\ u[i] = t[old(i)] /\ u[j] = t[old(j)]
      <4> HIDE DEF old, new
      <4> QED
        BY <1>3, <1>7, <2>4
    <3>2. u[i].target = u[j].target /\ \A k \in old(i)..old(j) : t[k].rs = u[i].rs
      <4> HIDE DEF old, new
      <4> QED
        BY <1>5, <3>1
    <3>3. ~(i <= at /\ ~(j <= at))
      <4> SUFFICES ASSUME i <= at, ~(j <= at) PROVE FALSE
        OBVIOUS
      <4>1. old(i) \in 1..at /\ old(j) \in (at + 1)..Len(t)
        BY <1>1, <1>3, <2>4
      <4> HIDE DEF old, new
      <4> QED
        BY <1>6, <3>1, <4>1
    <3>4. ASSUME NEW k \in i..j PROVE u[k].rs = u[i].rs
      <4>1. ~new(k) /\ old(k) \in old(i)..old(j)
        BY <1>1, <2>4, <3>3
      <4>2. u[k] = t[old(k)]
        <5> HIDE DEF old, new
        <5> QED
          BY <1>3, <2>0, <4>1
      <4> HIDE DEF old, new
      <4> QED
        BY <3>2, <4>1, <4>2
    <3> HIDE DEF old, new
    <3> QED
      BY <3>2, <3>4
  <2> HIDE DEF old, new
  <2> QED
    BY <2>1, <2>2, <2>3, <2>4
<1>9. DistinctIds(u)
  <2> SUFFICES ASSUME NEW i \in DOMAIN u, NEW j \in DOMAIN u, u[i].id = u[j].id
               PROVE  i = j
    BY DEF DistinctIds
  <2>0. DistinctIds(t) /\ DistinctIds(rows) /\ \A n \in DOMAIN rows, k \in DOMAIN t : rows[n].id # t[k].id
    BY DEF Grouped, NewIds
  <2>1. CASE new(i) /\ new(j)
    <3>1. i - at = j - at
      BY <1>2, <2>0, <2>1 DEF DistinctIds
    <3> QED
      BY <1>1, <3>1
  <2>2. CASE ~new(i) /\ ~new(j)
    <3> HIDE DEF old, new
    <3>1. old(i) = old(j)
      BY <1>3, <2>0, <2>2 DEF DistinctIds
    <3> QED
      BY <1>7, <2>2, <3>1
  <2>3. CASE new(i) /\ ~new(j)
    <3> HIDE DEF old, new
    <3> QED
      BY <1>2, <1>3, <2>0, <2>3
  <2>4. CASE ~new(i) /\ new(j)
    <3> HIDE DEF old, new
    <3> QED
      BY <1>2, <1>3, <2>0, <2>4
  <2> HIDE DEF old, new
  <2> QED
    BY <2>1, <2>2, <2>3, <2>4
<1>10. Grouped(u)
  BY <1>8, <1>9 DEF Grouped, Splice
<1>11. ASSUME Usable(t), R!TargetUsable(target) PROVE Usable(u)
  <2> HIDE DEF old, new
  <2> QED
    BY <1>3, <1>4, <1>11 DEF Usable
<1> QED
  BY <1>10, <1>11
---------------------------------------------------------------------------
(* Where rows go, and their numbers *)

LEMMA FirstAndLast ==
  ASSUME NEW t \in Seq(TableRow), NEW rs \in R!RulesetIds(t)
  PROVE  /\ R!FirstOf(t, rs) \in DOMAIN t /\ t[R!FirstOf(t, rs)].rs = rs
         /\ R!LastOf(t, rs) \in DOMAIN t /\ t[R!LastOf(t, rs)].rs = rs
         /\ \A i \in DOMAIN t : t[i].rs = rs => R!FirstOf(t, rs) <= i /\ i <= R!LastOf(t, rs)
<1> DEFINE S == {i \in DOMAIN t : t[i].rs = rs}
<1>1. S # {} /\ S \in SUBSET Nat /\ S \in SUBSET (0..Len(t)) /\ Len(t) \in Nat
  BY DEF R!RulesetIds
<1>2. R!FirstOf(t, rs) = Min(S) /\ R!LastOf(t, rs) = Max(S)
  BY SameInTable DEF R!FirstOf, R!LastOf
<1>3. Min(S) \in S /\ \A i \in S : Min(S) <= i
  <2> HIDE DEF S
  <2> QED
    BY <1>1, LeastIs
<1>4. Max(S) \in S /\ \A i \in S : i <= Max(S)
  <2> HIDE DEF S
  <2> QED
    BY <1>1, GreatestIs
<1> QED
  BY <1>2, <1>3, <1>4

LEMMA NextNumbers ==
  ASSUME NEW t \in Seq(TableRow), Bounded(t), TableIds \in Nat
  PROVE  /\ R!NextRuleId(t) \in Nat /\ \A i \in DOMAIN t : t[i].id < R!NextRuleId(t)
         /\ R!NextRulesetId(t) \in Nat /\ \A i \in DOMAIN t : t[i].rs < R!NextRulesetId(t)
<1>1. CASE t = <<>>
  BY <1>1 DEF R!NextRuleId, R!NextRulesetId
<1>2. CASE t # <<>>
  <2> DEFINE S == R!RuleIds(t)
             Q == R!RulesetIds(t)
  <2>1. 1 \in DOMAIN t
    BY <1>2
  <2>2. S # {} /\ S \in SUBSET (0..TableIds) /\ Q # {} /\ Q \in SUBSET (0..TableIds)
    BY <2>1 DEF Bounded, R!RuleIds, R!RulesetIds
  <2>3. \A i \in DOMAIN t : t[i].id \in S /\ t[i].rs \in Q
    BY DEF R!RuleIds, R!RulesetIds
  <2>4. R!NextRuleId(t) = Max(S) + 1 /\ R!NextRulesetId(t) = Max(Q) + 1
    BY <1>2, SameInTable DEF R!NextRuleId, R!NextRulesetId
  <2> HIDE DEF S, Q
  <2>5. Max(S) \in S /\ \A x \in S : x <= Max(S)
    BY <2>2, GreatestIs
  <2>6. Max(Q) \in Q /\ \A x \in Q : x <= Max(Q)
    BY <2>2, GreatestIs
  <2>7. /\ Max(S) \in Nat /\ \A i \in DOMAIN t : t[i].id \in Nat /\ t[i].id <= Max(S)
        /\ Max(Q) \in Nat /\ \A i \in DOMAIN t : t[i].rs \in Nat /\ t[i].rs <= Max(Q)
    <3>1. \A x \in S : x \in Nat
      BY <2>2
    <3>2. \A x \in Q : x \in Nat
      BY <2>2
    <3> QED
      BY <2>3, <2>5, <2>6, <3>1, <3>2
  <2> QED
    BY <2>4, <2>7
<1> QED
  BY <1>1, <1>2

LEMMA RowsAre ==
  ASSUME NEW t \in Seq(TableRow), Bounded(t), TableIds \in Nat,
         NEW rs \in Nat, NEW target \in R!Targets, NEW name \in Names, NEW ms \in Seq(TableMatchers)
  PROVE  /\ R!Rows(t, rs, target, name, ms) \in Seq(TableRow)
         /\ OneRuleset(R!Rows(t, rs, target, name, ms), rs, target)
         /\ NewIds(t, R!Rows(t, rs, target, name, ms))
         /\ Len(R!Rows(t, rs, target, name, ms)) = Len(ms)
<1> DEFINE row(n) == [id |-> R!NextRuleId(t) + n - 1, rs |-> rs, m |-> ms[n], target |-> target, name |-> name]
           rows == [n \in DOMAIN ms |-> row(n)]
<1>1. R!Rows(t, rs, target, name, ms) = rows
  BY DEF R!Rows
<1>2. R!NextRuleId(t) \in Nat /\ \A i \in DOMAIN t : t[i].id < R!NextRuleId(t) /\ t[i].id \in Nat
  <2>1. R!NextRuleId(t) \in Nat /\ \A i \in DOMAIN t : t[i].id < R!NextRuleId(t)
    BY NextNumbers
  <2>2. \A i \in DOMAIN t : t[i] \in TableRow
    OBVIOUS
  <2> QED
    BY <2>1, <2>2 DEF TableRow
<1>3. DOMAIN ms = 1..Len(ms) /\ Len(ms) \in Nat /\ \A n \in 1..Len(ms) : ms[n] \in TableMatchers
  OBVIOUS
<1>4. \A n \in 1..Len(ms) : /\ row(n) \in TableRow
                            /\ row(n).id = R!NextRuleId(t) + n - 1
                            /\ row(n).rs = rs /\ row(n).target = target
  BY <1>2, <1>3 DEF TableRow
<1>5. rows \in Seq(TableRow) /\ Len(rows) = Len(ms) /\ DOMAIN rows = 1..Len(ms)
      /\ \A n \in 1..Len(ms) : rows[n] = row(n)
  <2> HIDE DEF row
  <2> QED
    BY <1>3, <1>4
<1> HIDE DEF rows, row
<1>6. OneRuleset(rows, rs, target)
  BY <1>4, <1>5 DEF OneRuleset
<1>7. NewIds(t, rows)
  <2>1. DistinctIds(rows)
    BY <1>2, <1>4, <1>5 DEF DistinctIds
  <2>2. \A n \in DOMAIN rows, i \in DOMAIN t : rows[n].id # t[i].id
    BY <1>2, <1>4, <1>5
  <2> QED
    BY <2>1, <2>2 DEF NewIds
<1> QED
  BY <1>1, <1>5, <1>6, <1>7

\* The end of a ruleset is a place for more rows of it.
LEMMA LastFits ==
  ASSUME NEW t, Grouped(t), NEW rs \in R!RulesetIds(t)
  PROVE  FitsAt(t, R!LastOf(t, rs), rs, t[R!FirstOf(t, rs)].target)
<1> DEFINE f == R!FirstOf(t, rs)
           l == R!LastOf(t, rs)
<1>1. /\ DOMAIN t = 1..Len(t) /\ Len(t) \in Nat
      /\ f \in DOMAIN t /\ t[f].rs = rs /\ l \in DOMAIN t /\ t[l].rs = rs
      /\ \A i \in DOMAIN t : t[i].rs = rs => f <= i /\ i <= l
  BY FirstAndLast DEF Grouped
<1>2. \A i, j \in DOMAIN t :
        i < j /\ t[i].rs = t[j].rs =>
          t[i].target = t[j].target /\ \A k \in i..j : t[k].rs = t[i].rs
  BY DEF Grouped, R!Contiguous
<1> HIDE DEF f, l
<1>3. ASSUME NEW i \in 1..l, NEW k \in (l + 1)..Len(t), t[i].rs = t[k].rs PROVE FALSE
  <2>1. i \in DOMAIN t /\ k \in DOMAIN t /\ i < k /\ l \in i..k
    BY <1>1
  <2>2. t[l].rs = t[i].rs
    BY <1>2, <1>3, <2>1
  <2> QED
    BY <1>1, <1>3, <2>1, <2>2
<1>4. ASSUME NEW i \in DOMAIN t, t[i].rs = rs
      PROVE  i <= l /\ t[i].target = t[f].target /\ \A k \in i..l : t[k].rs = rs
  <2>1. i <= l /\ f <= i
    BY <1>1, <1>4
  <2>2. t[i].target = t[f].target
    BY <1>1, <1>2, <1>4, <2>1
  <2>3. CASE i = l
    BY <1>1, <2>2, <2>3
  <2>4. CASE i # l
    <3>1. i < l
      BY <1>1, <2>1, <2>4
    <3>2. \A k \in i..l : t[k].rs = t[i].rs
      BY <1>1, <1>2, <1>4, <3>1
    <3> QED
      BY <1>4, <2>1, <2>2, <3>2
  <2> QED
    BY <2>3, <2>4
<1>5. l \in 0..Len(t)
  BY <1>1
<1>6. FitsAt(t, l, rs, t[f].target)
  BY <1>3, <1>4, <1>5 DEF FitsAt
<1> QED
  BY <1>6 DEF f, l

LEMMA EndFits ==
  ASSUME NEW t \in Seq(TableRow), NEW rs, rs \notin R!RulesetIds(t), NEW target
  PROVE  FitsAt(t, Len(t), rs, target)
BY DEF FitsAt, R!RulesetIds

\* A choice of rows that includes the first m has them first.
LEMMA FirstPicked ==
  ASSUME NEW t \in Seq(TableRow), NEW at, NEW u, NEW h, Picks(t, at, u, h),
         NEW m \in 0..Len(t), 1..m \subseteq at
  PROVE  /\ m <= Len(u) /\ \A j \in 1..m : h[j] = j
         /\ \A j \in 1..Len(u) : m < j => m < h[j]
<1>0. /\ Len(t) \in Nat /\ DOMAIN t = 1..Len(t) /\ Len(u) \in Nat /\ m \in Nat
      /\ \A j \in 1..Len(u) : h[j] \in 1..Len(t)
      /\ \A j, k \in 1..Len(u) : j < k => h[j] < h[k]
      /\ \A i \in 1..m : \E j \in 1..Len(u) : h[j] = i
  <2>1. Len(t) \in Nat /\ DOMAIN t = 1..Len(t) /\ Len(u) \in Nat /\ m \in Nat
    BY DEF Picks
  <2>2. \A i \in 1..m : i \in DOMAIN t \cap at
    BY <2>1
  <2> QED
    BY <2>1, <2>2 DEF Picks
<1> DEFINE C == {n \in 0..m : n <= Len(u) /\ \A j \in 1..n : h[j] = j}
<1>1. 0 \in C
  BY <1>0
<1>2. ASSUME NEW n \in 0..(m - 1), n \in C PROVE n + 1 \in C
  <2>1. n + 1 \in 1..m
    BY <1>0
  <2>2. PICK j \in 1..Len(u) : h[j] = n + 1
    BY <1>0, <2>1
  <2>3. j > n
    BY <1>0, <1>2, <2>2
  <2>4. n + 1 \in 1..Len(u)
    BY <1>0, <2>3
  <2>5. h[n + 1] > n
    <3>1. CASE n = 0
      BY <1>0, <2>4, <3>1
    <3>2. CASE n # 0
      <4>1. n \in 1..Len(u) /\ h[n] = n
        BY <1>0, <1>2, <3>2
      <4> QED
        BY <1>0, <2>4, <4>1
    <3> QED
      BY <3>1, <3>2
  <2>6. j = n + 1
    BY <1>0, <2>2, <2>3, <2>4, <2>5
  <2>7. \A k \in 1..(n + 1) : k \in 1..n \/ k = n + 1
    BY <1>0
  <2>8. \A k \in 1..(n + 1) : h[k] = k
    BY <1>2, <2>2, <2>6, <2>7
  <2> QED
    BY <1>0, <2>1, <2>4, <2>8
<1>3. m \in C
  <2> HIDE DEF C
  <2>1. 0..m \subseteq C
    BY <1>0, <1>1, <1>2, IntervalInduction
  <2> QED
    BY <1>0, <2>1
<1>4. ASSUME NEW j \in 1..Len(u), m < j PROVE m < h[j]
  <2>1. CASE m = 0
    BY <1>0, <2>1
  <2>2. CASE m # 0
    <3>1. m \in 1..Len(u) /\ h[m] = m
      BY <1>0, <1>3, <2>2
    <3> QED
      BY <1>0, <1>4, <3>1
  <2> QED
    BY <2>1, <2>2
<1> QED
  BY <1>3, <1>4

\* Where a ruleset's first row was, its new rows go.
LEMMA UpdatedKeeps ==
  ASSUME Grouped(rules), Bounded(rules), TableIds \in Nat, NEW rs \in R!RulesetIds(rules),
         NEW target \in R!Targets, NEW name \in Names, NEW ms \in Seq(TableMatchers)
  PROVE  /\ Grouped(R!Updated(rs, name, target, ms))
         /\ Usable(rules) /\ R!TargetUsable(target) => Usable(R!Updated(rs, name, target, ms))
<1> DEFINE kept == R!Without(rules, rs)
           f == R!FirstOf(rules, rs)
           out == {i \in DOMAIN rules : rules[i].rs # rs}
           at == R!Min({f - 1, Len(kept)})
           new == R!Rows(kept, rs, target, name, ms)
<1>0. kept = R!RowsAt(rules, out) /\ rules \in Seq(TableRow)
  BY DEF R!Without, Grouped
<1>1. PICK h : Picks(rules, out, kept, h)
  BY <1>0, RowsAtPicks
<1>2. Grouped(kept) /\ Bounded(kept) /\ (Usable(rules) => Usable(kept))
  BY <1>1, PickKeeps
<1>3. /\ f \in DOMAIN rules /\ rules[f].rs = rs
      /\ \A i \in DOMAIN rules : rules[i].rs = rs => f <= i
  BY <1>0, FirstAndLast
<1>4. Len(rules) \in Nat /\ DOMAIN rules = 1..Len(rules) /\ Len(kept) \in Nat /\ DOMAIN kept = 1..Len(kept)
  BY <1>0, <1>1 DEF Picks
<1>5. f - 1 \in 0..Len(rules) /\ 1..(f - 1) \subseteq out
  BY <1>3, <1>4
<1>6. /\ f - 1 <= Len(kept) /\ \A j \in 1..(f - 1) : h[j] = j
      /\ \A j \in 1..Len(kept) : f - 1 < j => f - 1 < h[j]
  <2> HIDE DEF kept, f, out
  <2> QED
    BY <1>0, <1>1, <1>5, FirstPicked
<1>7. at = f - 1
  <2>1. at = Min({f - 1, Len(kept)})
    BY SameInTable
  <2>2. Min({f - 1, Len(kept)}) = f - 1
    <3> HIDE DEF kept, f
    <3> QED
      BY <1>3, <1>4, <1>6 DEF Min
  <2> QED
    BY <2>1, <2>2
<1>8. /\ \A j \in 1..Len(kept) : /\ h[j] \in DOMAIN rules /\ kept[j] = rules[h[j]]
                                 /\ rules[h[j]].rs # rs
      /\ \A j, k \in 1..Len(kept) : j < k => h[j] < h[k]
  BY <1>1 DEF Picks
<1>9. \A i, j \in DOMAIN rules :
        i < j /\ rules[i].rs = rules[j].rs =>
          rules[i].target = rules[j].target /\ \A k \in i..j : rules[k].rs = rules[i].rs
  BY DEF Grouped, R!Contiguous
<1> HIDE DEF kept, f, out
<1>10. FitsAt(kept, f - 1, rs, target)
  <2>1. ASSUME NEW i \in 1..(f - 1), NEW k \in f..Len(kept), kept[i].rs = kept[k].rs PROVE FALSE
    <3>1. i \in 1..Len(kept) /\ k \in 1..Len(kept) /\ i < f /\ f - 1 < k
      BY <1>3, <1>4, <1>6
    <3>2. h[i] = i /\ f - 1 < h[k] /\ h[k] \in DOMAIN rules /\ h[k] # f
      BY <1>3, <1>6, <1>8, <3>1
    <3>3. h[i] < h[k] /\ f \in h[i]..h[k] /\ h[i] \in DOMAIN rules
      BY <1>3, <1>4, <1>8, <3>1, <3>2
    <3>4. rules[h[i]].rs = rules[h[k]].rs
      BY <1>8, <2>1, <3>1
    <3>5. rules[f].rs = rules[h[i]].rs
      BY <1>9, <3>2, <3>3, <3>4
    <3> QED
      BY <1>3, <1>8, <3>1, <3>5
  <2>2. (f - 1) + 1 = f /\ f - 1 \in 0..Len(kept)
    BY <1>3, <1>4, <1>6
  <2>3. \A i \in DOMAIN kept : kept[i].rs # rs
    BY <1>4, <1>8
  <2> QED
    BY <2>1, <2>2, <2>3 DEF FitsAt
<1>11. rs \in Nat
  <2>1. rules[f] \in TableRow
    BY <1>0, <1>3
  <2> QED
    BY <1>3, <2>1 DEF TableRow
<1>12. new \in Seq(TableRow) /\ OneRuleset(new, rs, target) /\ NewIds(kept, new)
  BY <1>2, <1>11, RowsAre DEF Grouped
<1>13. R!Updated(rs, name, target, ms) = R!Spliced(kept, f - 1, new)
  BY <1>7 DEF R!Updated, kept, f
<1> HIDE DEF new, at
<1>14. Splice(kept, f - 1, new, R!Spliced(kept, f - 1, new))
  BY <1>2, <1>10, <1>12, SplicedIs DEF FitsAt, Grouped
<1> QED
  BY <1>2, <1>10, <1>12, <1>13, <1>14, SpliceKeeps
---------------------------------------------------------------------------
(* The edits *)

LEMMA MatcherSeqsAre == \A ms \in R!MatcherSeqs : ms \in Seq(TableMatchers)
<1> SUFFICES ASSUME NEW ms \in R!MatcherSeqs PROVE ms \in Seq(TableMatchers)
  OBVIOUS
<1>1. CASE ms \in {<<m>> : m \in TableMatchers}
  <2>1. PICK m \in TableMatchers : ms = <<m>>
    BY <1>1
  <2> QED
    BY <2>1
<1>2. CASE ms \in TableMatchers \X TableMatchers
  <2>1. PICK m \in TableMatchers, n \in TableMatchers : ms = <<m, n>>
    BY <1>2
  <2> QED
    BY <2>1
<1> QED
  BY <1>1, <1>2 DEF R!MatcherSeqs

\* A write whose table is grouped and usable keeps the invariant.
LEMMA WriteKeeps ==
  ASSUME TableInv, NEW t, R!Write(t), Grouped(t), Usable(t)
  PROVE  TableInv'
<1>1. rules' = t /\ chan' = chan /\ seen' = seen /\ R!Fits(t)
  BY DEF R!Write
<1>2. Bounded(t)
  BY <1>1 DEF R!Fits, R!RuleIds, R!RulesetIds, Bounded
<1>3. Usable(rules)' = Usable(t)
  BY <1>1 DEF Usable, R!TargetUsable
<1>4. Grouped(rules)' = Grouped(t) /\ Bounded(rules)' = Bounded(t)
  BY <1>1 DEF Grouped, Bounded, R!Contiguous, DistinctIds
<1> QED
  BY <1>1, <1>2, <1>3, <1>4 DEF TableInv

LEMMA CreateKeeps ==
  ASSUME TableInv, TableIds \in Nat, NEW name \in Names, NEW target \in R!Targets,
         NEW ms \in R!MatcherSeqs, R!CreateRuleset(name, target, ms)
  PROVE  TableInv'
<1> DEFINE rs == R!NextRulesetId(rules)
           new == R!Rows(rules, rs, target, name, ms)
<1>1. Grouped(rules) /\ Bounded(rules) /\ Usable(rules) /\ rules \in Seq(TableRow)
  BY DEF TableInv, Grouped
<1>2. rs \in Nat /\ \A i \in DOMAIN rules : rules[i].rs < rs
  BY <1>1, NextNumbers
<1>3. rs \notin R!RulesetIds(rules)
  <2> HIDE DEF rs
  <2>1. \A i \in DOMAIN rules : rules[i].rs \in Nat
    <3>1. \A i \in DOMAIN rules : rules[i] \in TableRow
      BY <1>1
    <3> QED
      BY <3>1 DEF TableRow
  <2> QED
    BY <1>2, <2>1 DEF R!RulesetIds
<1>4. R!TargetUsable(target) /\ R!Write(rules \o new)
  BY DEF R!CreateRuleset
<1> HIDE DEF rs
<1>5. new \in Seq(TableRow) /\ OneRuleset(new, rs, target) /\ NewIds(rules, new)
  BY <1>1, <1>2, MatcherSeqsAre, RowsAre
<1> HIDE DEF new
<1>6. Splice(rules, Len(rules), new, rules \o new)
  BY <1>1, <1>5, AppendedIs
<1>7. FitsAt(rules, Len(rules), rs, target)
  BY <1>1, <1>3, EndFits
<1>8. Grouped(rules \o new) /\ Usable(rules \o new)
  BY <1>1, <1>4, <1>5, <1>6, <1>7, SpliceKeeps
<1> QED
  BY <1>4, <1>8, WriteKeeps

LEMMA AddKeeps ==
  ASSUME TableInv, TableIds \in Nat, NEW rs \in R!RulesetIds(rules),
         NEW ms \in R!MatcherSeqs, R!AddMatchers(rs, ms)
  PROVE  TableInv'
<1> DEFINE first == rules[R!FirstOf(rules, rs)]
           new == R!Rows(rules, rs, first.target, first.name, ms)
           at == R!LastOf(rules, rs)
<1>1. Grouped(rules) /\ Bounded(rules) /\ Usable(rules) /\ rules \in Seq(TableRow)
  BY DEF TableInv, Grouped
<1>2. R!FirstOf(rules, rs) \in DOMAIN rules /\ first.rs = rs
  BY <1>1, FirstAndLast
<1>3. first \in TableRow
  BY <1>1, <1>2
<1>4. R!TargetUsable(first.target)
  BY <1>1, <1>2 DEF Usable
<1>5. R!Write(R!Spliced(rules, at, new))
  BY DEF R!AddMatchers
<1>6. FitsAt(rules, at, rs, first.target)
  BY <1>1, LastFits
<1> HIDE DEF first, at
<1>7. first.target \in R!Targets /\ first.name \in Names /\ rs \in Nat
  BY <1>2, <1>3 DEF TableRow
<1>8. new \in Seq(TableRow) /\ OneRuleset(new, rs, first.target) /\ NewIds(rules, new)
  BY <1>1, <1>7, MatcherSeqsAre, RowsAre
<1> HIDE DEF new
<1>9. Splice(rules, at, new, R!Spliced(rules, at, new))
  BY <1>1, <1>6, <1>8, SplicedIs DEF FitsAt
<1>10. Grouped(R!Spliced(rules, at, new)) /\ Usable(R!Spliced(rules, at, new))
  BY <1>1, <1>4, <1>6, <1>8, <1>9, SpliceKeeps
<1> QED
  BY <1>5, <1>10, WriteKeeps

LEMMA WithoutKeeps ==
  ASSUME TableInv, NEW at, R!Write(R!RowsAt(rules, at))
  PROVE  TableInv'
<1>1. Grouped(rules) /\ Usable(rules) /\ rules \in Seq(TableRow)
  BY DEF TableInv, Grouped
<1>2. PICK h : Picks(rules, at, R!RowsAt(rules, at), h)
  BY <1>1, RowsAtPicks
<1>3. Grouped(R!RowsAt(rules, at)) /\ Usable(R!RowsAt(rules, at))
  BY <1>1, <1>2, PickKeeps
<1> QED
  BY <1>3, WriteKeeps

LEMMA RenameKeeps ==
  ASSUME TableInv, NEW rs, NEW name \in Names, R!RenameRuleset(rs, name)
  PROVE  TableInv'
<1> DEFINE row(i) == IF rules[i].rs = rs THEN [rules[i] EXCEPT !.name = name] ELSE rules[i]
           t == [i \in DOMAIN rules |-> row(i)]
<1>1. Grouped(rules) /\ Usable(rules) /\ rules \in Seq(TableRow) /\ R!Write(t)
  BY DEF TableInv, Grouped, R!RenameRuleset
<1>2. /\ DOMAIN rules = 1..Len(rules) /\ Len(rules) \in Nat
      /\ \A i \in DOMAIN rules : rules[i] \in TableRow
  BY <1>1
<1>3. \A i \in DOMAIN rules :
        row(i) \in TableRow /\ row(i).id = rules[i].id /\ row(i).rs = rules[i].rs /\ row(i).target = rules[i].target
  BY <1>2 DEF TableRow
<1>4. t \in Seq(TableRow) /\ DOMAIN t = DOMAIN rules /\ \A i \in DOMAIN rules : t[i] = row(i)
  <2> HIDE DEF row
  <2> QED
    BY <1>2, <1>3
<1> HIDE DEF t, row
<1>5. Grouped(t)
  BY <1>1, <1>2, <1>3, <1>4 DEF Grouped, R!Contiguous, DistinctIds
<1>6. Usable(t)
  BY <1>1, <1>3, <1>4 DEF Usable
<1> QED
  BY <1>1, <1>5, <1>6, WriteKeeps

LEMMA RetargetKeeps ==
  ASSUME TableInv, NEW rs, NEW target \in R!Targets, R!RetargetRuleset(rs, target)
  PROVE  TableInv'
<1> DEFINE row(i) == IF rules[i].rs = rs THEN [rules[i] EXCEPT !.target = target] ELSE rules[i]
           t == [i \in DOMAIN rules |-> row(i)]
<1>1. /\ Grouped(rules) /\ Usable(rules) /\ rules \in Seq(TableRow) /\ R!Write(t)
      /\ R!TargetUsable(target)
  BY DEF TableInv, Grouped, R!RetargetRuleset
<1>2. /\ DOMAIN rules = 1..Len(rules) /\ Len(rules) \in Nat
      /\ \A i \in DOMAIN rules : rules[i] \in TableRow
  BY <1>1
<1>3. \A i \in DOMAIN rules :
        /\ row(i) \in TableRow /\ row(i).id = rules[i].id /\ row(i).rs = rules[i].rs
        /\ row(i).target = IF rules[i].rs = rs THEN target ELSE rules[i].target
  BY <1>2 DEF TableRow
<1>4. t \in Seq(TableRow) /\ DOMAIN t = DOMAIN rules /\ \A i \in DOMAIN rules : t[i] = row(i)
  <2> HIDE DEF row
  <2> QED
    BY <1>2, <1>3
<1> HIDE DEF t, row
<1>5. Grouped(t)
  <2>1. R!Contiguous(t)
    <3> SUFFICES ASSUME NEW i \in DOMAIN rules, NEW j \in DOMAIN rules, i < j, t[i].rs = t[j].rs
                 PROVE  t[i].target = t[j].target /\ \A k \in i..j : t[k].rs = t[i].rs
      BY <1>4 DEF R!Contiguous
    <3>1. rules[i].rs = rules[j].rs
      BY <1>3, <1>4
    <3>2. rules[i].target = rules[j].target /\ \A k \in i..j : k \in DOMAIN rules /\ rules[k].rs = rules[i].rs
      BY <1>1, <1>2, <3>1 DEF Grouped, R!Contiguous
    <3> QED
      BY <1>3, <1>4, <3>1, <3>2
  <2>2. DistinctIds(t)
    BY <1>1, <1>3, <1>4 DEF Grouped, DistinctIds
  <2> QED
    BY <1>4, <2>1, <2>2 DEF Grouped
<1>6. Usable(t)
  BY <1>1, <1>3, <1>4 DEF Usable
<1> QED
  BY <1>1, <1>5, <1>6, WriteKeeps

LEMMA ReorderRulesKeeps ==
  ASSUME TableInv, NEW perm \in R!Perms(rules), R!ReorderRules(perm)
  PROVE  TableInv'
<1> DEFINE t == [i \in DOMAIN rules |-> rules[perm[i]]]
<1>1. Grouped(rules) /\ Usable(rules) /\ rules \in Seq(TableRow) /\ R!Write(t) /\ R!Contiguous(t)
  BY DEF TableInv, Grouped, R!ReorderRules
<1>2. /\ DOMAIN rules = 1..Len(rules) /\ Len(rules) \in Nat
      /\ \A i \in DOMAIN rules : rules[i] \in TableRow
  BY <1>1
<1>3. /\ \A i \in DOMAIN rules : perm[i] \in DOMAIN rules
      /\ \A i, j \in DOMAIN rules : perm[i] = perm[j] => i = j
  BY DEF R!Perms, R!IsInjective
<1>4. t \in Seq(TableRow) /\ DOMAIN t = DOMAIN rules /\ \A i \in DOMAIN rules : t[i] = rules[perm[i]]
  BY <1>2, <1>3
<1> HIDE DEF t
<1>5. DistinctIds(t)
  <2> SUFFICES ASSUME NEW i \in DOMAIN rules, NEW j \in DOMAIN rules, t[i].id = t[j].id
               PROVE  i = j
    BY <1>4 DEF DistinctIds
  <2>1. rules[perm[i]].id = rules[perm[j]].id
    BY <1>4
  <2>2. perm[i] = perm[j]
    BY <1>1, <1>3, <2>1 DEF Grouped, DistinctIds
  <2> QED
    BY <1>3, <2>2
<1>6. Grouped(t) /\ Usable(t)
  BY <1>1, <1>3, <1>4, <1>5 DEF Grouped, Usable
<1> QED
  BY <1>1, <1>6, WriteKeeps

\* The rows of a ruleset, alone.
LEMMA BlockPicks ==
  ASSUME NEW t, Grouped(t), NEW rs
  PROVE  \E h : Picks(t, {i \in DOMAIN t : t[i].rs = rs}, R!Block(t, rs), h)
<1>1. t \in Seq(TableRow)
  BY DEF Grouped
<1> QED
  BY <1>1, RowsAtPicks DEF R!Block

LEMMA OrdersAre ==
  ASSUME NEW ids \in R!Orders, Bounded(rules), rules \in Seq(TableRow), TableIds \in Nat
  PROVE  /\ ids \in Seq(R!RulesetIds(rules))
         /\ \A i, j \in DOMAIN ids : ids[i] = ids[j] => i = j
<1> DEFINE S == R!RulesetIds(rules)
<1>1. S \subseteq 1..TableIds
  BY DEF Bounded, R!RulesetIds
<1>2. IsFiniteSet(S) /\ Cardinality(S) \in Nat
  <2> HIDE DEF S
  <2>1. IsFiniteSet(1..TableIds)
    BY FS_Interval
  <2>2. IsFiniteSet(S)
    BY <1>1, <2>1, FS_Subset
  <2> QED
    BY <2>2, FS_CardinalityType
<1>3. ids \in [1..Cardinality(S) -> S] /\ \A i, j \in 1..Cardinality(S) : i # j => ids[i] # ids[j]
  BY CountInTable DEF R!Orders, R!SetToSeqs
<1> HIDE DEF S
<1> QED
  BY <1>2, <1>3 DEF S

LEMMA ReorderedKeeps ==
  ASSUME Grouped(rules), Bounded(rules), Usable(rules), TableIds \in Nat, NEW ids \in R!Orders
  PROVE  Grouped(R!Reordered(ids)) /\ Bounded(R!Reordered(ids)) /\ Usable(R!Reordered(ids))
<1> DEFINE block(n) == R!Block(rules, ids[n])
           of(n) == {i \in DOMAIN rules : rules[i].rs = ids[n]}
           ss == [n \in DOMAIN ids |-> block(n)]
           u == R!Reordered(ids)
<1>1. rules \in Seq(TableRow) /\ DOMAIN rules = 1..Len(rules) /\ Len(rules) \in Nat
  BY DEF Grouped
<1>2. /\ ids \in Seq(R!RulesetIds(rules)) /\ DOMAIN ids = 1..Len(ids) /\ Len(ids) \in Nat
      /\ \A i, j \in DOMAIN ids : ids[i] = ids[j] => i = j
  BY <1>1, OrdersAre
<1>3. \A n \in DOMAIN ids : \E h : Picks(rules, of(n), block(n), h)
  BY BlockPicks
<1>4. ss \in Seq(Seq(TableRow)) /\ Len(ss) = Len(ids) /\ \A n \in DOMAIN ids : ss[n] = block(n)
  <2>1. \A n \in DOMAIN ids : block(n) \in Seq(TableRow)
    BY <1>3 DEF Picks
  <2> HIDE DEF block
  <2> QED
    BY <1>2, <2>1
<1>5. u = FlattenSeq(ss)
  BY SameInTable DEF R!Reordered
<1> HIDE DEF ss, u, block
<1>6. u \in Seq(TableRow) /\ DOMAIN u = 1..Len(u) /\ Len(u) \in Nat
  BY <1>4, <1>5, FlattenIs
<1>7. PICK from, place : Flattened(ss, Len(ss), u, from, place)
  BY <1>4, <1>5, FlattenIs
<1>8. \A j \in 1..Len(u) : /\ from[j] \in DOMAIN ids /\ place[j] \in 1..Len(block(from[j]))
                           /\ u[j] = block(from[j])[place[j]]
  <2> SUFFICES ASSUME NEW j \in 1..Len(u)
               PROVE  /\ from[j] \in DOMAIN ids /\ place[j] \in 1..Len(block(from[j]))
                      /\ u[j] = block(from[j])[place[j]]
    OBVIOUS
  <2>1. from[j] \in 1..Len(ss) /\ place[j] \in 1..Len(ss[from[j]]) /\ u[j] = ss[from[j]][place[j]]
    BY <1>7 DEF Flattened
  <2>2. from[j] \in DOMAIN ids
    BY <1>2, <1>4, <2>1
  <2>3. ss[from[j]] = block(from[j])
    BY <1>4, <2>2
  <2> QED
    BY <2>1, <2>2, <2>3
<1>9. \A j, k \in 1..Len(u) :
        j < k => from[j] < from[k] \/ (from[j] = from[k] /\ place[j] < place[k])
  BY <1>7 DEF Flattened
<1>10. PICK h : \A n \in DOMAIN ids : Picks(rules, of(n), block(n), h[n])
  <2> DEFINE g == [n \in DOMAIN ids |-> CHOOSE h : Picks(rules, of(n), block(n), h)]
  <2>1. \A n \in DOMAIN ids : Picks(rules, of(n), block(n), g[n])
    BY <1>3
  <2> HIDE DEF g
  <2> QED
    BY <2>1
<1> DEFINE row(j) == h[from[j]][place[j]]
<1>11. \A j \in 1..Len(u) : row(j) \in DOMAIN rules /\ u[j] = rules[row(j)] /\ u[j].rs = ids[from[j]]
  <2> SUFFICES ASSUME NEW j \in 1..Len(u)
               PROVE  row(j) \in DOMAIN rules /\ u[j] = rules[row(j)] /\ u[j].rs = ids[from[j]]
    OBVIOUS
  <2>1. Picks(rules, of(from[j]), block(from[j]), h[from[j]])
    BY <1>8, <1>10
  <2>2. row(j) \in of(from[j]) /\ u[j] = rules[row(j)]
    BY <1>8, <2>1 DEF Picks
  <2> QED
    BY <2>2
<1>12. \A i, j \in 1..Len(u) : u[i].rs = u[j].rs => from[i] = from[j]
  <2> SUFFICES ASSUME NEW i \in 1..Len(u), NEW j \in 1..Len(u), u[i].rs = u[j].rs
               PROVE  from[i] = from[j]
    OBVIOUS
  <2>1. ids[from[i]] = ids[from[j]] /\ from[i] \in DOMAIN ids /\ from[j] \in DOMAIN ids
    BY <1>8, <1>11
  <2> QED
    BY <1>2, <2>1
<1>13. R!Contiguous(u)
  <2> SUFFICES ASSUME NEW i \in 1..Len(u), NEW j \in 1..Len(u), i < j, u[i].rs = u[j].rs
               PROVE  u[i].target = u[j].target /\ \A k \in i..j : u[k].rs = u[i].rs
    BY <1>6 DEF R!Contiguous
  <2>1. from[i] = from[j]
    BY <1>12
  <2>2. ASSUME NEW k \in i..j PROVE u[k].rs = u[i].rs
    <3>1. k \in 1..Len(u) /\ (i = k \/ i < k) /\ (k = j \/ k < j)
      BY <1>6, <2>2
    <3>2. from[i] \in Nat /\ from[j] \in Nat /\ from[k] \in Nat
      BY <1>2, <1>8, <3>1
    <3>3. (k = i \/ from[i] <= from[k]) /\ (k = j \/ from[k] <= from[j])
      BY <1>9, <3>1, <3>2
    <3>4. from[k] = from[i]
      BY <2>1, <3>2, <3>3
    <3> QED
      BY <1>11, <3>1, <3>4
  <2> DEFINE a == row(i)
             b == row(j)
  <2>3. a \in 1..Len(rules) /\ b \in 1..Len(rules) /\ u[i] = rules[a] /\ u[j] = rules[b]
    BY <1>1, <1>11
  <2> HIDE DEF row, a, b
  <2>4. a < b \/ b < a \/ a = b
    BY <1>1, <2>3
  <2>5. rules[a].target = rules[b].target
    BY <1>1, <2>3, <2>4 DEF Grouped, R!Contiguous
  <2> QED
    BY <2>2, <2>3, <2>5
<1>14. DistinctIds(u)
  <2> SUFFICES ASSUME NEW i \in 1..Len(u), NEW j \in 1..Len(u), u[i].id = u[j].id
               PROVE  i = j
    BY <1>6 DEF DistinctIds
  <2>1. row(i) = row(j)
    <3> HIDE DEF row
    <3> QED
      BY <1>11 DEF Grouped, DistinctIds
  <2>2. from[i] = from[j]
    BY <1>11, <1>12, <2>1
  <2>3. Picks(rules, of(from[i]), block(from[i]), h[from[i]])
    BY <1>8, <1>10
  <2>4. /\ place[i] \in 1..Len(block(from[i])) /\ place[j] \in 1..Len(block(from[i]))
        /\ h[from[i]][place[i]] = h[from[i]][place[j]]
    BY <1>8, <2>1, <2>2
  <2>5. \A p, q \in 1..Len(block(from[i])) :
          p < q => h[from[i]][p] < h[from[i]][q] /\ h[from[i]][p] \in Nat /\ h[from[i]][q] \in Nat
    <3>1. \A p \in 1..Len(block(from[i])) : h[from[i]][p] \in DOMAIN rules
      BY <2>3 DEF Picks
    <3>2. \A p, q \in 1..Len(block(from[i])) : p < q => h[from[i]][p] < h[from[i]][q]
      BY <2>3 DEF Picks
    <3> QED
      BY <1>1, <3>1, <3>2
  <2>6. ~(place[i] < place[j]) /\ ~(place[j] < place[i])
    <3> HIDE DEF row
    <3> QED
      BY <2>4, <2>5
  <2>7. ~(i < j) /\ ~(j < i)
    <3>1. from[i] \in Nat
      BY <1>2, <1>8
    <3> QED
      BY <1>9, <2>2, <2>6, <3>1
  <2> QED
    BY <1>6, <2>7
<1>15. Usable(u) /\ Bounded(u)
  <2> HIDE DEF row
  <2> QED
    BY <1>6, <1>11 DEF Usable, Bounded
<1> QED
  BY <1>6, <1>13, <1>14, <1>15 DEF Grouped, u

\* Rows moved to the end of another ruleset.
LEMMA MoveKeeps ==
  ASSUME TableInv, TableIds \in Nat, NEW rs \in R!RulesetIds(rules),
         NEW ids \in R!SetToAllKPermutations(R!RuleIds(rules)), R!MoveRules(ids, rs)
  PROVE  TableInv'
<1> DEFINE dest == rules[R!FirstOf(rules, rs)]
           kept == R!WithoutRules(rules, R!ToSet(ids))
           out == {i \in DOMAIN rules : rules[i].id \notin R!ToSet(ids)}
           at(n) == CHOOSE i \in DOMAIN rules : rules[i].id = ids[n]
           row(n) == [rules[at(n)] EXCEPT !.rs = rs, !.target = dest.target, !.name = dest.name]
           moved == [n \in DOMAIN ids |-> row(n)]
<1>1. /\ Grouped(rules) /\ Bounded(rules) /\ Usable(rules) /\ rules \in Seq(TableRow)
      /\ DOMAIN rules = 1..Len(rules) /\ Len(rules) \in Nat
      /\ \A i \in DOMAIN rules : rules[i] \in TableRow
  BY DEF TableInv, Grouped
<1>2. /\ \A i \in DOMAIN rules : rules[i].id \in R!ToSet(ids) => rules[i].rs # rs
      /\ R!Write(R!Spliced(kept, R!LastOf(kept, rs), moved))
  BY DEF R!MoveRules
<1>3. R!FirstOf(rules, rs) \in DOMAIN rules /\ dest.rs = rs /\ dest \in TableRow /\ R!TargetUsable(dest.target)
  BY <1>1, FirstAndLast DEF Usable
<1>4. PICK h : Picks(rules, out, kept, h)
  BY <1>1, RowsAtPicks DEF R!WithoutRules
<1>5. Grouped(kept) /\ Bounded(kept) /\ Usable(kept)
  BY <1>1, <1>4, PickKeeps
<1>6. /\ rs \in R!RulesetIds(kept)
      /\ \A j \in DOMAIN kept : kept[j].id \notin R!ToSet(ids)
      /\ \A j \in DOMAIN kept : kept[j].rs = rs => kept[j].target = dest.target
  <2>1. R!FirstOf(rules, rs) \in DOMAIN rules \cap out
    BY <1>2, <1>3
  <2>2. PICK j \in 1..Len(kept) : h[j] = R!FirstOf(rules, rs)
    BY <1>4, <2>1 DEF Picks
  <2>3. DOMAIN kept = 1..Len(kept) /\ \A k \in 1..Len(kept) : h[k] \in out /\ h[k] \in DOMAIN rules /\ kept[k] = rules[h[k]]
    BY <1>4 DEF Picks
  <2>4. kept[j].rs = rs
    BY <1>3, <2>2, <2>3
  <2>5. rs \in R!RulesetIds(kept)
    <3> HIDE DEF kept
    <3> QED
      BY <2>3, <2>4 DEF R!RulesetIds
  <2>6. \A i \in DOMAIN rules : rules[i].rs = rs => rules[i].target = dest.target
    <3>1. \A i \in DOMAIN rules : rules[i].rs = rs => R!FirstOf(rules, rs) <= i
      BY <1>1, FirstAndLast
    <3>2. \A i \in DOMAIN rules : rules[i].rs = rs => i = R!FirstOf(rules, rs) \/ R!FirstOf(rules, rs) < i
      BY <1>1, <1>3, <3>1
    <3> QED
      BY <1>1, <1>3, <3>2 DEF Grouped, R!Contiguous
  <2> HIDE DEF kept, dest
  <2> QED
    BY <2>3, <2>5, <2>6
<1>7. /\ DOMAIN ids = 1..Len(ids) /\ Len(ids) \in Nat
      /\ \A n \in DOMAIN ids : ids[n] \in R!RuleIds(rules)
      /\ \A m, n \in DOMAIN ids : ids[m] = ids[n] => m = n
  <2>1. PICK S \in SUBSET R!RuleIds(rules) : ids \in R!SetToSeqs(S)
    BY DEF R!SetToAllKPermutations
  <2>2. S \subseteq 1..TableIds
    BY <1>1, <2>1 DEF Bounded, R!RuleIds
  <2>3. Cardinality(S) \in Nat
    <3>1. IsFiniteSet(1..TableIds)
      BY FS_Interval
    <3>2. IsFiniteSet(S)
      BY <2>2, <3>1, FS_Subset
    <3> QED
      BY <3>2, FS_CardinalityType
  <2>4. ids \in [1..Cardinality(S) -> S] /\ \A i, j \in 1..Cardinality(S) : i # j => ids[i] # ids[j]
    BY <2>1, CountInTable DEF R!SetToSeqs
  <2> QED
    BY <2>1, <2>3, <2>4
<1>8. \A n \in DOMAIN ids : at(n) \in DOMAIN rules /\ rules[at(n)].id = ids[n]
  BY <1>7 DEF R!RuleIds
<1> HIDE DEF kept, dest, at
<1>9. dest.target \in R!Targets /\ dest.name \in Names /\ rs \in Nat
  BY <1>3 DEF TableRow
<1>10. \A n \in DOMAIN ids : /\ row(n) \in TableRow /\ row(n).id = ids[n]
                             /\ row(n).rs = rs /\ row(n).target = dest.target
  BY <1>1, <1>8, <1>9 DEF TableRow
<1>11. moved \in Seq(TableRow) /\ DOMAIN moved = DOMAIN ids /\ \A n \in DOMAIN ids : moved[n] = row(n)
  <2> HIDE DEF row
  <2> QED
    BY <1>7, <1>10
<1>12. R!Write(R!Spliced(kept, R!LastOf(kept, rs), moved))
  BY <1>2 DEF at, dest, kept
<1> HIDE DEF moved, row
<1>13. OneRuleset(moved, rs, dest.target)
  BY <1>10, <1>11 DEF OneRuleset
<1>14. NewIds(kept, moved)
  <2>1. DistinctIds(moved)
    BY <1>7, <1>10, <1>11 DEF DistinctIds
  <2>2. \A n \in DOMAIN ids : ids[n] \in R!ToSet(ids)
    BY DEF R!ToSet
  <2> QED
    BY <1>6, <1>10, <1>11, <2>1, <2>2 DEF NewIds
<1>15. FitsAt(kept, R!LastOf(kept, rs), rs, dest.target)
  <2>1. FitsAt(kept, R!LastOf(kept, rs), rs, kept[R!FirstOf(kept, rs)].target)
    BY <1>5, <1>6, LastFits
  <2>2. kept[R!FirstOf(kept, rs)].target = dest.target
    BY <1>5, <1>6, FirstAndLast DEF Grouped
  <2> QED
    BY <2>1, <2>2
<1> DEFINE t == R!Spliced(kept, R!LastOf(kept, rs), moved)
<1>16. Splice(kept, R!LastOf(kept, rs), moved, t)
  BY <1>5, <1>11, <1>15, SplicedIs DEF FitsAt, Grouped
<1>17. Grouped(t) /\ Usable(t)
  <2> HIDE DEF t
  <2> QED
    BY <1>3, <1>5, <1>11, <1>13, <1>14, <1>15, <1>16, SpliceKeeps
<1> QED
  BY <1>12, <1>17, WriteKeeps
---------------------------------------------------------------------------
(* The channels and the client *)

\* A change of channels that leaves those the rows name enabled.
LEMMA ChannelsKeep ==
  ASSUME TableInv, rules' = rules, seen' = seen \/ seen'.kind # "ruleset",
         chan' \in [TableChannels -> {"absent", "off", "on"}],
         \A i \in DOMAIN rules : rules[i].target \in TableChannels => chan'[rules[i].target] = "on"
  PROVE  TableInv'
<1>1. Grouped(rules)' /\ Bounded(rules)'
  BY DEF TableInv, Grouped, Bounded, R!Contiguous, DistinctIds
<1>2. Usable(rules)'
  BY DEF Usable, R!TargetUsable
<1> QED
  BY <1>1, <1>2 DEF TableInv

LEMMA EditingChannelsKeeps == TableInv /\ R!EditingChannels => TableInv'
<1> SUFFICES ASSUME TableInv, R!EditingChannels PROVE TableInv'
  OBVIOUS
<1> USE DEF R!Disabled, R!Referencing
<1>0. /\ chan \in [TableChannels -> {"absent", "off", "on"}]
      /\ \A i \in DOMAIN rules : rules[i].target \in TableChannels => chan[rules[i].target] = "on"
  BY DEF TableInv, Usable, R!TargetUsable
<1>1. ASSUME NEW refs \in SUBSET TableChannels, R!RemoveChannels(refs) PROVE TableInv'
  <2>1. /\ rules' = rules /\ seen' = seen
        /\ chan' = [c \in TableChannels |-> IF c \in refs THEN "absent" ELSE chan[c]]
        /\ \A i \in DOMAIN rules : rules[i].target \notin refs
    BY <1>1 DEF R!RemoveChannels
  <2>2. chan' \in [TableChannels -> {"absent", "off", "on"}]
    BY <1>0, <2>1
  <2> QED
    BY <1>0, <2>1, <2>2, ChannelsKeep
<1>2. ASSUME NEW refs \in SUBSET TableChannels, R!DisableChannels(refs) PROVE TableInv'
  <2>1. /\ rules' = rules /\ seen' = seen
        /\ chan' = [c \in TableChannels |-> IF c \in refs /\ chan[c] = "on" THEN "off" ELSE chan[c]]
        /\ \A i \in DOMAIN rules : rules[i].target \notin refs
    BY <1>2 DEF R!DisableChannels
  <2>2. chan' \in [TableChannels -> {"absent", "off", "on"}]
    BY <1>0, <2>1
  <2> QED
    BY <1>0, <2>1, <2>2, ChannelsKeep
<1>3. ASSUME NEW refs \in SUBSET TableChannels, R!EnableChannels(refs) PROVE TableInv'
  <2>1. /\ rules' = rules /\ seen' = seen
        /\ chan' = [c \in TableChannels |-> IF c \in refs /\ chan[c] = "off" THEN "on" ELSE chan[c]]
    BY <1>3 DEF R!EnableChannels
  <2>2. chan' \in [TableChannels -> {"absent", "off", "on"}]
    BY <1>0, <2>1
  <2> QED
    BY <1>0, <2>1, <2>2, ChannelsKeep
<1>4. ASSUME NEW c \in TableChannels, R!AddChannel(c) PROVE TableInv'
  <2>1. /\ rules' = rules /\ seen' = seen /\ chan[c] = "absent"
        /\ chan' = [chan EXCEPT ![c] = "on"]
    BY <1>4 DEF R!AddChannel
  <2>2. chan' \in [TableChannels -> {"absent", "off", "on"}]
    BY <1>0, <2>1
  <2> QED
    BY <1>0, <2>1, <2>2, ChannelsKeep
<1> QED
  BY <1>1, <1>2, <1>3, <1>4 DEF R!EditingChannels

\* A page that shows a ruleset shows rows.
LEMMA BlockHasRows ==
  ASSUME Grouped(rules), NEW rs
  PROVE  R!Block(rules, rs) # <<>> <=> rs \in R!RulesetIds(rules)
<1> DEFINE at == {i \in DOMAIN rules : rules[i].rs = rs}
           u == R!Block(rules, rs)
<1>1. PICK h : Picks(rules, at, u, h)
  BY BlockPicks
<1> HIDE DEF u
<1>2. /\ u \in Seq(TableRow) /\ \A j \in 1..Len(u) : h[j] \in at
      /\ \A i \in at : \E j \in 1..Len(u) : h[j] = i
  BY <1>1 DEF Picks
<1>3. u # <<>> <=> at # {}
  <2> HIDE DEF at
  <2>1. ASSUME u # <<>> PROVE at # {}
    <3>1. 1 \in 1..Len(u)
      BY <1>2, <2>1
    <3> QED
      BY <1>2, <3>1
  <2>2. ASSUME at # {} PROVE u # <<>>
    <3>1. PICK j \in 1..Len(u) : TRUE
      BY <1>2, <2>2
    <3> QED
      BY <1>2, <3>1
  <2> QED
    BY <2>1, <2>2
<1> QED
  BY <1>3 DEF u, R!RulesetIds

LEMMA ClientKeeps == TableInv /\ TableIds \in Nat /\ R!Client => TableInv'
<1> SUFFICES ASSUME TableInv, TableIds \in Nat, R!Client PROVE TableInv'
  OBVIOUS
<1>0. /\ Grouped(rules) /\ Bounded(rules) /\ Usable(rules) /\ rules \in Seq(TableRow)
      /\ chan \in [TableChannels -> {"absent", "off", "on"}]
      /\ \A i \in DOMAIN rules : rules[i].target \in TableChannels => chan[rules[i].target] = "on"
  BY DEF TableInv, Grouped, Usable, R!TargetUsable
<1>1. ASSUME rules' = rules, chan' = chan, seen'.kind = "ruleset" => seen'.content # <<>>
      PROVE  TableInv'
  BY <1>1 DEF TableInv, Grouped, Bounded, Usable, R!Contiguous, DistinctIds, R!TargetUsable
<1>2. ASSUME NEW rs \in R!RulesetIds(rules), R!ClientReads(R!Page("ruleset", rs, R!Block(rules, rs)))
      PROVE  TableInv'
  <2>1. R!Block(rules, rs) # <<>>
    BY <1>0, BlockHasRows
  <2> QED
    BY <1>1, <1>2, <2>1 DEF R!ClientReads, R!Page
<1>3. ASSUME R!ClientReads(R!Page("order", 0, R!Order(rules))) PROVE TableInv'
  BY <1>1, <1>3 DEF R!ClientReads, R!Page
<1>4. ASSUME NEW c \in TableChannels, R!ClientReads(R!Page("channel", c, chan[c])) PROVE TableInv'
  BY <1>1, <1>4 DEF R!ClientReads, R!Page
<1>5. ASSUME R!ClientRefused PROVE TableInv'
  BY <1>1, <1>5 DEF R!ClientRefused, R!NotRead, R!Page
<1>6. ASSUME NEW t, rules' = t, chan' = chan, seen' = R!NotRead, Grouped(t), Bounded(t), Usable(t)
      PROVE  TableInv'
  <2>1. Usable(rules)' /\ Grouped(rules)' /\ Bounded(rules)'
    BY <1>6 DEF Grouped, Bounded, Usable, R!Contiguous, DistinctIds, R!TargetUsable
  <2> QED
    BY <1>0, <1>6, <2>1 DEF TableInv, R!NotRead, R!Page
<1>7. ASSUME NEW name \in Names, NEW target \in R!Targets, NEW ms \in R!MatcherSeqs,
             R!ClientUpdates(name, target, ms)
      PROVE  TableInv'
  <2> DEFINE t == R!Updated(seen.key, name, target, ms)
  <2>1. /\ seen.kind = "ruleset" /\ R!Block(rules, seen.key) = seen.content
        /\ R!TargetUsable(target) /\ R!Fits(t)
        /\ rules' = t /\ seen' = R!NotRead /\ chan' = chan
    BY <1>7 DEF R!ClientUpdates
  <2>2. seen.key \in R!RulesetIds(rules)
    BY <1>0, <2>1, BlockHasRows DEF TableInv
  <2>3. ms \in Seq(TableMatchers)
    BY MatcherSeqsAre
  <2>4. Grouped(t) /\ Usable(t)
    <3> HIDE DEF t
    <3> QED
      BY <1>0, <2>1, <2>2, <2>3, UpdatedKeeps DEF t
  <2> HIDE DEF t
  <2>5. Bounded(t)
    BY <2>1 DEF R!Fits, R!RuleIds, R!RulesetIds, Bounded
  <2> QED
    BY <1>6, <2>1, <2>4, <2>5
<1>8. ASSUME NEW ids \in R!Orders, R!ClientReorders(ids) PROVE TableInv'
  BY <1>0, <1>6, <1>8, ReorderedKeeps DEF R!ClientReorders
<1>9. ASSUME R!ClientDisables PROVE TableInv'
  <2>1. /\ rules' = rules /\ seen' = R!NotRead
        /\ chan' = [c \in TableChannels |-> IF c \in {seen.key} /\ chan[c] = "on" THEN "off" ELSE chan[c]]
        /\ \A i \in DOMAIN rules : rules[i].target \notin {seen.key}
    BY <1>9 DEF R!ClientDisables, R!Disabled, R!Referencing
  <2>2. chan' \in [TableChannels -> {"absent", "off", "on"}]
    BY <1>0, <2>1
  <2>3. seen'.kind # "ruleset"
    BY <2>1 DEF R!NotRead, R!Page
  <2> QED
    BY <1>0, <2>1, <2>2, <2>3, ChannelsKeep
<1> QED
  BY <1>2, <1>3, <1>4, <1>5, <1>7, <1>8, <1>9 DEF R!Client
---------------------------------------------------------------------------
LEMMA TableStart == R!Init => TableInv
<1> SUFFICES ASSUME R!Init PROVE TableInv
  OBVIOUS
<1>1. rules = <<>> /\ chan = [c \in TableChannels |-> "on"] /\ seen.kind = "none"
  BY DEF R!Init, R!NotRead, R!Page
<1>2. Grouped(rules) /\ Bounded(rules) /\ Usable(rules)
  BY <1>1 DEF Grouped, Bounded, Usable, R!Contiguous, DistinctIds
<1>3. chan \in [TableChannels -> {"absent", "off", "on"}]
  BY <1>1
<1> QED
  BY <1>1, <1>2, <1>3 DEF TableInv

LEMMA TableInductive == TableInv /\ TableIds \in Nat /\ [R!Next]_R!tableVars => TableInv'
<1> SUFFICES ASSUME TableInv, TableIds \in Nat, [R!Next]_R!tableVars PROVE TableInv'
  OBVIOUS
<1>0. Grouped(rules) /\ Bounded(rules) /\ Usable(rules)
  BY DEF TableInv
<1>1. CASE R!Creating
  BY <1>1, CreateKeeps DEF R!Creating
<1>2. CASE R!EditingRuleset
  <2>1. PICK rs \in R!RulesetIds(rules) :
          \/ R!RemoveRuleset(rs)
          \/ \E ms \in R!MatcherSeqs : R!AddMatchers(rs, ms)
          \/ \E name \in Names : R!RenameRuleset(rs, name)
          \/ \E target \in R!Targets : R!RetargetRuleset(rs, target)
          \/ \E name \in Names, target \in R!Targets, ms \in R!MatcherSeqs :
               R!UpdateRuleset(rs, name, target, ms)
          \/ \E ids \in R!SetToAllKPermutations(R!RuleIds(rules)) : R!MoveRules(ids, rs)
    BY <1>2 DEF R!EditingRuleset
  <2>2. ASSUME R!RemoveRuleset(rs) PROVE TableInv'
    BY <2>2, WithoutKeeps DEF R!RemoveRuleset, R!Without
  <2>3. ASSUME NEW name \in Names, NEW target \in R!Targets, NEW ms \in R!MatcherSeqs,
               R!UpdateRuleset(rs, name, target, ms)
        PROVE  TableInv'
    <3>1. ms \in Seq(TableMatchers)
      BY MatcherSeqsAre
    <3>2. Grouped(R!Updated(rs, name, target, ms)) /\ Usable(R!Updated(rs, name, target, ms))
      BY <1>0, <2>3, <3>1, UpdatedKeeps DEF R!UpdateRuleset
    <3> QED
      BY <2>3, <3>2, WriteKeeps DEF R!UpdateRuleset
  <2> QED
    BY <2>1, <2>2, <2>3, AddKeeps, RenameKeeps, RetargetKeeps, MoveKeeps
<1>3. CASE R!EditingRules
  <2>1. ASSUME NEW ids \in SUBSET R!RuleIds(rules), R!RemoveRules(ids) PROVE TableInv'
    BY <2>1, WithoutKeeps DEF R!RemoveRules, R!WithoutRules
  <2>2. ASSUME NEW ids \in R!Orders, R!ReorderRulesets(ids) PROVE TableInv'
    BY <1>0, <2>2, ReorderedKeeps, WriteKeeps DEF R!ReorderRulesets
  <2> QED
    BY <1>3, <2>1, <2>2, ReorderRulesKeeps DEF R!EditingRules
<1>4. CASE R!EditingChannels
  BY <1>4, EditingChannelsKeeps
<1>5. CASE R!Client
  BY <1>5, ClientKeeps
<1>6. CASE UNCHANGED R!tableVars
  BY <1>6 DEF R!tableVars, TableInv, Grouped, Bounded, Usable, R!Contiguous, DistinctIds, R!TargetUsable
<1> QED
  BY <1>1, <1>2, <1>3, <1>4, <1>5, <1>6 DEF R!Next

\* No edit, in any order of clients, splits a ruleset, mixes its targets or
\* gives two rows one id, and no row ever targets a channel that is removed or
\* disabled: for any channels, matchers and length of the table.
THEOREM TableStaysSound == R!Spec => []RulesSound
<1>1. TableInv => RulesSound
  BY DEF TableInv, Grouped, Usable, DistinctIds, RulesSound, R!WellGrouped, R!RefsUsable, R!TargetUsable
<1>2. TableIds \in Nat
  BY EditsAssumption
<1> QED
  BY <1>1, <1>2, TableStart, TableInductive, PTL DEF R!Spec
---------------------------------------------------------------------------
(* Routing: what the compiled list answers *)

Doorways == {"router", "tun"}
CompiledRule == [doors : SUBSET Doorways, kind : {"any", "v6", "lan", "lanport", "dns", "matcher", "matcher6"},
                 m : Matchers \cup {"-"}, action : F!Targets \cup {"reject", "hijack", "direct", "block"}]
RouteRow == [id : Nat, rs : Nat, m : Matchers, target : F!Targets, name : Names]

Decides(list, f) == \E i \in DOMAIN list : F!RuleMatches(list[i], f)

LEMMA SameInRouting ==
  /\ \A ss : F!FlattenSeq(ss) = FlattenSeq(ss)
  /\ \A S : F!Min(S) = Min(S) /\ F!Max(S) = Max(S)
  /\ \A s, i : F!RemoveAt(s, i) = RemoveAt(s, i)
BY DEF F!FlattenSeq, FlattenSeq, F!Min, Min, F!Max, Max, F!RemoveAt, RemoveAt

\* The verdict of a list is that of its first rule that matches.
LEMMA VerdictIs ==
  ASSUME NEW list \in Seq(CompiledRule), NEW f
  PROVE  /\ ~Decides(list, f) => F!Verdict(list, f) = "direct"
         /\ \A i \in DOMAIN list :
              F!RuleMatches(list[i], f) /\ (\A j \in 1..(i - 1) : ~F!RuleMatches(list[j], f))
              => F!Verdict(list, f) = list[i].action
         /\ Decides(list, f) =>
              \E i \in DOMAIN list : /\ F!RuleMatches(list[i], f)
                                     /\ \A j \in 1..(i - 1) : ~F!RuleMatches(list[j], f)
<1> DEFINE hit == {i \in DOMAIN list : F!RuleMatches(list[i], f)}
<1>1. DOMAIN list = 1..Len(list) /\ Len(list) \in Nat
  OBVIOUS
<1>2. F!Verdict(list, f) = IF hit = {} THEN "direct" ELSE list[Min(hit)].action
  BY SameInRouting DEF F!Verdict
<1>3. hit # {} => Min(hit) \in hit /\ \A i \in hit : Min(hit) <= i
  <2>1. hit \in SUBSET Nat
    BY <1>1
  <2> HIDE DEF hit
  <2> QED
    BY <2>1, LeastIs
<1>4. ~Decides(list, f) <=> hit = {}
  BY DEF Decides
<1>5. ASSUME NEW i \in DOMAIN list, F!RuleMatches(list[i], f),
             \A j \in 1..(i - 1) : ~F!RuleMatches(list[j], f)
      PROVE  F!Verdict(list, f) = list[i].action
  <2>1. i \in hit /\ \A j \in hit : j \in 1..Len(list) /\ ~(j \in 1..(i - 1))
    BY <1>1, <1>5
  <2> HIDE DEF hit
  <2>2. Min(hit) = i
    BY <1>1, <1>3, <2>1
  <2> QED
    BY <1>2, <2>1, <2>2
<1>6. ASSUME Decides(list, f)
      PROVE  \E i \in DOMAIN list : /\ F!RuleMatches(list[i], f)
                                    /\ \A j \in 1..(i - 1) : ~F!RuleMatches(list[j], f)
  <2>1. Min(hit) \in DOMAIN list /\ F!RuleMatches(list[Min(hit)], f) /\ \A i \in hit : Min(hit) <= i
    BY <1>3, <1>4, <1>6
  <2>2. \A j \in 1..(Min(hit) - 1) : j \in DOMAIN list /\ j \notin hit
    <3> HIDE DEF hit
    <3> QED
      BY <1>1, <2>1
  <2> QED
    BY <2>1, <2>2
<1> QED
  BY <1>2, <1>4, <1>5, <1>6

\* Two lists one after the other: the first to match decides.
LEMMA VerdictOfTwo ==
  ASSUME NEW a \in Seq(CompiledRule), NEW b \in Seq(CompiledRule), NEW f
  PROVE  /\ a \o b \in Seq(CompiledRule)
         /\ Decides(a \o b, f) <=> Decides(a, f) \/ Decides(b, f)
         /\ F!Verdict(a \o b, f) = IF Decides(a, f) THEN F!Verdict(a, f) ELSE F!Verdict(b, f)
<1> DEFINE c == a \o b
           M(r) == F!RuleMatches(r, f)
<1>1. /\ c \in Seq(CompiledRule) /\ Len(a) \in Nat /\ Len(b) \in Nat /\ Len(c) = Len(a) + Len(b)
      /\ DOMAIN a = 1..Len(a) /\ DOMAIN b = 1..Len(b) /\ DOMAIN c = 1..Len(c)
      /\ \A j \in 1..Len(a) : c[j] = a[j]
      /\ \A j \in 1..Len(b) : c[Len(a) + j] = b[j]
  OBVIOUS
<1>2. \A j \in 1..Len(c) : j \in 1..Len(a) \/ (j - Len(a) \in 1..Len(b) /\ c[j] = b[j - Len(a)])
  BY <1>1
<1> HIDE DEF c, M
<1>3. Decides(c, f) <=> Decides(a, f) \/ Decides(b, f)
  <2>1. ASSUME NEW j \in 1..Len(c), M(c[j]) PROVE Decides(a, f) \/ Decides(b, f)
    BY <1>1, <1>2, <2>1 DEF Decides, M
  <2>2. ASSUME NEW j \in 1..Len(a), M(a[j]) PROVE Decides(c, f)
    BY <1>1, <2>2 DEF Decides, M
  <2>3. ASSUME NEW j \in 1..Len(b), M(b[j]) PROVE Decides(c, f)
    <3>1. Len(a) + j \in 1..Len(c) /\ M(c[Len(a) + j])
      BY <1>1, <2>3
    <3> QED
      BY <1>1, <3>1 DEF Decides, M
  <2> QED
    BY <1>1, <2>1, <2>2, <2>3 DEF Decides, M
<1>4. CASE Decides(a, f)
  <2>1. PICK i \in DOMAIN a : M(a[i]) /\ \A j \in 1..(i - 1) : ~M(a[j])
    BY <1>4, VerdictIs DEF M
  <2>2. F!Verdict(a, f) = a[i].action
    BY <2>1, VerdictIs DEF M
  <2>3. i \in DOMAIN c /\ M(c[i]) /\ c[i] = a[i] /\ \A j \in 1..(i - 1) : ~M(c[j])
    BY <1>1, <2>1
  <2>4. F!Verdict(c, f) = c[i].action
    BY <1>1, <2>3, VerdictIs DEF M
  <2> QED
    BY <1>1, <1>3, <1>4, <2>2, <2>3, <2>4 DEF c
<1>5. CASE ~Decides(a, f) /\ Decides(b, f)
  <2>0. \A j \in 1..Len(a) : ~M(c[j])
    BY <1>1, <1>5 DEF Decides, M
  <2>1. PICK i \in DOMAIN b : M(b[i]) /\ \A j \in 1..(i - 1) : ~M(b[j])
    BY <1>5, VerdictIs DEF M
  <2>2. F!Verdict(b, f) = b[i].action
    BY <2>1, VerdictIs DEF M
  <2>3. Len(a) + i \in DOMAIN c /\ c[Len(a) + i] = b[i] /\ M(c[Len(a) + i])
    BY <1>1, <2>1
  <2>4. \A j \in 1..((Len(a) + i) - 1) : j \in 1..Len(c) /\ (j \in 1..Len(a) \/ j - Len(a) \in 1..(i - 1))
    BY <1>1, <2>1
  <2>5. \A j \in 1..((Len(a) + i) - 1) : ~M(c[j])
    BY <1>1, <1>2, <2>0, <2>1, <2>4
  <2>6. F!Verdict(c, f) = c[Len(a) + i].action
    BY <1>1, <2>3, <2>5, VerdictIs DEF M
  <2> QED
    BY <1>1, <1>3, <1>5, <2>2, <2>3, <2>6 DEF c
<1>6. CASE ~Decides(a, f) /\ ~Decides(b, f)
  BY <1>1, <1>3, <1>6, VerdictIs DEF c
<1> QED
  BY <1>4, <1>5, <1>6

\* A rule that is there under a condition.
LEMMA VerdictOfOne ==
  ASSUME NEW r \in CompiledRule, NEW f, NEW cond \in BOOLEAN
  PROVE  /\ F!OnlyIf(cond, r) \in Seq(CompiledRule)
         /\ Decides(F!OnlyIf(cond, r), f) <=> cond /\ F!RuleMatches(r, f)
         /\ cond /\ F!RuleMatches(r, f) => F!Verdict(F!OnlyIf(cond, r), f) = r.action
<1>1. CASE cond
  <2> DEFINE l == <<r>>
  <2>1. F!OnlyIf(cond, r) = l
    BY <1>1 DEF F!OnlyIf
  <2>2. l \in Seq(CompiledRule) /\ DOMAIN l = {1} /\ l[1] = r
    OBVIOUS
  <2> HIDE DEF l
  <2>3. Decides(l, f) <=> F!RuleMatches(r, f)
    BY <2>2 DEF Decides
  <2>4. F!RuleMatches(r, f) => F!Verdict(l, f) = r.action
    <3>1. \A j \in 1..(1 - 1) : FALSE
      OBVIOUS
    <3> QED
      BY <2>2, <3>1, VerdictIs
  <2> QED
    BY <1>1, <2>1, <2>2, <2>3, <2>4
<1>2. CASE ~cond
  <2>1. F!OnlyIf(cond, r) = <<>>
    BY <1>2 DEF F!OnlyIf
  <2> QED
    BY <1>2, <2>1 DEF Decides
<1> QED
  BY <1>1, <1>2

\* The compiled rows: the first row one of whose rules matches decides.
LEMMA VerdictOfRows ==
  ASSUME NEW ss \in Seq(Seq(CompiledRule)), NEW f
  PROVE  /\ FlattenSeq(ss) \in Seq(CompiledRule)
         /\ Decides(FlattenSeq(ss), f) <=> \E n \in DOMAIN ss : Decides(ss[n], f)
         /\ \A n \in DOMAIN ss :
              Decides(ss[n], f) /\ (\A k \in 1..(n - 1) : ~Decides(ss[k], f))
              => F!Verdict(FlattenSeq(ss), f) = F!Verdict(ss[n], f)
<1> DEFINE u == FlattenSeq(ss)
<1>1. u \in Seq(CompiledRule) /\ DOMAIN u = 1..Len(u) /\ Len(u) \in Nat
  BY FlattenIs
<1>2. PICK from, place : Flattened(ss, Len(ss), u, from, place)
  BY FlattenIs
<1> HIDE DEF u
<1>3. /\ DOMAIN ss = 1..Len(ss) /\ Len(ss) \in Nat
      /\ \A n \in 1..Len(ss) : ss[n] \in Seq(CompiledRule) /\ DOMAIN ss[n] = 1..Len(ss[n]) /\ Len(ss[n]) \in Nat
  OBVIOUS
<1>4. \A j \in 1..Len(u) : /\ from[j] \in DOMAIN ss /\ place[j] \in DOMAIN ss[from[j]]
                           /\ u[j] = ss[from[j]][place[j]]
  BY <1>2, <1>3 DEF Flattened
<1>5. \A j, k \in 1..Len(u) :
        j < k => from[j] < from[k] \/ (from[j] = from[k] /\ place[j] < place[k])
  BY <1>2 DEF Flattened
<1>6. ASSUME NEW n \in DOMAIN ss, NEW p \in DOMAIN ss[n]
      PROVE  \E j \in 1..Len(u) : from[j] = n /\ place[j] = p
  <2>1. \A m \in 1..Len(ss) : \A q \in 1..Len(ss[m]) : \E j \in 1..Len(u) : from[j] = m /\ place[j] = q
    BY <1>2 DEF Flattened
  <2>2. n \in 1..Len(ss) /\ p \in 1..Len(ss[n])
    BY <1>3
  <2> QED
    BY <2>1, <2>2
<1>7. Decides(u, f) <=> \E n \in DOMAIN ss : Decides(ss[n], f)
  <2>1. ASSUME NEW j \in DOMAIN u, F!RuleMatches(u[j], f) PROVE \E n \in DOMAIN ss : Decides(ss[n], f)
    BY <1>1, <1>4, <2>1 DEF Decides
  <2>2. ASSUME NEW n \in DOMAIN ss, NEW p \in DOMAIN ss[n], F!RuleMatches(ss[n][p], f) PROVE Decides(u, f)
    <3>1. PICK j \in 1..Len(u) : from[j] = n /\ place[j] = p
      BY <1>6
    <3> QED
      BY <1>1, <1>4, <2>2, <3>1 DEF Decides
  <2> QED
    BY <2>1, <2>2 DEF Decides
<1>8. ASSUME NEW n \in DOMAIN ss, Decides(ss[n], f), \A k \in 1..(n - 1) : ~Decides(ss[k], f)
      PROVE  F!Verdict(u, f) = F!Verdict(ss[n], f)
  <2>0. ss[n] \in Seq(CompiledRule) /\ n \in 1..Len(ss)
    BY <1>3
  <2>1. PICK p \in DOMAIN ss[n] : /\ F!RuleMatches(ss[n][p], f)
                                  /\ \A q \in 1..(p - 1) : ~F!RuleMatches(ss[n][q], f)
    BY <1>8, <2>0, VerdictIs
  <2>2. F!Verdict(ss[n], f) = ss[n][p].action
    BY <2>0, <2>1, VerdictIs
  <2>3. PICK i \in 1..Len(u) : from[i] = n /\ place[i] = p
    BY <1>6
  <2>4. u[i] = ss[n][p]
    BY <1>4, <2>3
  <2>5. ASSUME NEW j \in 1..(i - 1) PROVE ~F!RuleMatches(u[j], f)
    <3>1. j \in 1..Len(u) /\ j < i
      BY <1>1
    <3>2. from[j] < n \/ (from[j] = n /\ place[j] < p)
      BY <1>5, <2>3, <3>1
    <3>3. from[j] \in 1..Len(ss) /\ place[j] \in DOMAIN ss[from[j]] /\ u[j] = ss[from[j]][place[j]]
      BY <1>3, <1>4, <3>1
    <3>4. CASE from[j] < n
      <4>1. from[j] \in 1..(n - 1)
        BY <1>3, <3>3, <3>4
      <4> QED
        BY <1>8, <3>3, <4>1 DEF Decides
    <3>5. CASE from[j] = n /\ place[j] < p
      <4>1. place[j] \in 1..(p - 1)
        BY <1>3, <3>3, <3>5
      <4> QED
        BY <2>1, <3>3, <3>5, <4>1
    <3> QED
      BY <3>2, <3>4, <3>5
  <2>6. F!Verdict(u, f) = u[i].action
    BY <1>1, <2>1, <2>4, <2>5, VerdictIs
  <2> QED
    BY <2>2, <2>4, <2>6
<1> QED
  BY <1>1, <1>7, <1>8 DEF u
---------------------------------------------------------------------------
(* What the compiled table answers *)

FlagTypes == [killswitch : BOOLEAN, lan_direct : BOOLEAN, tun : BOOLEAN]

\* What a compiled row hits, and what it says.
RowHits(r, f) == F!Hits(f, r.m) \/ (F!IsGeo(r.m) /\ r.m \notin env.cached)
RowSays(r, f) ==
  IF F!IsGeo(r.m) /\ r.m \notin env.cached THEN "reject"
  ELSE IF r.target = "direct" THEN "direct"
  ELSE IF r.target = "block" \/ r.target \notin F!Built THEN "reject"
  ELSE IF flags.tun /\ F!V6Built # {} /\ r.target \notin F!V6Built /\ f.v6 THEN "reject"
  ELSE r.target

\* A compiled row decides where it hits, and as it says.
LEMMA RowDecides ==
  ASSUME NEW r \in RouteRow, NEW f, flags \in FlagTypes
  PROVE  /\ F!CompiledRow(r) \in Seq(CompiledRule)
         /\ Decides(F!CompiledRow(r), f) <=> f.door \in F!Doors /\ RowHits(r, f)
         /\ Decides(F!CompiledRow(r), f) => F!Verdict(F!CompiledRow(r), f) = RowSays(r, f)
<1> DEFINE c == F!CompiledRow(r)
           guard == [F!Matching(r.m, "reject") EXCEPT !.kind = "matcher6"]
           guarded == F!V6Built # {} /\ r.target \notin F!V6Built /\ flags.tun
           lost == F!When(F!Doors, "any", "reject")
           missing == F!IsGeo(r.m) /\ r.m \notin env.cached
           gone == r.target = "block" \/ r.target \notin F!Built
<1>1. r.m \in Matchers /\ r.target \in F!Targets /\ F!Doors \in SUBSET Doorways
  BY DEF RouteRow, F!Doors, Doorways
<1>2. /\ lost \in CompiledRule /\ lost.action = "reject"
      /\ F!RuleMatches(lost, f) <=> f.door \in F!Doors
  BY <1>1 DEF F!When, CompiledRule, F!RuleMatches
<1>3. \A a \in F!Targets \cup {"reject", "direct"} :
        /\ F!Matching(r.m, a) \in CompiledRule /\ F!Matching(r.m, a).action = a
        /\ F!RuleMatches(F!Matching(r.m, a), f) <=> f.door \in F!Doors /\ F!Hits(f, r.m)
  BY <1>1 DEF F!Matching, CompiledRule, F!RuleMatches
<1>4. /\ guard \in CompiledRule /\ guard.action = "reject"
      /\ F!RuleMatches(guard, f) <=> f.door \in F!Doors /\ f.v6 /\ F!Hits(f, r.m)
  BY <1>1 DEF F!Matching, CompiledRule, F!RuleMatches
<1>5. ASSUME NEW x \in CompiledRule
      PROVE  /\ <<x>> \in Seq(CompiledRule)
             /\ Decides(<<x>>, f) <=> F!RuleMatches(x, f)
             /\ F!RuleMatches(x, f) => F!Verdict(<<x>>, f) = x.action
  <2>1. F!OnlyIf(TRUE, x) = <<x>>
    BY DEF F!OnlyIf
  <2> QED
    BY <2>1, VerdictOfOne
<1>6. RowHits(r, f) <=> F!Hits(f, r.m) \/ missing
  BY DEF RowHits
<1>7. CASE missing
  <2>1. c = <<lost>> /\ RowSays(r, f) = "reject"
    BY <1>7 DEF F!CompiledRow, RowSays
  <2> HIDE DEF c, lost, missing
  <2> QED
    BY <1>2, <1>5, <1>6, <1>7, <2>1 DEF c
<1>8. CASE ~missing /\ r.target = "direct"
  <2>1. c = <<F!Matching(r.m, "direct")>> /\ RowSays(r, f) = "direct"
    BY <1>8 DEF F!CompiledRow, RowSays
  <2> HIDE DEF c, missing
  <2> QED
    BY <1>3, <1>5, <1>6, <1>8, <2>1 DEF c
<1>9. CASE ~missing /\ r.target # "direct" /\ gone
  <2>1. c = <<F!Matching(r.m, "reject")>> /\ RowSays(r, f) = "reject"
    BY <1>9 DEF F!CompiledRow, RowSays
  <2> HIDE DEF c, missing, gone
  <2> QED
    BY <1>3, <1>5, <1>6, <1>9, <2>1 DEF c
<1>10. CASE ~missing /\ r.target # "direct" /\ ~gone
  <2> DEFINE a == F!OnlyIf(guarded, guard)
             b == <<F!Matching(r.m, r.target)>>
  <2>1. c = a \o b
    BY <1>10 DEF F!CompiledRow
  <2>2. RowSays(r, f) = IF guarded /\ f.v6 THEN "reject" ELSE r.target
    BY <1>10 DEF RowSays
  <2>3. guarded \in BOOLEAN
    BY DEF FlagTypes
  <2>4. /\ a \in Seq(CompiledRule)
        /\ Decides(a, f) <=> guarded /\ F!RuleMatches(guard, f)
        /\ guarded /\ F!RuleMatches(guard, f) => F!Verdict(a, f) = "reject"
    <3> HIDE DEF guarded, guard
    <3> QED
      BY <1>4, <2>3, VerdictOfOne
  <2>5. /\ b \in Seq(CompiledRule)
        /\ Decides(b, f) <=> f.door \in F!Doors /\ F!Hits(f, r.m)
        /\ f.door \in F!Doors /\ F!Hits(f, r.m) => F!Verdict(b, f) = r.target
    BY <1>1, <1>3, <1>5
  <2> HIDE DEF a, b, c, guarded, guard, missing, gone
  <2>6. /\ c \in Seq(CompiledRule)
        /\ Decides(c, f) <=> Decides(a, f) \/ Decides(b, f)
        /\ F!Verdict(c, f) = IF Decides(a, f) THEN F!Verdict(a, f) ELSE F!Verdict(b, f)
    BY <2>1, <2>4, <2>5, VerdictOfTwo
  <2>7. Decides(c, f) <=> f.door \in F!Doors /\ RowHits(r, f)
    BY <1>4, <1>6, <1>10, <2>4, <2>5, <2>6
  <2>8. Decides(c, f) => F!Verdict(c, f) = RowSays(r, f)
    BY <1>4, <2>2, <2>4, <2>5, <2>6
  <2> QED
    BY <2>6, <2>7, <2>8 DEF c
<1> QED
  BY <1>7, <1>8, <1>9, <1>10

\* The first row that hits decides among the compiled rows.
HitsAt(t, f, i) == f.door \in F!Doors /\ RowHits(t[i], f)
FirstHit(t, f, i) == i \in DOMAIN t /\ HitsAt(t, f, i) /\ \A k \in 1..(i - 1) : ~HitsAt(t, f, k)

LEMMA RowsDecide ==
  ASSUME NEW t \in Seq(RouteRow), NEW f, flags \in FlagTypes
  PROVE  /\ F!CompiledRows(t) \in Seq(CompiledRule)
         /\ Decides(F!CompiledRows(t), f) <=> \E i \in DOMAIN t : HitsAt(t, f, i)
         /\ \A i : FirstHit(t, f, i) => F!Verdict(F!CompiledRows(t), f) = RowSays(t[i], f)
<1> DEFINE ss == [i \in DOMAIN t |-> F!CompiledRow(t[i])]
<1>0. DOMAIN t = 1..Len(t) /\ Len(t) \in Nat /\ \A i \in DOMAIN t : t[i] \in RouteRow
  OBVIOUS
<1>1. \A i \in DOMAIN t :
        /\ F!CompiledRow(t[i]) \in Seq(CompiledRule)
        /\ Decides(F!CompiledRow(t[i]), f) <=> HitsAt(t, f, i)
        /\ HitsAt(t, f, i) => F!Verdict(F!CompiledRow(t[i]), f) = RowSays(t[i], f)
  BY <1>0, RowDecides DEF HitsAt
<1>2. ss \in Seq(Seq(CompiledRule)) /\ DOMAIN ss = DOMAIN t
  BY <1>0, <1>1
<1>3. \A i \in DOMAIN t : ss[i] = F!CompiledRow(t[i])
  OBVIOUS
<1>4. F!CompiledRows(t) = FlattenSeq(ss)
  BY SameInRouting DEF F!CompiledRows
<1> HIDE DEF ss
<1>5. /\ FlattenSeq(ss) \in Seq(CompiledRule)
      /\ Decides(FlattenSeq(ss), f) <=> \E n \in DOMAIN ss : Decides(ss[n], f)
      /\ \A n \in DOMAIN ss :
           Decides(ss[n], f) /\ (\A k \in 1..(n - 1) : ~Decides(ss[k], f))
           => F!Verdict(FlattenSeq(ss), f) = F!Verdict(ss[n], f)
  BY <1>2, VerdictOfRows
<1>6. ASSUME NEW i, FirstHit(t, f, i)
      PROVE  F!Verdict(FlattenSeq(ss), f) = RowSays(t[i], f)
  <2>1. i \in DOMAIN t /\ HitsAt(t, f, i) /\ \A k \in 1..(i - 1) : k \in DOMAIN t /\ ~HitsAt(t, f, k)
    BY <1>0, <1>6 DEF FirstHit
  <2> QED
    BY <1>1, <1>2, <1>3, <1>5, <2>1
<1> QED
  BY <1>1, <1>2, <1>3, <1>4, <1>5, <1>6

\* There is a first row that hits if any does.
LEMMA FirstHitExists ==
  ASSUME NEW t \in Seq(RouteRow), NEW f
  PROVE  /\ (\E i \in DOMAIN t : HitsAt(t, f, i)) => \E i : FirstHit(t, f, i)
         /\ \A i, j : FirstHit(t, f, i) /\ FirstHit(t, f, j) => i = j
<1> DEFINE S == {i \in DOMAIN t : HitsAt(t, f, i)}
<1>0. DOMAIN t = 1..Len(t) /\ Len(t) \in Nat
  OBVIOUS
<1>1. ASSUME S # {} PROVE FirstHit(t, f, Min(S))
  <2>1. Min(S) \in S /\ \A i \in S : Min(S) <= i
    <3>1. S \in SUBSET Nat
      BY <1>0
    <3> HIDE DEF S
    <3> QED
      BY <1>1, <3>1, LeastIs
  <2>2. \A k \in 1..(Min(S) - 1) : k \in DOMAIN t /\ k \notin S
    <3>1. Min(S) \in DOMAIN t
      BY <2>1
    <3> HIDE DEF S
    <3> QED
      BY <1>0, <2>1, <3>1
  <2> QED
    BY <2>1, <2>2 DEF FirstHit
<1>2. \A i, j : FirstHit(t, f, i) /\ FirstHit(t, f, j) => i = j
  <2> SUFFICES ASSUME NEW i, NEW j, FirstHit(t, f, i), FirstHit(t, f, j) PROVE i = j
    OBVIOUS
  <2>1. i \in Nat /\ j \in Nat /\ i # 0 /\ j # 0 /\ i \notin 1..(j - 1) /\ j \notin 1..(i - 1)
    BY <1>0 DEF FirstHit
  <2> QED
    BY <2>1
<1> QED
  BY <1>1, <1>2

\* The compiled table answers in this order.
LEMMA CompiledAnswers ==
  ASSUME NEW t \in Seq(RouteRow), NEW f, flags \in FlagTypes, F!Doors # {}
  PROVE  LET rows == F!CompiledRows(t)
             in == f.door \in F!Doors
             blanket == flags.tun /\ f.door = "tun" /\ f.v6
         IN  F!Verdict(F!Compiled(t), f) =
               IF flags.lan_direct /\ in /\ f.port = "lan" THEN "direct"
               ELSE IF flags.tun /\ f.door = "tun" /\ f.port = "dns" THEN "hijack"
               ELSE IF flags.lan_direct /\ in /\ f.lan THEN "direct"
               ELSE IF blanket /\ F!V6Built = {} THEN "reject"
               ELSE IF Decides(rows, f) THEN F!Verdict(rows, f)
               ELSE IF blanket /\ F!V6Built # {} THEN "reject"
               ELSE IF flags.killswitch /\ in THEN "reject" ELSE "direct"
<1> DEFINE r1 == F!When(F!Doors, "lanport", "direct")
           r2 == F!When({"tun"}, "dns", "hijack")
           r3 == F!When(F!Doors, "lan", "direct")
           r4 == F!When({"tun"}, "v6", "reject")
           r7 == F!When(F!Doors, "any", "reject")
           in == f.door \in F!Doors
           l1 == F!OnlyIf(flags.lan_direct, r1)
           l2 == F!OnlyIf(flags.tun, r2)
           l3 == F!OnlyIf(flags.lan_direct, r3)
           l4 == F!OnlyIf(flags.tun /\ F!V6Built = {}, r4)
           l5 == F!CompiledRows(t)
           l6 == F!OnlyIf(flags.tun /\ F!V6Built # {}, r4)
           l7 == F!OnlyIf(flags.killswitch, r7)
           m2 == l1 \o l2
           m3 == m2 \o l3
           m4 == m3 \o l4
           m5 == m4 \o l5
           m6 == m5 \o l6
           m7 == m6 \o l7
<1>0. /\ flags.lan_direct \in BOOLEAN /\ flags.tun \in BOOLEAN /\ flags.killswitch \in BOOLEAN
      /\ F!Doors \in SUBSET Doorways
  BY DEF FlagTypes, F!Doors, Doorways
<1>1. /\ r1 \in CompiledRule /\ r1.action = "direct"
      /\ F!RuleMatches(r1, f) <=> in /\ f.port = "lan"
  BY <1>0 DEF F!When, CompiledRule, F!RuleMatches
<1>2. /\ r2 \in CompiledRule /\ r2.action = "hijack"
      /\ F!RuleMatches(r2, f) <=> f.door = "tun" /\ f.port = "dns"
  BY DEF F!When, CompiledRule, F!RuleMatches, Doorways
<1>3. /\ r3 \in CompiledRule /\ r3.action = "direct"
      /\ F!RuleMatches(r3, f) <=> in /\ f.lan
  BY <1>0 DEF F!When, CompiledRule, F!RuleMatches
<1>4. /\ r4 \in CompiledRule /\ r4.action = "reject"
      /\ F!RuleMatches(r4, f) <=> f.door = "tun" /\ f.v6
  BY DEF F!When, CompiledRule, F!RuleMatches, Doorways
<1>5. /\ r7 \in CompiledRule /\ r7.action = "reject"
      /\ F!RuleMatches(r7, f) <=> in
  BY <1>0 DEF F!When, CompiledRule, F!RuleMatches
<1>6. F!Compiled(t) = m7
  BY DEF F!Compiled, F!BlanketReject
<1> HIDE DEF r1, r2, r3, r4, r7, in
<1>7. /\ l1 \in Seq(CompiledRule)
      /\ Decides(l1, f) <=> flags.lan_direct /\ in /\ f.port = "lan"
      /\ Decides(l1, f) => F!Verdict(l1, f) = "direct"
  BY <1>0, <1>1, VerdictOfOne
<1>8. /\ l2 \in Seq(CompiledRule)
      /\ Decides(l2, f) <=> flags.tun /\ f.door = "tun" /\ f.port = "dns"
      /\ Decides(l2, f) => F!Verdict(l2, f) = "hijack"
  BY <1>0, <1>2, VerdictOfOne
<1>9. /\ l3 \in Seq(CompiledRule)
      /\ Decides(l3, f) <=> flags.lan_direct /\ in /\ f.lan
      /\ Decides(l3, f) => F!Verdict(l3, f) = "direct"
  BY <1>0, <1>3, VerdictOfOne
<1>10. /\ l4 \in Seq(CompiledRule)
       /\ Decides(l4, f) <=> flags.tun /\ F!V6Built = {} /\ f.door = "tun" /\ f.v6
       /\ Decides(l4, f) => F!Verdict(l4, f) = "reject"
  BY <1>0, <1>4, VerdictOfOne
<1>11. l5 \in Seq(CompiledRule)
  BY RowsDecide
<1>12. /\ l6 \in Seq(CompiledRule)
       /\ Decides(l6, f) <=> flags.tun /\ F!V6Built # {} /\ f.door = "tun" /\ f.v6
       /\ Decides(l6, f) => F!Verdict(l6, f) = "reject"
  BY <1>0, <1>4, VerdictOfOne
<1>13. /\ l7 \in Seq(CompiledRule)
       /\ Decides(l7, f) <=> flags.killswitch /\ in
       /\ F!Verdict(l7, f) = IF flags.killswitch /\ in THEN "reject" ELSE "direct"
  BY <1>0, <1>5, VerdictOfOne, VerdictIs
<1> HIDE DEF l1, l2, l3, l4, l5, l6, l7
<1>14. /\ m2 \in Seq(CompiledRule)
       /\ Decides(m2, f) <=> Decides(l1, f) \/ Decides(l2, f)
       /\ F!Verdict(m2, f) = IF Decides(l1, f) THEN F!Verdict(l1, f) ELSE F!Verdict(l2, f)
  BY <1>7, <1>8, VerdictOfTwo
<1> HIDE DEF m2
<1>15. /\ m3 \in Seq(CompiledRule)
       /\ Decides(m3, f) <=> Decides(m2, f) \/ Decides(l3, f)
       /\ F!Verdict(m3, f) = IF Decides(m2, f) THEN F!Verdict(m2, f) ELSE F!Verdict(l3, f)
  BY <1>9, <1>14, VerdictOfTwo
<1> HIDE DEF m3
<1>16. /\ m4 \in Seq(CompiledRule)
       /\ Decides(m4, f) <=> Decides(m3, f) \/ Decides(l4, f)
       /\ F!Verdict(m4, f) = IF Decides(m3, f) THEN F!Verdict(m3, f) ELSE F!Verdict(l4, f)
  BY <1>10, <1>15, VerdictOfTwo
<1> HIDE DEF m4
<1>17. /\ m5 \in Seq(CompiledRule)
       /\ Decides(m5, f) <=> Decides(m4, f) \/ Decides(l5, f)
       /\ F!Verdict(m5, f) = IF Decides(m4, f) THEN F!Verdict(m4, f) ELSE F!Verdict(l5, f)
  BY <1>11, <1>16, VerdictOfTwo
<1> HIDE DEF m5
<1>18. /\ m6 \in Seq(CompiledRule)
       /\ Decides(m6, f) <=> Decides(m5, f) \/ Decides(l6, f)
       /\ F!Verdict(m6, f) = IF Decides(m5, f) THEN F!Verdict(m5, f) ELSE F!Verdict(l6, f)
  BY <1>12, <1>17, VerdictOfTwo
<1> HIDE DEF m6
<1>19. F!Verdict(m7, f) = IF Decides(m6, f) THEN F!Verdict(m6, f) ELSE F!Verdict(l7, f)
  BY <1>13, <1>18, VerdictOfTwo
<1> HIDE DEF m7
<1>20. F!Verdict(m7, f) =
         IF Decides(l1, f) THEN "direct" ELSE IF Decides(l2, f) THEN "hijack"
         ELSE IF Decides(l3, f) THEN "direct" ELSE IF Decides(l4, f) THEN "reject"
         ELSE IF Decides(l5, f) THEN F!Verdict(l5, f)
         ELSE IF Decides(l6, f) THEN "reject"
         ELSE IF flags.killswitch /\ in THEN "reject" ELSE "direct"
  BY <1>7, <1>8, <1>9, <1>10, <1>12, <1>13, <1>14, <1>15, <1>16, <1>17, <1>18, <1>19
<1> QED
  BY <1>6, <1>7, <1>8, <1>9, <1>10, <1>12, <1>20 DEF l5, in
---------------------------------------------------------------------------
(* The properties of a compiled table *)

RoutingInv ==
  /\ rules \in Seq(RouteRow)
  /\ \A i \in DOMAIN rules : rules[i].id \in 1..MaxId /\ rules[i].rs \in 1..MaxId
  /\ flags \in FlagTypes

LEMMA DoorsAre ==
  /\ "tun" \in F!Doors => flags.tun
  /\ flags.tun => "tun" \in F!Doors
BY DEF F!Doors

\* The tracer answers for a row what the compiled row says, but for a channel
\* whose port is held.
LEMMA RowsAgree ==
  ASSUME NEW r \in RouteRow, NEW f, ~(flags.tun /\ f.v6 /\ F!V6Built = {}),
         ~(F!IsGeo(r.m) /\ r.m \in env.unread)
  PROVE  \/ F!TracedRow(r, f) = RowSays(r, f)
         \/ RowSays(r, f) = "reject" /\ F!TracedRow(r, f) \in env.held
<1>1. F!Problem(r.m) <=> F!IsGeo(r.m) /\ r.m \notin env.cached
  BY DEF F!Problem
<1>2. r.target \in F!Built <=> r.target \in F!Configured /\ r.target \notin env.held
  BY DEF F!Built
<1>3. /\ F!V6Built # {} => F!V6Configured # {}
      /\ r.target \in F!Built => (r.target \in F!V6Built <=> r.target \in F!V6Configured)
  BY DEF F!Built, F!V6Built, F!V6Configured
<1>4. CASE F!Problem(r.m) \/ r.target = "direct" \/ r.target = "block" \/ r.target \notin F!Configured
  BY <1>1, <1>2, <1>4 DEF F!TracedRow, RowSays
<1>5. CASE ~F!Problem(r.m) /\ r.target # "direct" /\ r.target # "block" /\ r.target \in F!Built
  BY <1>1, <1>2, <1>3, <1>5 DEF F!TracedRow, RowSays
<1>6. CASE ~F!Problem(r.m) /\ r.target # "direct" /\ r.target # "block"
           /\ r.target \in F!Configured /\ r.target \in env.held
  BY <1>1, <1>2, <1>6 DEF F!TracedRow, RowSays
<1> QED
  BY <1>2, <1>4, <1>5, <1>6

LEMMA TracerFollows == ASSUME RoutingInv PROVE F!TracerAgrees
<1> SUFFICES ASSUME F!TracedDoor \in F!Doors, NEW f \in F!Plain
             PROVE  \/ F!Traced(rules, f) = F!Verdict(F!Compiled(rules), f)
                    \/ F!MissesHeld(f) \/ F!MissesFile(f)
  BY DEF F!TracerAgrees
<1> DEFINE rows == F!CompiledRows(rules)
           hit == {i \in DOMAIN rules : RowHits(rules[i], f)}
           traced == F!TraceHits(rules, f)
           verdict == F!Verdict(F!Compiled(rules), f)
<1>1. /\ rules \in Seq(RouteRow) /\ flags \in FlagTypes /\ F!Doors # {}
      /\ DOMAIN rules = 1..Len(rules) /\ Len(rules) \in Nat
      /\ \A i \in DOMAIN rules : rules[i] \in RouteRow
  BY DEF RoutingInv
<1>2. /\ f.door \in F!Doors /\ f.port = "other"
      /\ f.door = "tun" <=> flags.tun
  BY DEF F!Plain, F!TracedDoor
<1>3. verdict =
        IF flags.lan_direct /\ f.lan THEN "direct"
        ELSE IF flags.tun /\ F!V6Built = {} /\ f.v6 THEN "reject"
        ELSE IF Decides(rows, f) THEN F!Verdict(rows, f)
        ELSE IF flags.tun /\ F!V6Built # {} /\ f.v6 THEN "reject"
        ELSE IF flags.killswitch THEN "reject" ELSE "direct"
  <2> HIDE DEF rows
  <2> QED
    BY <1>1, <1>2, CompiledAnswers DEF rows
<1>4. Decides(rows, f) <=> hit # {}
  BY <1>1, <1>2, RowsDecide DEF HitsAt
<1>5. ASSUME NEW n \in hit, \A i \in hit : n <= i PROVE F!Verdict(rows, f) = RowSays(rules[n], f)
  <2>1. \A k \in 1..(n - 1) : k \in DOMAIN rules /\ k \notin hit
    <3>1. n \in DOMAIN rules
      BY <1>5
    <3> HIDE DEF hit
    <3> QED
      BY <1>1, <1>5, <3>1
  <2>2. FirstHit(rules, f, n)
    BY <1>2, <1>5, <2>1 DEF FirstHit, HitsAt
  <2> HIDE DEF hit
  <2> QED
    BY <1>1, <2>2, RowsDecide
<1>6. F!Traced(rules, f) =
        IF flags.lan_direct /\ f.lan THEN "direct"
        ELSE IF flags.tun /\ F!V6Configured = {} /\ f.v6 THEN "reject"
        ELSE IF traced # {} THEN F!TracedRow(rules[Min(traced)], f)
        ELSE IF flags.tun /\ F!V6Configured # {} /\ f.v6 THEN "reject"
        ELSE IF flags.killswitch THEN "reject" ELSE "direct"
  BY SameInRouting DEF F!Traced
<1>7. /\ \A i : i \in traced <=> i \in DOMAIN rules /\ (F!Hits(f, rules[i].m) \/ F!Problem(rules[i].m))
      /\ \A i : i \in hit <=>
           i \in DOMAIN rules /\ (F!Hits(f, rules[i].m) \/ (F!IsGeo(rules[i].m) /\ rules[i].m \notin env.cached))
  BY DEF F!TraceHits, F!TraceHit, RowHits
<1>8. hit \subseteq traced /\ (F!V6Built # {} => F!V6Configured # {})
  BY <1>7 DEF F!Problem, F!Built, F!V6Built, F!V6Configured
<1>9. CASE flags.lan_direct /\ f.lan
  BY <1>3, <1>6, <1>9
<1>10. CASE ~(flags.lan_direct /\ f.lan) /\ flags.tun /\ f.v6 /\ F!V6Built = {}
  BY <1>3, <1>6, <1>10 DEF F!MissesHeld
<1>11. CASE ~(flags.lan_direct /\ f.lan) /\ ~(flags.tun /\ f.v6 /\ F!V6Built = {}) /\ traced = {}
  <2>1. ~Decides(rows, f)
    BY <1>4, <1>8, <1>11
  <2> HIDE DEF rows, traced
  <2> QED
    BY <1>3, <1>6, <1>8, <1>11, <2>1
<1>12. CASE ~(flags.lan_direct /\ f.lan) /\ ~(flags.tun /\ f.v6 /\ F!V6Built = {}) /\ traced # {}
  <2> DEFINE n == Min(traced)
  <2>1. n \in traced /\ (\A i \in traced : n <= i) /\ n \in DOMAIN rules
    <3>1. traced \in SUBSET Nat
      BY <1>1, <1>7
    <3> HIDE DEF traced
    <3> QED
      BY <1>7, <1>12, <3>1, LeastIs
  <2>2. F!Traced(rules, f) = F!TracedRow(rules[n], f)
    BY <1>6, <1>8, <1>12
  <2>3. CASE F!IsGeo(rules[n].m) /\ rules[n].m \in env.unread
    <3>1. F!TracedRow(rules[n], f) = "reject"
      BY <2>3 DEF F!TracedRow, F!Problem
    <3> QED
      BY <1>12, <2>2, <2>3, <3>1, SameInRouting DEF F!MissesFile
  <2>4. CASE ~(F!IsGeo(rules[n].m) /\ rules[n].m \in env.unread)
    <3> HIDE DEF rows, hit, traced, n
    <3>1. n \in hit
      BY <1>7, <2>1, <2>4 DEF F!Problem
    <3>2. verdict = RowSays(rules[n], f)
      <4>1. F!Verdict(rows, f) = RowSays(rules[n], f)
        BY <1>5, <1>8, <2>1, <3>1
      <4> QED
        BY <1>3, <1>4, <1>12, <3>1, <4>1
    <3>3. \/ F!TracedRow(rules[n], f) = RowSays(rules[n], f)
          \/ RowSays(rules[n], f) = "reject" /\ F!TracedRow(rules[n], f) \in env.held
      BY <1>1, <1>12, <2>1, <2>4, RowsAgree
    <3> QED
      BY <2>2, <3>2, <3>3 DEF F!MissesHeld
  <2> QED
    BY <2>3, <2>4
<1> QED
  BY <1>9, <1>10, <1>11, <1>12

\* A row that hits and does not say "direct" does not let the flow out.
LEMMA RowNeverLeaks ==
  ASSUME NEW r \in RouteRow, NEW f, RowHits(r, f), F!Hits(f, r.m) => r.target # "direct"
  PROVE  RowSays(r, f) # "direct"
BY DEF RowHits, RowSays

LEMMA ClaimedStaysIn == ASSUME RoutingInv PROVE F!ClaimedNeverLeaks
<1> SUFFICES ASSUME NEW f \in Flows, f.door \in F!Doors,
                    ~(flags.lan_direct /\ (f.lan \/ f.port = "lan")),
                    {i \in DOMAIN rules : F!Hits(f, rules[i].m)} # {},
                    rules[Min({i \in DOMAIN rules : F!Hits(f, rules[i].m)})].target \in RoutedChannels
             PROVE  F!Verdict(F!Compiled(rules), f) # "direct"
  BY SameInRouting DEF F!ClaimedNeverLeaks
<1> DEFINE mine == {i \in DOMAIN rules : F!Hits(f, rules[i].m)}
           rows == F!CompiledRows(rules)
<1>1. /\ rules \in Seq(RouteRow) /\ flags \in FlagTypes /\ F!Doors # {}
      /\ DOMAIN rules = 1..Len(rules) /\ Len(rules) \in Nat
      /\ \A i \in DOMAIN rules : rules[i] \in RouteRow
  BY DEF RoutingInv
<1>2. Min(mine) \in mine /\ \A i \in mine : Min(mine) <= i
  <2>1. mine # {} /\ mine \in SUBSET Nat
    BY <1>1
  <2> HIDE DEF mine
  <2> QED
    BY <2>1, LeastIs
<1>3. HitsAt(rules, f, Min(mine)) /\ Min(mine) \in DOMAIN rules
  BY <1>2 DEF HitsAt, RowHits
<1>4. PICK q : FirstHit(rules, f, q)
  BY <1>1, <1>3, FirstHitExists
<1>5. /\ q \in DOMAIN rules /\ RowHits(rules[q], f)
      /\ \A k \in 1..(q - 1) : ~HitsAt(rules, f, k)
  BY <1>4 DEF FirstHit, HitsAt
<1>6. F!Hits(f, rules[q].m) => rules[q].target # "direct"
  <2> SUFFICES ASSUME F!Hits(f, rules[q].m) PROVE rules[q].target # "direct"
    OBVIOUS
  <2>1. q \in mine
    BY <1>5
  <2>2. rules[Min(mine)].target \in RoutedChannels
    OBVIOUS
  <2> HIDE DEF mine
  <2>3. q = Min(mine)
    BY <1>1, <1>2, <1>3, <1>5, <2>1
  <2> QED
    BY <2>2, <2>3, EditsAssumption
<1>7. Decides(rows, f) /\ F!Verdict(rows, f) # "direct"
  <2>1. Decides(rows, f)
    BY <1>1, <1>3, RowsDecide
  <2>2. F!Verdict(rows, f) = RowSays(rules[q], f)
    BY <1>1, <1>4, RowsDecide
  <2>3. RowSays(rules[q], f) # "direct"
    BY <1>1, <1>5, <1>6, RowNeverLeaks
  <2> QED
    BY <2>1, <2>2, <2>3
<1> HIDE DEF mine, rows
<1> QED
  BY <1>1, <1>7, CompiledAnswers DEF rows

LEMMA UnmatchedStaysIn == ASSUME RoutingInv PROVE F!UnmatchedNeverLeaks
<1> SUFFICES ASSUME NEW f \in Flows, f.door \in F!Doors,
                    ~(flags.lan_direct /\ (f.lan \/ f.port = "lan")),
                    ~\E i \in DOMAIN rules : rules[i].target = "direct" /\ F!Hits(f, rules[i].m),
                    flags.killswitch \/ (f.door = "tun" /\ f.v6)
             PROVE  F!Verdict(F!Compiled(rules), f) # "direct"
  BY DEF F!UnmatchedNeverLeaks
<1> DEFINE rows == F!CompiledRows(rules)
<1>1. /\ rules \in Seq(RouteRow) /\ flags \in FlagTypes /\ F!Doors # {}
      /\ \A i \in DOMAIN rules : rules[i] \in RouteRow
      /\ f.door = "tun" => flags.tun
  BY DoorsAre DEF RoutingInv
<1>2. ASSUME Decides(rows, f) PROVE F!Verdict(rows, f) # "direct"
  <2>1. PICK q : FirstHit(rules, f, q)
    BY <1>1, <1>2, RowsDecide, FirstHitExists
  <2>2. q \in DOMAIN rules /\ RowHits(rules[q], f)
    BY <2>1 DEF FirstHit, HitsAt
  <2>3. F!Verdict(rows, f) = RowSays(rules[q], f)
    BY <1>1, <2>1, RowsDecide
  <2> QED
    BY <1>1, <2>2, <2>3, RowNeverLeaks
<1> HIDE DEF rows
<1> QED
  BY <1>1, <1>2, CompiledAnswers DEF rows

\* A row behind another that hits whatever it hits can be left out.
LEMMA LeftOut ==
  ASSUME NEW t \in Seq(RouteRow), NEW f, flags \in FlagTypes, NEW n \in DOMAIN t,
         HitsAt(t, f, n) => \E k \in 1..(n - 1) : HitsAt(t, f, k)
  PROVE  LET w == RemoveAt(t, n)
         IN  /\ w \in Seq(RouteRow)
             /\ Decides(F!CompiledRows(w), f) <=> Decides(F!CompiledRows(t), f)
             /\ Decides(F!CompiledRows(t), f) =>
                  F!Verdict(F!CompiledRows(w), f) = F!Verdict(F!CompiledRows(t), f)
<1> DEFINE a == SubSeq(t, 1, n - 1)
           b == SubSeq(t, n + 1, Len(t))
           w == a \o b
           after(j) == IF j < n THEN j ELSE j - 1
<1>0. /\ DOMAIN t = 1..Len(t) /\ Len(t) \in Nat /\ n \in 1..Len(t)
  OBVIOUS
<1>1. a \in Seq(RouteRow) /\ Len(a) = n - 1 /\ \A j \in 1..(n - 1) : a[j] = t[j]
  BY <1>0
<1>2. b \in Seq(RouteRow) /\ Len(b) = Len(t) - n /\ \A j \in 1..(Len(t) - n) : b[j] = t[n + j]
  BY <1>0
<1> HIDE DEF a, b
<1>3. /\ w \in Seq(RouteRow) /\ Len(w) = Len(a) + Len(b) /\ DOMAIN w = 1..Len(w)
      /\ \A j \in 1..Len(w) : w[j] = IF j <= Len(a) THEN a[j] ELSE b[j - Len(a)]
  <2>1. a \in Seq(RouteRow) /\ b \in Seq(RouteRow)
    BY <1>1, <1>2
  <2>2. /\ w \in Seq(RouteRow) /\ Len(w) = Len(a) + Len(b) /\ DOMAIN w = 1..Len(w)
        /\ \A j \in 1..(Len(a) + Len(b)) : w[j] = IF j <= Len(a) THEN a[j] ELSE b[j - Len(a)]
    BY <2>1
  <2> HIDE DEF w
  <2> QED
    BY <2>2
<1> HIDE DEF w
<1>4. /\ DOMAIN w = 1..(Len(t) - 1)
      /\ \A j \in DOMAIN t : j # n => after(j) \in DOMAIN w /\ w[after(j)] = t[j]
      /\ \A k \in DOMAIN w : \E j \in DOMAIN t : j # n /\ after(j) = k
  <2>1. DOMAIN w = 1..(Len(t) - 1)
    BY <1>0, <1>1, <1>2, <1>3
  <2>2. ASSUME NEW j \in DOMAIN t, j # n PROVE after(j) \in DOMAIN w /\ w[after(j)] = t[j]
    <3>1. CASE j < n
      BY <1>0, <1>1, <1>3, <2>1, <3>1
    <3>2. CASE ~(j < n)
      <4>1. j - 1 \in 1..Len(w) /\ ~(j - 1 <= Len(a)) /\ (j - 1) - Len(a) \in 1..(Len(t) - n)
            /\ n + ((j - 1) - Len(a)) = j
        BY <1>0, <1>1, <1>3, <2>1, <2>2, <3>2
      <4> QED
        BY <1>2, <1>3, <3>2, <4>1
    <3> QED
      BY <3>1, <3>2
  <2>3. ASSUME NEW k \in DOMAIN w PROVE \E j \in DOMAIN t : j # n /\ after(j) = k
    <3>1. CASE k < n
      <4>1. k \in DOMAIN t /\ k # n /\ after(k) = k
        BY <1>0, <2>1, <3>1
      <4> QED
        BY <4>1
    <3>2. CASE ~(k < n)
      <4>1. k + 1 \in DOMAIN t /\ k + 1 # n /\ after(k + 1) = k
        BY <1>0, <2>1, <3>2
      <4> QED
        BY <4>1
    <3> QED
      BY <3>1, <3>2
  <2> QED
    BY <2>1, <2>2, <2>3
<1>5. \A i, j \in DOMAIN t : i # n /\ j # n => (after(i) < after(j) <=> i < j)
  BY <1>0
<1> HIDE DEF after
<1>6. \A j \in DOMAIN t : j # n => (HitsAt(w, f, after(j)) <=> HitsAt(t, f, j))
  BY <1>4 DEF HitsAt
<1>7. ASSUME NEW q, FirstHit(t, f, q)
      PROVE  FirstHit(w, f, after(q)) /\ w[after(q)] = t[q] /\ q \in DOMAIN t
  <2>1. q \in DOMAIN t /\ HitsAt(t, f, q) /\ \A k \in 1..(q - 1) : ~HitsAt(t, f, k)
    BY <1>7 DEF FirstHit
  <2>2. q # n
    BY <2>1
  <2>3. after(q) \in DOMAIN w /\ w[after(q)] = t[q] /\ HitsAt(w, f, after(q))
    BY <1>4, <1>6, <2>1, <2>2
  <2>4. ASSUME NEW k \in 1..(after(q) - 1) PROVE ~HitsAt(w, f, k)
    <3>1. k \in DOMAIN w /\ k < after(q)
      BY <1>0, <1>4, <2>3
    <3>2. PICK j \in DOMAIN t : j # n /\ after(j) = k
      BY <1>4, <3>1
    <3>3. j \in 1..(q - 1)
      BY <1>0, <1>5, <2>1, <2>2, <3>1, <3>2
    <3> QED
      BY <1>6, <2>1, <3>2, <3>3
  <2> QED
    BY <2>1, <2>3, <2>4 DEF FirstHit
<1>8. Decides(F!CompiledRows(w), f) <=> Decides(F!CompiledRows(t), f)
  <2>1. ASSUME NEW k \in DOMAIN w, HitsAt(w, f, k) PROVE \E j \in DOMAIN t : HitsAt(t, f, j)
    BY <1>4, <1>6, <2>1
  <2>2. ASSUME NEW j \in DOMAIN t, HitsAt(t, f, j) PROVE \E k \in DOMAIN w : HitsAt(w, f, k)
    BY <1>7, <2>2, FirstHitExists DEF FirstHit
  <2> QED
    BY <1>3, <2>1, <2>2, RowsDecide
<1>9. ASSUME Decides(F!CompiledRows(t), f)
      PROVE  F!Verdict(F!CompiledRows(w), f) = F!Verdict(F!CompiledRows(t), f)
  <2>1. PICK q : FirstHit(t, f, q)
    BY <1>9, RowsDecide, FirstHitExists
  <2>2. FirstHit(w, f, after(q)) /\ w[after(q)] = t[q]
    BY <1>7, <2>1
  <2> QED
    BY <1>3, <2>1, <2>2, RowsDecide
<1>10. RemoveAt(t, n) = w
  BY DEF RemoveAt, w, a, b
<1> QED
  BY <1>3, <1>8, <1>9, <1>10

\* A matcher that covers another hits whatever the other hits.
LEMMA CoversHits ==
  ASSUME NEW a \in Matchers, NEW b \in Matchers, F!Covers(a, b), NEW f \in Flows,
         F!Hits(f, b) \/ (F!IsGeo(b) /\ b \notin env.cached)
  PROVE  F!Hits(f, a) \/ (F!IsGeo(a) /\ a \notin env.cached)
<1>1. CASE F!IsAll(a)
  BY <1>1 DEF F!Hits
<1>2. CASE ~F!IsAll(a) /\ a.value = b.value
  <2>1. a = b
    BY <1>2, EditsAssumption DEF F!Covers
  <2> QED
    BY <2>1
<1>3. CASE ~F!IsAll(a) /\ a.value # b.value
  <2>1. ~F!IsAll(b) /\ a.type = b.type /\ ~F!IsGeo(b) /\ <<a.value, b.value>> \in Inside
    BY <1>3 DEF F!Covers, F!IsGeo
  <2>2. b \in f.hits
    BY <2>1 DEF F!Hits
  <2>3. a \in f.hits
    BY <2>1, <2>2, EditsAssumption
  <2> QED
    BY <2>3 DEF F!Hits
<1> QED
  BY <1>1, <1>2, <1>3

LEMMA LintHolds == ASSUME RoutingInv PROVE F!LintIsSound
<1> SUFFICES ASSUME NEW n \in DOMAIN rules, F!Shadowed(rules, n), NEW f \in Flows
             PROVE  F!Verdict(F!Compiled(rules), f) = F!Verdict(F!Compiled(RemoveAt(rules, n)), f)
  BY SameInRouting DEF F!LintIsSound
<1> DEFINE w == RemoveAt(rules, n)
<1>1. /\ rules \in Seq(RouteRow) /\ flags \in FlagTypes
      /\ DOMAIN rules = 1..Len(rules) /\ Len(rules) \in Nat
      /\ \A i \in DOMAIN rules : rules[i] \in RouteRow /\ rules[i].m \in Matchers
  <2>1. rules \in Seq(RouteRow) /\ flags \in FlagTypes
    BY DEF RoutingInv
  <2>2. \A i \in DOMAIN rules : rules[i] \in RouteRow
    BY <2>1
  <2>3. \A r \in RouteRow : r.m \in Matchers
    BY DEF RouteRow
  <2> QED
    BY <2>1, <2>2, <2>3
<1>2. CASE F!Doors = {}
  <2>1. F!Compiled(rules) = <<>> /\ F!Compiled(w) = <<>>
    BY <1>2 DEF F!Compiled
  <2> QED
    BY <2>1
<1>3. CASE F!Doors # {} /\ (HitsAt(rules, f, n) => \E k \in 1..(n - 1) : HitsAt(rules, f, k))
  <2>1. /\ w \in Seq(RouteRow)
        /\ Decides(F!CompiledRows(w), f) <=> Decides(F!CompiledRows(rules), f)
        /\ Decides(F!CompiledRows(rules), f) =>
             F!Verdict(F!CompiledRows(w), f) = F!Verdict(F!CompiledRows(rules), f)
    BY <1>1, <1>3, LeftOut
  <2> HIDE DEF w
  <2>2. F!Verdict(F!Compiled(rules), f) = F!Verdict(F!Compiled(w), f)
    BY <1>1, <1>3, <2>1, CompiledAnswers
  <2> QED
    BY <2>2 DEF w
<1>4. CASE F!Doors # {} /\ HitsAt(rules, f, n) /\ F!ShadowedByLan(rules[n])
  <2>1. flags.lan_direct /\ f.door \in F!Doors /\ f.lan
    <3>1. F!Hits(f, rules[n].m) /\ ~F!IsAll(rules[n].m)
      BY <1>4 DEF HitsAt, RowHits, F!IsGeo, F!IsAll, F!ShadowedByLan
    <3> QED
      BY <1>1, <1>4, <3>1, EditsAssumption DEF F!Hits, HitsAt, F!ShadowedByLan
  <2>2. w \in Seq(RouteRow)
    <3>1. SubSeq(rules, 1, n - 1) \in Seq(RouteRow) /\ SubSeq(rules, n + 1, Len(rules)) \in Seq(RouteRow)
      BY <1>1
    <3> QED
      BY <3>1 DEF RemoveAt
  <2> HIDE DEF w
  <2>3. F!Verdict(F!Compiled(rules), f) = F!Verdict(F!Compiled(w), f)
    BY <1>1, <1>4, <2>1, <2>2, CompiledAnswers
  <2> QED
    BY <2>3 DEF w
<1>5. F!ShadowedBy(rules, n) # {} /\ HitsAt(rules, f, n) => \E k \in 1..(n - 1) : HitsAt(rules, f, k)
  <2> SUFFICES ASSUME HitsAt(rules, f, n), NEW k \in 1..(n - 1), F!Covers(rules[k].m, rules[n].m)
               PROVE  HitsAt(rules, f, k)
    BY DEF F!ShadowedBy
  <2>1. k \in DOMAIN rules
    BY <1>1
  <2> QED
    BY <1>1, <2>1, CoversHits DEF HitsAt, RowHits
<1> QED
  BY <1>2, <1>3, <1>4, <1>5 DEF F!Shadowed
---------------------------------------------------------------------------
(* The routed table stays one *)

LEMMA RoutingStart == F!RoutingInit => RoutingInv
<1> SUFFICES ASSUME F!RoutingInit PROVE RoutingInv
  OBVIOUS
<1>1. rules = <<>> /\ flags = [killswitch |-> FALSE, lan_direct |-> TRUE, tun |-> FALSE]
  BY DEF F!RoutingInit, F!Init
<1>2. flags \in FlagTypes
  BY <1>1 DEF FlagTypes
<1> QED
  BY <1>1, <1>2 DEF RoutingInv

LEMMA RoutingNumbers ==
  ASSUME RoutingInv, MaxId \in Nat
  PROVE  F!NextRuleId(rules) \in Nat /\ F!NextRulesetId(rules) \in Nat
<1>1. CASE rules = <<>>
  BY <1>1 DEF F!NextRuleId, F!NextRulesetId
<1>2. CASE rules # <<>>
  <2> DEFINE S == F!RuleIds(rules)
             Q == F!RulesetIds(rules)
  <2>1. 1 \in DOMAIN rules
    BY <1>2 DEF RoutingInv
  <2>2. S # {} /\ S \in SUBSET (0..MaxId) /\ Q # {} /\ Q \in SUBSET (0..MaxId)
    BY <2>1 DEF RoutingInv, F!RuleIds, F!RulesetIds
  <2>3. F!NextRuleId(rules) = Max(S) + 1 /\ F!NextRulesetId(rules) = Max(Q) + 1
    BY <1>2, SameInRouting DEF F!NextRuleId, F!NextRulesetId
  <2> HIDE DEF S, Q
  <2>n. (\A x \in S : x \in Nat) /\ (\A x \in Q : x \in Nat)
    BY <2>2
  <2>4. Max(S) \in S /\ Max(Q) \in Q
    BY <2>2, GreatestIs
  <2>5. Max(S) \in Nat /\ Max(Q) \in Nat
    BY <2>n, <2>4
  <2> QED
    BY <2>3, <2>5
<1> QED
  BY <1>1, <1>2

LEMMA RoutingInductive == RoutingInv /\ MaxId \in Nat /\ [F!RoutingNext]_F!vars => RoutingInv'
<1> SUFFICES ASSUME RoutingInv, MaxId \in Nat, [F!RoutingNext]_F!vars PROVE RoutingInv'
  OBVIOUS
<1>1. CASE F!CreateFetched
  <2>1. PICK name \in Names, target \in F!Targets, ms \in F!MatcherSeqs :
          F!CreateRuleset(name, target, ms)
    BY <1>1 DEF F!CreateFetched, F!Creating
  <2> DEFINE rs == F!NextRulesetId(rules)
             rows == F!Rows(rules, rs, target, name, ms)
  <2>2. rules' = rules \o rows /\ F!Fits(rules \o rows) /\ flags' = flags
    BY <1>1, <2>1 DEF F!CreateRuleset, F!Write, F!CreateFetched
  <2>3. DOMAIN ms = 1..Len(ms) /\ Len(ms) \in Nat /\ \A i \in DOMAIN ms : ms[i] \in Matchers
    BY DEF F!MatcherSeqs
  <2>4. rs \in Nat /\ F!NextRuleId(rules) \in Nat
    BY RoutingNumbers
  <2>5. rows \in Seq(RouteRow)
    <3> DEFINE row(i) == [id |-> F!NextRuleId(rules) + i - 1, rs |-> rs, m |-> ms[i],
                          target |-> target, name |-> name]
    <3>1. \A i \in DOMAIN ms : row(i) \in RouteRow
      BY <2>3, <2>4 DEF RouteRow
    <3>2. rows = [i \in DOMAIN ms |-> row(i)]
      BY DEF F!Rows
    <3> HIDE DEF row, rows
    <3> QED
      BY <2>3, <3>1, <3>2
  <2> HIDE DEF rows
  <2>6. rules' \in Seq(RouteRow)
    BY <2>2, <2>5 DEF RoutingInv
  <2>7. \A i \in DOMAIN rules' : rules'[i].id \in 1..MaxId /\ rules'[i].rs \in 1..MaxId
    BY <2>2 DEF F!Fits, F!RuleIds, F!RulesetIds
  <2> QED
    BY <2>2, <2>6, <2>7 DEF RoutingInv
<1>2. ASSUME NEW name \in DOMAIN flags, NEW on \in BOOLEAN, F!SetFlag(name, on) PROVE RoutingInv'
  <2>1. rules' = rules /\ flags' \in FlagTypes
    BY <1>2 DEF F!SetFlag, F!tableVars, RoutingInv, FlagTypes
  <2> QED
    BY <2>1 DEF RoutingInv
<1>3. ASSUME rules' = rules, flags' = flags PROVE RoutingInv'
  BY <1>3 DEF RoutingInv
<1>4. ASSUME NEW refs \in SUBSET RoutedChannels, F!SwitchChannels(refs) PROVE RoutingInv'
  BY <1>3, <1>4 DEF F!SwitchChannels, F!DisableChannels, F!EnableChannels
<1>5. ASSUME NEW cached, NEW unread, F!GeoChanges(cached, unread) PROVE RoutingInv'
  BY <1>3, <1>5 DEF F!GeoChanges, F!tableVars
<1>6. ASSUME NEW up, F!PortChanges(up) PROVE RoutingInv'
  BY <1>3, <1>6 DEF F!PortChanges, F!tableVars
<1>7. ASSUME NEW cs, F!UnbuiltChanges(cs) PROVE RoutingInv'
  BY <1>3, <1>7 DEF F!UnbuiltChanges, F!tableVars
<1>8. ASSUME NEW cs, F!HeldChanges(cs) PROVE RoutingInv'
  BY <1>3, <1>8 DEF F!HeldChanges, F!tableVars
<1>9. CASE UNCHANGED F!vars
  BY <1>3, <1>9 DEF F!vars, F!tableVars
<1>10. \A name \in DOMAIN flags : (~flags[name]) \in BOOLEAN
  OBVIOUS
<1> QED
  BY <1>1, <1>2, <1>4, <1>5, <1>6, <1>7, <1>8, <1>9, <1>10 DEF F!RoutingNext

\* Whatever is enabled, built, held, cached or switched: what `routes trace`
\* answers is what the compiled list does to that destination, unless the channel
\* it names, or all that carry IPv6, are left out of the configuration for a held
\* port, or the rule-set file it stumbles on is one only sing-box can read.
THEOREM TracerAlwaysAgrees == F!RoutingSpec => []RoutesTracerAgrees
<1>1. RoutingInv => RoutesTracerAgrees
  BY TracerFollows DEF RoutesTracerAgrees
<1>2. MaxId \in Nat
  BY EditsAssumption
<1> QED
  BY <1>1, <1>2, RoutingStart, RoutingInductive, PTL DEF F!RoutingSpec

\* A flow claimed by a row for a channel never leaves directly, except into
\* the LAN: a channel gone, disabled, unbuilt or without the family rejects it.
THEOREM ClaimedFlowsStayIn == F!RoutingSpec => []RoutesClaimedNeverLeaks
<1>1. RoutingInv => RoutesClaimedNeverLeaks
  BY ClaimedStaysIn DEF RoutesClaimedNeverLeaks
<1>2. MaxId \in Nat
  BY EditsAssumption
<1> QED
  BY <1>1, <1>2, RoutingStart, RoutingInductive, PTL DEF F!RoutingSpec

\* With the kill switch nothing unclaimed leaves directly, and with TUN no
\* IPv6 does: whatever the table, the channels and the cached geo data.
THEOREM UnmatchedFlowsStayIn == F!RoutingSpec => []RoutesUnmatchedNeverLeaks
<1>1. RoutingInv => RoutesUnmatchedNeverLeaks
  BY UnmatchedStaysIn DEF RoutesUnmatchedNeverLeaks
<1>2. MaxId \in Nat
  BY EditsAssumption
<1> QED
  BY <1>1, <1>2, RoutingStart, RoutingInductive, PTL DEF F!RoutingSpec

\* A row the lint calls shadowed decides no flow: the table without it gives
\* every flow the same verdict.
THEOREM ShadowedRowsDecideNothing == F!RoutingSpec => []RoutesLintIsSound
<1>1. RoutingInv => RoutesLintIsSound
  BY LintHolds DEF RoutesLintIsSound
<1>2. MaxId \in Nat
  BY EditsAssumption
<1> QED
  BY <1>1, <1>2, RoutingStart, RoutingInductive, PTL DEF F!RoutingSpec
=============================================================================
