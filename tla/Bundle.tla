------------------------------- MODULE Bundle -------------------------------
(***************************************************************************)
(* Applying a setup bundle to a setup that people and the daemon edit too: *)
(* import merges, sync converges the part it owns, restore replaces all.   *)
(* An apply validates and resolves WireGuard parameters against the state  *)
(* it read first; the commit is one transaction on the state found then.   *)
(***************************************************************************)
EXTENDS Integers, FiniteSets, Sequences, SequencesExt

CONSTANTS Refs,       \* channel references, "provider/id", all of one provider
          Places,     \* locations or pinned servers
          Matchers,   \* normalised (type, value) pairs
          Names,      \* names of rulesets
          Builtins,   \* targets other than channels
          PortSet,    \* ports from ANYHOP_PORT_BASE up
          WgSet,      \* WireGuard parameter sets a provider hands out, numbered from 1
          Bundles,    \* the files that are applied
          MaxRows     \* bound on the rows of the rule table

VARIABLES setup,  \* what a bundle describes, as stored: [chan, prov, rules, router]
          job     \* an apply between its resolution and its commit, or Idle

vars == <<setup, job>>

Absent == [there |-> FALSE, on |-> FALSE, place |-> "-", wg |-> 0, port |-> 0,
           explicit |-> FALSE, managed |-> FALSE]
Empty == [chan |-> [c \in Refs |-> Absent], prov |-> "absent", rules |-> <<>>,
          router |-> [port |-> 0, explicit |-> FALSE, kill |-> FALSE], refused |-> FALSE]
Idle == [kind |-> "none"]

Present(t) == {c \in Refs : t.chan[c].there}
Refuse(t) == [t EXCEPT !.refused = TRUE]
UsedBy(t, who) == {t.chan[c].port : c \in Refs \ who} \cup (IF "router" \in who THEN {} ELSE {t.router.port})
FreePorts(t) == PortSet \ UsedBy(t, {})
\* A rule table is a sequence of rulesets, each [name, target, rows, byHand];
\* byHand is history: a person wrote it last.
Targeted(blocks) == {blocks[i].target : i \in DOMAIN blocks}
IsManaged(block) == \E i \in DOMAIN block.rows : block.rows[i].managed
BlockOf(spec, managed) ==
  [name |-> spec.name, target |-> spec.target, byHand |-> ~managed,
   rows |-> [i \in DOMAIN spec.matchers |-> [m |-> spec.matchers[i], managed |-> managed]]]
\* The elements of a sequence at some positions, in its order.
ChosenAt(s, at) == FlattenSeq([i \in DOMAIN s |-> IF i \in at THEN <<s[i]>> ELSE <<>>])
UsableIn(t, target) == target \in Refs => t.chan[target].on
BundleRefs(b) == {b.channels[i].ref : i \in DOMAIN b.channels}
RowsOf(blocks) == FoldLeft(LAMBDA n, block : n + Len(block.rows), 0, blocks)

\* Files that validation lets through: a channel is declared once, a ruleset has
\* matchers.  Sites are the places of channels, those that files pin included.
Sites == Places \cup UNION {{b.channels[i].place : i \in DOMAIN b.channels} : b \in Bundles}
Declared == [ref : Refs, on : {"yes", "no", "unstated"}, place : Sites, wg : Nat, port : Nat]
Ruled == [name : Names, target : Refs \cup Builtins, matchers : Seq(Matchers) \ {<<>>}]
Files ==
  {b \in [channels : Seq(Declared), rulesets : Seq(Ruled), kill : {"yes", "no", "unstated"}, port : Nat] :
     \A i, j \in DOMAIN b.channels : b.channels[i].ref = b.channels[j].ref => i = j}

ASSUME BundleAssumption ==
  /\ PortSet \subseteq Nat \ {0} /\ WgSet \subseteq Nat \ {0}
  /\ "router" \notin Refs
  /\ Bundles \subseteq Files
---------------------------------------------------------------------------
(* Before the lock: validation and WireGuard parameters.  A bundle that    *)
(* declares a port twice, or targets a channel it disables, names no file. *)

\* Channels a ruleset may target besides the bundle's own.
Known(kind, t, b) ==
  CASE kind = "restore" -> {}
    [] kind = "sync"    -> {c \in Present(t) : ~t.chan[c].managed \/ c \in BundleRefs(b)}
    [] OTHER            -> Present(t)
DisabledIn(b) == {b.channels[i].ref : i \in {j \in DOMAIN b.channels : b.channels[j].on = "no"}}
TargetsKnown(known, b) ==
  (Targeted(b.rulesets) \cap Refs) \subseteq (known \cup BundleRefs(b)) \ DisabledIn(b)
Valid(kind, t, b) ==
  /\ TargetsKnown(Known(kind, t, b), b)
  /\ kind = "restore" => b.kill # "unstated"

WillBeOnByDefault(kind, spec, old) == spec.on # "no"
WillBeOn(kind, spec, old) ==
  IF spec.on # "unstated" THEN spec.on = "yes" ELSE kind = "restore" \/ ~old.there \/ old.on
ResolvedAlways(kind, spec, old, fresh) ==
  IF ~WillBeOn(kind, spec, old) THEN spec.wg ELSE IF fresh # 0 THEN fresh ELSE spec.wg
\* _resolve_token_wg: live parameters of the same place, else none for a
\* disabled channel, else a fresh set, else (0: no API) the bundle's snapshot.
Resolved(kind, spec, old, fresh) ==
  IF old.there /\ old.wg # 0 /\ old.place = spec.place THEN old.wg
  ELSE IF ~WillBeOn(kind, spec, old) THEN spec.wg
  ELSE IF fresh # 0 THEN fresh ELSE spec.wg
Resolvable(kind, t, b, fresh) ==
  \A i \in DOMAIN b.channels :
    LET spec == b.channels[i] IN
    WillBeOn(kind, spec, t.chan[spec.ref]) => Resolved(kind, spec, t.chan[spec.ref], fresh) # 0
Planned(kind, t, b, fresh) ==
  [b EXCEPT !.channels =
     [i \in DOMAIN @ |-> LET spec == b.channels[i] IN
                        [spec EXCEPT !.wg = Resolved(kind, spec, t.chan[spec.ref], fresh)]]]
---------------------------------------------------------------------------
(* The commit: a setup and a planned bundle to the next setup, or refused *)

PortOf(t, spec, old) ==
  CASE spec.port # 0 -> spec.port
    [] spec.port = 0 /\ old.there -> old.port
    [] OTHER -> IF FreePorts(t) = {} THEN 0 ELSE Min(FreePorts(t))

\* One channel of merge_setup and sync_setup.  Only sync drops an undeclared
\* port's contract, only what sync creates is managed.
Upsert(t, spec, sync) ==
  LET old == t.chan[spec.ref]
      port == PortOf(t, spec, old)
      entry == [there |-> TRUE, on |-> WillBeOn("merge", spec, old), place |-> spec.place,
                wg |-> spec.wg, port |-> port,
                explicit |-> spec.port # 0 \/ (~sync /\ old.explicit),
                managed |-> IF old.there THEN old.managed ELSE sync]
  IN  IF t.refused \/ port = 0 \/ port \in UsedBy(t, {spec.ref}) THEN Refuse(t)
      ELSE [t EXCEPT !.chan[spec.ref] = entry]
Upserted(t, b, sync) ==
  LET after[i \in 0..Len(b.channels)] ==
        IF i = 0 THEN t ELSE Upsert(after[i - 1], b.channels[i], sync)
  IN  after[Len(b.channels)]

Toggled(t, b, sync) ==
  IF b.port # 0 /\ b.port \in UsedBy(t, {"router"}) THEN Refuse(t)
  ELSE [t EXCEPT !.router =
          [port |-> IF b.port # 0 THEN b.port ELSE @.port,
           explicit |-> b.port # 0 \/ (~sync /\ @.explicit),
           kill |-> IF b.kill = "unstated" THEN @.kill ELSE b.kill = "yes"]]

\* Channels the bundle turns off, a new one included.
Disabling(t, b) == {c \in DisabledIn(b) : ~t.chan[c].there \/ t.chan[c].on}
Checked(t, b, disabling) ==
  IF \/ \E i \in DOMAIN b.rulesets : ~UsableIn(t, b.rulesets[i].target)
     \/ disabling \cap Targeted(t.rules) # {}
  THEN Refuse(t) ELSE t

Appended(blocks, specs, managed) == blocks \o [i \in DOMAIN specs |-> BlockOf(specs[i], managed)]

Merged(t, b) ==
  LET upserted == Upserted([t EXCEPT !.prov = IF @ = "absent" THEN "hand" ELSE @], b, FALSE)
      checked == Checked(upserted, b, Disabling(t, b))
  IN  IF checked.refused THEN checked
      ELSE Toggled([checked EXCEPT !.rules = Appended(@, b.rulesets, FALSE)], b, FALSE)

\* The n-th managed ruleset of a name belongs to the n-th spec of that name.
Match(blocks, j, specs) ==
  {i \in DOMAIN specs :
     /\ IsManaged(blocks[j]) /\ specs[i].name = blocks[j].name
     /\ Cardinality({h \in 1..i : specs[h].name = blocks[j].name})
          = Cardinality({h \in 1..j : IsManaged(blocks[h]) /\ blocks[h].name = blocks[j].name})}
\* Matched blocks are rewritten in place, other managed ones pruned, new ones
\* appended; a hand-made block stays.
Kept(blocks, j, specs) ==
  LET match == Match(blocks, j, specs)
  IN  IF ~IsManaged(blocks[j]) THEN <<blocks[j]>>
      ELSE IF match = {} THEN <<>> ELSE <<BlockOf(specs[CHOOSE h \in match : TRUE], TRUE)>>
Converged(blocks, specs) ==
  LET claimed == UNION {Match(blocks, j, specs) : j \in DOMAIN blocks}
  IN  Appended(FlattenSeq([j \in DOMAIN blocks |-> Kept(blocks, j, specs)]),
               ChosenAt(specs, DOMAIN specs \ claimed), TRUE)

\* Managed channels that left the bundle go, unless a surviving rule needs them.
PrunedAlways(t, b) ==
  [t EXCEPT !.chan = [c \in Refs |-> IF t.chan[c].managed /\ c \notin BundleRefs(b) THEN Absent ELSE @[c]]]
Pruned(t, b) ==
  [t EXCEPT !.chan = [c \in Refs |->
     IF t.chan[c].managed /\ c \notin BundleRefs(b) \cup Targeted(t.rules) THEN Absent ELSE @[c]]]
Provided(t, b) ==
  [t EXCEPT !.prov = CASE b.channels # <<>> /\ @ = "absent" -> "managed"
                       [] b.channels = <<>> /\ @ = "managed" /\ Present(t) = {} -> "absent"
                       [] OTHER -> @]

Synced(t, b) ==
  LET converged == [t EXCEPT !.rules = Converged(@, b.rulesets)]
      upserted == Upserted(Provided(Pruned(converged, b), b), b, TRUE)
      checked == Checked(upserted, b, Disabling(t, b))
  IN  IF checked.refused THEN checked ELSE Toggled(checked, b, TRUE)

Filled(t, spec) ==
  IF t.refused \/ t.chan[spec.ref].port # 0 THEN t
  ELSE IF FreePorts(t) = {} THEN Refuse(t)
  ELSE [t EXCEPT !.chan[spec.ref].port = Min(FreePorts(t))]
\* Declared and kept ports first, then fresh ones in bundle order.
Restored(t, b) ==
  LET spec(c) == b.channels[CHOOSE i \in DOMAIN b.channels : b.channels[i].ref = c]
      port(c) == IF spec(c).port # 0 THEN spec(c).port ELSE t.chan[c].port
      entry(c) == [there |-> TRUE, on |-> spec(c).on # "no", place |-> spec(c).place,
                   wg |-> spec(c).wg, port |-> port(c), explicit |-> spec(c).port # 0, managed |-> FALSE]
      replaced ==
        [t EXCEPT !.chan = [c \in Refs |-> IF c \in BundleRefs(b) THEN entry(c) ELSE Absent],
                  !.prov = IF b.channels = <<>> THEN "absent" ELSE "hand",
                  !.rules = Appended(<<>>, b.rulesets, FALSE),
                  !.router = [port |-> IF b.port # 0 THEN b.port ELSE @.port,
                              explicit |-> @.explicit \/ b.port # 0, kill |-> b.kill = "yes"]]
      clash == \E c \in BundleRefs(b) : port(c) # 0 /\ port(c) \in UsedBy(replaced, {c})
      filled[i \in 0..Len(b.channels)] ==
        IF i = 0 THEN replaced ELSE Filled(filled[i - 1], b.channels[i])
  IN  IF clash THEN Refuse(t) ELSE filled[Len(b.channels)]

Committed(kind, t, b) ==
  CASE kind = "import" -> Merged(t, b) [] kind = "sync" -> Synced(t, b) [] OTHER -> Restored(t, b)
\* Planning and commit with nothing in between; refused if either is.
Applied(kind, t, b, fresh) ==
  IF Valid(kind, t, b) /\ Resolvable(kind, t, b, fresh)
  THEN Committed(kind, t, Planned(kind, t, b, fresh)) ELSE Refuse(t)

ExportedOn(t) == SetToSeq({c \in Refs : t.chan[c].on})
Exported(t) == SetToSeq(Present(t))
\* export_bundle: no ports, every toggle stated.
Export(t) ==
  LET refs == Exported(t) IN
  [channels |-> [i \in DOMAIN refs |->
     LET ch == t.chan[refs[i]] IN
     [ref |-> refs[i], on |-> IF ch.on THEN "yes" ELSE "no", place |-> ch.place, wg |-> ch.wg, port |-> 0]],
   rulesets |-> [i \in DOMAIN t.rules |->
     [name |-> t.rules[i].name, target |-> t.rules[i].target,
      matchers |-> [n \in DOMAIN t.rules[i].rows |-> t.rules[i].rows[n].m]]],
   kill |-> IF t.router.kill THEN "yes" ELSE "no", port |-> 0]
---------------------------------------------------------------------------
Init ==
  /\ setup = Empty
  /\ job = Idle

Stage(kind, b, fresh) ==
  /\ job = Idle
  /\ Valid(kind, setup, b) /\ Resolvable(kind, setup, b, fresh)
  /\ job' = [kind |-> kind, bundle |-> Planned(kind, setup, b, fresh)]
  /\ UNCHANGED setup

Fits(t) == RowsOf(t.rules) <= MaxRows

Commit ==
  /\ job # Idle
  /\ job' = Idle
  /\ LET t == Committed(job.kind, setup, job.bundle) IN
     IF t.refused THEN UNCHANGED setup ELSE Fits(t) /\ setup' = t

Edit(t) == Fits(t) /\ setup' = t /\ UNCHANGED job
EditChannel(c, entry) == Edit([setup EXCEPT !.chan[c] = entry])
Referenced(c) == c \in Targeted(setup.rules)

AddChannel(c, place, wg) ==
  /\ ~setup.chan[c].there
  /\ FreePorts(setup) # {}
  /\ Edit([setup EXCEPT !.prov = IF @ = "absent" THEN "hand" ELSE @,
             !.chan[c] = [Absent EXCEPT !.there = TRUE, !.on = TRUE, !.place = place, !.wg = wg,
                                        !.port = Min(FreePorts(setup))]])
RemoveChannel(c) == setup.chan[c].there /\ ~Referenced(c) /\ EditChannel(c, Absent)
Disable(c) == setup.chan[c].on /\ ~Referenced(c) /\ EditChannel(c, [setup.chan[c] EXCEPT !.on = FALSE])
\* Enabling resolves a channel that has no parameters yet.
Enable(c, wg) ==
  /\ setup.chan[c].there /\ ~setup.chan[c].on
  /\ EditChannel(c, [setup.chan[c] EXCEPT !.on = TRUE, !.wg = IF @ = 0 THEN wg ELSE @])
\* The daemon's automatic reconnect.
Reconnect(c, wg) == setup.chan[c].on /\ EditChannel(c, [setup.chan[c] EXCEPT !.wg = wg])

EditRules(blocks) ==
  Edit([setup EXCEPT !.rules = ChosenAt(blocks, {j \in DOMAIN blocks : blocks[j].rows # <<>>})])
CreateRuleset(spec) ==
  UsableIn(setup, spec.target) /\ EditRules(Append(setup.rules, BlockOf(spec, FALSE)))
UpdateRuleset(j, spec) ==
  UsableIn(setup, spec.target) /\ EditRules([setup.rules EXCEPT ![j] = BlockOf(spec, FALSE)])
RemoveRuleset(j) == EditRules(RemoveAt(setup.rules, j))
AddMatcher(j, m) == EditRules([setup.rules EXCEPT ![j].rows = Append(@, [m |-> m, managed |-> FALSE])])
\* A row moved between rulesets keeps its other fields.
MoveRule(j, n, k) ==
  j # k /\ EditRules([setup.rules EXCEPT ![j].rows = RemoveAt(@, n),
                                         ![k].rows = Append(@, setup.rules[j].rows[n])])

Specs == [name : Names, target : Refs \cup Builtins, matchers : {<<m>> : m \in Matchers}]
People ==
  \/ \E c \in Refs :
       \/ \E place \in Places, wg \in WgSet : AddChannel(c, place, wg)
       \/ RemoveChannel(c) \/ Disable(c) \/ \E wg \in WgSet : Enable(c, wg) \/ Reconnect(c, wg)
  \/ \E spec \in Specs : CreateRuleset(spec) \/ \E j \in DOMAIN setup.rules : UpdateRuleset(j, spec)
  \/ \E j \in DOMAIN setup.rules :
       \/ RemoveRuleset(j)
       \/ \E m \in Matchers : AddMatcher(j, m)
       \/ \E n \in DOMAIN setup.rules[j].rows, k \in DOMAIN setup.rules : MoveRule(j, n, k)
Kinds == {"import", "sync", "restore"}
Next ==
  \/ People
  \/ \E kind \in Kinds, b \in Bundles, fresh \in WgSet \cup {0} : Stage(kind, b, fresh)
  \/ Commit
Spec == Init /\ [][Next]_vars
---------------------------------------------------------------------------
(* Properties *)

\* No apply, however stale its plan, leaves a rule on a channel that is gone or
\* disabled, or one port with two owners (state.py:1873, 2050).
SetupSound ==
  /\ \A i \in DOMAIN setup.rules : UsableIn(setup, setup.rules[i].target)
  /\ \A c \in Present(setup) : setup.chan[c].port \notin UsedBy(setup, {c}) \cup {0}

\* "the same bundle across N boots is byte-idempotent" (state.py:2042): from any
\* setup, a second sync changes nothing, whatever server the provider picks.
SyncIdempotent ==
  job = Idle =>
    \A b \in Bundles, first, second \in WgSet \cup {0} :
      LET once == Applied("sync", setup, b, first) IN
      ~once.refused => Applied("sync", once, b, second) = once

\* "Resolve wg-less channels BEFORE the toggle so a failed resolution" changes
\* nothing (service.py:1038): no enabled channel is without parameters.
EnabledIsUsable == \A c \in Refs : setup.chan[c].on => setup.chan[c].wg # 0

\* An export restored, on this or on an empty machine, with or without the
\* provider's API, gives back every channel, ruleset and toggle; here the ports too.
RestoreRoundTrip ==
  job = Idle /\ EnabledIsUsable =>
    \A fresh \in WgSet \cup {0} :
      LET here == Applied("restore", setup, Export(setup), fresh)
          there == Applied("restore", Empty, Export(setup), 0)
          content(t) == Export([t EXCEPT !.refused = FALSE])
      IN  /\ ~here.refused /\ content(here) = content(setup)
          /\ \A c \in Refs : here.chan[c].port = setup.chan[c].port
          /\ ~there.refused /\ content(there) = content(setup)

SyncCommits == Commit /\ job.kind = "sync"
HandBlocks(t) == ChosenAt(t.rules, {j \in DOMAIN t.rules : ~IsManaged(t.rules[j])})

\* A sync changes nothing that people made and the bundle does not name, and an
\* ad-hoc disable that the bundle leaves unstated stays (state.py:2035).
HandMadeStays ==
  [][ SyncCommits =>
        /\ \A c \in Refs \ BundleRefs(job.bundle) :
             ~setup.chan[c].managed => setup'.chan[c] = setup.chan[c]
        /\ \A i \in DOMAIN job.bundle.channels :
             LET spec == job.bundle.channels[i] IN
             setup.chan[spec.ref].there /\ spec.on = "unstated" =>
               setup'.chan[spec.ref].on = setup.chan[spec.ref].on
        /\ HandBlocks(setup) = HandBlocks(setup') ]_vars

\* "Channels and rulesets created outside sync are never pruned or adopted"
\* (docs/cli-reference.md:1194), whatever rows were moved into them since.
HandRulesetsStay ==
  [][ SyncCommits =>
        \A i \in DOMAIN setup.rules : setup.rules[i].byHand =>
          \E k \in DOMAIN setup'.rules :
            setup'.rules[k].byHand /\ setup'.rules[k].name = setup.rules[i].name ]_vars
=============================================================================
