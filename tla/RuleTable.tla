----------------------------- MODULE RuleTable -----------------------------
(***************************************************************************)
(* The shared rule table of state.json: an ordered list of rows, each a    *)
(* matcher inside a ruleset, and the transactions that edit it next to     *)
(* those that enable, disable and remove channels.  One client holds a     *)
(* page it read earlier and edits it under a revision; everybody else      *)
(* edits without one.  Every transaction reads, checks and replaces        *)
(* state.json under state.lock, so each is one action.                     *)
(***************************************************************************)
EXTENDS Integers, FiniteSets, Sequences, SequencesExt

CONSTANTS Channels,   \* channel references, "provider/id"
          Matchers,   \* normalised (type, value) pairs
          Builtins,   \* targets other than channels, of "direct" and "block"
          Names,      \* display names of rulesets
          MaxRules,   \* bound on the rows of the table
          MaxId       \* bound on the number in a rule or ruleset id

VARIABLES rules,      \* the stored rows, in evaluation order
          chan,       \* channel -> "absent", "off" or "on"
          seen        \* what the client read and has not used yet, or NotRead

tableVars == <<rules, chan, seen>>

Targets == Channels \cup Builtins

RuleIds(t) == {t[i].id : i \in DOMAIN t}
RulesetIds(t) == {t[i].rs : i \in DOMAIN t}
NextRuleIdCounts(t) == Len(t) + 1
NextRuleId(t) == IF t = <<>> THEN 1 ELSE Max(RuleIds(t)) + 1
NextRulesetId(t) == IF t = <<>> THEN 1 ELSE Max(RulesetIds(t)) + 1

\* A ruleset is one contiguous run of rows with one target.
Contiguous(t) ==
  \A i, j \in DOMAIN t :
    i < j /\ t[i].rs = t[j].rs =>
      /\ t[i].target = t[j].target
      /\ \A k \in i..j : t[k].rs = t[i].rs

\* The rows at some positions, in table order.
RowsAt(t, at) == FlattenSeq([i \in DOMAIN t |-> IF i \in at THEN <<t[i]>> ELSE <<>>])
Block(t, rs) == RowsAt(t, {i \in DOMAIN t : t[i].rs = rs})
Without(t, rs) == RowsAt(t, {i \in DOMAIN t : t[i].rs # rs})
WithoutRules(t, ids) == RowsAt(t, {i \in DOMAIN t : t[i].id \notin ids})
FirstOf(t, rs) == Min({i \in DOMAIN t : t[i].rs = rs})
LastOf(t, rs) == Max({i \in DOMAIN t : t[i].rs = rs})
\* The ruleset ids in table order: the content of the order revision.
Order(t) ==
  LET starts == {i \in DOMAIN t : i = 1 \/ t[i - 1].rs # t[i].rs}
      at == SetToSortSeq(starts, <)
  IN  [n \in DOMAIN at |-> t[at[n]].rs]

\* state[at:at] = rows, with Python's zero-based position.
Spliced(t, at, rows) == SubSeq(t, 1, at) \o rows \o SubSeq(t, at + 1, Len(t))

\* Rows numbered on from the largest id present, as _next_rule_id does.
Rows(t, rs, target, name, ms) ==
  [n \in DOMAIN ms |-> [id |-> NextRuleId(t) + n - 1, rs |-> rs, m |-> ms[n],
                        target |-> target, name |-> name]]

TargetPresent(target) == target \in Channels => chan[target] # "absent"
TargetUsable(target) == target \in Channels => chan[target] = "on"
Referencing(refs) == {i \in DOMAIN rules : rules[i].target \in refs}
MatcherSeqs == {<<m>> : m \in Matchers} \cup (Matchers \X Matchers)
Fits(t) == Len(t) <= MaxRules /\ RuleIds(t) \cup RulesetIds(t) \subseteq 1..MaxId
---------------------------------------------------------------------------
\* What a client's page holds under a revision: one ruleset, the order of the
\* rulesets, or one channel.
Page(kind, key, content) == [kind |-> kind, key |-> key, content |-> content]
NotRead == Page("none", 0, <<>>)

Init ==
  /\ rules = <<>>
  /\ chan = [c \in Channels |-> "on"]
  /\ seen = NotRead

Write(t) == Fits(t) /\ rules' = t /\ UNCHANGED <<chan, seen>>

CreateRuleset(name, target, ms) ==
  /\ TargetUsable(target)
  /\ Write(rules \o Rows(rules, NextRulesetId(rules), target, name, ms))

AddMatchersLast(rs, ms) ==
  LET first == rules[FirstOf(rules, rs)]
  IN  /\ rs \in RulesetIds(rules)
      /\ Write(rules \o Rows(rules, rs, first.target, first.name, ms))

AddMatchers(rs, ms) ==
  LET first == rules[FirstOf(rules, rs)]
  IN  /\ rs \in RulesetIds(rules)
      /\ Write(Spliced(rules, LastOf(rules, rs), Rows(rules, rs, first.target, first.name, ms)))

RemoveRuleset(rs) == rs \in RulesetIds(rules) /\ Write(Without(rules, rs))

RenameRuleset(rs, name) ==
  /\ rs \in RulesetIds(rules)
  /\ Write([i \in DOMAIN rules |->
              IF rules[i].rs = rs THEN [rules[i] EXCEPT !.name = name] ELSE rules[i]])

RetargetRuleset(rs, target) ==
  /\ TargetUsable(target)
  /\ rs \in RulesetIds(rules)
  /\ Write([i \in DOMAIN rules |->
              IF rules[i].rs = rs THEN [rules[i] EXCEPT !.target = target] ELSE rules[i]])

Updated(rs, name, target, ms) ==
  LET kept == Without(rules, rs)
      at == Min({FirstOf(rules, rs) - 1, Len(kept)})
  IN  Spliced(kept, at, Rows(kept, rs, target, name, ms))

UpdateRuleset(rs, name, target, ms) ==
  /\ TargetUsable(target)
  /\ rs \in RulesetIds(rules)
  /\ Write(Updated(rs, name, target, ms))

RemoveRules(ids) == Write(WithoutRules(rules, ids))

\* Rows keep their ids, take the destination's ruleset, target and name, and
\* go to its end; a ruleset they leave empty is gone.
MoveRules(ids, rs) ==
  LET dest == rules[FirstOf(rules, rs)]
      kept == WithoutRules(rules, ToSet(ids))
      row(id) == rules[CHOOSE i \in DOMAIN rules : rules[i].id = id]
      moved == [n \in DOMAIN ids |->
                  [row(ids[n]) EXCEPT !.rs = rs, !.target = dest.target, !.name = dest.name]]
  IN  /\ rs \in RulesetIds(rules)
      /\ \A i \in DOMAIN rules : rules[i].id \in ToSet(ids) => rules[i].rs # rs
      /\ Write(Spliced(kept, LastOf(kept, rs), moved))

\* `--flat`: any permutation of the rows that splits no ruleset.
ReorderRules(perm) ==
  LET t == [i \in DOMAIN rules |-> rules[perm[i]]]
  IN  Contiguous(t) /\ Write(t)

Reordered(ids) == FlattenSeq([n \in DOMAIN ids |-> Block(rules, ids[n])])
IsOrder(ids) == ToSet(ids) = RulesetIds(rules) /\ Len(ids) = Cardinality(RulesetIds(rules))

ReorderRulesets(ids) == IsOrder(ids) /\ Write(Reordered(ids))

RemoveChannels(refs) ==
  /\ Referencing(refs) = {}
  /\ chan' = [c \in Channels |-> IF c \in refs THEN "absent" ELSE chan[c]]
  /\ UNCHANGED <<rules, seen>>

Disabled(refs) == [c \in Channels |-> IF c \in refs /\ chan[c] = "on" THEN "off" ELSE chan[c]]

DisableChannels(refs) ==
  /\ Referencing(refs) = {}
  /\ chan' = Disabled(refs)
  /\ UNCHANGED <<rules, seen>>

EnableChannels(refs) ==
  /\ chan' = [c \in Channels |-> IF c \in refs /\ chan[c] = "off" THEN "on" ELSE chan[c]]
  /\ UNCHANGED <<rules, seen>>

AddChannel(c) ==
  /\ chan[c] = "absent"
  /\ chan' = [chan EXCEPT ![c] = "on"]
  /\ UNCHANGED <<rules, seen>>
---------------------------------------------------------------------------
(* The client that read first: its writes carry the revision it saw.       *)
ClientReads(page) ==
  /\ seen = NotRead
  /\ seen' = page
  /\ UNCHANGED <<rules, chan>>

\* A write refused with RevisionConflict: the client must read again.
ClientRefused ==
  /\ \/ seen.kind = "ruleset" /\ Block(rules, seen.key) # seen.content
     \/ seen.kind = "order" /\ Order(rules) # seen.content
     \/ seen.kind = "channel" /\ chan[seen.key] # seen.content
  /\ seen' = NotRead
  /\ UNCHANGED <<rules, chan>>

ClientUpdates(name, target, ms) ==
  /\ seen.kind = "ruleset"
  /\ Block(rules, seen.key) = seen.content
  /\ TargetUsable(target)
  /\ Fits(Updated(seen.key, name, target, ms))
  /\ rules' = Updated(seen.key, name, target, ms)
  /\ seen' = NotRead
  /\ UNCHANGED chan

ClientReorders(ids) ==
  /\ seen.kind = "order"
  /\ Order(rules) = seen.content
  /\ IsOrder(ids)
  /\ rules' = Reordered(ids)
  /\ seen' = NotRead
  /\ UNCHANGED chan

ClientDisables ==
  /\ seen.kind = "channel"
  /\ chan[seen.key] = seen.content
  /\ Referencing({seen.key}) = {}
  /\ chan' = Disabled({seen.key})
  /\ seen' = NotRead
  /\ UNCHANGED rules

Perms(t) == {p \in [DOMAIN t -> DOMAIN t] : IsInjective(p)}
Orders == SetToSeqs(RulesetIds(rules))

Creating == \E name \in Names, target \in Targets, ms \in MatcherSeqs :
              CreateRuleset(name, target, ms)
EditingRuleset ==
  \E rs \in RulesetIds(rules) :
    \/ RemoveRuleset(rs)
    \/ \E ms \in MatcherSeqs : AddMatchers(rs, ms)
    \/ \E name \in Names : RenameRuleset(rs, name)
    \/ \E target \in Targets : RetargetRuleset(rs, target)
    \/ \E name \in Names, target \in Targets, ms \in MatcherSeqs : UpdateRuleset(rs, name, target, ms)
    \/ \E ids \in SetToAllKPermutations(RuleIds(rules)) : MoveRules(ids, rs)
EditingRules ==
  \/ \E ids \in SUBSET RuleIds(rules) : RemoveRules(ids)
  \/ \E perm \in Perms(rules) : ReorderRules(perm)
  \/ \E ids \in Orders : ReorderRulesets(ids)
EditingChannels ==
  \/ \E refs \in SUBSET Channels : RemoveChannels(refs) \/ DisableChannels(refs) \/ EnableChannels(refs)
  \/ \E c \in Channels : AddChannel(c)
Client ==
  \/ \E rs \in RulesetIds(rules) : ClientReads(Page("ruleset", rs, Block(rules, rs)))
  \/ ClientReads(Page("order", 0, Order(rules)))
  \/ \E c \in Channels : ClientReads(Page("channel", c, chan[c]))
  \/ ClientRefused
  \/ \E name \in Names, target \in Targets, ms \in MatcherSeqs : ClientUpdates(name, target, ms)
  \/ \E ids \in Orders : ClientReorders(ids)
  \/ ClientDisables

Next == Creating \/ EditingRuleset \/ EditingRules \/ EditingChannels \/ Client
Spec == Init /\ [][Next]_tableVars
---------------------------------------------------------------------------
(* Properties *)

\* No edit, move or reorder, in any order of clients, splits a ruleset, mixes
\* its targets or gives two rows one id (_ruleset_blocks, _next_rule_id).
WellGrouped ==
  /\ Contiguous(rules)
  /\ \A i, j \in DOMAIN rules : rules[i].id = rules[j].id => i = j

\* A rule never targets a channel that is removed or disabled, whatever
\* channel and rule transactions interleave ("restrict-only", state.py:549).
RefsUsable == \A i \in DOMAIN rules : rules[i].target \in Channels => chan[rules[i].target] = "on"
=============================================================================
