------------------------------ MODULE Routing ------------------------------
(***************************************************************************)
(* What the rule table means.  The engine compiles it, behind two doors    *)
(* (the router port and the TUN device), into sing-box's first-match list; *)
(* the tracer walks the same order in Python; the lint tells which rows    *)
(* can never win.  The table itself is edited by RuleTable.                *)
(***************************************************************************)
EXTENDS RuleTable

CONSTANTS Inside,    \* pairs <<outer, inner>> of matcher values, strictly nested
          LanNets,   \* values of CIDRs within the built-in LAN ranges
          V6Able,    \* channels whose provider and key carry IPv6
          Declared,  \* channels whose port is declared: never moved when it is held
          Flows      \* connections that can reach a door

VARIABLES flags,     \* [killswitch, lan_direct, tun : BOOLEAN]
          env        \* [port: router port allocated and not held elsewhere,
                     \*  unbuilt: channels with no usable WireGuard section,
                     \*  held: channels whose declared port the engine found held,
                     \*  cached: geo matchers whose file matches its digest,
                     \*  unread: those of them the tracer's own reader refuses]

vars == <<tableVars, flags, env>>

IsAll(m) == m.type = "all"
IsGeo(m) == m.type = "geo"

\* What state.json makes of a channel.  The engine also leaves out the channels
\* of its own _held_ports; the tracer, in another process, cannot know them.
Configured == {c \in Channels : chan[c] = "on"} \ env.unbuilt
Built == Configured \ env.held
V6Built == Built \cap V6Able
---------------------------------------------------------------------------
(* Engine._router_config *)

Doors == (IF env.port THEN {"router"} ELSE {}) \cup (IF flags.tun THEN {"tun"} ELSE {})

\* A compiled rule: the doors it lists, what it matches, what it does.
When(doors, kind, action) == [doors |-> doors, kind |-> kind, m |-> "-", action |-> action]
Matching(m, action) == [doors |-> Doors, kind |-> "matcher", m |-> m, action |-> action]
OnlyIf(cond, rule) == IF cond THEN <<rule>> ELSE <<>>

CompiledRowSkips(r) ==
  IF IsGeo(r.m) /\ r.m \notin env.cached THEN <<When(Doors, "any", "reject")>>
  ELSE IF r.target = "direct" THEN <<Matching(r.m, "direct")>>
  ELSE OnlyIf(r.target \in Built, Matching(r.m, r.target))

\* One stored row.  A geo row without its file, or a row whose channel is not
\* built, is a reject; the former has lost its matcher.  A row to an IPv4-only
\* channel has an IPv6 guard with the same matcher in front.
CompiledRow(r) ==
  IF IsGeo(r.m) /\ r.m \notin env.cached THEN <<When(Doors, "any", "reject")>>
  ELSE IF r.target = "direct" THEN <<Matching(r.m, "direct")>>
  ELSE IF r.target = "block" \/ r.target \notin Built THEN <<Matching(r.m, "reject")>>
  ELSE OnlyIf(V6Built # {} /\ r.target \notin V6Built /\ flags.tun,
              [Matching(r.m, "reject") EXCEPT !.kind = "matcher6"])
       \o <<Matching(r.m, r.target)>>

CompiledRows(t) == FlattenSeq([i \in DOMAIN t |-> CompiledRow(t[i])])

BlanketRejectOnce(cond) == OnlyIf(flags.tun /\ cond /\ V6Built = {}, When({"tun"}, "v6", "reject"))
BlanketReject(cond) == OnlyIf(flags.tun /\ cond, When({"tun"}, "v6", "reject"))

Compiled(t) ==
  IF Doors = {} THEN <<>>
  ELSE OnlyIf(flags.lan_direct, When(Doors, "lanport", "direct"))
       \o OnlyIf(flags.tun, When({"tun"}, "dns", "hijack"))
       \o OnlyIf(flags.lan_direct, When(Doors, "lan", "direct"))
       \o BlanketReject(V6Built = {})
       \o CompiledRows(t)
       \o BlanketReject(V6Built # {})
       \o OnlyIf(flags.killswitch, When(Doors, "any", "reject"))

\* sing-box: the first rule listing the flow's door and matching it decides;
\* route.final is direct.  A flow tells its door, family, kind of port and
\* which matchers describe it.
Hits(f, m) == IsAll(m) \/ m \in f.hits
RuleMatches(r, f) ==
  /\ f.door \in r.doors
  /\ \/ r.kind = "any"
     \/ r.kind = "v6" /\ f.v6
     \/ r.kind = "lan" /\ f.lan
     \/ r.kind = "lanport" /\ f.port = "lan"
     \/ r.kind = "dns" /\ f.port = "dns"
     \/ r.kind = "matcher" /\ Hits(f, r.m)
     \/ r.kind = "matcher6" /\ f.v6 /\ Hits(f, r.m)

Verdict(list, f) ==
  LET hit == {i \in DOMAIN list : RuleMatches(list[i], f)}
  IN  IF hit = {} THEN "direct" ELSE list[Min(hit)].action
---------------------------------------------------------------------------
(* tracer.trace: the same order in Python, for a destination without a port *)

V6Configured == Configured \cap V6Able
Problem(m) == IsGeo(m) /\ (m \notin env.cached \/ m \in env.unread)
TraceHit(r, f) == Hits(f, r.m) \/ Problem(r.m)

TracedRowBothFamilies(r, f) ==
  IF Problem(r.m) THEN "reject"
  ELSE IF r.target = "direct" THEN "direct"
  ELSE IF r.target = "block" \/ r.target \notin Configured THEN "reject"
  ELSE r.target

TracedRow(r, f) ==
  IF Problem(r.m) THEN "reject"
  ELSE IF r.target = "direct" THEN "direct"
  ELSE IF r.target = "block" \/ r.target \notin Configured THEN "reject"
  ELSE IF flags.tun /\ V6Configured # {} /\ r.target \notin V6Configured /\ f.v6 THEN "reject"
  ELSE r.target

TraceHits(t, f) == {i \in DOMAIN t : TraceHit(t[i], f)}
Traced(t, f) ==
  LET hit == TraceHits(t, f)
  IN  IF flags.lan_direct /\ f.lan THEN "direct"
      ELSE IF flags.tun /\ V6Configured = {} /\ f.v6 THEN "reject"
      ELSE IF hit # {} THEN TracedRow(t[Min(hit)], f)
      ELSE IF flags.tun /\ V6Configured # {} /\ f.v6 THEN "reject"
      ELSE IF flags.killswitch THEN "reject" ELSE "direct"

\* The door the tracer answers for.
TracedDoor == IF flags.tun THEN "tun" ELSE "router"
---------------------------------------------------------------------------
(* routes.shadowed_by and shadowed_by_lan_direct *)

CoversInward(a, b) ==
  \/ IsAll(a)
  \/ /\ ~IsAll(b) /\ a.type = b.type
     /\ \/ a.value = b.value
        \/ ~IsGeo(a) /\ <<b.value, a.value>> \in Inside

Covers(a, b) ==
  \/ IsAll(a)
  \/ /\ ~IsAll(b) /\ a.type = b.type
     /\ \/ a.value = b.value
        \/ ~IsGeo(a) /\ <<a.value, b.value>> \in Inside

\* The earlier row, if any, that _CoverIndex.first_cover reports for row i.
ShadowedBy(t, i) == {j \in 1..(i - 1) : Covers(t[j].m, t[i].m)}
ShadowedByLan(r) == flags.lan_direct /\ r.m.type = "ip_cidr" /\ r.m.value \in LanNets
Shadowed(t, i) == ShadowedBy(t, i) # {} \/ ShadowedByLan(t[i])
---------------------------------------------------------------------------
RoutingInit ==
  /\ Init
  /\ flags = [killswitch |-> FALSE, lan_direct |-> TRUE, tun |-> FALSE]
  /\ env = [port |-> FALSE, unbuilt |-> {}, held |-> {}, cached |-> {}, unread |-> {}]

SetFlag(name, on) ==
  /\ flags' = [flags EXCEPT ![name] = on]
  /\ UNCHANGED <<tableVars, env>>

\* A geo matcher's file is fetched before the row is written; later its record
\* or file may go, and a refresh brings it back, perhaps in a newer format.
CreateFetched ==
  /\ Len(rules) < MaxRules
  /\ Creating
  /\ env' = [env EXCEPT !.cached = @ \cup {m \in Matchers : IsGeo(m) /\
                                     \E i \in DOMAIN rules' : rules'[i].m = m /\
                                       ~\E j \in DOMAIN rules : rules[j] = rules'[i]}]
  /\ UNCHANGED flags

GeoChanges(cached, unread) ==
  /\ env' = [env EXCEPT !.cached = cached, !.unread = unread]
  /\ UNCHANGED <<tableVars, flags>>

\* ensure_router_port, or a declared port that another process holds.
PortChanges(up) ==
  /\ env' = [env EXCEPT !.port = up]
  /\ UNCHANGED <<tableVars, flags>>

\* The WireGuard section of an enabled channel is missing or unusable, or is
\* resolved again; without one nothing binds its port.
UnbuiltChanges(cs) ==
  /\ \A c \in cs : chan[c] = "on"
  /\ env' = [env EXCEPT !.unbuilt = cs, !.held = @ \ cs]
  /\ UNCHANGED <<tableVars, flags>>

\* A reconcile finds other processes on declared ports it was to bind.
HeldChanges(cs) ==
  /\ cs \subseteq Configured
  /\ env' = [env EXCEPT !.held = cs]
  /\ UNCHANGED <<tableVars, flags>>

\* A channel that is off is left out whatever else is the matter with it; one that
\* is enabled has been given parameters, and the next reconcile tries its port.
SwitchChannels(refs) ==
  /\ DisableChannels(refs) \/ EnableChannels(refs)
  /\ env' = [env EXCEPT !.unbuilt = @ \ refs, !.held = @ \ refs]
  /\ UNCHANGED flags

\* Every grouped table whose targets are usable is reached by creating rulesets
\* one after the other; RuleTable shows no other edit leads out of those.
RoutingNext ==
  \/ CreateFetched
  \/ \E refs \in SUBSET Channels : SwitchChannels(refs)
  \/ \E name \in DOMAIN flags : SetFlag(name, ~flags[name])
  \/ \E cached \in SUBSET {m \in Matchers : IsGeo(m)} : \E unread \in SUBSET cached :
       GeoChanges(cached, unread)
  \/ \E up \in BOOLEAN : PortChanges(up)
  \/ \E cs \in SUBSET Channels : UnbuiltChanges(cs)
  \/ \E cs \in SUBSET Declared : HeldChanges(cs)

RoutingSpec == RoutingInit /\ [][RoutingNext]_vars
---------------------------------------------------------------------------
(* Properties *)

Plain == {f \in Flows : f.port = "other" /\ f.door = TracedDoor}

\* Where the tracer is blind: sing-box rejects what the tracer sends through a
\* channel whose declared port is held, or, with no other channel for IPv6, all
\* of IPv6; and a file only sing-box can read decides more than the tracer's
\* "blocked".
MissesHeld(f) ==
  /\ Verdict(Compiled(rules), f) = "reject"
  /\ \/ Traced(rules, f) \in env.held
     \/ flags.tun /\ f.v6 /\ V6Built = {} /\ V6Configured # {}
MissesFile(f) ==
  LET hit == TraceHits(rules, f)
  IN  hit # {} /\ rules[Min(hit)].m \in env.unread /\ Traced(rules, f) = "reject"

\* What `routes trace` answers is what the compiled list does to that
\* destination, on the door the tracer speaks for, but where it is blind
\* ("the same logical rule table ... same data, same semantics", tracer.py:3).
TracerAgrees ==
  LET list == Compiled(rules)
  IN  TracedDoor \in Doors =>
        \A f \in Plain : Traced(rules, f) = Verdict(list, f) \/ MissesHeld(f) \/ MissesFile(f)

\* A flow some row claims for a channel never leaves directly: if that channel
\* is gone, disabled, unbuilt or cannot carry the family, the flow is rejected.
\* Only the LAN block sends it out.
ClaimedNeverLeaks ==
  LET list == Compiled(rules)
  IN  \A f \in Flows :
        LET mine == {i \in DOMAIN rules : Hits(f, rules[i].m)}
        IN  /\ f.door \in Doors
            /\ ~(flags.lan_direct /\ (f.lan \/ f.port = "lan"))
            /\ mine # {}
            /\ rules[Min(mine)].target \in Channels
            => Verdict(list, f) # "direct"

\* With TUN on no IPv6 connection goes out directly unless the LAN block or a
\* row to "direct" says so; with the kill switch nothing does on either door.
UnmatchedNeverLeaks ==
  LET list == Compiled(rules)
  IN  \A f \in Flows :
        /\ f.door \in Doors
        /\ ~(flags.lan_direct /\ (f.lan \/ f.port = "lan"))
        /\ ~\E i \in DOMAIN rules : rules[i].target = "direct" /\ Hits(f, rules[i].m)
        /\ flags.killswitch \/ (f.door = "tun" /\ f.v6)
        => Verdict(list, f) # "direct"

\* A row the lint calls shadowed never decides a flow: leaving it out of the
\* table changes no verdict.
LintIsSound ==
  \A i \in DOMAIN rules :
    Shadowed(rules, i) =>
      LET list == Compiled(rules)
          without == Compiled(RemoveAt(rules, i))
      IN  \A f \in Flows : Verdict(list, f) = Verdict(without, f)
=============================================================================
