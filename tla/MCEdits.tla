------------------------------ MODULE MCEdits ------------------------------
(***************************************************************************)
(* What is edited in state.json, each module in its own branch, for they   *)
(* share no state: focus says which one moves.                             *)
(***************************************************************************)
EXTENDS Integers, Channels

CONSTANTS TableChannels, TableMatchers, TableRows, TableIds,   \* the table alone
          RoutedChannels, Matchers, MaxRules, MaxId,           \* the table as it is routed
          Builtins, Names,                                     \* both
          Inside, LanNets, V6Able, Declared, Flows             \* Routing

VARIABLES rules, chan, seen, flags, env,
          focus

\* Routing over two channels and five matchers.
All == [type |-> "all", value |-> "-"]
Zone == [type |-> "domain_suffix", value |-> "example"]
Host == [type |-> "domain_suffix", value |-> "www.example"]
Net == [type |-> "ip_cidr", value |-> "lannet"]
Country == [type |-> "geo", value |-> "us"]
MCMatchers == {All, Zone, Host, Net, Country}
MCInside == {<<"example", "www.example">>}

\* A host of a zone is in the zone, an address of a LAN net is in the LAN.
MCFlows ==
  {f \in [door : {"router", "tun"}, v6 : BOOLEAN, lan : BOOLEAN,
          port : {"other", "lan", "dns"}, hits : SUBSET {Zone, Host, Net, Country}] :
     /\ Host \in f.hits => Zone \in f.hits
     /\ Net \in f.hits => f.lan /\ ~f.v6
     /\ f.port # "other" => f.hits \subseteq {Zone} /\ ~f.lan
     /\ Cardinality(f.hits) <= 2}   \* as many as a table has rows

\* The table alone has fewer channels and matchers, but is longer.
R == INSTANCE RuleTable WITH Channels <- TableChannels, Matchers <- TableMatchers,
                             MaxRules <- TableRows, MaxId <- TableIds
F == INSTANCE Routing WITH Channels <- RoutedChannels

\* A matcher is its type and value; what lies inside another matcher is part of
\* what that one describes, and an address in a LAN range is a LAN address.
ASSUME EditsAssumption ==
  /\ TableIds \in Nat /\ MaxId \in Nat
  /\ "direct" \notin RoutedChannels
  /\ \A a, b \in Matchers : a.type = b.type /\ a.value = b.value => a = b
  /\ \A f \in Flows :
       /\ \A a, b \in Matchers :
            a.type = b.type /\ <<a.value, b.value>> \in Inside /\ b \in f.hits => a \in f.hits
       /\ \A m \in Matchers : m.type = "ip_cidr" /\ m.value \in LanNets /\ m \in f.hits => f.lan

routingVars == <<rules, chan, seen, flags, env>>
all == <<vars, routingVars, focus>>

\* A branch that does not move is in one state.
Still ==
  /\ focus # "channels" => entry = [s \in Slots |-> Absent] /\ job = <<>> /\ stale = {}
  /\ focus \notin {"rules", "routing"} => rules = <<>> /\ chan = <<>> /\ seen = F!NotRead
  /\ focus # "routing" => flags = <<>> /\ env = <<>>
EditsInit ==
  \/ focus = "rules" /\ R!Init /\ Still
  \/ focus = "routing" /\ F!RoutingInit /\ Still
  \/ focus = "channels" /\ Init /\ Still
EditsNext ==
  \/ focus = "routing" /\ F!RoutingNext /\ UNCHANGED <<vars, focus>>
  \/ focus = "rules" /\ R!Next /\ UNCHANGED <<flags, env, vars, focus>>
  \/ focus = "channels" /\ Next /\ UNCHANGED <<routingVars, focus>>
EditsSpec == EditsInit /\ [][EditsNext]_all
---------------------------------------------------------------------------
(* The properties of the modules that EXTENDS does not bring, in their branch *)

\* RuleTable: no edit splits a ruleset, mixes its targets or repeats an id, and
\* a row never targets a channel that is removed or disabled.
RulesSound == focus = "rules" => R!WellGrouped /\ R!RefsUsable
\* Routing: the tracer answers what the compiled list does.
RoutesTracerAgrees == focus = "routing" => F!TracerAgrees
\* Routing: a flow claimed for a channel never leaves directly.
RoutesClaimedNeverLeaks == focus = "routing" => F!ClaimedNeverLeaks
\* Routing: unmatched flows that must not leave directly do not.
RoutesUnmatchedNeverLeaks == focus = "routing" => F!UnmatchedNeverLeaks
\* Routing: a row the lint calls shadowed decides nothing.
RoutesLintIsSound == focus = "routing" => F!LintIsSound
=============================================================================
