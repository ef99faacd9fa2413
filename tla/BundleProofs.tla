---------------------------- MODULE BundleProofs ----------------------------
(***************************************************************************)
(* Theorems about Bundle, for any files, channels, ports and length of the *)
(* rule table.  An apply is a composition of functions from setups to      *)
(* setups: each has a lemma that says what it keeps and what it changes.   *)
(***************************************************************************)
EXTENDS Bundle, Foundations

Entries == [there : BOOLEAN, on : BOOLEAN, place : Sites \cup {"-"}, wg : Nat, port : Nat,
            explicit : BOOLEAN, managed : BOOLEAN]
Rows == [m : Matchers, managed : BOOLEAN]
Blocks == [name : Names, target : Refs \cup Builtins, byHand : BOOLEAN, rows : Seq(Rows)]
Entrypoints == [port : Nat, explicit : BOOLEAN, kill : BOOLEAN]
Setups == [chan : [Refs -> Entries], prov : {"absent", "hand", "managed"}, rules : Seq(Blocks),
           router : Entrypoints, refused : BOOLEAN]

\* Files and exports: an export may list a channel that no file could.
Listed == [ref : Refs, on : {"yes", "no", "unstated"}, place : Sites \cup {"-"}, wg : Nat, port : Nat]
Grouped == [name : Names, target : Refs \cup Builtins, matchers : Seq(Matchers)]
Plans ==
  {b \in [channels : Seq(Listed), rulesets : Seq(Grouped), kill : {"yes", "no", "unstated"}, port : Nat] :
     \A i, j \in DOMAIN b.channels : b.channels[i].ref = b.channels[j].ref => i = j}

\* The two halves of SetupSound, of any setup.  A channel that is not there is off
\* and has no port.
Usable(t) == \A i \in DOMAIN t.rules : UsableIn(t, t.rules[i].target)
Apart(t) ==
  \A c \in Refs :
    IF t.chan[c].there
    THEN /\ t.chan[c].port # 0 /\ t.chan[c].port # t.router.port
         /\ \A d \in Refs \ {c} : t.chan[d].port # t.chan[c].port
    ELSE ~t.chan[c].on /\ t.chan[c].port = 0

\* What an apply was planned with.
Jobs == [kind : Kinds, bundle : Files]
JobOK == job # Idle /\ job.kind = "restore" => TargetsKnown({}, job.bundle)

BundleInv ==
  /\ setup \in Setups /\ ~setup.refused /\ Usable(setup) /\ Apart(setup)
  /\ job \in Jobs \cup {Idle} /\ JobOK
---------------------------------------------------------------------------
(* The parts of a setup *)

LEMMA AbsentType == Absent \in Entries
BY DEF Absent, Entries

LEMMA SetupParts ==
  ASSUME NEW t \in Setups
  PROVE  /\ t.chan \in [Refs -> Entries] /\ t.prov \in {"absent", "hand", "managed"}
         /\ t.rules \in Seq(Blocks) /\ t.router \in Entrypoints /\ t.refused \in BOOLEAN
BY DEF Setups

LEMMA Refused ==
  ASSUME NEW t \in Setups
  PROVE  Refuse(t) \in Setups /\ Refuse(t).refused
BY DEF Setups, Refuse

\* Two owners of a port, a router among them.
LEMMA ApartIs ==
  ASSUME NEW t \in Setups, Apart(t), NEW c \in Present(t)
  PROVE  t.chan[c].port \notin UsedBy(t, {c}) \cup {0}
<1>1. UsedBy(t, {c}) = {t.chan[d].port : d \in Refs \ {c}} \cup {t.router.port}
  BY BundleAssumption DEF UsedBy, Present
<1> QED
  BY <1>1 DEF Apart, Present

LEMMA WillBeType ==
  ASSUME NEW kind, NEW spec \in Declared, NEW old \in Entries
  PROVE  WillBeOn(kind, spec, old) \in BOOLEAN
<1>1. old.there \in BOOLEAN /\ old.on \in BOOLEAN
  BY DEF Entries
<1> QED
  BY <1>1, Zenon DEF WillBeOn

\* A free port is nobody's.
LEMMA FreeIs ==
  ASSUME NEW t \in Setups, FreePorts(t) # {}
  PROVE  /\ Min(FreePorts(t)) \in Nat /\ Min(FreePorts(t)) # 0
         /\ Min(FreePorts(t)) # t.router.port
         /\ \A c \in Refs : t.chan[c].port # Min(FreePorts(t))
<1> DEFINE S == FreePorts(t)
<1>1. S \in SUBSET Nat /\ 0 \notin S
  BY BundleAssumption DEF FreePorts
<1>2. Min(S) \in S
  <2>1. S # {}
    OBVIOUS
  <2> HIDE DEF S
  <2> QED
    BY <1>1, <2>1, LeastIs
<1>3. Min(S) \notin UsedBy(t, {})
  BY <1>2 DEF FreePorts
<1>4. /\ t.router.port \in UsedBy(t, {})
      /\ \A c \in Refs : t.chan[c].port \in UsedBy(t, {})
  BY DEF UsedBy
<1> HIDE DEF S
<1>5. Min(S) \in Nat /\ Min(S) # 0 /\ Min(S) # t.router.port /\ \A c \in Refs : t.chan[c].port # Min(S)
  BY <1>1, <1>2, <1>3, <1>4
<1> QED
  BY <1>5 DEF S

\* One channel gets a new entry.
WithEntry(t, c, e) == [t EXCEPT !.chan[c] = e]
LEMMA SetEntry ==
  ASSUME NEW t \in Setups, NEW c \in Refs, NEW e \in Entries, NEW u, u = WithEntry(t, c, e)
  PROVE  /\ u \in Setups /\ u.rules = t.rules /\ u.router = t.router /\ u.refused = t.refused
         /\ u.prov = t.prov
         /\ u.chan[c] = e /\ \A d \in Refs \ {c} : u.chan[d] = t.chan[d]
<1>1. t.chan \in [Refs -> Entries]
  BY SetupParts
<1> DEFINE chan == [t.chan EXCEPT ![c] = e]
<1>2. chan \in [Refs -> Entries] /\ chan[c] = e /\ \A d \in Refs \ {c} : chan[d] = t.chan[d]
  BY <1>1
<1>3. u = [t EXCEPT !.chan = chan]
  BY DEF WithEntry
<1> HIDE DEF chan
<1> QED
  BY <1>2, <1>3 DEF Setups

\* Ports stay apart when one channel's new port is nobody else's.
LEMMA SetApart ==
  ASSUME NEW t \in Setups, NEW u \in Setups, Apart(t), NEW c \in Refs, u.router = t.router,
         \A d \in Refs \ {c} : u.chan[d] = t.chan[d],
         u.chan[c].there, u.chan[c].port # 0 /\ u.chan[c].port # t.router.port,
         \A d \in Refs \ {c} : t.chan[d].port # u.chan[c].port
  PROVE  Apart(u)
BY DEF Apart
---------------------------------------------------------------------------
(* The channels of a file *)

LEMMA UpsertIs ==
  ASSUME NEW t \in Setups, NEW spec \in Declared, NEW sync \in BOOLEAN,
         NEW u, u = Upsert(t, spec, sync)
  PROVE  /\ u \in Setups
         /\ ~u.refused =>
              /\ ~t.refused /\ u.rules = t.rules /\ u.router = t.router
              /\ Apart(t) => Apart(u)
              /\ \A d \in Refs \ {spec.ref} : u.chan[d] = t.chan[d]
              /\ u.chan[spec.ref].there
              /\ u.chan[spec.ref].on = WillBeOn("merge", spec, t.chan[spec.ref])
<1> DEFINE c == spec.ref
           old == t.chan[c]
           port == PortOf(t, spec, old)
           on == WillBeOn("merge", spec, old)
           explicit == spec.port # 0 \/ (~sync /\ old.explicit)
           managed == IF old.there THEN old.managed ELSE sync
           entry == [there |-> TRUE, on |-> on, place |-> spec.place, wg |-> spec.wg, port |-> port,
                     explicit |-> explicit, managed |-> managed]
<1>1. /\ c \in Refs /\ spec.place \in Sites /\ spec.wg \in Nat /\ spec.port \in Nat
      /\ old \in Entries
  BY SetupParts DEF Declared
<1>2. old.there \in BOOLEAN /\ old.explicit \in BOOLEAN /\ old.managed \in BOOLEAN /\ old.port \in Nat
  BY <1>1 DEF Entries
<1>3. port \in Nat
  <2>1. CASE spec.port # 0
    BY <1>1, <2>1 DEF PortOf
  <2>2. CASE spec.port = 0 /\ old.there
    BY <1>2, <2>2 DEF PortOf
  <2>3. CASE spec.port = 0 /\ ~old.there
    BY FreeIs, <2>3 DEF PortOf
  <2> QED
    BY <1>2, <2>1, <2>2, <2>3
<1>4. on \in BOOLEAN
  BY <1>1, WillBeType
<1>5. explicit \in BOOLEAN
  BY Zenon
<1>6. managed \in BOOLEAN
  BY <1>2
<1>7. u = IF t.refused \/ port = 0 \/ port \in UsedBy(t, {c}) THEN Refuse(t)
          ELSE [t EXCEPT !.chan[c] = entry]
  BY DEF Upsert
<1> HIDE DEF c, old, port, on, explicit, managed
<1>8. /\ entry \in Entries /\ entry.there = TRUE /\ entry.on = on /\ entry.port = port
  BY <1>1, <1>3, <1>4, <1>5, <1>6 DEF Entries
<1> HIDE DEF entry
<1>9. CASE t.refused \/ port = 0 \/ port \in UsedBy(t, {c})
  BY <1>7, <1>9, Refused
<1>10. CASE ~(t.refused \/ port = 0 \/ port \in UsedBy(t, {c}))
  <2>1. u = WithEntry(t, c, entry)
    BY <1>7, <1>10 DEF WithEntry
  <2>2. /\ u \in Setups /\ u.rules = t.rules /\ u.router = t.router /\ u.refused = t.refused
        /\ u.chan[c] = entry /\ \A d \in Refs \ {c} : u.chan[d] = t.chan[d]
    BY <1>1, <1>8, <2>1, SetEntry
  <2>3. port # t.router.port /\ \A d \in Refs \ {c} : t.chan[d].port # port
    BY <1>1, <1>10, BundleAssumption DEF UsedBy
  <2>4. u.chan[c].there /\ u.chan[c].on = on /\ u.chan[c].port = port
    BY <1>8, <2>2
  <2>5. Apart(t) => Apart(u)
    BY <1>1, <1>10, <2>2, <2>3, <2>4, SetApart
  <2> QED
    BY <1>10, <2>2, <2>4, <2>5 DEF c, on, old
<1> QED
  BY <1>9, <1>10

LEMMA FileParts ==
  ASSUME NEW b \in Files
  PROVE  /\ b.channels \in Seq(Declared) /\ b.rulesets \in Seq(Ruled) /\ b.port \in Nat
         /\ b.kill \in {"yes", "no", "unstated"}
         /\ \A i, j \in DOMAIN b.channels : b.channels[i].ref = b.channels[j].ref => i = j
         /\ \A i \in DOMAIN b.channels : b.channels[i] \in Declared /\ b.channels[i].ref \in Refs
         /\ BundleRefs(b) \subseteq Refs
<1>1. /\ b.channels \in Seq(Declared) /\ b.rulesets \in Seq(Ruled) /\ b.port \in Nat
      /\ b.kill \in {"yes", "no", "unstated"}
      /\ \A i, j \in DOMAIN b.channels : b.channels[i].ref = b.channels[j].ref => i = j
  BY DEF Files
<1>2. \A i \in DOMAIN b.channels : b.channels[i] \in Declared
  BY <1>1
<1>3. \A spec \in Declared : spec.ref \in Refs
  BY DEF Declared
<1> QED
  BY <1>1, <1>2, <1>3 DEF BundleRefs

LEMMA PlanParts ==
  ASSUME NEW b \in Plans
  PROVE  /\ b.channels \in Seq(Listed) /\ b.rulesets \in Seq(Grouped) /\ b.port \in Nat
         /\ Len(b.channels) \in Nat
         /\ \A i, j \in DOMAIN b.channels : b.channels[i].ref = b.channels[j].ref => i = j
         /\ \A i \in DOMAIN b.channels : b.channels[i] \in Listed /\ b.channels[i].ref \in Refs
         /\ BundleRefs(b) \subseteq Refs
<1>1. /\ b.channels \in Seq(Listed) /\ b.rulesets \in Seq(Grouped) /\ b.port \in Nat
      /\ \A i, j \in DOMAIN b.channels : b.channels[i].ref = b.channels[j].ref => i = j
  BY DEF Plans
<1>2. Len(b.channels) \in Nat /\ \A i \in DOMAIN b.channels : b.channels[i] \in Listed
  BY <1>1
<1>3. \A spec \in Listed : spec.ref \in Refs
  BY DEF Listed
<1> QED
  BY <1>1, <1>2, <1>3 DEF BundleRefs

LEMMA FilesArePlans == Files \subseteq Plans
<1> SUFFICES ASSUME NEW b \in Files PROVE b \in Plans
  OBVIOUS
<1>1. Declared \subseteq Listed /\ Ruled \subseteq Grouped
  BY DEF Declared, Listed, Ruled, Grouped
<1>2. b.channels \in Seq(Declared) /\ b.rulesets \in Seq(Ruled)
  BY FileParts
<1>3. b.channels \in Seq(Listed) /\ b.rulesets \in Seq(Grouped)
  BY <1>1, <1>2
<1> QED
  BY <1>3 DEF Files, Plans

\* The channels of a file are put in one after the other.
LEMMA UpsertedSteps ==
  ASSUME NEW t \in Setups, NEW b \in Files, NEW sync \in BOOLEAN
  PROVE  \E a \in [0..Len(b.channels) -> Setups] :
           /\ a[0] = t
           /\ \A n \in 1..Len(b.channels) : a[n] = Upsert(a[n - 1], b.channels[n], sync)
           /\ Upserted(t, b, sync) = a[Len(b.channels)]
<1> DEFINE N == Len(b.channels)
           step == [n \in 1..N |-> [s \in Setups |-> Upsert(s, b.channels[n], sync)]]
<1>1. N \in Nat /\ \A n \in 1..N : b.channels[n] \in Declared
  BY FileParts
<1>2. \A n \in 1..N : \A s \in Setups : Upsert(s, b.channels[n], sync) \in Setups
  <2> HIDE DEF N
  <2> QED
    BY <1>1, UpsertIs
<1>3. step \in [1..N -> [Setups -> Setups]]
  BY <1>2
<1>4. \E f : Iterated(f, N, Setups, t, step)
  <2> HIDE DEF N, step
  <2> QED
    BY <1>1, <1>3, IterationExists
<1>5. PICK a : Iterated(a, N, Setups, t, step)
  BY <1>4
<1>6. a \in [0..N -> Setups] /\ a[0] = t /\ \A n \in 1..N : a[n] = Upsert(a[n - 1], b.channels[n], sync)
  <2>1. \A n \in 1..N : n - 1 \in 0..N
    BY <1>1
  <2>2. a \in [0..N -> Setups] /\ a[0] = t /\ \A n \in 1..N : a[n] = step[n][a[n - 1]]
    BY <1>5 DEF Iterated
  <2>3. \A n \in 1..N : \A s \in Setups : step[n][s] = Upsert(s, b.channels[n], sync)
    OBVIOUS
  <2> HIDE DEF step, N
  <2> QED
    BY <2>1, <2>2, <2>3
<1> HIDE DEF step
<1> DEFINE Steps(f) ==
             f = [i \in 0..Len(b.channels) |->
                    IF i = 0 THEN t ELSE Upsert(f[i - 1], b.channels[i], sync)]
           h == CHOOSE f : Steps(f)
<1>7. Steps(a)
  <2>1. \A i \in 0..N : a[i] = IF i = 0 THEN t ELSE Upsert(a[i - 1], b.channels[i], sync)
    <3>1. \A i \in 0..N : i = 0 \/ i \in 1..N
      BY <1>1
    <3> HIDE DEF N
    <3> QED
      BY <1>6, <3>1
  <2> QED
    BY <1>6, <2>1
<1>8. Steps(h)
  BY <1>7
<1>9. Upserted(t, b, sync) = h[N]
  BY DEF Upserted
<1> DEFINE ok == {n \in 0..N : h[n] = a[n]}
<1>10. \A i \in 0..N : h[i] = IF i = 0 THEN t ELSE Upsert(h[i - 1], b.channels[i], sync)
  <2> HIDE DEF h
  <2> QED
    BY <1>8
<1> HIDE DEF h, Steps
<1>11. 0 \in ok
  BY <1>1, <1>6, <1>10
<1>12. ASSUME NEW n \in 0..(N - 1), n \in ok PROVE n + 1 \in ok
  <2>1. n + 1 \in 1..N /\ n + 1 \in 0..N /\ (n + 1) - 1 = n /\ n + 1 # 0
    BY <1>1
  <2>2. h[n + 1] = Upsert(h[n], b.channels[n + 1], sync)
    BY <1>10, <2>1
  <2>3. a[n + 1] = Upsert(a[n], b.channels[n + 1], sync)
    BY <1>6, <2>1
  <2> QED
    BY <1>12, <2>1, <2>2, <2>3
<1>13. 0..N \subseteq ok
  <2> HIDE DEF ok, N
  <2> QED
    BY <1>1, <1>11, <1>12, IntervalInduction
<1>14. h[N] = a[N]
  BY <1>1, <1>13
<1> QED
  BY <1>6, <1>9, <1>14

\* What putting in some channels of a file leaves as it was.
Carried(t, u, b) ==
  ~u.refused =>
    /\ ~t.refused /\ u.rules = t.rules /\ u.router = t.router
    /\ Apart(t) => Apart(u)
    /\ \A c \in Refs \ BundleRefs(b) : u.chan[c] = t.chan[c]
    /\ \A c \in Refs \ DisabledIn(b) : t.chan[c].on => u.chan[c].on
    /\ \A i \in DOMAIN b.channels :
         LET spec == b.channels[i] IN
         spec.on = "unstated" /\ t.chan[spec.ref].there =>
           u.chan[spec.ref].there /\ u.chan[spec.ref].on = t.chan[spec.ref].on

LEMMA UpsertCarries ==
  ASSUME NEW b \in Files, NEW n \in DOMAIN b.channels, NEW sync \in BOOLEAN,
         NEW t \in Setups, NEW u \in Setups, Carried(t, u, b)
  PROVE  Carried(t, Upsert(u, b.channels[n], sync), b)
<1> DEFINE v == Upsert(u, b.channels[n], sync)
           spec == b.channels[n]
<1>1. /\ \A i \in DOMAIN b.channels : b.channels[i] \in Declared /\ b.channels[i].ref \in Refs
      /\ \A i, j \in DOMAIN b.channels : b.channels[i].ref = b.channels[j].ref => i = j
  BY FileParts
<1>2. v \in Setups /\ spec \in Declared /\ spec.ref \in Refs /\ spec.ref \in BundleRefs(b)
  BY <1>1, UpsertIs DEF BundleRefs
<1> SUFFICES ASSUME ~v.refused PROVE Carried(t, v, b)
  BY DEF Carried
<1>3. /\ ~u.refused /\ v.rules = u.rules /\ v.router = u.router
      /\ Apart(u) => Apart(v)
      /\ \A d \in Refs \ {spec.ref} : v.chan[d] = u.chan[d]
      /\ v.chan[spec.ref].there
      /\ v.chan[spec.ref].on = WillBeOn("merge", spec, u.chan[spec.ref])
  BY <1>1, UpsertIs
<1> HIDE DEF v
<1>4. ~t.refused /\ v.rules = t.rules /\ v.router = t.router /\ (Apart(t) => Apart(v))
  BY <1>3 DEF Carried
<1>5. \A c \in Refs \ BundleRefs(b) : v.chan[c] = t.chan[c]
  BY <1>2, <1>3 DEF Carried
<1>6. ASSUME NEW c \in Refs \ DisabledIn(b), t.chan[c].on PROVE v.chan[c].on
  <2>1. u.chan[c].on
    BY <1>3, <1>6 DEF Carried
  <2>2. CASE c # spec.ref
    BY <1>3, <2>1, <2>2
  <2>3. CASE c = spec.ref
    <3>1. spec.on # "no"
      BY <2>3 DEF DisabledIn
    <3>2. WillBeOn("merge", spec, u.chan[c])
      BY <1>2, <2>1, <2>3, <3>1 DEF WillBeOn, Declared
    <3> QED
      BY <1>3, <2>3, <3>2
  <2> QED
    BY <2>2, <2>3
<1>7. ASSUME NEW i \in DOMAIN b.channels, b.channels[i].on = "unstated",
             t.chan[b.channels[i].ref].there
      PROVE  /\ v.chan[b.channels[i].ref].there
             /\ v.chan[b.channels[i].ref].on = t.chan[b.channels[i].ref].on
  <2> DEFINE c == b.channels[i].ref
  <2>1. c \in Refs /\ u.chan[c].there /\ u.chan[c].on = t.chan[c].on
    BY <1>1, <1>3, <1>7 DEF Carried
  <2>2. CASE c # spec.ref
    BY <1>3, <2>1, <2>2
  <2>3. CASE c = spec.ref
    <3>1. i = n
      BY <1>1, <2>3
    <3>2. WillBeOn("merge", spec, u.chan[c]) = u.chan[c].on
      <4>1. u.chan[c].on \in BOOLEAN
        BY <2>1, SetupParts DEF Entries
      <4> QED
        BY <1>7, <2>1, <3>1, <4>1 DEF WillBeOn
    <3> QED
      BY <1>3, <2>1, <2>3, <3>2
  <2> QED
    BY <2>2, <2>3
<1> QED
  BY <1>4, <1>5, <1>6, <1>7 DEF Carried

LEMMA UpsertedIs ==
  ASSUME NEW t \in Setups, NEW b \in Files, NEW sync \in BOOLEAN
  PROVE  Upserted(t, b, sync) \in Setups /\ Carried(t, Upserted(t, b, sync), b)
<1> DEFINE N == Len(b.channels)
<1>1. N \in Nat /\ 1..N = DOMAIN b.channels
  BY FileParts
<1>2. PICK a \in [0..N -> Setups] :
        /\ a[0] = t
        /\ \A n \in 1..N : a[n] = Upsert(a[n - 1], b.channels[n], sync)
        /\ Upserted(t, b, sync) = a[N]
  BY UpsertedSteps
<1> DEFINE ok == {n \in 0..N : Carried(t, a[n], b)}
<1>3. 0 \in ok
  BY <1>1, <1>2 DEF Carried
<1>4. ASSUME NEW n \in 0..(N - 1), n \in ok PROVE n + 1 \in ok
  <2>1. n + 1 \in 1..N /\ n + 1 \in 0..N /\ (n + 1) - 1 = n /\ n \in 0..N
    BY <1>1
  <2>2. a[n] \in Setups /\ Carried(t, a[n], b)
    BY <1>2, <1>4, <2>1
  <2>3. a[n + 1] = Upsert(a[n], b.channels[n + 1], sync)
    BY <1>2, <2>1
  <2>4. n + 1 \in DOMAIN b.channels
    BY <1>1, <2>1
  <2>5. Carried(t, a[n + 1], b)
    BY <2>2, <2>3, <2>4, UpsertCarries
  <2> QED
    BY <2>1, <2>5
<1>5. 0..N \subseteq ok
  <2> HIDE DEF ok, N
  <2> QED
    BY <1>1, <1>3, <1>4, IntervalInduction
<1> QED
  BY <1>1, <1>2, <1>5
---------------------------------------------------------------------------
(* The rules of a file *)

LEMMA GroupIs ==
  ASSUME NEW spec \in Grouped, NEW managed \in BOOLEAN, NEW e, e = BlockOf(spec, managed)
  PROVE  /\ e \in Blocks /\ e.name = spec.name /\ e.target = spec.target
         /\ e.rows = [i \in DOMAIN spec.matchers |-> [m |-> spec.matchers[i], managed |-> managed]]
<1> DEFINE rows == [i \in DOMAIN spec.matchers |-> [m |-> spec.matchers[i], managed |-> managed]]
           hand == ~managed
<1>1. /\ spec.name \in Names /\ spec.target \in Refs \cup Builtins /\ spec.matchers \in Seq(Matchers)
  BY DEF Grouped
<1>2. hand \in BOOLEAN
  OBVIOUS
<1>3. rows \in Seq(Rows)
  <2> DEFINE N == Len(spec.matchers)
  <2>1. N \in Nat /\ DOMAIN spec.matchers = 1..N /\ \A i \in 1..N : spec.matchers[i] \in Matchers
    BY <1>1
  <2>2. rows \in [1..N -> Rows]
    BY <2>1 DEF Rows
  <2> HIDE DEF rows, N
  <2> QED
    BY <2>1, <2>2
<1>4. e = [name |-> spec.name, target |-> spec.target, byHand |-> hand, rows |-> rows]
  BY DEF BlockOf
<1> HIDE DEF rows, hand
<1>5. e \in Blocks /\ e.name = spec.name /\ e.target = spec.target /\ e.rows = rows
  BY <1>1, <1>2, <1>3, <1>4 DEF Blocks
<1> QED
  BY <1>5 DEF rows

LEMMA BlockIs ==
  ASSUME NEW spec \in Ruled, NEW managed \in BOOLEAN
  PROVE  /\ BlockOf(spec, managed) \in Blocks
         /\ BlockOf(spec, managed).target = spec.target
         /\ managed => IsManaged(BlockOf(spec, managed))
<1> DEFINE e == BlockOf(spec, managed)
<1>1. spec \in Grouped /\ spec.matchers \in Seq(Matchers) /\ spec.matchers # <<>>
  BY DEF Ruled, Grouped
<1>2. /\ e \in Blocks /\ e.target = spec.target
      /\ e.rows = [i \in DOMAIN spec.matchers |-> [m |-> spec.matchers[i], managed |-> managed]]
  BY <1>1, GroupIs
<1>3. 1 \in DOMAIN spec.matchers
  BY <1>1
<1>4. 1 \in DOMAIN e.rows /\ e.rows[1].managed = managed
  BY <1>2, <1>3
<1> HIDE DEF e
<1> QED
  BY <1>2, <1>4 DEF e, IsManaged

\* Choosing goes through a sequence from left to right.
Choosing(s, at, T, g) ==
  /\ g \in [0..Len(s) -> Seq(T)] /\ g[0] = <<>>
  /\ \A n \in 1..Len(s) : g[n] = IF n \in at THEN Append(g[n - 1], s[n]) ELSE g[n - 1]
  /\ ChosenAt(s, at) = g[Len(s)]

LEMMA ChosenSteps ==
  ASSUME NEW T, NEW s \in Seq(T), NEW at
  PROVE  \E g : Choosing(s, at, T, g)
<1> DEFINE N == Len(s)
           ss == [i \in DOMAIN s |-> IF i \in at THEN <<s[i]>> ELSE <<>>]
<1>1. N \in Nat /\ DOMAIN s = 1..N /\ \A i \in 1..N : s[i] \in T
  OBVIOUS
<1>2. ss \in [1..N -> Seq(T)]
  BY <1>1
<1>3. \A n \in 1..N : ss[n] = IF n \in at THEN <<s[n]>> ELSE <<>>
  BY <1>1
<1>4. ChosenAt(s, at) = FlattenSeq(ss)
  BY DEF ChosenAt
<1> HIDE DEF ss
<1>5. ss \in Seq(Seq(T)) /\ Len(ss) = N
  BY <1>1, <1>2
<1>6a. PICK g : Flattening(ss, T, g)
  BY <1>5, FlattenSteps
<1>6. /\ g \in [0..N -> Seq(T)] /\ g[0] = <<>> /\ \A n \in 1..N : g[n] = g[n - 1] \o ss[n]
      /\ FlattenSeq(ss) = g[N]
  BY <1>5, <1>6a DEF Flattening
<1>7. ASSUME NEW n \in 1..N
      PROVE  g[n] = IF n \in at THEN Append(g[n - 1], s[n]) ELSE g[n - 1]
  <2>1. n - 1 \in 0..N /\ g[n - 1] \in Seq(T) /\ s[n] \in T
    <3>1. n - 1 \in 0..N /\ s[n] \in T
      BY <1>1
    <3> HIDE DEF N
    <3> QED
      BY <1>6, <3>1
  <2>2. g[n] = g[n - 1] \o ss[n] /\ ss[n] = IF n \in at THEN <<s[n]>> ELSE <<>>
    BY <1>3, <1>6
  <2>3. \A u \in Seq(T) : u \o <<>> = u /\ \A e \in T : u \o <<e>> = Append(u, e)
    OBVIOUS
  <2> QED
    BY <2>1, <2>2, <2>3
<1> QED
  BY <1>4, <1>6, <1>7 DEF Choosing

LEMMA ChosenIs ==
  ASSUME NEW T, NEW s \in Seq(T), NEW at
  PROVE  /\ ChosenAt(s, at) \in Seq(T)
         /\ \A k \in DOMAIN ChosenAt(s, at) : \E i \in at \cap DOMAIN s : ChosenAt(s, at)[k] = s[i]
<1> DEFINE N == Len(s)
           Of(u) == \A k \in DOMAIN u : \E i \in at \cap DOMAIN s : u[k] = s[i]
<1>1. N \in Nat /\ DOMAIN s = 1..N /\ \A i \in 1..N : s[i] \in T
  OBVIOUS
<1>2a. PICK g : Choosing(s, at, T, g)
  BY ChosenSteps
<1>2. /\ g \in [0..N -> Seq(T)] /\ g[0] = <<>>
      /\ \A n \in 1..N : g[n] = IF n \in at THEN Append(g[n - 1], s[n]) ELSE g[n - 1]
      /\ ChosenAt(s, at) = g[N]
  BY <1>2a DEF Choosing
<1> DEFINE ok == {n \in 0..N : Of(g[n])}
<1>3. 0 \in ok
  BY <1>1, <1>2
<1>4. ASSUME NEW n \in 0..(N - 1), n \in ok PROVE n + 1 \in ok
  <2>1. n + 1 \in 1..N /\ n + 1 \in 0..N /\ (n + 1) - 1 = n /\ n \in 0..N
    BY <1>1
  <2>2. Of(g[n]) /\ g[n] \in Seq(T)
    BY <1>2, <1>4, <2>1
  <2>3. g[n + 1] = IF n + 1 \in at THEN Append(g[n], s[n + 1]) ELSE g[n]
    BY <1>2, <2>1
  <2>4. CASE n + 1 \notin at
    BY <2>1, <2>2, <2>3, <2>4
  <2>5. CASE n + 1 \in at
    <3>1. g[n + 1] = Append(g[n], s[n + 1]) /\ n + 1 \in at \cap DOMAIN s /\ s[n + 1] \in T
      BY <1>1, <2>1, <2>3, <2>5
    <3>2. \A k \in DOMAIN Append(g[n], s[n + 1]) :
            \/ k \in DOMAIN g[n] /\ Append(g[n], s[n + 1])[k] = g[n][k]
            \/ Append(g[n], s[n + 1])[k] = s[n + 1]
      BY <2>2, <3>1
    <3>3. Of(g[n + 1])
      BY <2>2, <3>1, <3>2
    <3> QED
      BY <2>1, <3>3
  <2> QED
    BY <2>4, <2>5
<1>5. 0..N \subseteq ok
  <2> HIDE DEF ok, N
  <2> QED
    BY <1>1, <1>3, <1>4, IntervalInduction
<1>6. N \in 0..N
  BY <1>1
<1> QED
  BY <1>2, <1>5, <1>6

\* One element more.
LEMMA ChosenAppend ==
  ASSUME NEW T, NEW s \in Seq(T), NEW e \in T, NEW at, NEW more,
         \A n \in 1..Len(s) : n \in at <=> n \in more
  PROVE  ChosenAt(Append(s, e), more)
           = IF Len(s) + 1 \in more THEN Append(ChosenAt(s, at), e) ELSE ChosenAt(s, at)
<1> DEFINE N == Len(s)
           u == Append(s, e)
<1>1. N \in Nat /\ u \in Seq(T) /\ Len(u) = N + 1 /\ u[N + 1] = e /\ \A n \in 1..N : u[n] = s[n]
  OBVIOUS
<1> HIDE DEF u
<1>2a. PICK g : Choosing(s, at, T, g)
  BY ChosenSteps
<1>2. /\ g \in [0..N -> Seq(T)] /\ g[0] = <<>>
      /\ \A n \in 1..N : g[n] = IF n \in at THEN Append(g[n - 1], s[n]) ELSE g[n - 1]
      /\ ChosenAt(s, at) = g[N]
  BY <1>2a DEF Choosing
<1>3a. PICK h : Choosing(u, more, T, h)
  BY <1>1, ChosenSteps
<1>3. /\ h \in [0..(N + 1) -> Seq(T)] /\ h[0] = <<>>
      /\ \A n \in 1..(N + 1) : h[n] = IF n \in more THEN Append(h[n - 1], u[n]) ELSE h[n - 1]
      /\ ChosenAt(u, more) = h[N + 1]
  BY <1>1, <1>3a DEF Choosing
<1> DEFINE ok == {n \in 0..N : h[n] = g[n]}
<1>4. 0 \in ok
  BY <1>1, <1>2, <1>3
<1>5. ASSUME NEW n \in 0..(N - 1), n \in ok PROVE n + 1 \in ok
  <2>1. n + 1 \in 1..N /\ n + 1 \in 1..(N + 1) /\ n + 1 \in 0..N /\ (n + 1) - 1 = n
    BY <1>1
  <2>2. g[n + 1] = IF n + 1 \in at THEN Append(g[n], s[n + 1]) ELSE g[n]
    BY <1>2, <2>1
  <2>3. h[n + 1] = IF n + 1 \in more THEN Append(h[n], u[n + 1]) ELSE h[n]
    BY <1>3, <2>1
  <2>4. h[n] = g[n] /\ u[n + 1] = s[n + 1] /\ (n + 1 \in at <=> n + 1 \in more)
    BY <1>1, <1>5, <2>1
  <2> QED
    BY <2>1, <2>2, <2>3, <2>4
<1>6. 0..N \subseteq ok
  <2> HIDE DEF ok, N
  <2> QED
    BY <1>1, <1>4, <1>5, IntervalInduction
<1>7. h[N] = g[N]
  BY <1>1, <1>6
<1>8. h[N + 1] = IF N + 1 \in more THEN Append(h[N], e) ELSE h[N]
  <2>1. N + 1 \in 1..(N + 1) /\ (N + 1) - 1 = N
    BY <1>1
  <2> QED
    BY <1>1, <1>3, <2>1
<1> QED
  BY <1>2, <1>3, <1>7, <1>8 DEF u

\* The rulesets that hold no row of a sync.
Hand(s) == ChosenAt(s, {j \in DOMAIN s : ~IsManaged(s[j])})

LEMMA HandAppend ==
  ASSUME NEW T, NEW s \in Seq(T), NEW e \in T
  PROVE  Hand(Append(s, e)) = IF IsManaged(e) THEN Hand(s) ELSE Append(Hand(s), e)
<1> DEFINE u == Append(s, e)
           at == {j \in DOMAIN s : ~IsManaged(s[j])}
           more == {j \in DOMAIN u : ~IsManaged(u[j])}
<1>1. /\ Len(s) \in Nat /\ DOMAIN s = 1..Len(s) /\ DOMAIN u = 1..(Len(s) + 1)
      /\ u[Len(s) + 1] = e /\ \A n \in 1..Len(s) : u[n] = s[n]
  OBVIOUS
<1>2. Hand(u) = ChosenAt(u, more) /\ Hand(s) = ChosenAt(s, at)
  BY DEF Hand
<1>3. \A n \in 1..Len(s) : n \in at <=> n \in more
  <2> HIDE DEF u
  <2> QED
    BY <1>1
<1>4. Len(s) + 1 \in more <=> ~IsManaged(e)
  <2> HIDE DEF u
  <2> QED
    BY <1>1
<1>5. ChosenAt(Append(s, e), more)
        = IF Len(s) + 1 \in more THEN Append(ChosenAt(s, at), e) ELSE ChosenAt(s, at)
  <2> HIDE DEF at, more
  <2> QED
    BY <1>3, ChosenAppend
<1> HIDE DEF at, more
<1> QED
  BY <1>2, <1>4, <1>5

\* Rows of a sync, put behind.
LEMMA HandSkips ==
  ASSUME NEW s \in Seq(Blocks), NEW new \in Seq(Blocks), \A i \in DOMAIN new : IsManaged(new[i])
  PROVE  Hand(s \o new) = Hand(s)
<1> DEFINE N == Len(new)
           front(n) == s \o [i \in 1..n |-> new[i]]
           ok == {n \in 0..N : Hand(front(n)) = Hand(s)}
<1>1. N \in Nat /\ DOMAIN new = 1..N /\ \A i \in 1..N : new[i] \in Blocks
  OBVIOUS
<1>2. ASSUME NEW n \in 0..N PROVE [i \in 1..n |-> new[i]] \in Seq(Blocks)
  <2>1. \A i \in 1..n : new[i] \in Blocks
    BY <1>1
  <2> QED
    BY <2>1
<1>3. 0 \in ok
  <2>1. front(0) = s
    OBVIOUS
  <2> QED
    BY <1>1, <2>1
<1>4. ASSUME NEW n \in 0..(N - 1), n \in ok PROVE n + 1 \in ok
  <2>1. n + 1 \in 1..N /\ n + 1 \in 0..N /\ n \in 0..N /\ new[n + 1] \in Blocks
    BY <1>1
  <2>2. /\ [i \in 1..n |-> new[i]] \in Seq(Blocks)
        /\ [i \in 1..(n + 1) |-> new[i]] = Append([i \in 1..n |-> new[i]], new[n + 1])
    BY <1>2, <2>1
  <2>3. \A x, y \in Seq(Blocks) : \A e \in Blocks :
          x \o Append(y, e) = Append(x \o y, e) /\ x \o y \in Seq(Blocks)
    OBVIOUS
  <2>4. front(n + 1) = Append(front(n), new[n + 1]) /\ front(n) \in Seq(Blocks)
    BY <2>1, <2>2, <2>3
  <2>5. Hand(front(n + 1)) = Hand(front(n))
    <3> HIDE DEF front
    <3> QED
      BY <1>1, <2>1, <2>4, HandAppend
  <2> HIDE DEF front
  <2> QED
    BY <1>4, <2>1, <2>5
<1>5. 0..N \subseteq ok
  <2> HIDE DEF ok, N
  <2> QED
    BY <1>1, <1>3, <1>4, IntervalInduction
<1>6. front(N) = s \o new
  BY <1>1
<1> HIDE DEF front
<1>7. N \in 0..N
  BY <1>1
<1>8. Hand(front(N)) = Hand(s)
  <2> HIDE DEF N
  <2> QED
    BY <1>5, <1>7
<1> QED
  BY <1>6, <1>8

LEMMA KeptIs ==
  ASSUME NEW blocks \in Seq(Blocks), NEW specs \in Seq(Ruled), NEW j \in DOMAIN blocks
  PROVE  /\ Kept(blocks, j, specs) \in Seq(Blocks)
         /\ ~IsManaged(blocks[j]) => Kept(blocks, j, specs) = <<blocks[j]>>
         /\ IsManaged(blocks[j]) =>
              \/ Kept(blocks, j, specs) = <<>>
              \/ \E i \in DOMAIN specs : Kept(blocks, j, specs) = <<BlockOf(specs[i], TRUE)>>
<1> DEFINE match == Match(blocks, j, specs)
<1>0. blocks[j] \in Blocks /\ \A i \in DOMAIN specs : specs[i] \in Ruled
  OBVIOUS
<1>a. \A spec \in Ruled : BlockOf(spec, TRUE) \in Blocks
  BY BlockIs
<1>b. \A e \in Blocks : <<e>> \in Seq(Blocks)
  OBVIOUS
<1>1. blocks[j] \in Blocks /\ \A i \in DOMAIN specs : BlockOf(specs[i], TRUE) \in Blocks
  BY <1>0, <1>a
<1>2. match \subseteq DOMAIN specs
  BY DEF Match
<1>3. CASE ~IsManaged(blocks[j])
  <2>1. Kept(blocks, j, specs) = <<blocks[j]>>
    BY <1>3 DEF Kept
  <2>2. Kept(blocks, j, specs) \in Seq(Blocks)
    BY <1>1, <1>b, <2>1
  <2> QED
    BY <1>3, <2>1, <2>2
<1>4. CASE IsManaged(blocks[j]) /\ match = {}
  <2>1. Kept(blocks, j, specs) = <<>>
    BY <1>4 DEF Kept
  <2> QED
    BY <1>4, <2>1
<1>5. CASE IsManaged(blocks[j]) /\ match # {}
  <2> DEFINE i == CHOOSE h \in match : TRUE
  <2>1. i \in match
    BY <1>5
  <2>2. i \in DOMAIN specs
    BY <1>2, <2>1
  <2>3. Kept(blocks, j, specs) = <<BlockOf(specs[i], TRUE)>>
    BY <1>5 DEF Kept
  <2>4. <<BlockOf(specs[i], TRUE)>> \in Seq(Blocks)
    <3> HIDE DEF i
    <3> QED
      BY <1>1, <1>b, <2>2
  <2> HIDE DEF i, match
  <2> QED
    BY <1>5, <2>2, <2>3, <2>4
<1> QED
  BY <1>3, <1>4, <1>5

\* A ruleset of a converged table is a hand-made one or a spec's.
From(u, blocks, specs) ==
  \A k \in DOMAIN u :
    \/ \E j \in DOMAIN blocks : ~IsManaged(blocks[j]) /\ u[k] = blocks[j]
    \/ \E i \in DOMAIN specs : u[k].target = specs[i].target

LEMMA FoldedIs ==
  ASSUME NEW blocks \in Seq(Blocks), NEW specs \in Seq(Ruled),
         NEW F, F = FlattenSeq([j \in DOMAIN blocks |-> Kept(blocks, j, specs)])
  PROVE  F \in Seq(Blocks) /\ From(F, blocks, specs) /\ Hand(F) = Hand(blocks)
<1> DEFINE N == Len(blocks)
           ss == [j \in DOMAIN blocks |-> Kept(blocks, j, specs)]
           front(n) == [j \in 1..n |-> blocks[j]]
<1>1. N \in Nat /\ DOMAIN blocks = 1..N /\ \A j \in 1..N : blocks[j] \in Blocks
  OBVIOUS
<1>2. ss \in [1..N -> Seq(Blocks)] /\ \A j \in 1..N : ss[j] = Kept(blocks, j, specs)
  BY <1>1, KeptIs
<1>3. F = FlattenSeq(ss)
  OBVIOUS
<1> HIDE DEF ss
<1>4. ss \in Seq(Seq(Blocks)) /\ Len(ss) = N
  <2>1. N \in Nat /\ ss \in [1..N -> Seq(Blocks)]
    BY <1>1, <1>2
  <2> HIDE DEF N
  <2> QED
    BY <2>1
<1>5. PICK g : Flattening(ss, Blocks, g)
  BY <1>4, FlattenSteps
<1>6. /\ g \in [0..N -> Seq(Blocks)] /\ g[0] = <<>> /\ \A n \in 1..N : g[n] = g[n - 1] \o ss[n]
      /\ F = g[N]
  BY <1>3, <1>4, <1>5 DEF Flattening
<1> DEFINE ok == {n \in 0..N : From(g[n], blocks, specs) /\ Hand(g[n]) = Hand(front(n))}
<1>7. 0 \in ok
  <2>1. front(0) = <<>>
    OBVIOUS
  <2> HIDE DEF front
  <2> QED
    BY <1>1, <1>6, <2>1 DEF From
<1>8. ASSUME NEW n \in 0..(N - 1), n \in ok PROVE n + 1 \in ok
  <2> DEFINE b == blocks[n + 1]
             k == Kept(blocks, n + 1, specs)
  <2>1. n + 1 \in 1..N /\ n + 1 \in 0..N /\ n \in 0..N /\ (n + 1) - 1 = n /\ b \in Blocks
    BY <1>1
  <2>2. front(n) \in Seq(Blocks) /\ front(n + 1) = Append(front(n), b)
    <3>1. \A j \in 1..n : blocks[j] \in Blocks
      BY <1>1, <2>1
    <3>2. front(n) \in Seq(Blocks)
      BY <2>1, <3>1
    <3> QED
      BY <2>1, <3>2
  <2>3. g[n] \in Seq(Blocks) /\ g[n + 1] = g[n] \o k
    BY <1>2, <1>6, <2>1
  <2>4. From(g[n], blocks, specs) /\ Hand(g[n]) = Hand(front(n))
    BY <1>8
  <2>5. /\ k \in Seq(Blocks)
        /\ ~IsManaged(b) => k = <<b>>
        /\ IsManaged(b) => k = <<>> \/ \E i \in DOMAIN specs : k = <<BlockOf(specs[i], TRUE)>>
    BY <1>1, <2>1, KeptIs
  <2>6. Hand(front(n + 1)) = IF IsManaged(b) THEN Hand(front(n)) ELSE Append(Hand(front(n)), b)
    <3> HIDE DEF front, b
    <3> QED
      BY <2>1, <2>2, HandAppend
  <2> HIDE DEF front, k
  <2>a. \A u \in Seq(Blocks) : u \o <<>> = u /\ \A e \in Blocks : u \o <<e>> = Append(u, e)
    OBVIOUS
  <2>b. \A u \in Seq(Blocks) : \A e \in Blocks : \A x \in DOMAIN Append(u, e) :
          (x \in DOMAIN u /\ Append(u, e)[x] = u[x]) \/ Append(u, e)[x] = e
    OBVIOUS
  <2>7. CASE ~IsManaged(b)
    <3>1. g[n + 1] = Append(g[n], b)
      <4>1. b \in Blocks /\ g[n] \in Seq(Blocks) /\ g[n + 1] = g[n] \o k /\ k = <<b>>
        BY <2>1, <2>3, <2>5, <2>7
      <4> HIDE DEF b
      <4> QED
        BY <2>a, <4>1
    <3>2. Hand(g[n + 1]) = Append(Hand(g[n]), b)
      <4> HIDE DEF b
      <4> QED
        BY <2>1, <2>3, <2>7, <3>1, HandAppend
    <3>3. From(g[n + 1], blocks, specs)
      <4>1. \A x \in DOMAIN g[n + 1] :
              (x \in DOMAIN g[n] /\ g[n + 1][x] = g[n][x]) \/ g[n + 1][x] = b
        BY <2>1, <2>3, <2>b, <3>1
      <4>2. n + 1 \in DOMAIN blocks
        BY <1>1, <2>1
      <4> QED
        BY <2>4, <2>7, <4>1, <4>2 DEF From
    <3> QED
      BY <2>1, <2>4, <2>6, <2>7, <3>2, <3>3
  <2>8. CASE IsManaged(b) /\ k = <<>>
    BY <2>1, <2>3, <2>4, <2>6, <2>8, <2>a
  <2>9. CASE IsManaged(b) /\ \E i \in DOMAIN specs : k = <<BlockOf(specs[i], TRUE)>>
    <3>1. PICK i \in DOMAIN specs : k = <<BlockOf(specs[i], TRUE)>>
      BY <2>9
    <3> DEFINE e == BlockOf(specs[i], TRUE)
    <3>2. e \in Blocks /\ e.target = specs[i].target /\ IsManaged(e)
      <4>1. specs[i] \in Ruled
        OBVIOUS
      <4> QED
        BY <4>1, BlockIs
    <3>3. g[n + 1] = Append(g[n], e)
      BY <2>3, <2>a, <3>1, <3>2
    <3> HIDE DEF e
    <3>4. Hand(g[n + 1]) = Hand(g[n])
      BY <2>3, <3>2, <3>3, HandAppend
    <3>5. From(g[n + 1], blocks, specs)
      <4>1. \A x \in DOMAIN g[n + 1] :
              (x \in DOMAIN g[n] /\ g[n + 1][x] = g[n][x]) \/ g[n + 1][x] = e
        BY <2>3, <2>b, <3>2, <3>3
      <4> QED
        BY <2>4, <3>2, <4>1 DEF From
    <3> QED
      BY <2>1, <2>4, <2>6, <2>9, <3>4, <3>5
  <2> QED
    BY <2>5, <2>7, <2>8, <2>9
<1>9. 0..N \subseteq ok
  <2> HIDE DEF ok, N
  <2> QED
    BY <1>1, <1>7, <1>8, IntervalInduction
<1>10. front(N) = blocks
  BY <1>1
<1> HIDE DEF front
<1> QED
  BY <1>1, <1>6, <1>9, <1>10

\* Rulesets of a file, behind the others.
LEMMA AppendedIs ==
  ASSUME NEW s \in Seq(Blocks), NEW specs \in Seq(Ruled), NEW managed \in BOOLEAN
  PROVE  /\ Appended(s, specs, managed) \in Seq(Blocks)
         /\ \A k \in DOMAIN Appended(s, specs, managed) :
              \/ \E j \in DOMAIN s : Appended(s, specs, managed)[k] = s[j]
              \/ \E i \in DOMAIN specs : Appended(s, specs, managed)[k].target = specs[i].target
         /\ managed => Hand(Appended(s, specs, managed)) = Hand(s)
<1> DEFINE new == [i \in DOMAIN specs |-> BlockOf(specs[i], managed)]
           N == Len(specs)
<1>1. N \in Nat /\ DOMAIN specs = 1..N /\ \A i \in 1..N : specs[i] \in Ruled
  OBVIOUS
<1>2. new \in [1..N -> Blocks]
  BY <1>1, BlockIs
<1>3. \A i \in 1..N : new[i].target = specs[i].target /\ (managed => IsManaged(new[i]))
  BY <1>1, BlockIs
<1>4. Appended(s, specs, managed) = s \o new
  BY DEF Appended
<1> HIDE DEF new
<1>5. new \in Seq(Blocks) /\ DOMAIN new = 1..N
  BY <1>1, <1>2
<1>6. s \o new \in Seq(Blocks)
  BY <1>5
<1>7. \A k \in DOMAIN (s \o new) :
        \/ \E j \in DOMAIN s : (s \o new)[k] = s[j]
        \/ \E i \in DOMAIN new : (s \o new)[k] = new[i]
  BY <1>5
<1>8. managed => Hand(s \o new) = Hand(s)
  BY <1>3, <1>5, HandSkips
<1>9. \A k \in DOMAIN (s \o new) :
        \/ \E j \in DOMAIN s : (s \o new)[k] = s[j]
        \/ \E i \in DOMAIN specs : (s \o new)[k].target = specs[i].target
  <2> DEFINE u == s \o new
  <2>1. \A k \in DOMAIN u : (\E j \in DOMAIN s : u[k] = s[j]) \/ (\E i \in DOMAIN new : u[k] = new[i])
    BY <1>7
  <2> HIDE DEF u
  <2>2. \A k \in DOMAIN u :
          (\E j \in DOMAIN s : u[k] = s[j]) \/ (\E i \in DOMAIN specs : u[k].target = specs[i].target)
    BY <1>1, <1>3, <1>5, <2>1
  <2> QED
    BY <2>2 DEF u
<1> QED
  BY <1>4, <1>6, <1>8, <1>9

LEMMA ConvergedIs ==
  ASSUME NEW blocks \in Seq(Blocks), NEW specs \in Seq(Ruled)
  PROVE  /\ Converged(blocks, specs) \in Seq(Blocks)
         /\ From(Converged(blocks, specs), blocks, specs)
         /\ Hand(Converged(blocks, specs)) = Hand(blocks)
<1> DEFINE F == FlattenSeq([j \in DOMAIN blocks |-> Kept(blocks, j, specs)])
           claimed == UNION {Match(blocks, j, specs) : j \in DOMAIN blocks}
           new == ChosenAt(specs, DOMAIN specs \ claimed)
           u == Appended(F, new, TRUE)
<1>1. F \in Seq(Blocks) /\ From(F, blocks, specs) /\ Hand(F) = Hand(blocks)
  BY FoldedIs
<1>2. new \in Seq(Ruled) /\ \A i \in DOMAIN new : \E h \in DOMAIN specs : new[i] = specs[h]
  <2> DEFINE at == DOMAIN specs \ claimed
  <2> HIDE DEF at
  <2>1. /\ ChosenAt(specs, at) \in Seq(Ruled)
        /\ \A k \in DOMAIN ChosenAt(specs, at) : \E i \in at \cap DOMAIN specs : ChosenAt(specs, at)[k] = specs[i]
    BY ChosenIs
  <2>2. new = ChosenAt(specs, at)
    BY DEF at
  <2> HIDE DEF new
  <2> QED
    BY <2>1, <2>2
<1>3. Converged(blocks, specs) = u
  BY DEF Converged
<1> HIDE DEF F, new
<1>4. /\ u \in Seq(Blocks) /\ Hand(u) = Hand(F)
      /\ \A k \in DOMAIN u : (\E j \in DOMAIN F : u[k] = F[j]) \/ (\E i \in DOMAIN new : u[k].target = new[i].target)
  BY <1>1, <1>2, AppendedIs
<1> HIDE DEF u
<1>5. From(u, blocks, specs)
  <2>1. \A k \in DOMAIN u : (\E j \in DOMAIN F : u[k] = F[j]) \/ (\E h \in DOMAIN specs : u[k].target = specs[h].target)
    BY <1>2, <1>4
  <2> QED
    BY <1>1, <2>1 DEF From
<1> QED
  BY <1>1, <1>3, <1>4, <1>5
---------------------------------------------------------------------------
(* The other steps of an apply *)

LEMMA SetRules ==
  ASSUME NEW t \in Setups, NEW rules \in Seq(Blocks), NEW u, u = [t EXCEPT !.rules = rules]
  PROVE  /\ u \in Setups /\ u.rules = rules
         /\ u.chan = t.chan /\ u.router = t.router /\ u.refused = t.refused
BY DEF Setups

LEMMA ToggledIs ==
  ASSUME NEW t \in Setups, NEW b \in Files, NEW sync \in BOOLEAN, NEW u, u = Toggled(t, b, sync)
  PROVE  /\ u \in Setups
         /\ ~u.refused => /\ ~t.refused /\ u.chan = t.chan /\ u.rules = t.rules
                          /\ Apart(t) => Apart(u)
<1> DEFINE port == IF b.port # 0 THEN b.port ELSE t.router.port
           explicit == b.port # 0 \/ (~sync /\ t.router.explicit)
           kill == IF b.kill = "unstated" THEN t.router.kill ELSE b.kill = "yes"
           r == [port |-> port, explicit |-> explicit, kill |-> kill]
           v == [t EXCEPT !.router = r]
<1>1. b.port \in Nat /\ t.router.port \in Nat /\ t.router.explicit \in BOOLEAN /\ t.router.kill \in BOOLEAN
  BY FileParts, SetupParts DEF Entrypoints
<1>2. port \in Nat
  BY <1>1
<1>3. explicit \in BOOLEAN
  BY Zenon
<1>4. kill \in BOOLEAN
  BY <1>1, Zenon
<1>5. u = IF b.port # 0 /\ b.port \in UsedBy(t, {"router"}) THEN Refuse(t) ELSE v
  BY DEF Toggled
<1> HIDE DEF explicit, kill
<1>6. r \in Entrypoints /\ r.port = port
  BY <1>2, <1>3, <1>4 DEF Entrypoints
<1> HIDE DEF r
<1>7. v \in Setups /\ v.router = r /\ v.chan = t.chan /\ v.rules = t.rules /\ v.refused = t.refused
  BY <1>6 DEF Setups
<1> HIDE DEF v
<1>8. CASE b.port # 0 /\ b.port \in UsedBy(t, {"router"})
  BY <1>5, <1>8, Refused
<1>9. CASE ~(b.port # 0 /\ b.port \in UsedBy(t, {"router"}))
  <2>1. \A c \in Refs : b.port # 0 => t.chan[c].port # b.port
    BY <1>9, BundleAssumption DEF UsedBy
  <2>2. Apart(t) => Apart(v)
    BY <1>6, <1>7, <2>1 DEF Apart
  <2> QED
    BY <1>5, <1>7, <1>9, <2>2
<1> QED
  BY <1>8, <1>9

LEMMA CheckedIs ==
  ASSUME NEW t \in Setups, NEW b, NEW disabling, NEW u, u = Checked(t, b, disabling)
  PROVE  /\ u \in Setups
         /\ ~u.refused => /\ u = t /\ disabling \cap Targeted(t.rules) = {}
                          /\ \A i \in DOMAIN b.rulesets : UsableIn(t, b.rulesets[i].target)
<1> DEFINE bad == \/ \E i \in DOMAIN b.rulesets : ~UsableIn(t, b.rulesets[i].target)
                  \/ disabling \cap Targeted(t.rules) # {}
<1>1. u = IF bad THEN Refuse(t) ELSE t
  BY DEF Checked
<1>2. CASE bad
  <2>1. u = Refuse(t)
    BY <1>1, <1>2
  <2> QED
    BY <2>1, Refused
<1>3. CASE ~bad
  BY <1>1, <1>3
<1> QED
  BY <1>2, <1>3

LEMMA PrunedIs ==
  ASSUME NEW t \in Setups, NEW b, NEW u, u = Pruned(t, b)
  PROVE  /\ u \in Setups /\ u.rules = t.rules /\ u.router = t.router /\ u.refused = t.refused
         /\ Apart(t) => Apart(u)
         /\ \A c \in Refs : ~t.chan[c].managed \/ c \in BundleRefs(b) \cup Targeted(t.rules) =>
              u.chan[c] = t.chan[c]
<1> DEFINE chan == [c \in Refs |->
                      IF t.chan[c].managed /\ c \notin BundleRefs(b) \cup Targeted(t.rules)
                      THEN Absent ELSE t.chan[c]]
<1>1. t.chan \in [Refs -> Entries]
  BY SetupParts
<1>2. /\ chan \in [Refs -> Entries]
      /\ \A c \in Refs : chan[c] = Absent \/ chan[c] = t.chan[c]
      /\ \A c \in Refs : ~t.chan[c].managed \/ c \in BundleRefs(b) \cup Targeted(t.rules) =>
           chan[c] = t.chan[c]
  BY <1>1, AbsentType
<1>3. u = [t EXCEPT !.chan = chan]
  BY DEF Pruned
<1> HIDE DEF chan
<1>4. u \in Setups /\ u.chan = chan /\ u.rules = t.rules /\ u.router = t.router /\ u.refused = t.refused
  BY <1>2, <1>3 DEF Setups
<1>5. ASSUME Apart(t) PROVE Apart(u)
  <2>1. \A c \in Refs : u.chan[c].there => u.chan[c] = t.chan[c]
    BY <1>2, <1>4 DEF Absent
  <2>2. \A c \in Refs : u.chan[c].port = 0 \/ u.chan[c].port = t.chan[c].port
    BY <1>2, <1>4 DEF Absent
  <2>3. \A c \in Refs : u.chan[c] = t.chan[c] \/ (~u.chan[c].on /\ u.chan[c].port = 0)
    BY <1>2, <1>4 DEF Absent
  <2> QED
    BY <1>4, <1>5, <2>1, <2>2, <2>3 DEF Apart
<1> QED
  BY <1>2, <1>4, <1>5

LEMMA ProvidedIs ==
  ASSUME NEW t \in Setups, NEW b, NEW u, u = Provided(t, b)
  PROVE  /\ u \in Setups /\ u.chan = t.chan /\ u.rules = t.rules /\ u.router = t.router
         /\ u.refused = t.refused
<1> DEFINE prov == CASE b.channels # <<>> /\ t.prov = "absent" -> "managed"
                     [] b.channels = <<>> /\ t.prov = "managed" /\ Present(t) = {} -> "absent"
                     [] OTHER -> t.prov
<1>1. u = [t EXCEPT !.prov = prov]
  BY DEF Provided
<1>2. prov \in {"absent", "hand", "managed"}
  BY SetupParts
<1> HIDE DEF prov
<1> QED
  BY <1>1, <1>2 DEF Setups

\* A target that was usable, and that the file does not disable, stays so.
LEMMA StaysUsable ==
  ASSUME NEW t \in Setups, NEW u \in Setups, NEW b, NEW target, UsableIn(t, target),
         target \notin Disabling(t, b),
         \A c \in Refs \ DisabledIn(b) : t.chan[c].on => u.chan[c].on
  PROVE  UsableIn(u, target)
BY DEF UsableIn, Disabling

LEMMA DisabledAreRefs ==
  ASSUME NEW b \in Files
  PROVE  DisabledIn(b) \subseteq BundleRefs(b)
BY DEF DisabledIn, BundleRefs
---------------------------------------------------------------------------
(* Import and sync *)

LEMMA MergedIs ==
  ASSUME NEW t \in Setups, Usable(t), Apart(t), NEW b \in Files, NEW u, u = Merged(t, b)
  PROVE  u \in Setups /\ (~u.refused => Usable(u) /\ Apart(u))
<1> DEFINE prov == IF t.prov = "absent" THEN "hand" ELSE t.prov
           t0 == [t EXCEPT !.prov = prov]
           up == Upserted(t0, b, FALSE)
           ch == Checked(up, b, Disabling(t, b))
           rules == Appended(ch.rules, b.rulesets, FALSE)
           with == [ch EXCEPT !.rules = rules]
<1>1. u = IF ch.refused THEN ch ELSE Toggled(with, b, FALSE)
  BY DEF Merged
<1>2. prov \in {"absent", "hand", "managed"}
  BY SetupParts
<1> HIDE DEF prov
<1>3. t0 \in Setups /\ t0.chan = t.chan /\ t0.rules = t.rules /\ t0.router = t.router
  BY <1>2 DEF Setups
<1> HIDE DEF t0
<1>4. Apart(t0)
  BY <1>3 DEF Apart
<1>5. up \in Setups /\ Carried(t0, up, b)
  BY <1>3, UpsertedIs
<1> HIDE DEF up
<1>6. /\ ch \in Setups
      /\ ~ch.refused => /\ ch = up /\ Disabling(t, b) \cap Targeted(up.rules) = {}
                        /\ \A i \in DOMAIN b.rulesets : UsableIn(up, b.rulesets[i].target)
  BY <1>5, CheckedIs
<1> HIDE DEF ch
<1>7. CASE ch.refused
  BY <1>1, <1>6, <1>7
<1>8. CASE ~ch.refused
  <2>1. /\ up.rules = t.rules /\ Apart(up)
        /\ \A c \in Refs \ DisabledIn(b) : t.chan[c].on => up.chan[c].on
    BY <1>3, <1>4, <1>5, <1>6, <1>8 DEF Carried
  <2>2. ch = up /\ \A i \in DOMAIN b.rulesets : UsableIn(up, b.rulesets[i].target)
    BY <1>6, <1>8
  <2>3. \A j \in DOMAIN ch.rules : UsableIn(up, ch.rules[j].target)
    <3> SUFFICES ASSUME NEW j \in DOMAIN t.rules PROVE UsableIn(up, t.rules[j].target)
      BY <2>1, <2>2
    <3>1. t.rules[j].target \notin Disabling(t, b)
      BY <1>6, <1>8, <2>1 DEF Targeted
    <3>2. UsableIn(t, t.rules[j].target)
      BY DEF Usable
    <3> QED
      BY <1>5, <2>1, <3>1, <3>2, StaysUsable
  <2>4. ch.rules \in Seq(Blocks) /\ b.rulesets \in Seq(Ruled)
    BY <1>6, SetupParts, FileParts
  <2>5. /\ rules \in Seq(Blocks)
        /\ \A k \in DOMAIN rules : \/ \E j \in DOMAIN ch.rules : rules[k] = ch.rules[j]
                                   \/ \E i \in DOMAIN b.rulesets : rules[k].target = b.rulesets[i].target
    BY <2>4, AppendedIs
  <2> HIDE DEF rules
  <2>6. \A k \in DOMAIN rules : UsableIn(up, rules[k].target)
    BY <2>2, <2>3, <2>5
  <2>7. with \in Setups /\ with.rules = rules /\ with.chan = ch.chan /\ with.router = ch.router
    BY <1>6, <2>5, SetRules
  <2> HIDE DEF with
  <2>8. Usable(with) /\ Apart(with)
    BY <2>1, <2>2, <2>6, <2>7 DEF Usable, UsableIn, Apart
  <2>9. u = Toggled(with, b, FALSE)
    BY <1>1, <1>8
  <2>10. u \in Setups /\ (~u.refused => u.chan = with.chan /\ u.rules = with.rules /\ Apart(u))
    BY <2>7, <2>8, <2>9, ToggledIs
  <2> QED
    BY <2>8, <2>10 DEF Usable, UsableIn
<1> QED
  BY <1>7, <1>8

\* What people made, in a setup and after a sync.
HandKept(t, u, b) ==
  /\ \A c \in Refs \ BundleRefs(b) : ~t.chan[c].managed => u.chan[c] = t.chan[c]
  /\ \A i \in DOMAIN b.channels :
       LET spec == b.channels[i] IN
       t.chan[spec.ref].there /\ spec.on = "unstated" => u.chan[spec.ref].on = t.chan[spec.ref].on
  /\ Hand(u.rules) = Hand(t.rules)

LEMMA SyncedIs ==
  ASSUME NEW t \in Setups, Usable(t), Apart(t), NEW b \in Files, NEW u, u = Synced(t, b)
  PROVE  u \in Setups /\ (~u.refused => Usable(u) /\ Apart(u) /\ HandKept(t, u, b))
<1> DEFINE rules == Converged(t.rules, b.rulesets)
           conv == [t EXCEPT !.rules = rules]
           pr == Pruned(conv, b)
           pv == Provided(pr, b)
           up == Upserted(pv, b, TRUE)
           ch == Checked(up, b, Disabling(t, b))
<1>1. u = IF ch.refused THEN ch ELSE Toggled(ch, b, TRUE)
  BY DEF Synced
<1>0. /\ t.rules \in Seq(Blocks) /\ b.rulesets \in Seq(Ruled)
      /\ \A i \in DOMAIN b.channels : b.channels[i].ref \in Refs
  BY SetupParts, FileParts
<1>2. rules \in Seq(Blocks) /\ From(rules, t.rules, b.rulesets) /\ Hand(rules) = Hand(t.rules)
  BY <1>0, ConvergedIs
<1> HIDE DEF rules
<1>3. conv \in Setups /\ conv.rules = rules /\ conv.chan = t.chan /\ conv.router = t.router
  BY <1>2, SetRules
<1> HIDE DEF conv
<1>4. /\ pr \in Setups /\ pr.rules = rules
      /\ Apart(conv) => Apart(pr)
      /\ \A c \in Refs : ~t.chan[c].managed \/ c \in BundleRefs(b) \cup Targeted(rules) =>
           pr.chan[c] = t.chan[c]
  BY <1>3, PrunedIs
<1> HIDE DEF pr
<1>5. pv \in Setups /\ pv.chan = pr.chan /\ pv.rules = rules /\ pv.router = pr.router
  BY <1>4, ProvidedIs
<1> HIDE DEF pv
<1>6. Apart(pv)
  BY <1>3, <1>4, <1>5 DEF Apart
<1>7. up \in Setups /\ Carried(pv, up, b)
  BY <1>5, UpsertedIs
<1> HIDE DEF up
<1>8. /\ ch \in Setups
      /\ ~ch.refused => /\ ch = up /\ Disabling(t, b) \cap Targeted(up.rules) = {}
                        /\ \A i \in DOMAIN b.rulesets : UsableIn(up, b.rulesets[i].target)
  BY <1>7, CheckedIs
<1> HIDE DEF ch
<1>9. CASE ch.refused
  BY <1>1, <1>8, <1>9
<1>10. CASE ~ch.refused
  <2>1. /\ up.rules = rules /\ Apart(up)
        /\ \A c \in Refs \ BundleRefs(b) : up.chan[c] = pv.chan[c]
        /\ \A c \in Refs \ DisabledIn(b) : pv.chan[c].on => up.chan[c].on
        /\ \A i \in DOMAIN b.channels :
             b.channels[i].on = "unstated" /\ pv.chan[b.channels[i].ref].there =>
               up.chan[b.channels[i].ref].on = pv.chan[b.channels[i].ref].on
    BY <1>5, <1>6, <1>7, <1>8, <1>10 DEF Carried
  <2>2. /\ ch = up /\ \A i \in DOMAIN b.rulesets : UsableIn(up, b.rulesets[i].target)
        /\ Disabling(t, b) \cap Targeted(rules) = {}
    BY <1>8, <1>10, <2>1
  <2>3. ASSUME NEW k \in DOMAIN rules PROVE UsableIn(up, rules[k].target)
    <3>1. CASE \E i \in DOMAIN b.rulesets : rules[k].target = b.rulesets[i].target
      BY <2>2, <3>1
    <3>2. CASE \E j \in DOMAIN t.rules : rules[k] = t.rules[j]
      <4> DEFINE c == rules[k].target
      <4>1. c \in Targeted(rules) /\ c \notin Disabling(t, b)
        BY <2>2 DEF Targeted
      <4>2. UsableIn(t, c)
        BY <3>2 DEF Usable
      <4> HIDE DEF c
      <4>3. c \in Refs => c \notin DisabledIn(b) /\ pv.chan[c].on
        BY <1>4, <1>5, <4>1, <4>2 DEF UsableIn, Disabling
      <4>4. UsableIn(up, c)
        BY <2>1, <4>3 DEF UsableIn
      <4> QED
        BY <4>4 DEF c
    <3> QED
      BY <1>2, <3>1, <3>2 DEF From
  <2>4. Usable(up)
    BY <2>1, <2>3 DEF Usable
  <2>5. u = Toggled(up, b, TRUE)
    BY <1>1, <1>10, <2>2
  <2>a. /\ u \in Setups
        /\ ~u.refused => /\ ~up.refused /\ u.chan = up.chan /\ u.rules = up.rules
                         /\ Apart(up) => Apart(u)
    BY <1>7, <2>5, ToggledIs
  <2>6. u \in Setups /\ (~u.refused => u.chan = up.chan /\ u.rules = up.rules /\ Apart(u))
    BY <2>1, <2>a
  <2>7. \A c \in Refs \ BundleRefs(b) : ~t.chan[c].managed => up.chan[c] = t.chan[c]
    BY <1>4, <1>5, <2>1
  <2>8. ASSUME NEW i \in DOMAIN b.channels, t.chan[b.channels[i].ref].there, b.channels[i].on = "unstated"
        PROVE  up.chan[b.channels[i].ref].on = t.chan[b.channels[i].ref].on
    <3>1. b.channels[i].ref \in Refs /\ b.channels[i].ref \in BundleRefs(b)
      BY <1>0 DEF BundleRefs
    <3>2. pv.chan[b.channels[i].ref] = t.chan[b.channels[i].ref]
      BY <1>4, <1>5, <3>1
    <3> QED
      BY <2>1, <2>8, <3>2
  <2>9. HandKept(t, up, b)
    BY <1>2, <2>1, <2>7, <2>8 DEF HandKept
  <2> QED
    BY <2>4, <2>6, <2>9 DEF Usable, UsableIn, HandKept
<1> QED
  BY <1>9, <1>10
---------------------------------------------------------------------------
(* Restore *)

\* Ports that are given out already, the others still 0.
PortsDiffer(t) ==
  \A c \in Refs : t.chan[c].port # 0 =>
    t.chan[c].port # t.router.port /\ \A d \in Refs \ {c} : t.chan[d].port # t.chan[c].port

\* What giving out a port leaves as it was.
Filling(t, u) ==
  ~u.refused =>
    /\ ~t.refused /\ u.rules = t.rules /\ u.router = t.router
    /\ PortsDiffer(t) => PortsDiffer(u)
    /\ \A c \in Refs : /\ u.chan[c].there = t.chan[c].there /\ u.chan[c].on = t.chan[c].on
                       /\ u.chan[c].place = t.chan[c].place /\ u.chan[c].wg = t.chan[c].wg
                       /\ t.chan[c].port # 0 => u.chan[c].port = t.chan[c].port

LEMMA FilledIs ==
  ASSUME NEW t \in Setups, NEW spec \in Listed, NEW u, u = Filled(t, spec)
  PROVE  /\ u \in Setups /\ Filling(t, u)
         /\ ~u.refused => /\ u.chan[spec.ref].port # 0
                          /\ \A d \in Refs \ {spec.ref} : u.chan[d] = t.chan[d]
         /\ ~t.refused /\ u.refused => t.chan[spec.ref].port = 0 /\ FreePorts(t) = {}
<1> DEFINE c == spec.ref
           port == Min(FreePorts(t))
           e == [t.chan[c] EXCEPT !.port = port]
           v == WithEntry(t, c, e)
<1>1. c \in Refs /\ t.chan \in [Refs -> Entries] /\ t.chan[c] \in Entries
  BY SetupParts DEF Listed
<1>2. u = IF t.refused \/ t.chan[c].port # 0 THEN t
          ELSE IF FreePorts(t) = {} THEN Refuse(t) ELSE v
  BY <1>1, SetupParts DEF Filled, WithEntry, Setups
<1>3. CASE t.refused \/ t.chan[c].port # 0
  BY <1>2, <1>3 DEF Filling
<1>4. CASE ~(t.refused \/ t.chan[c].port # 0) /\ FreePorts(t) = {}
  <2>1. u = Refuse(t)
    BY <1>2, <1>4
  <2> QED
    BY <1>4, <2>1, Refused DEF Filling
<1>5. CASE ~(t.refused \/ t.chan[c].port # 0) /\ FreePorts(t) # {}
  <2>1. /\ port \in Nat /\ port # 0 /\ port # t.router.port
        /\ \A d \in Refs : t.chan[d].port # port
    BY <1>5, FreeIs
  <2> HIDE DEF port
  <2>2. /\ e \in Entries /\ e.port = port /\ e.there = t.chan[c].there /\ e.on = t.chan[c].on
        /\ e.place = t.chan[c].place /\ e.wg = t.chan[c].wg
    BY <1>1, <2>1 DEF Entries
  <2> HIDE DEF e
  <2>3. /\ v \in Setups /\ v.rules = t.rules /\ v.router = t.router /\ v.refused = t.refused
        /\ v.chan[c] = e /\ \A d \in Refs \ {c} : v.chan[d] = t.chan[d]
    <3>1. v = WithEntry(t, c, e)
      OBVIOUS
    <3>2. c \in Refs /\ e \in Entries
      BY <1>1, <2>2
    <3> HIDE DEF v, c
    <3> QED
      BY <3>1, <3>2, SetEntry
  <2>4. u = v
    BY <1>2, <1>5
  <2> HIDE DEF v, c
  <2>5. \A d \in Refs : /\ v.chan[d].there = t.chan[d].there /\ v.chan[d].on = t.chan[d].on
                        /\ v.chan[d].place = t.chan[d].place /\ v.chan[d].wg = t.chan[d].wg
                        /\ v.chan[d].port = IF d = c THEN port ELSE t.chan[d].port
    BY <2>2, <2>3
  <2>6. PortsDiffer(t) => PortsDiffer(v)
    BY <1>1, <2>1, <2>3, <2>5 DEF PortsDiffer
  <2>7. Filling(t, v)
    BY <1>5, <2>3, <2>5, <2>6 DEF Filling
  <2> QED
    BY <1>1, <1>5, <2>1, <2>3, <2>4, <2>5, <2>7 DEF c
<1> QED
  BY <1>3, <1>4, <1>5

LEMMA FillingIsTransitive ==
  ASSUME NEW t, NEW u, NEW v, Filling(t, u), Filling(u, v)
  PROVE  Filling(t, v)
BY DEF Filling

\* The ports are given out in the order of the file.
Fills(t, b, a) ==
  /\ a \in [0..Len(b.channels) -> Setups] /\ a[0] = t
  /\ \A n \in 1..Len(b.channels) : a[n] = Filled(a[n - 1], b.channels[n])

LEMMA FillsExist ==
  ASSUME NEW t \in Setups, NEW b \in Plans
  PROVE  \E a : /\ Fills(t, b, a)
                /\ LET f[i \in 0..Len(b.channels)] == IF i = 0 THEN t ELSE Filled(f[i - 1], b.channels[i])
                   IN  f[Len(b.channels)] = a[Len(b.channels)]
<1> DEFINE N == Len(b.channels)
           step == [n \in 1..N |-> [s \in Setups |-> Filled(s, b.channels[n])]]
<1>1. N \in Nat /\ \A n \in 1..N : b.channels[n] \in Listed
  BY PlanParts
<1>2. \A n \in 1..N : \A s \in Setups : Filled(s, b.channels[n]) \in Setups
  <2> HIDE DEF N
  <2> QED
    BY <1>1, FilledIs
<1>3. step \in [1..N -> [Setups -> Setups]]
  BY <1>2
<1>4. \E f : Iterated(f, N, Setups, t, step)
  <2> HIDE DEF N, step
  <2> QED
    BY <1>1, <1>3, IterationExists
<1>5. PICK a : Iterated(a, N, Setups, t, step)
  BY <1>4
<1>6. a \in [0..N -> Setups] /\ a[0] = t /\ \A n \in 1..N : a[n] = Filled(a[n - 1], b.channels[n])
  <2>1. \A n \in 1..N : n - 1 \in 0..N
    BY <1>1
  <2>2. a \in [0..N -> Setups] /\ a[0] = t /\ \A n \in 1..N : a[n] = step[n][a[n - 1]]
    BY <1>5 DEF Iterated
  <2>3. \A n \in 1..N : \A s \in Setups : step[n][s] = Filled(s, b.channels[n])
    OBVIOUS
  <2> HIDE DEF step, N
  <2> QED
    BY <2>1, <2>2, <2>3
<1> HIDE DEF step
<1> DEFINE Steps(f) ==
             f = [i \in 0..Len(b.channels) |->
                    IF i = 0 THEN t ELSE Filled(f[i - 1], b.channels[i])]
           h == CHOOSE f : Steps(f)
<1>7. Steps(a)
  <2>1. \A i \in 0..N : a[i] = IF i = 0 THEN t ELSE Filled(a[i - 1], b.channels[i])
    <3>1. \A i \in 0..N : i = 0 \/ i \in 1..N
      BY <1>1
    <3> HIDE DEF N
    <3> QED
      BY <1>6, <3>1
  <2> QED
    BY <1>6, <2>1
<1>8. Steps(h)
  BY <1>7
<1> DEFINE ok == {n \in 0..N : h[n] = a[n]}
<1>9. \A i \in 0..N : h[i] = IF i = 0 THEN t ELSE Filled(h[i - 1], b.channels[i])
  <2> HIDE DEF h
  <2> QED
    BY <1>8
<1> HIDE DEF h, Steps
<1>10. 0 \in ok
  BY <1>1, <1>6, <1>9
<1>11. ASSUME NEW n \in 0..(N - 1), n \in ok PROVE n + 1 \in ok
  <2>1. n + 1 \in 1..N /\ n + 1 \in 0..N /\ (n + 1) - 1 = n /\ n + 1 # 0
    BY <1>1
  <2>2. h[n + 1] = Filled(h[n], b.channels[n + 1])
    BY <1>9, <2>1
  <2>3. a[n + 1] = Filled(a[n], b.channels[n + 1])
    BY <1>6, <2>1
  <2> QED
    BY <1>11, <2>1, <2>2, <2>3
<1>12. 0..N \subseteq ok
  <2> HIDE DEF ok, N
  <2> QED
    BY <1>1, <1>10, <1>11, IntervalInduction
<1>13. h[N] = a[N]
  BY <1>1, <1>12
<1>14. Fills(t, b, a)
  BY <1>6 DEF Fills
<1> QED
  BY <1>13, <1>14 DEF h, Steps

\* In the end every channel of the file has a port, and nobody else's.
LEMMA FillsGive ==
  ASSUME NEW t \in Setups, NEW b \in Plans, NEW a, Fills(t, b, a)
  PROVE  /\ \A n \in 0..Len(b.channels) : a[n] \in Setups /\ Filling(t, a[n])
         /\ LET u == a[Len(b.channels)] IN
            ~u.refused => /\ \A c \in BundleRefs(b) : u.chan[c].port # 0
                          /\ \A c \in Refs \ BundleRefs(b) : u.chan[c] = t.chan[c]
<1> DEFINE N == Len(b.channels)
           Given(n) ==
             ~a[n].refused => /\ \A i \in 1..n : a[n].chan[b.channels[i].ref].port # 0
                              /\ \A c \in Refs \ BundleRefs(b) : a[n].chan[c] = t.chan[c]
           ok == {n \in 0..N : Filling(t, a[n]) /\ Given(n)}
<1>1. /\ N \in Nat /\ DOMAIN b.channels = 1..N
      /\ \A n \in 1..N : b.channels[n] \in Listed /\ b.channels[n].ref \in Refs
  BY PlanParts
<1>2. a \in [0..N -> Setups] /\ a[0] = t /\ \A n \in 1..N : a[n] = Filled(a[n - 1], b.channels[n])
  BY DEF Fills
<1>3. 0 \in ok
  BY <1>1, <1>2 DEF Filling
<1>4. ASSUME NEW n \in 0..(N - 1), n \in ok PROVE n + 1 \in ok
  <2>1. n + 1 \in 1..N /\ n + 1 \in 0..N /\ (n + 1) - 1 = n /\ n \in 0..N
    BY <1>1
  <2>2. a[n] \in Setups /\ a[n + 1] = Filled(a[n], b.channels[n + 1]) /\ b.channels[n + 1] \in Listed
    BY <1>1, <1>2, <2>1
  <2>3. /\ Filling(a[n], a[n + 1])
        /\ ~a[n + 1].refused => /\ a[n + 1].chan[b.channels[n + 1].ref].port # 0
                                /\ \A d \in Refs \ {b.channels[n + 1].ref} : a[n + 1].chan[d] = a[n].chan[d]
    BY <2>2, FilledIs
  <2>4. Filling(t, a[n + 1])
    BY <1>4, <2>3, FillingIsTransitive
  <2>5. ASSUME ~a[n + 1].refused, NEW i \in 1..(n + 1)
        PROVE  a[n + 1].chan[b.channels[i].ref].port # 0
    <3>1. CASE i = n + 1
      BY <2>3, <2>5, <3>1
    <3>2. CASE i # n + 1
      <4>1. i \in 1..n /\ i \in 1..N
        BY <2>1, <3>2
      <4>2. ~a[n].refused /\ b.channels[i].ref \in Refs
        BY <1>1, <2>3, <2>5, <4>1 DEF Filling
      <4>3. a[n].chan[b.channels[i].ref].port # 0
        BY <1>4, <4>1, <4>2
      <4> QED
        BY <2>3, <2>5, <4>2, <4>3 DEF Filling
    <3> QED
      BY <3>1, <3>2
  <2>6. ASSUME ~a[n + 1].refused, NEW c \in Refs \ BundleRefs(b)
        PROVE  a[n + 1].chan[c] = t.chan[c]
    <3>1. ~a[n].refused
      BY <2>3, <2>6 DEF Filling
    <3>2. c # b.channels[n + 1].ref
      BY <1>1, <2>1 DEF BundleRefs
    <3> QED
      BY <1>4, <2>3, <2>6, <3>1, <3>2
  <2> QED
    BY <2>1, <2>4, <2>5, <2>6
<1>5. 0..N \subseteq ok
  <2> HIDE DEF ok, N
  <2> QED
    BY <1>1, <1>3, <1>4, IntervalInduction
<1>6. N \in 0..N
  BY <1>1
<1>7. Given(N) /\ \A n \in 0..N : a[n] \in Setups /\ Filling(t, a[n])
  BY <1>2, <1>5, <1>6
<1> HIDE DEF N
<1>8. ASSUME ~a[N].refused, NEW c \in BundleRefs(b) PROVE a[N].chan[c].port # 0
  <2>1. PICK i \in 1..N : c = b.channels[i].ref
    BY <1>1 DEF BundleRefs
  <2> QED
    BY <1>7, <1>8, <2>1
<1> QED
  BY <1>7, <1>8 DEF N

\* Room for as many ports as there are channels.
Room == IsFiniteSet(Refs) /\ IsFiniteSet(PortSet) /\ Cardinality(Refs) <= Cardinality(PortSet)

\* While a channel waits for its port and the router has none, a port is free.
LEMMA RoomIsLeft ==
  ASSUME Room, NEW t \in Setups, t.router.port = 0, NEW c \in Refs, t.chan[c].port = 0
  PROVE  FreePorts(t) # {}
<1> SUFFICES ASSUME FreePorts(t) = {} PROVE FALSE
  OBVIOUS
<1> DEFINE S == Refs \ {c}
           f == [port \in PortSet |-> CHOOSE d \in S : t.chan[d].port = port]
<1>1. \A port \in PortSet : \E d \in S : t.chan[d].port = port
  BY BundleAssumption DEF FreePorts, UsedBy
<1>2. f \in [PortSet -> S] /\ \A port \in PortSet : t.chan[f[port]].port = port
  BY <1>1
<1>3. IsFiniteSet(S) /\ Cardinality(S) = Cardinality(Refs) - 1
  BY FS_RemoveElement DEF Room
<1>4. Cardinality(S) < Cardinality(PortSet)
  BY <1>3, FS_CardinalityType DEF Room
<1> HIDE DEF f, S
<1>5. \E port, other \in PortSet : port # other /\ f[port] = f[other]
  BY <1>2, <1>3, <1>4, FS_PigeonHole DEF Room
<1> QED
  BY <1>2, <1>5

\* So giving out ports is never refused, nor where everybody has one already.
LEMMA FillsFit ==
  ASSUME NEW t \in Setups, ~t.refused, NEW b \in Plans, NEW a, Fills(t, b, a),
         (Room /\ t.router.port = 0) \/ \A c \in BundleRefs(b) : t.chan[c].port # 0
  PROVE  ~a[Len(b.channels)].refused
<1> DEFINE N == Len(b.channels)
           ok == {n \in 0..N : ~a[n].refused}
<1>1. /\ N \in Nat /\ DOMAIN b.channels = 1..N
      /\ \A n \in 1..N : b.channels[n] \in Listed /\ b.channels[n].ref \in Refs
  BY PlanParts
<1>2. a[0] = t /\ \A n \in 1..N : a[n] = Filled(a[n - 1], b.channels[n])
  BY DEF Fills
<1>3. \A n \in 0..N : a[n] \in Setups /\ Filling(t, a[n])
  BY FillsGive
<1>4. 0 \in ok
  BY <1>1, <1>2
<1>5. ASSUME NEW n \in 0..(N - 1), n \in ok PROVE n + 1 \in ok
  <2>1. n + 1 \in 1..N /\ n + 1 \in 0..N /\ (n + 1) - 1 = n /\ n \in 0..N
    BY <1>1
  <2> DEFINE c == b.channels[n + 1].ref
  <2>2. /\ a[n] \in Setups /\ ~a[n].refused /\ a[n + 1] = Filled(a[n], b.channels[n + 1])
        /\ b.channels[n + 1] \in Listed /\ c \in Refs /\ c \in BundleRefs(b)
    BY <1>1, <1>2, <1>3, <1>5, <2>1 DEF BundleRefs
  <2>3. a[n].router = t.router /\ (t.chan[c].port # 0 => a[n].chan[c].port = t.chan[c].port)
    BY <1>3, <2>1, <2>2 DEF Filling
  <2>4. a[n].chan[c].port = 0 => FreePorts(a[n]) # {}
    BY <2>2, <2>3, RoomIsLeft
  <2>5. ~a[n + 1].refused
    <3> HIDE DEF c
    <3>1. a[n + 1].refused => a[n].chan[b.channels[n + 1].ref].port = 0 /\ FreePorts(a[n]) = {}
      BY <2>2, FilledIs
    <3>2. a[n + 1] \in Setups
      BY <1>3, <2>1
    <3> QED
      BY <2>4, <3>1 DEF c
  <2> QED
    BY <2>1, <2>5
<1>6. 0..N \subseteq ok
  <2> HIDE DEF ok, N
  <2> QED
    BY <1>1, <1>4, <1>5, IntervalInduction
<1> QED
  BY <1>1, <1>6

\* Declared and kept ports are in place, the others not yet.
Started(t, b, r) ==
  /\ r.refused = t.refused
  /\ r.rules = [i \in DOMAIN b.rulesets |-> BlockOf(b.rulesets[i], FALSE)]
  /\ r.router.port = IF b.port # 0 THEN b.port ELSE t.router.port
  /\ r.router.kill = (b.kill = "yes")
  /\ \A c \in Refs \ BundleRefs(b) : r.chan[c] = Absent
  /\ \A i \in DOMAIN b.channels :
       LET spec == b.channels[i]
           e == r.chan[spec.ref]
       IN  /\ e.there /\ e.on = (spec.on # "no") /\ e.place = spec.place /\ e.wg = spec.wg
           /\ e.port = IF spec.port # 0 THEN spec.port ELSE t.chan[spec.ref].port

LEMMA RestoreStarts ==
  ASSUME NEW t \in Setups, NEW b \in Plans
  PROVE  \E r \in Setups : \E a :
           /\ Started(t, b, r) /\ Fills(r, b, a)
           /\ Restored(t, b) = IF PortsDiffer(r) THEN a[Len(b.channels)] ELSE Refuse(t)
<1> DEFINE at(c) == CHOOSE i \in DOMAIN b.channels : b.channels[i].ref = c
           spec(c) == b.channels[at(c)]
           port(c) == IF spec(c).port # 0 THEN spec(c).port ELSE t.chan[c].port
           on(c) == spec(c).on # "no"
           explicit(c) == spec(c).port # 0
           entry(c) == [there |-> TRUE, on |-> on(c), place |-> spec(c).place, wg |-> spec(c).wg,
                        port |-> port(c), explicit |-> explicit(c), managed |-> FALSE]
           chan == [c \in Refs |-> IF c \in BundleRefs(b) THEN entry(c) ELSE Absent]
           prov == IF b.channels = <<>> THEN "absent" ELSE "hand"
           rules == Appended(<<>>, b.rulesets, FALSE)
           router == [port |-> IF b.port # 0 THEN b.port ELSE t.router.port,
                      explicit |-> t.router.explicit \/ b.port # 0, kill |-> b.kill = "yes"]
           replaced == [t EXCEPT !.chan = chan, !.prov = prov, !.rules = rules, !.router = router]
           clash == \E c \in BundleRefs(b) : port(c) # 0 /\ port(c) \in UsedBy(replaced, {c})
           filled[i \in 0..Len(b.channels)] ==
             IF i = 0 THEN replaced ELSE Filled(filled[i - 1], b.channels[i])
           last == filled[Len(b.channels)]
<1>1. Restored(t, b) = IF clash THEN Refuse(t) ELSE last
  BY DEF Restored
<1>2. \A c \in BundleRefs(b) : at(c) \in DOMAIN b.channels /\ b.channels[at(c)].ref = c
  BY DEF BundleRefs
<1>3. \A i \in DOMAIN b.channels : b.channels[i].ref \in BundleRefs(b) /\ at(b.channels[i].ref) = i
  BY <1>2, PlanParts DEF BundleRefs
<1> HIDE DEF at
<1>4. ASSUME NEW c \in BundleRefs(b) PROVE c \in Refs /\ entry(c) \in Entries
  <2>1. c \in Refs /\ spec(c) \in Listed
    BY <1>2, PlanParts
  <2> HIDE DEF spec
  <2>2. t.chan[c].port \in Nat
    BY <2>1, SetupParts DEF Entries
  <2>3. spec(c).place \in Sites \cup {"-"} /\ spec(c).wg \in Nat /\ port(c) \in Nat
    BY <2>1, <2>2 DEF Listed
  <2>4. on(c) \in BOOLEAN /\ explicit(c) \in BOOLEAN
    BY Zenon
  <2> HIDE DEF port, on, explicit
  <2> QED
    BY <2>1, <2>3, <2>4 DEF Entries
<1>5. chan \in [Refs -> Entries]
  <2> HIDE DEF entry
  <2> QED
    BY <1>4, AbsentType
<1>6. \A c \in Refs : chan[c] = IF c \in BundleRefs(b) THEN entry(c) ELSE Absent
  OBVIOUS
<1> HIDE DEF chan
<1>7. rules \in Seq(Blocks) /\ rules = [i \in DOMAIN b.rulesets |-> BlockOf(b.rulesets[i], FALSE)]
  <2> DEFINE N == Len(b.rulesets)
             new == [i \in DOMAIN b.rulesets |-> BlockOf(b.rulesets[i], FALSE)]
  <2>1. N \in Nat /\ DOMAIN b.rulesets = 1..N /\ \A i \in 1..N : b.rulesets[i] \in Grouped
    BY PlanParts
  <2>2. new \in [1..N -> Blocks]
    BY <2>1, GroupIs
  <2>3. rules = <<>> \o new
    BY DEF Appended
  <2> HIDE DEF new, rules
  <2>4. new \in Seq(Blocks)
    BY <2>1, <2>2
  <2>5. rules = new
    BY <2>3, <2>4
  <2> QED
    BY <2>4, <2>5 DEF new
<1> HIDE DEF rules
<1>8. router \in Entrypoints /\ router.port = (IF b.port # 0 THEN b.port ELSE t.router.port)
      /\ router.kill = (b.kill = "yes")
  <2> DEFINE p == IF b.port # 0 THEN b.port ELSE t.router.port
             x == t.router.explicit \/ b.port # 0
             k == b.kill = "yes"
  <2>1. p \in Nat
    BY PlanParts, SetupParts DEF Entrypoints
  <2>2. x \in BOOLEAN /\ k \in BOOLEAN
    BY Zenon
  <2>3. router = [port |-> p, explicit |-> x, kill |-> k]
    OBVIOUS
  <2> HIDE DEF p, x, k, router
  <2>4. router \in Entrypoints /\ router.port = p /\ router.kill = k
    BY <2>1, <2>2, <2>3 DEF Entrypoints
  <2> QED
    BY <2>4 DEF p, k
<1> HIDE DEF router
<1>9. prov \in {"absent", "hand", "managed"}
  OBVIOUS
<1> HIDE DEF prov
<1>10. /\ replaced \in Setups /\ replaced.chan = chan /\ replaced.rules = rules
       /\ replaced.router = router /\ replaced.refused = t.refused
  BY <1>5, <1>7, <1>8, <1>9 DEF Setups
<1> HIDE DEF replaced
<1>11. Started(t, b, replaced)
  <2>1. ASSUME NEW i \in DOMAIN b.channels
        PROVE  LET s == b.channels[i]
                   e == replaced.chan[s.ref]
               IN  /\ e.there /\ e.on = (s.on # "no") /\ e.place = s.place /\ e.wg = s.wg
                   /\ e.port = IF s.port # 0 THEN s.port ELSE t.chan[s.ref].port
    <3>1. b.channels[i].ref \in Refs /\ spec(b.channels[i].ref) = b.channels[i]
      BY <1>3, PlanParts
    <3>2. replaced.chan[b.channels[i].ref] = entry(b.channels[i].ref)
      BY <1>3, <1>6, <1>10, <3>1
    <3> HIDE DEF spec
    <3> QED
      BY <3>1, <3>2
  <2>2. \A c \in Refs \ BundleRefs(b) : replaced.chan[c] = Absent
    BY <1>6, <1>10
  <2> QED
    BY <1>7, <1>8, <1>10, <2>1, <2>2 DEF Started
<1>12. clash <=> ~PortsDiffer(replaced)
  <2>1. \A c \in Refs : chan[c].port = IF c \in BundleRefs(b) THEN port(c) ELSE 0
    <3>1. \A c \in Refs : entry(c).port = port(c)
      OBVIOUS
    <3> HIDE DEF entry
    <3> QED
      BY <1>6, <3>1 DEF Absent
  <2>2. \A c \in Refs : UsedBy(replaced, {c}) = {chan[d].port : d \in Refs \ {c}} \cup {router.port}
    BY <1>10, BundleAssumption DEF UsedBy
  <2>3. BundleRefs(b) \subseteq Refs
    BY PlanParts
  <2>4. \A c \in Refs : chan[c].port # 0 => c \in BundleRefs(b)
    BY <2>1
  <2>5. clash <=> \E c \in Refs : chan[c].port # 0 /\ chan[c].port \in UsedBy(replaced, {c})
    <3> HIDE DEF port
    <3> QED
      BY <2>1, <2>3, <2>4
  <2>6. ASSUME NEW c \in Refs
        PROVE  chan[c].port \in UsedBy(replaced, {c})
               <=> ~(/\ chan[c].port # router.port
                     /\ \A d \in Refs \ {c} : chan[d].port # chan[c].port)
    <3> DEFINE others == {chan[d].port : d \in Refs \ {c}}
    <3>1. UsedBy(replaced, {c}) = others \cup {router.port}
      BY <2>2
    <3>2. chan[c].port \in others <=> \E d \in Refs \ {c} : chan[d].port = chan[c].port
      OBVIOUS
    <3> HIDE DEF others
    <3> QED
      BY <3>1, <3>2
  <2>7. PortsDiffer(replaced) <=>
          \A c \in Refs : chan[c].port # 0 =>
            chan[c].port # router.port /\ \A d \in Refs \ {c} : chan[d].port # chan[c].port
    BY <1>10 DEF PortsDiffer
  <2> HIDE DEF clash
  <2> QED
    BY <2>5, <2>6, <2>7
<1>13. PICK a : Fills(replaced, b, a) /\ last = a[Len(b.channels)]
  BY <1>10, FillsExist
<1> HIDE DEF last, clash
<1> QED
  BY <1>1, <1>10, <1>11, <1>12, <1>13

\* What a restore gives back.
Regained(t, b, u) ==
  /\ u.rules = [i \in DOMAIN b.rulesets |-> BlockOf(b.rulesets[i], FALSE)]
  /\ u.router.kill = (b.kill = "yes")
  /\ \A c \in Refs \ BundleRefs(b) : u.chan[c] = Absent
  /\ \A i \in DOMAIN b.channels :
       LET spec == b.channels[i]
           e == u.chan[spec.ref]
       IN  /\ e.there /\ e.on = (spec.on # "no") /\ e.place = spec.place /\ e.wg = spec.wg
           /\ spec.port = 0 /\ t.chan[spec.ref].port # 0 => e.port = t.chan[spec.ref].port

LEMMA RestoredIs ==
  ASSUME NEW t \in Setups, NEW b \in Plans, NEW u, u = Restored(t, b)
  PROVE  u \in Setups /\ (~u.refused => Apart(u) /\ Regained(t, b, u))
<1>0. PICK r \in Setups : \E a :
        /\ Started(t, b, r) /\ Fills(r, b, a)
        /\ u = IF PortsDiffer(r) THEN a[Len(b.channels)] ELSE Refuse(t)
  BY RestoreStarts
<1>1. PICK a :
        /\ Started(t, b, r) /\ Fills(r, b, a)
        /\ u = IF PortsDiffer(r) THEN a[Len(b.channels)] ELSE Refuse(t)
  BY <1>0
<1>2. CASE ~PortsDiffer(r)
  BY <1>1, <1>2, Refused
<1>3. CASE PortsDiffer(r)
  <2>1. u = a[Len(b.channels)] /\ Len(b.channels) \in 0..Len(b.channels)
    BY <1>1, <1>3, PlanParts
  <2>2. /\ u \in Setups /\ Filling(r, u)
        /\ ~u.refused => /\ \A c \in BundleRefs(b) : u.chan[c].port # 0
                         /\ \A c \in Refs \ BundleRefs(b) : u.chan[c] = r.chan[c]
    BY <1>1, <2>1, FillsGive
  <2> SUFFICES ASSUME ~u.refused PROVE Apart(u) /\ Regained(t, b, u)
    BY <2>2
  <2>3. /\ u.rules = r.rules /\ u.router = r.router /\ PortsDiffer(u)
        /\ \A c \in Refs : /\ u.chan[c].there = r.chan[c].there /\ u.chan[c].on = r.chan[c].on
                           /\ u.chan[c].place = r.chan[c].place /\ u.chan[c].wg = r.chan[c].wg
                           /\ r.chan[c].port # 0 => u.chan[c].port = r.chan[c].port
    BY <1>3, <2>2 DEF Filling
  <2>4. \A c \in Refs \ BundleRefs(b) : u.chan[c] = Absent
    BY <1>1, <2>2 DEF Started
  <2>5. Regained(t, b, u)
    <3>1. ASSUME NEW i \in DOMAIN b.channels
          PROVE  LET spec == b.channels[i]
                     e == u.chan[spec.ref]
                 IN  /\ e.there /\ e.on = (spec.on # "no") /\ e.place = spec.place /\ e.wg = spec.wg
                     /\ spec.port = 0 /\ t.chan[spec.ref].port # 0 => e.port = t.chan[spec.ref].port
      <4>1. b.channels[i].ref \in Refs
        BY PlanParts
      <4>2. LET spec == b.channels[i]
                e == r.chan[spec.ref]
            IN  /\ e.there /\ e.on = (spec.on # "no") /\ e.place = spec.place /\ e.wg = spec.wg
                /\ spec.port = 0 => e.port = t.chan[spec.ref].port
        BY <1>1 DEF Started
      <4> QED
        BY <2>3, <4>1, <4>2
    <3> QED
      BY <1>1, <2>3, <2>4, <3>1 DEF Started, Regained
  <2>6. ASSUME NEW c \in Refs
        PROVE  IF u.chan[c].there
               THEN /\ u.chan[c].port # 0 /\ u.chan[c].port # u.router.port
                    /\ \A d \in Refs \ {c} : u.chan[d].port # u.chan[c].port
               ELSE ~u.chan[c].on /\ u.chan[c].port = 0
    <3>1. CASE c \notin BundleRefs(b)
      BY <2>4, <2>6, <3>1 DEF Absent
    <3>2. CASE c \in BundleRefs(b)
      <4>1. u.chan[c].there
        BY <2>5, <3>2 DEF Regained, BundleRefs
      <4>2. u.chan[c].port # 0
        BY <2>2, <3>2
      <4> QED
        BY <2>3, <4>1, <4>2 DEF PortsDiffer
    <3> QED
      BY <3>1, <3>2
  <2>7. Apart(u)
    BY <2>6 DEF Apart
  <2> QED
    BY <2>5, <2>7
<1> QED
  BY <1>2, <1>3

\* A file that names what it routes to can be routed when it is restored.
LEMMA RestoredUsable ==
  ASSUME NEW t \in Setups, NEW b \in Plans, TargetsKnown({}, b),
         NEW u \in Setups, Regained(t, b, u)
  PROVE  Usable(u)
<1> SUFFICES ASSUME NEW k \in DOMAIN u.rules, u.rules[k].target \in Refs
             PROVE  u.chan[u.rules[k].target].on
  BY DEF Usable, UsableIn
<1> DEFINE c == u.rules[k].target
<1>1. k \in DOMAIN b.rulesets /\ u.rules[k] = BlockOf(b.rulesets[k], FALSE)
  BY DEF Regained
<1>2. b.rulesets[k] \in Grouped
  BY <1>1, PlanParts
<1>3. c = b.rulesets[k].target
  BY <1>1, <1>2, GroupIs
<1>4. c \in BundleRefs(b) /\ c \notin DisabledIn(b)
  BY <1>1, <1>3 DEF TargetsKnown, Targeted
<1> HIDE DEF c
<1>5. PICK i \in DOMAIN b.channels : b.channels[i].ref = c
  BY <1>4 DEF BundleRefs
<1>6. b.channels[i].on # "no"
  BY <1>4, <1>5 DEF DisabledIn
<1>7. u.chan[c].on = (b.channels[i].on # "no")
  BY <1>5 DEF Regained
<1> QED
  BY <1>6, <1>7 DEF c
---------------------------------------------------------------------------
(* Export, and an export restored *)

\* A finite set is listed once each.
LEMMA ListingIs ==
  ASSUME NEW S, IsFiniteSet(S), NEW s, s = SetToSeq(S)
  PROVE  /\ s \in Seq(S) /\ \A i, j \in DOMAIN s : s[i] = s[j] => i = j
         /\ \A c \in S : \E i \in DOMAIN s : s[i] = c
<1> DEFINE n == Cardinality(S)
<1>1. n \in Nat /\ \E f : f \in Bijection(1..n, S)
  BY FS_CardinalityType DEF ExistsBijection
<1>2. \E f \in [1..n -> S] : IsInjective(f)
  BY <1>1 DEF Bijection, Injection
<1>3. s \in [1..n -> S] /\ IsInjective(s)
  BY <1>2 DEF SetToSeq
<1>4. IsFiniteSet(1..n) /\ Cardinality(1..n) = n
  BY <1>1, FS_Interval
<1>5. s \in Injection(1..n, S)
  BY <1>3 DEF Injection
<1>6. s \in Surjection(1..n, S)
  BY <1>4, <1>5, FS_Injection
<1>7. \A c \in S : \E i \in 1..n : s[i] = c
  BY <1>6 DEF Surjection
<1> HIDE DEF n
<1> QED
  BY <1>1, <1>3, <1>7 DEF IsInjective

\* What an export says of a setup.
Tells(b, t) ==
  /\ BundleRefs(b) = Present(t) /\ b.port = 0 /\ b.kill = IF t.router.kill THEN "yes" ELSE "no"
  /\ \A i \in DOMAIN b.channels :
       LET spec == b.channels[i]
           e == t.chan[spec.ref]
       IN  /\ spec.on = (IF e.on THEN "yes" ELSE "no") /\ spec.place = e.place /\ spec.wg = e.wg
           /\ spec.port = 0
  /\ DOMAIN b.rulesets = DOMAIN t.rules
  /\ \A k \in DOMAIN t.rules :
       /\ b.rulesets[k].name = t.rules[k].name /\ b.rulesets[k].target = t.rules[k].target
       /\ b.rulesets[k].matchers = [n \in DOMAIN t.rules[k].rows |-> t.rules[k].rows[n].m]

LEMMA ExportIs ==
  ASSUME IsFiniteSet(Refs), NEW t \in Setups, NEW b, b = Export(t)
  PROVE  b \in Plans /\ Tells(b, t)
<1> DEFINE refs == Exported(t)
           listed(c) == [ref |-> c, on |-> IF t.chan[c].on THEN "yes" ELSE "no",
                         place |-> t.chan[c].place, wg |-> t.chan[c].wg, port |-> 0]
           channels == [i \in DOMAIN refs |-> listed(refs[i])]
           matchers(k) == [n \in DOMAIN t.rules[k].rows |-> t.rules[k].rows[n].m]
           rulesets == [k \in DOMAIN t.rules |->
                          [name |-> t.rules[k].name, target |-> t.rules[k].target, matchers |-> matchers(k)]]
           kill == IF t.router.kill THEN "yes" ELSE "no"
<1>1. b = [channels |-> channels, rulesets |-> rulesets, kill |-> kill, port |-> 0]
  BY DEF Export
<1>2. /\ t.chan \in [Refs -> Entries] /\ t.rules \in Seq(Blocks)
  BY SetupParts
<1>3. /\ refs \in Seq(Present(t)) /\ \A i, j \in DOMAIN refs : refs[i] = refs[j] => i = j
      /\ \A c \in Present(t) : \E i \in DOMAIN refs : refs[i] = c
  <2>1. IsFiniteSet(Present(t))
    BY FS_Subset DEF Present
  <2>2. refs = SetToSeq(Present(t))
    BY DEF Exported
  <2> HIDE DEF refs
  <2> QED
    BY <2>1, <2>2, ListingIs
<1>4. Present(t) \subseteq Refs
  BY DEF Present
<1> HIDE DEF refs
<1>5. \A c \in Refs : /\ listed(c) \in Listed /\ listed(c).ref = c
  <2> SUFFICES ASSUME NEW c \in Refs PROVE listed(c) \in Listed
    OBVIOUS
  <2>1. t.chan[c].place \in Sites \cup {"-"} /\ t.chan[c].wg \in Nat
    BY <1>2 DEF Entries
  <2> QED
    BY <2>1 DEF Listed
<1>6. /\ channels \in Seq(Listed) /\ DOMAIN channels = DOMAIN refs
      /\ \A i \in DOMAIN refs : channels[i] = listed(refs[i]) /\ channels[i].ref = refs[i] /\ refs[i] \in Refs
  <2>1. \A i \in DOMAIN refs : refs[i] \in Refs
    BY <1>3, <1>4
  <2>2. DOMAIN refs = 1..Len(refs) /\ Len(refs) \in Nat
    BY <1>3
  <2> HIDE DEF listed
  <2>3. channels \in [1..Len(refs) -> Listed]
    BY <1>5, <2>1, <2>2
  <2> QED
    BY <1>5, <2>1, <2>2, <2>3
<1>7. rulesets \in Seq(Grouped)
  <2>1. ASSUME NEW k \in DOMAIN t.rules
        PROVE  [name |-> t.rules[k].name, target |-> t.rules[k].target, matchers |-> matchers(k)] \in Grouped
    <3>1. t.rules[k] \in Blocks
      BY <1>2
    <3>2. /\ t.rules[k].name \in Names /\ t.rules[k].target \in Refs \cup Builtins
          /\ t.rules[k].rows \in Seq(Rows)
      BY <3>1 DEF Blocks
    <3>3. matchers(k) \in Seq(Matchers)
      <4> DEFINE rows == t.rules[k].rows
                 ms == [n \in DOMAIN rows |-> rows[n].m]
      <4>1. Len(rows) \in Nat /\ DOMAIN rows = 1..Len(rows) /\ \A n \in 1..Len(rows) : rows[n] \in Rows
        BY <3>2
      <4>2. \A n \in 1..Len(rows) : rows[n].m \in Matchers
        BY <4>1 DEF Rows
      <4> HIDE DEF rows
      <4>3. ms \in [1..Len(rows) -> Matchers]
        BY <4>1, <4>2
      <4>4. ms \in Seq(Matchers)
        BY <4>1, <4>3
      <4> QED
        BY <4>4 DEF rows
    <3> HIDE DEF matchers
    <3> QED
      BY <3>2, <3>3 DEF Grouped
  <2>2. DOMAIN t.rules = 1..Len(t.rules) /\ Len(t.rules) \in Nat
    BY <1>2
  <2> HIDE DEF matchers
  <2>3. rulesets \in [1..Len(t.rules) -> Grouped]
    BY <2>1, <2>2
  <2> QED
    BY <2>2, <2>3
<1>8. \A k \in DOMAIN t.rules :
        /\ rulesets[k].name = t.rules[k].name /\ rulesets[k].target = t.rules[k].target
        /\ rulesets[k].matchers = matchers(k)
  <2> HIDE DEF matchers
  <2> QED
    OBVIOUS
<1>9. DOMAIN rulesets = DOMAIN t.rules
  OBVIOUS
<1>10. kill \in {"yes", "no"}
  OBVIOUS
<1> HIDE DEF channels, rulesets, kill, listed
<1>11. b.channels = channels /\ b.rulesets = rulesets /\ b.kill = kill /\ b.port = 0
  BY <1>1
<1>12. b \in Plans
  <2>1. b \in [channels : Seq(Listed), rulesets : Seq(Grouped), kill : {"yes", "no", "unstated"}, port : Nat]
    BY <1>1, <1>6, <1>7, <1>10
  <2>2. \A i, j \in DOMAIN b.channels : b.channels[i].ref = b.channels[j].ref => i = j
    BY <1>3, <1>6, <1>11
  <2> QED
    BY <2>1, <2>2 DEF Plans
<1>13. BundleRefs(b) = Present(t)
  <2>1. BundleRefs(b) = {refs[i] : i \in DOMAIN refs}
    BY <1>6, <1>11 DEF BundleRefs
  <2> QED
    BY <1>3, <2>1
<1>14. \A i \in DOMAIN b.channels :
         LET spec == b.channels[i]
             e == t.chan[spec.ref]
         IN  /\ spec.on = (IF e.on THEN "yes" ELSE "no") /\ spec.place = e.place /\ spec.wg = e.wg
             /\ spec.port = 0
  BY <1>6, <1>11 DEF listed
<1> QED
  BY <1>8, <1>9, <1>11, <1>12, <1>13, <1>14 DEF Tells, kill

\* Setups that agree on what an export tells have one export.
LEMMA ExportsAgree ==
  ASSUME IsFiniteSet(Refs), NEW t \in Setups, NEW u \in Setups, Present(t) = Present(u),
         \A c \in Present(t) : /\ u.chan[c].on = t.chan[c].on /\ u.chan[c].place = t.chan[c].place
                               /\ u.chan[c].wg = t.chan[c].wg,
         DOMAIN u.rules = DOMAIN t.rules,
         \A k \in DOMAIN t.rules :
           /\ u.rules[k].name = t.rules[k].name /\ u.rules[k].target = t.rules[k].target
           /\ DOMAIN u.rules[k].rows = DOMAIN t.rules[k].rows
           /\ \A n \in DOMAIN t.rules[k].rows : u.rules[k].rows[n].m = t.rules[k].rows[n].m,
         u.router.kill = t.router.kill
  PROVE  Export(u) = Export(t)
<1> DEFINE refs == Exported(t)
           listed(v, c) == [ref |-> c, on |-> IF v.chan[c].on THEN "yes" ELSE "no",
                            place |-> v.chan[c].place, wg |-> v.chan[c].wg, port |-> 0]
           channels(v) == [i \in DOMAIN refs |-> listed(v, refs[i])]
           matchers(v, k) == [n \in DOMAIN v.rules[k].rows |-> v.rules[k].rows[n].m]
           rulesets(v) == [k \in DOMAIN v.rules |->
                             [name |-> v.rules[k].name, target |-> v.rules[k].target,
                              matchers |-> matchers(v, k)]]
           kill(v) == IF v.router.kill THEN "yes" ELSE "no"
<1>1. Exported(u) = refs
  BY DEF Exported
<1>2. /\ Export(t) = [channels |-> channels(t), rulesets |-> rulesets(t), kill |-> kill(t), port |-> 0]
      /\ Export(u) = [channels |-> channels(u), rulesets |-> rulesets(u), kill |-> kill(u), port |-> 0]
  BY <1>1 DEF Export
<1>3. \A i \in DOMAIN refs : refs[i] \in Present(t)
  <2>1. IsFiniteSet(Present(t))
    BY FS_Subset DEF Present
  <2>2. refs \in Seq(Present(t))
    BY <2>1, ListingIs DEF Exported
  <2> HIDE DEF refs
  <2> QED
    BY <2>2
<1> HIDE DEF refs
<1>4. channels(u) = channels(t)
  BY <1>3
<1>5. \A k \in DOMAIN t.rules : matchers(u, k) = matchers(t, k)
  OBVIOUS
<1> HIDE DEF matchers
<1>6. rulesets(u) = rulesets(t)
  BY <1>5
<1>7. kill(u) = kill(t)
  OBVIOUS
<1> HIDE DEF channels, rulesets, kill
<1> QED
  BY <1>2, <1>4, <1>6, <1>7

\* Where the export came from, or where nothing is and no API answers, the
\* parameters chosen are those of the export.
LEMMA ExportPlans ==
  ASSUME IsFiniteSet(Refs), NEW x \in Setups, \A c \in Refs : x.chan[c].on => x.chan[c].wg # 0,
         NEW t \in Setups, NEW fresh, t = x \/ (fresh = 0 /\ \A c \in Refs : t.chan[c] = Absent),
         NEW b, b = Export(x)
  PROVE  /\ Planned("restore", t, b, fresh) = b
         /\ Resolvable("restore", t, b, fresh)
<1>1. b \in Plans /\ Tells(b, x)
  BY ExportIs
<1>2. ASSUME NEW i \in DOMAIN b.channels
      PROVE  LET spec == b.channels[i]
                 old == t.chan[spec.ref]
             IN  /\ Resolved("restore", spec, old, fresh) = spec.wg
                 /\ WillBeOn("restore", spec, old) => spec.wg # 0
  <2> DEFINE spec == b.channels[i]
             old == t.chan[spec.ref]
  <2>1. spec.ref \in Refs
    BY <1>1, PlanParts
  <2>2. /\ spec.on = (IF x.chan[spec.ref].on THEN "yes" ELSE "no")
        /\ spec.place = x.chan[spec.ref].place /\ spec.wg = x.chan[spec.ref].wg
    BY <1>1 DEF Tells
  <2>3. WillBeOn("restore", spec, old) => x.chan[spec.ref].on
    BY <2>2 DEF WillBeOn
  <2>4. WillBeOn("restore", spec, old) => spec.wg # 0
    BY <2>1, <2>2, <2>3
  <2>5. t = x => old.place = spec.place /\ old.wg = spec.wg
    BY <2>2
  <2>6. CASE t = x
    <3>1. spec.wg # 0 => (old.there /\ old.wg # 0 /\ old.place = spec.place) \/ ~old.there
      BY <2>5, <2>6
    <3>2. spec.ref \in Present(x)
      BY <1>1 DEF Tells, BundleRefs
    <3>3. old.there
      BY <2>6, <3>2 DEF Present
    <3> HIDE DEF spec, old
    <3>4. Resolved("restore", spec, old, fresh) = spec.wg
      BY <2>4, <2>5, <2>6, <3>3 DEF Resolved
    <3> QED
      BY <2>4, <3>4 DEF spec, old
  <2>7. CASE fresh = 0 /\ \A c \in Refs : t.chan[c] = Absent
    <3>1. ~old.there
      BY <2>1, <2>7 DEF Absent
    <3> HIDE DEF spec, old
    <3>2. Resolved("restore", spec, old, fresh) = spec.wg
      BY <2>7, <3>1 DEF Resolved
    <3> QED
      BY <2>4, <3>2 DEF spec, old
  <2> QED
    BY <2>6, <2>7
<1>3. Resolvable("restore", t, b, fresh)
  BY <1>2 DEF Resolvable
<1>4. Planned("restore", t, b, fresh) = b
  <2> DEFINE wg(i) == Resolved("restore", b.channels[i], t.chan[b.channels[i].ref], fresh)
             same == [i \in DOMAIN b.channels |-> [b.channels[i] EXCEPT !.wg = wg(i)]]
  <2>1. Planned("restore", t, b, fresh) = [b EXCEPT !.channels = same]
    BY DEF Planned
  <2>2. \A i \in DOMAIN b.channels : wg(i) = b.channels[i].wg
    BY <1>2
  <2> HIDE DEF wg
  <2>3. \A i \in DOMAIN b.channels : [b.channels[i] EXCEPT !.wg = wg(i)] = b.channels[i]
    <3>1. \A i \in DOMAIN b.channels : b.channels[i] \in Listed
      BY <1>1, PlanParts
    <3>2. \A spec \in Listed : [spec EXCEPT !.wg = spec.wg] = spec
      BY DEF Listed
    <3> QED
      BY <2>2, <3>1, <3>2
  <2>4. same = b.channels
    <3>1. b.channels = [i \in DOMAIN b.channels |-> b.channels[i]]
      BY <1>1, PlanParts
    <3> QED
      BY <2>3, <3>1
  <2> HIDE DEF same
  <2>5. [b EXCEPT !.channels = b.channels] = b
    BY <1>1 DEF Plans
  <2> QED
    BY <2>1, <2>4, <2>5
<1> QED
  BY <1>3, <1>4

LEMMA ExportValid ==
  ASSUME IsFiniteSet(Refs), NEW x \in Setups, Usable(x), Apart(x), NEW t, NEW b, b = Export(x)
  PROVE  TargetsKnown({}, b) /\ Valid("restore", t, b)
<1>1. b \in Plans /\ Tells(b, x)
  BY ExportIs
<1>2. ASSUME NEW k \in DOMAIN b.rulesets, b.rulesets[k].target \in Refs
      PROVE  b.rulesets[k].target \in BundleRefs(b) \ DisabledIn(b)
  <2> DEFINE c == b.rulesets[k].target
  <2>1. k \in DOMAIN x.rules /\ c = x.rules[k].target
    BY <1>1 DEF Tells
  <2>2. x.chan[c].on
    BY <1>2, <2>1 DEF Usable, UsableIn
  <2>3. x.chan[c].there
    BY <1>2, <2>2 DEF Apart
  <2>4. c \in BundleRefs(b)
    BY <1>1, <1>2, <2>3 DEF Tells, Present
  <2>5. \A i \in DOMAIN b.channels : b.channels[i].ref = c => b.channels[i].on = "yes"
    BY <1>1, <2>2 DEF Tells
  <2>6. c \notin DisabledIn(b)
    BY <2>5 DEF DisabledIn
  <2> QED
    BY <2>4, <2>6
<1>3. TargetsKnown({}, b)
  BY <1>2 DEF TargetsKnown, Targeted
<1>4. b.kill # "unstated"
  BY <1>1 DEF Tells
<1> QED
  BY <1>3, <1>4 DEF Valid, Known

\* An export restored where it came from, or where nothing is.
LEMMA ExportRestored ==
  ASSUME Room, NEW x \in Setups, Usable(x), Apart(x), NEW t \in Setups, ~t.refused, Apart(t),
         t = x \/ (t.router.port = 0 /\ \A c \in Refs : t.chan[c] = Absent),
         NEW b, b = Export(x), NEW u, u = Restored(t, b)
  PROVE  /\ u \in Setups /\ ~u.refused /\ Export(u) = Export(x)
         /\ t = x => \A c \in Refs : u.chan[c].port = t.chan[c].port
<1>1. b \in Plans /\ Tells(b, x) /\ IsFiniteSet(Refs)
  BY ExportIs DEF Room
<1>2. /\ \A i \in DOMAIN b.channels : b.channels[i].port = 0 /\ b.channels[i].ref \in BundleRefs(b)
      /\ \A c \in BundleRefs(b) : \E i \in DOMAIN b.channels : b.channels[i].ref = c
      /\ BundleRefs(b) \subseteq Refs /\ b.port = 0 /\ BundleRefs(b) = Present(x)
  BY <1>1, PlanParts DEF Tells, BundleRefs
<1>3. ~u.refused
  <2>0. PICK r \in Setups : \E a :
          /\ Started(t, b, r) /\ Fills(r, b, a)
          /\ u = IF PortsDiffer(r) THEN a[Len(b.channels)] ELSE Refuse(t)
    BY <1>1, RestoreStarts
  <2>1. PICK a :
          /\ Started(t, b, r) /\ Fills(r, b, a)
          /\ u = IF PortsDiffer(r) THEN a[Len(b.channels)] ELSE Refuse(t)
    BY <2>0
  <2>2. /\ r.router.port = t.router.port /\ ~r.refused
        /\ \A c \in Refs : r.chan[c].port = IF c \in BundleRefs(b) THEN t.chan[c].port ELSE 0
    BY <1>2, <2>1 DEF Started, Absent
  <2>3. \A c \in Refs : t.chan[c].port # 0 =>
          t.chan[c].port # t.router.port /\ \A d \in Refs \ {c} : t.chan[d].port # t.chan[c].port
    BY DEF Apart
  <2>4. PortsDiffer(r)
    BY <2>2, <2>3 DEF PortsDiffer
  <2>5. t = x => \A c \in BundleRefs(b) : r.chan[c].port # 0
    BY <1>2, <2>2 DEF Apart, Present
  <2> QED
    BY <1>1, <2>1, <2>2, <2>4, <2>5, FillsFit
<1>4. u \in Setups /\ Regained(t, b, u)
  BY <1>1, <1>3, RestoredIs
<1>5. \A c \in Refs \ BundleRefs(b) : u.chan[c] = Absent
  BY <1>4 DEF Regained
<1>6. \A c \in BundleRefs(b) :
        /\ u.chan[c].there /\ u.chan[c].on = x.chan[c].on /\ u.chan[c].place = x.chan[c].place
        /\ u.chan[c].wg = x.chan[c].wg
        /\ t.chan[c].port # 0 => u.chan[c].port = t.chan[c].port
  <2> SUFFICES ASSUME NEW c \in BundleRefs(b)
               PROVE  /\ u.chan[c].there /\ u.chan[c].on = x.chan[c].on
                      /\ u.chan[c].place = x.chan[c].place /\ u.chan[c].wg = x.chan[c].wg
                      /\ t.chan[c].port # 0 => u.chan[c].port = t.chan[c].port
    OBVIOUS
  <2>1. PICK i \in DOMAIN b.channels : b.channels[i].ref = c
    BY <1>2
  <2>2. /\ u.chan[c].there /\ u.chan[c].on = (b.channels[i].on # "no")
        /\ u.chan[c].place = b.channels[i].place /\ u.chan[c].wg = b.channels[i].wg
        /\ t.chan[c].port # 0 => u.chan[c].port = t.chan[c].port
    BY <1>2, <1>4, <2>1 DEF Regained
  <2>3. /\ b.channels[i].on = (IF x.chan[c].on THEN "yes" ELSE "no")
        /\ b.channels[i].place = x.chan[c].place /\ b.channels[i].wg = x.chan[c].wg
    BY <1>1, <2>1 DEF Tells
  <2>4. x.chan[c].on \in BOOLEAN
    BY <1>2, SetupParts DEF Entries
  <2>5. (b.channels[i].on # "no") = x.chan[c].on
    BY <2>3, <2>4
  <2> QED
    BY <2>2, <2>3, <2>5
<1>7. Present(u) = Present(x)
  BY <1>2, <1>5, <1>6 DEF Present, Absent
<1>8. DOMAIN u.rules = DOMAIN x.rules
  BY <1>1, <1>4 DEF Regained, Tells
<1>9. ASSUME NEW k \in DOMAIN x.rules
      PROVE  /\ u.rules[k].name = x.rules[k].name /\ u.rules[k].target = x.rules[k].target
             /\ DOMAIN u.rules[k].rows = DOMAIN x.rules[k].rows
             /\ \A n \in DOMAIN x.rules[k].rows : u.rules[k].rows[n].m = x.rules[k].rows[n].m
  <2> DEFINE spec == b.rulesets[k]
  <2>1. /\ k \in DOMAIN b.rulesets /\ spec.name = x.rules[k].name /\ spec.target = x.rules[k].target
        /\ spec.matchers = [n \in DOMAIN x.rules[k].rows |-> x.rules[k].rows[n].m]
    BY <1>1 DEF Tells
  <2>2. u.rules[k] = BlockOf(spec, FALSE)
    <3>1. u.rules = [i \in DOMAIN b.rulesets |-> BlockOf(b.rulesets[i], FALSE)]
      BY <1>4 DEF Regained
    <3> QED
      BY <2>1, <3>1
  <2>3. spec \in Grouped
    BY <1>1, <2>1, PlanParts
  <2> HIDE DEF spec
  <2>4. /\ u.rules[k].name = spec.name /\ u.rules[k].target = spec.target
        /\ u.rules[k].rows = [i \in DOMAIN spec.matchers |-> [m |-> spec.matchers[i], managed |-> FALSE]]
    BY <2>2, <2>3, GroupIs
  <2>5. DOMAIN spec.matchers = DOMAIN x.rules[k].rows
    BY <2>1
  <2>6. DOMAIN u.rules[k].rows = DOMAIN spec.matchers
    BY <2>4
  <2>7. \A n \in DOMAIN spec.matchers : u.rules[k].rows[n].m = spec.matchers[n]
    BY <2>4
  <2>8. \A n \in DOMAIN x.rules[k].rows : spec.matchers[n] = x.rules[k].rows[n].m
    BY <2>1
  <2>9. \A n \in DOMAIN x.rules[k].rows : u.rules[k].rows[n].m = x.rules[k].rows[n].m
    BY <2>5, <2>7, <2>8
  <2> QED
    BY <2>1, <2>4, <2>5, <2>6, <2>9
<1>10. u.router.kill = x.router.kill
  <2>1. u.router.kill = (b.kill = "yes") /\ b.kill = (IF x.router.kill THEN "yes" ELSE "no")
    BY <1>1, <1>4 DEF Regained, Tells
  <2>2. x.router.kill \in BOOLEAN
    BY SetupParts DEF Entrypoints
  <2> QED
    BY <2>1, <2>2
<1>11. Export(u) = Export(x)
  BY <1>1, <1>2, <1>4, <1>6, <1>7, <1>8, <1>9, <1>10, ExportsAgree
<1>12. t = x => \A c \in Refs : u.chan[c].port = t.chan[c].port
  BY <1>2, <1>5, <1>6 DEF Apart, Present, Absent
<1> QED
  BY <1>3, <1>4, <1>11, <1>12
---------------------------------------------------------------------------
(* Planning *)

LEMMA PlannedIs ==
  ASSUME NEW kind, NEW t \in Setups, NEW b \in Files, NEW fresh \in Nat
  PROVE  LET plan == Planned(kind, t, b, fresh) IN
         /\ plan \in Files /\ BundleRefs(plan) = BundleRefs(b) /\ DisabledIn(plan) = DisabledIn(b)
         /\ plan.rulesets = b.rulesets
<1> DEFINE N == Len(b.channels)
           wg(i) == Resolved(kind, b.channels[i], t.chan[b.channels[i].ref], fresh)
           channels == [i \in DOMAIN b.channels |-> [b.channels[i] EXCEPT !.wg = wg(i)]]
           plan == [b EXCEPT !.channels = channels]
<1>1. /\ N \in Nat /\ DOMAIN b.channels = 1..N
      /\ \A i \in 1..N : b.channels[i] \in Declared /\ b.channels[i].ref \in Refs
      /\ \A i, j \in 1..N : b.channels[i].ref = b.channels[j].ref => i = j
  BY FileParts
<1>2. Planned(kind, t, b, fresh) = plan
  BY DEF Planned
<1>3. ASSUME NEW i \in 1..N
      PROVE  channels[i] \in Declared /\ channels[i].ref = b.channels[i].ref /\ channels[i].on = b.channels[i].on
  <2> DEFINE spec == b.channels[i]
  <2>1. spec \in Declared /\ spec.wg \in Nat /\ t.chan[spec.ref].wg \in Nat
    BY <1>1, SetupParts DEF Declared, Entries
  <2>2. wg(i) \in Nat
    BY <2>1 DEF Resolved
  <2>3. channels[i] = [spec EXCEPT !.wg = wg(i)]
    BY <1>1
  <2> HIDE DEF channels, wg, spec
  <2>4. channels[i] \in Declared /\ channels[i].ref = spec.ref /\ channels[i].on = spec.on
    BY <2>1, <2>2, <2>3 DEF Declared
  <2> QED
    BY <2>4 DEF spec
<1>4. DOMAIN channels = 1..N
  BY <1>1
<1> HIDE DEF channels
<1>5. channels \in Seq(Declared)
  <2>1. channels = [i \in 1..N |-> channels[i]]
    BY <1>4 DEF channels
  <2>2. channels \in [1..N -> Declared]
    BY <1>3, <2>1
  <2> QED
    BY <1>1, <2>2
<1>6. /\ plan \in [channels : Seq(Declared), rulesets : Seq(Ruled), kill : {"yes", "no", "unstated"}, port : Nat]
      /\ plan.channels = channels /\ plan.rulesets = b.rulesets
  BY <1>5 DEF Files
<1> HIDE DEF plan
<1>7. plan \in Files
  BY <1>1, <1>3, <1>4, <1>6 DEF Files
<1>8. BundleRefs(plan) = BundleRefs(b) /\ DisabledIn(plan) = DisabledIn(b)
  <2>1. /\ DOMAIN plan.channels = DOMAIN b.channels
        /\ \A i \in DOMAIN b.channels : /\ plan.channels[i].ref = b.channels[i].ref
                                        /\ plan.channels[i].on = b.channels[i].on
    BY <1>1, <1>3, <1>4, <1>6
  <2>2. BundleRefs(plan) = BundleRefs(b)
    BY <2>1 DEF BundleRefs
  <2>3. DisabledIn(plan) = DisabledIn(b)
    <3>1. {i \in DOMAIN plan.channels : plan.channels[i].on = "no"} = {i \in DOMAIN b.channels : b.channels[i].on = "no"}
      BY <2>1
    <3> QED
      BY <2>1, <3>1 DEF DisabledIn
  <2> QED
    BY <2>2, <2>3
<1> QED
  BY <1>2, <1>6, <1>7, <1>8

LEMMA StageKeeps ==
  ASSUME BundleInv, NEW kind \in Kinds, NEW b \in Bundles, NEW fresh \in WgSet \cup {0},
         Stage(kind, b, fresh)
  PROVE  BundleInv'
<1> DEFINE plan == Planned(kind, setup, b, fresh)
<1>1. setup \in Setups /\ b \in Files /\ fresh \in Nat
  BY BundleAssumption DEF BundleInv
<1>2. /\ plan \in Files /\ BundleRefs(plan) = BundleRefs(b) /\ DisabledIn(plan) = DisabledIn(b)
      /\ plan.rulesets = b.rulesets
  BY <1>1, PlannedIs
<1>3. Valid(kind, setup, b) /\ job' = [kind |-> kind, bundle |-> plan] /\ UNCHANGED setup
  BY DEF Stage
<1> HIDE DEF plan
<1>4. job' \in Jobs /\ job'.kind = kind /\ job'.bundle = plan
  BY <1>2, <1>3 DEF Jobs
<1>5. kind = "restore" => TargetsKnown({}, plan)
  BY <1>2, <1>3 DEF Valid, Known, TargetsKnown
<1>6. JobOK'
  BY <1>4, <1>5 DEF JobOK
<1> QED
  BY <1>3, <1>4, <1>6 DEF BundleInv, Usable, UsableIn, Apart

LEMMA JobIs ==
  ASSUME BundleInv, job # Idle
  PROVE  job \in Jobs /\ job.kind \in Kinds /\ job.bundle \in Files
BY DEF BundleInv, Jobs

LEMMA CommitKeeps ==
  ASSUME BundleInv, Commit
  PROVE  BundleInv'
<1> DEFINE t == Committed(job.kind, setup, job.bundle)
<1>1. /\ job # Idle /\ job' = Idle
      /\ IF t.refused THEN UNCHANGED setup ELSE Fits(t) /\ setup' = t
  BY DEF Commit
<1>2. job.kind \in Kinds /\ job.bundle \in Files
  BY <1>1, JobIs
<1>3. setup \in Setups /\ Usable(setup) /\ Apart(setup)
  BY DEF BundleInv
<1>4. t \in Setups /\ (~t.refused => Usable(t) /\ Apart(t))
  <2>1. CASE job.kind = "import"
    <3>1. t = Merged(setup, job.bundle)
      BY <2>1 DEF Committed
    <3> QED
      BY <1>2, <1>3, <3>1, MergedIs
  <2>2. CASE job.kind = "sync"
    <3>1. t = Synced(setup, job.bundle)
      BY <2>2 DEF Committed
    <3> QED
      BY <1>2, <1>3, <3>1, SyncedIs
  <2>3. CASE job.kind = "restore"
    <3>1. t = Restored(setup, job.bundle)
      BY <2>3 DEF Committed
    <3>2. TargetsKnown({}, job.bundle) /\ job.bundle \in Plans
      BY <1>1, <1>2, <2>3, FilesArePlans DEF BundleInv, JobOK
    <3>3. t \in Setups /\ (~t.refused => Apart(t) /\ Regained(setup, job.bundle, t))
      BY <1>3, <3>1, <3>2, RestoredIs
    <3> HIDE DEF t
    <3> QED
      BY <1>3, <3>2, <3>3, RestoredUsable
  <2> QED
    BY <1>2, <2>1, <2>2, <2>3 DEF Kinds
<1> HIDE DEF t
<1>5. setup' \in Setups /\ ~setup'.refused /\ Usable(setup') /\ Apart(setup')
  BY <1>1, <1>3, <1>4 DEF BundleInv
<1>6. job' \in Jobs \cup {Idle} /\ JobOK'
  BY <1>1 DEF JobOK
<1> QED
  BY <1>5, <1>6 DEF BundleInv, Usable, UsableIn, Apart
---------------------------------------------------------------------------
(* What people and the daemon edit *)

\* One channel's entry is replaced.
LEMMA EditKeeps ==
  ASSUME BundleInv, NEW c \in Refs, NEW e \in Entries, NEW t \in Setups, Edit(t),
         t.rules = setup.rules, t.router = setup.router, t.refused = setup.refused,
         t.chan[c] = e, \A d \in Refs \ {c} : t.chan[d] = setup.chan[d],
         e.on \/ c \notin Targeted(setup.rules),
         IF e.there
         THEN /\ e.port # 0 /\ e.port # setup.router.port
              /\ \A d \in Refs \ {c} : setup.chan[d].port # e.port
         ELSE ~e.on /\ e.port = 0
  PROVE  BundleInv'
<1>1. setup \in Setups /\ ~setup.refused /\ Usable(setup) /\ Apart(setup)
  BY DEF BundleInv
<1>2. setup' = t /\ UNCHANGED job
  BY DEF Edit
<1>3. Usable(t)
  <2> SUFFICES ASSUME NEW i \in DOMAIN setup.rules, setup.rules[i].target \in Refs
               PROVE  t.chan[setup.rules[i].target].on
    BY DEF Usable, UsableIn
  <2>1. setup.chan[setup.rules[i].target].on /\ setup.rules[i].target \in Targeted(setup.rules)
    BY <1>1 DEF Usable, UsableIn, Targeted
  <2> QED
    BY <2>1
<1>4. Apart(t)
  <2>1. ASSUME NEW d \in Refs \ {c}, t.chan[d].there
        PROVE  /\ t.chan[d].port # 0 /\ t.chan[d].port # t.router.port
               /\ \A x \in Refs \ {d} : t.chan[x].port # t.chan[d].port
    <3>1. /\ t.chan[d] = setup.chan[d] /\ setup.chan[d].port # 0 /\ setup.chan[d].port # setup.router.port
          /\ \A x \in Refs \ {d} : setup.chan[x].port # setup.chan[d].port
      BY <1>1, <2>1 DEF Apart
    <3>2. t.chan[c].port # setup.chan[d].port
      BY <3>1
    <3> QED
      BY <3>1, <3>2
  <2>2. \A d \in Refs \ {c} : ~t.chan[d].there => ~t.chan[d].on /\ t.chan[d].port = 0
    BY <1>1 DEF Apart
  <2>3. \A d \in Refs \ {c} : t.chan[d].port # t.chan[c].port \/ ~t.chan[c].there
    OBVIOUS
  <2> QED
    BY <2>1, <2>2, <2>3 DEF Apart
<1> QED
  BY <1>1, <1>2, <1>3, <1>4 DEF BundleInv, JobOK, Usable, UsableIn, Apart

\* The same with EditChannel.
LEMMA ChannelKeeps ==
  ASSUME BundleInv, NEW c \in Refs, NEW e \in Entries, EditChannel(c, e),
         e.on \/ c \notin Targeted(setup.rules),
         e = Absent \/ (e.there /\ setup.chan[c].there /\ e.port = setup.chan[c].port)
  PROVE  BundleInv'
<1> DEFINE t == WithEntry(setup, c, e)
<1>1. Edit(t)
  BY DEF EditChannel, WithEntry
<1>2. setup \in Setups /\ Apart(setup)
  BY DEF BundleInv
<1>3. t = WithEntry(setup, c, e)
  OBVIOUS
<1> HIDE DEF t
<1>4. /\ t \in Setups /\ t.rules = setup.rules /\ t.router = setup.router /\ t.refused = setup.refused
      /\ t.chan[c] = e /\ \A d \in Refs \ {c} : t.chan[d] = setup.chan[d]
  BY <1>2, <1>3, SetEntry
<1>5. e = Absent => ~e.there /\ ~e.on /\ e.port = 0
  BY DEF Absent
<1>6. IF e.there
      THEN /\ e.port # 0 /\ e.port # setup.router.port
           /\ \A d \in Refs \ {c} : setup.chan[d].port # e.port
      ELSE ~e.on /\ e.port = 0
  BY <1>2, <1>5 DEF Apart
<1> QED
  BY <1>1, <1>4, <1>5, <1>6, EditKeeps

LEMMA AddKeeps ==
  ASSUME BundleInv, NEW c \in Refs, NEW place \in Places, NEW wg \in WgSet, AddChannel(c, place, wg)
  PROVE  BundleInv'
<1> DEFINE port == Min(FreePorts(setup))
           e == [Absent EXCEPT !.there = TRUE, !.on = TRUE, !.place = place, !.wg = wg, !.port = port]
           prov == IF setup.prov = "absent" THEN "hand" ELSE setup.prov
           hosted == [setup EXCEPT !.prov = prov]
           t == WithEntry(hosted, c, e)
<1>1. setup \in Setups /\ FreePorts(setup) # {}
  BY DEF BundleInv, AddChannel
<1>2. /\ port \in Nat /\ port # 0 /\ port # setup.router.port
      /\ \A d \in Refs : setup.chan[d].port # port
  BY <1>1, FreeIs
<1>3. Edit(t)
  <2>1. Edit([setup EXCEPT !.prov = prov, !.chan[c] = e])
    BY DEF AddChannel
  <2>2. t = [setup EXCEPT !.prov = prov, !.chan[c] = e]
    <3> HIDE DEF prov, e
    <3> QED
      BY <1>1 DEF WithEntry, Setups
  <2> QED
    BY <2>1, <2>2
<1> HIDE DEF port
<1>4. e \in Entries /\ e.there /\ e.on /\ e.port = port
  <2>1. place \in Sites /\ wg \in Nat
    BY BundleAssumption DEF Sites
  <2> QED
    BY <1>2, <2>1 DEF Absent, Entries
<1> HIDE DEF e
<1>5. prov \in {"absent", "hand", "managed"}
  BY <1>1, SetupParts
<1> HIDE DEF prov
<1>6. /\ hosted \in Setups /\ hosted.chan = setup.chan /\ hosted.rules = setup.rules
      /\ hosted.router = setup.router /\ hosted.refused = setup.refused
  BY <1>1, <1>5 DEF Setups
<1> HIDE DEF hosted
<1>7. t = WithEntry(hosted, c, e)
  OBVIOUS
<1> HIDE DEF t
<1>8. /\ t \in Setups /\ t.rules = setup.rules /\ t.router = setup.router /\ t.refused = setup.refused
      /\ t.chan[c] = e /\ \A d \in Refs \ {c} : t.chan[d] = setup.chan[d]
  <2>1. /\ t \in Setups /\ t.rules = hosted.rules /\ t.router = hosted.router /\ t.refused = hosted.refused
        /\ t.chan[c] = e /\ \A d \in Refs \ {c} : t.chan[d] = hosted.chan[d]
    BY <1>4, <1>6, <1>7, SetEntry
  <2> QED
    BY <1>6, <2>1
<1> QED
  BY <1>2, <1>3, <1>4, <1>8, EditKeeps

LEMMA ToggleKeeps ==
  ASSUME BundleInv, NEW c \in Refs,
         RemoveChannel(c) \/ Disable(c) \/ \E wg \in WgSet : Enable(c, wg) \/ Reconnect(c, wg)
  PROVE  BundleInv'
<1> DEFINE old == setup.chan[c]
<1>1. old \in Entries /\ WgSet \subseteq Nat
  BY SetupParts, BundleAssumption DEF BundleInv
<1>0. old.on => old.there
  BY DEF BundleInv, Apart
<1> HIDE DEF old
<1>2. CASE RemoveChannel(c)
  <2>1. EditChannel(c, Absent) /\ c \notin Targeted(setup.rules)
    BY <1>2 DEF RemoveChannel, Referenced
  <2> QED
    BY <2>1, AbsentType, ChannelKeeps
<1>3. CASE Disable(c)
  <2> DEFINE e == [old EXCEPT !.on = FALSE]
  <2>1. EditChannel(c, e) /\ old.on /\ c \notin Targeted(setup.rules)
    BY <1>3 DEF Disable, Referenced, old
  <2>2. e \in Entries /\ e.there = old.there /\ e.port = old.port
    BY <1>1 DEF Entries
  <2> HIDE DEF e
  <2> QED
    BY <1>0, <2>1, <2>2, ChannelKeeps DEF old
<1>4. ASSUME NEW wg \in WgSet, Enable(c, wg) PROVE BundleInv'
  <2> DEFINE params == IF old.wg = 0 THEN wg ELSE old.wg
             e == [old EXCEPT !.on = TRUE, !.wg = params]
  <2>1. EditChannel(c, e) /\ old.there
    <3>1. old.there /\ EditChannel(c, [old EXCEPT !.on = TRUE, !.wg = IF @ = 0 THEN wg ELSE @])
      BY <1>4 DEF Enable, old
    <3>2. e = [old EXCEPT !.on = TRUE, !.wg = IF @ = 0 THEN wg ELSE @]
      BY <1>1 DEF Entries
    <3> QED
      BY <3>1, <3>2
  <2>2. params \in Nat
    BY <1>1 DEF Entries
  <2> HIDE DEF params
  <2>3. e \in Entries /\ e.on /\ e.there = old.there /\ e.port = old.port
    BY <1>1, <2>2 DEF Entries
  <2> HIDE DEF e
  <2> QED
    BY <2>1, <2>3, ChannelKeeps DEF old
<1>5. ASSUME NEW wg \in WgSet, Reconnect(c, wg) PROVE BundleInv'
  <2> DEFINE e == [old EXCEPT !.wg = wg]
  <2>1. EditChannel(c, e) /\ old.on
    BY <1>5 DEF Reconnect, old
  <2>2. e \in Entries /\ e.on = old.on /\ e.there = old.there /\ e.port = old.port
    BY <1>1 DEF Entries
  <2> HIDE DEF e
  <2> QED
    BY <1>0, <2>1, <2>2, ChannelKeeps DEF old
<1> QED
  BY <1>2, <1>3, <1>4, <1>5

\* The rule table is replaced by one whose targets are usable.
LEMMA RulesKeep ==
  ASSUME BundleInv, NEW blocks \in Seq(Blocks), EditRules(blocks),
         \A j \in DOMAIN blocks : UsableIn(setup, blocks[j].target)
  PROVE  BundleInv'
<1> DEFINE rules == ChosenAt(blocks, {j \in DOMAIN blocks : blocks[j].rows # <<>>})
           t == [setup EXCEPT !.rules = rules]
<1>1. setup \in Setups /\ ~setup.refused /\ Apart(setup)
  BY DEF BundleInv
<1>2. Edit(t)
  BY DEF EditRules
<1>3. rules \in Seq(Blocks) /\ \A k \in DOMAIN rules : \E j \in DOMAIN blocks : rules[k] = blocks[j]
  <2> DEFINE at == {j \in DOMAIN blocks : blocks[j].rows # <<>>}
  <2>1. rules = ChosenAt(blocks, at)
    OBVIOUS
  <2> HIDE DEF at, rules
  <2>2. /\ ChosenAt(blocks, at) \in Seq(Blocks)
        /\ \A k \in DOMAIN ChosenAt(blocks, at) :
             \E i \in at \cap DOMAIN blocks : ChosenAt(blocks, at)[k] = blocks[i]
    BY ChosenIs
  <2> QED
    BY <2>1, <2>2
<1> HIDE DEF rules
<1>4. /\ t \in Setups /\ t.rules = rules /\ t.chan = setup.chan /\ t.router = setup.router
      /\ t.refused = setup.refused
  BY <1>1, <1>3, SetRules
<1> HIDE DEF t
<1>5. setup' = t /\ UNCHANGED job
  BY <1>2 DEF Edit
<1>6. Usable(t) /\ Apart(t)
  BY <1>1, <1>3, <1>4 DEF Usable, UsableIn, Apart
<1> QED
  BY <1>1, <1>4, <1>5, <1>6 DEF BundleInv, JobOK, Usable, UsableIn, Apart

LEMMA RemovedBlocks ==
  ASSUME NEW T, NEW s \in Seq(T), NEW n \in DOMAIN s
  PROVE  /\ RemoveAt(s, n) \in Seq(T)
         /\ \A k \in DOMAIN RemoveAt(s, n) : \E j \in DOMAIN s : RemoveAt(s, n)[k] = s[j]
<1> DEFINE a == SubSeq(s, 1, n - 1)
           b == SubSeq(s, n + 1, Len(s))
<1>1. Len(s) \in Nat /\ n \in 1..Len(s)
  OBVIOUS
<1>2. a \in Seq(T) /\ b \in Seq(T)
  BY <1>1
<1>3. /\ \A k \in DOMAIN a : \E j \in DOMAIN s : a[k] = s[j]
      /\ \A k \in DOMAIN b : \E j \in DOMAIN s : b[k] = s[j]
  <2>1. ASSUME NEW k \in DOMAIN a PROVE \E j \in DOMAIN s : a[k] = s[j]
    <3>1. k \in 1..Len(s) /\ a[k] = s[k]
      BY <1>1
    <3> QED
      BY <3>1
  <2>2. ASSUME NEW k \in DOMAIN b PROVE \E j \in DOMAIN s : b[k] = s[j]
    <3>1. n + k \in 1..Len(s) /\ b[k] = s[n + k]
      BY <1>1
    <3> QED
      BY <3>1
  <2> QED
    BY <2>1, <2>2
<1>4. RemoveAt(s, n) = a \o b
  BY DEF RemoveAt
<1> HIDE DEF a, b
<1>5. \A k \in DOMAIN (a \o b) :
        (\E i \in DOMAIN a : (a \o b)[k] = a[i]) \/ (\E i \in DOMAIN b : (a \o b)[k] = b[i])
  BY <1>2
<1>6. a \o b \in Seq(T)
  BY <1>2
<1>7. \A k \in DOMAIN (a \o b) : \E j \in DOMAIN s : (a \o b)[k] = s[j]
  <2> DEFINE w == a \o b
  <2>1. \A k \in DOMAIN w : (\E i \in DOMAIN a : w[k] = a[i]) \/ (\E i \in DOMAIN b : w[k] = b[i])
    BY <1>5
  <2> HIDE DEF w
  <2>2. \A k \in DOMAIN w : \E j \in DOMAIN s : w[k] = s[j]
    BY <1>3, <2>1
  <2> QED
    BY <2>2 DEF w
<1> QED
  BY <1>4, <1>6, <1>7

\* One ruleset is replaced.
LEMMA PutBlock ==
  ASSUME NEW s \in Seq(Blocks), NEW j \in DOMAIN s, NEW e \in Blocks, NEW u, u = [s EXCEPT ![j] = e]
  PROVE  /\ u \in Seq(Blocks) /\ DOMAIN u = DOMAIN s
         /\ \A i \in DOMAIN s : u[i] = IF i = j THEN e ELSE s[i]
<1>1. DOMAIN s = 1..Len(s) /\ \A i \in 1..Len(s) : s[i] \in Blocks
  OBVIOUS
<1>2. u \in [1..Len(s) -> Blocks] /\ \A i \in DOMAIN s : u[i] = IF i = j THEN e ELSE s[i]
  BY <1>1
<1> QED
  BY <1>1, <1>2

\* Its rows are.
WithRows(s, j, rows) == [s EXCEPT ![j].rows = rows]
LEMMA PutRows ==
  ASSUME NEW s \in Seq(Blocks), NEW j \in DOMAIN s, NEW rows \in Seq(Rows),
         NEW u, u = WithRows(s, j, rows)
  PROVE  /\ u \in Seq(Blocks) /\ DOMAIN u = DOMAIN s
         /\ \A i \in DOMAIN s : u[i].target = s[i].target
         /\ \A i \in DOMAIN s \ {j} : u[i] = s[i]
<1> DEFINE e == [s[j] EXCEPT !.rows = rows]
<1>1. s[j] \in Blocks
  OBVIOUS
<1>2. e \in Blocks /\ e.target = s[j].target
  BY <1>1 DEF Blocks
<1>3. u = [s EXCEPT ![j] = e]
  BY DEF WithRows
<1> HIDE DEF e
<1>4. u \in Seq(Blocks) /\ DOMAIN u = DOMAIN s /\ \A i \in DOMAIN s : u[i] = IF i = j THEN e ELSE s[i]
  BY <1>2, <1>3, PutBlock
<1> QED
  BY <1>2, <1>4

LEMMA RulesetsKeep ==
  ASSUME BundleInv, NEW spec \in Specs,
         CreateRuleset(spec) \/ \E j \in DOMAIN setup.rules : UpdateRuleset(j, spec)
  PROVE  BundleInv'
<1> DEFINE e == BlockOf(spec, FALSE)
           s == setup.rules
<1>1. s \in Seq(Blocks) /\ \A i \in DOMAIN s : UsableIn(setup, s[i].target)
  BY SetupParts DEF BundleInv, Usable
<1>2. spec \in Ruled
  <2>1. PICK m \in Matchers : spec.matchers = <<m>>
    BY DEF Specs
  <2>2. spec.matchers \in Seq(Matchers) /\ spec.matchers # <<>>
    BY <2>1
  <2> QED
    BY <2>2 DEF Specs, Ruled
<1>3. e \in Blocks /\ e.target = spec.target
  BY <1>2, BlockIs
<1> HIDE DEF e
<1>4. CASE CreateRuleset(spec)
  <2>1. UsableIn(setup, spec.target) /\ EditRules(Append(s, e))
    BY <1>4 DEF CreateRuleset, e
  <2> HIDE DEF s
  <2>2. /\ Append(s, e) \in Seq(Blocks)
        /\ \A k \in DOMAIN Append(s, e) :
             Append(s, e)[k] = e \/ \E i \in DOMAIN s : Append(s, e)[k] = s[i]
    BY <1>1, <1>3
  <2>3. \A k \in DOMAIN Append(s, e) : UsableIn(setup, Append(s, e)[k].target)
    BY <1>1, <1>3, <2>1, <2>2
  <2> QED
    BY <2>1, <2>2, <2>3, RulesKeep
<1>5. CASE \E j \in DOMAIN setup.rules : UpdateRuleset(j, spec)
  <2>1. PICK j \in DOMAIN s : UpdateRuleset(j, spec)
    BY <1>5
  <2> DEFINE u == [s EXCEPT ![j] = e]
  <2>2. UsableIn(setup, spec.target) /\ EditRules(u)
    BY <2>1 DEF UpdateRuleset, e
  <2>3. u \in Seq(Blocks) /\ DOMAIN u = DOMAIN s /\ \A i \in DOMAIN s : u[i] = IF i = j THEN e ELSE s[i]
    BY <1>1, <1>3, PutBlock
  <2> HIDE DEF u, s
  <2>4. \A k \in DOMAIN u : UsableIn(setup, u[k].target)
    BY <1>1, <1>3, <2>2, <2>3
  <2> QED
    BY <2>2, <2>3, <2>4, RulesKeep
<1> QED
  BY <1>4, <1>5

LEMMA RowsKeep ==
  ASSUME BundleInv, NEW j \in DOMAIN setup.rules,
         \/ RemoveRuleset(j)
         \/ \E m \in Matchers : AddMatcher(j, m)
         \/ \E n \in DOMAIN setup.rules[j].rows, k \in DOMAIN setup.rules : MoveRule(j, n, k)
  PROVE  BundleInv'
<1> DEFINE s == setup.rules
<1>1. s \in Seq(Blocks) /\ \A i \in DOMAIN s : UsableIn(setup, s[i].target)
  BY SetupParts DEF BundleInv, Usable
<1>b. j \in DOMAIN s
  OBVIOUS
<1>a. \A i \in DOMAIN s : s[i].rows \in Seq(Rows)
  <2>1. \A i \in DOMAIN s : s[i] \in Blocks
    BY <1>1
  <2> HIDE DEF s
  <2> QED
    BY <2>1 DEF Blocks
<1>2. CASE RemoveRuleset(j)
  <2>1. EditRules(RemoveAt(s, j))
    BY <1>2 DEF RemoveRuleset
  <2>2. /\ RemoveAt(s, j) \in Seq(Blocks)
        /\ \A k \in DOMAIN RemoveAt(s, j) : \E i \in DOMAIN s : RemoveAt(s, j)[k] = s[i]
    BY <1>1, RemovedBlocks
  <2> HIDE DEF s
  <2>3. \A k \in DOMAIN RemoveAt(s, j) : UsableIn(setup, RemoveAt(s, j)[k].target)
    BY <1>1, <2>2
  <2> QED
    BY <2>1, <2>2, <2>3, RulesKeep
<1>3. CASE \E m \in Matchers : AddMatcher(j, m)
  <2>1. PICK m \in Matchers : AddMatcher(j, m)
    BY <1>3
  <2> DEFINE row == [m |-> m, managed |-> FALSE]
             rows == Append(s[j].rows, row)
             u == [s EXCEPT ![j].rows = rows]
  <2>2. EditRules(u)
    BY <2>1 DEF AddMatcher
  <2>3. row \in Rows
    BY DEF Rows
  <2> HIDE DEF row
  <2>4. rows \in Seq(Rows)
    BY <1>a, <2>3
  <2> HIDE DEF rows
  <2>5. u \in Seq(Blocks) /\ DOMAIN u = DOMAIN s /\ \A i \in DOMAIN s : u[i].target = s[i].target
    <3>1. u = WithRows(s, j, rows)
      BY DEF WithRows
    <3> HIDE DEF u, s
    <3> QED
      BY <1>1, <1>b, <2>4, <3>1, PutRows
  <2> HIDE DEF u, s
  <2>6. \A k \in DOMAIN u : UsableIn(setup, u[k].target)
    BY <1>1, <2>5
  <2> QED
    BY <2>2, <2>5, <2>6, RulesKeep
<1>4. CASE \E n \in DOMAIN setup.rules[j].rows, k \in DOMAIN setup.rules : MoveRule(j, n, k)
  <2>1. PICK n \in DOMAIN s[j].rows, k \in DOMAIN s : MoveRule(j, n, k)
    BY <1>4
  <2> DEFINE left == RemoveAt(s[j].rows, n)
             u == [s EXCEPT ![j].rows = left]
             rows == Append(s[k].rows, s[j].rows[n])
             v == [u EXCEPT ![k].rows = rows]
  <2>2. j # k /\ EditRules([s EXCEPT ![j].rows = RemoveAt(@, n), ![k].rows = Append(@, s[j].rows[n])])
    BY <2>1 DEF MoveRule
  <2>3. left \in Seq(Rows) /\ rows \in Seq(Rows)
    <3>1. s[j].rows \in Seq(Rows) /\ s[k].rows \in Seq(Rows)
      BY <1>a
    <3> QED
      BY <3>1, RemovedBlocks
  <2>4. /\ u \in Seq(Blocks) /\ DOMAIN u = DOMAIN s
        /\ \A i \in DOMAIN s : u[i].target = s[i].target
        /\ \A i \in DOMAIN s \ {j} : u[i] = s[i]
    <3>1. u = WithRows(s, j, left)
      BY DEF WithRows
    <3>2. s \in Seq(Blocks) /\ j \in DOMAIN s /\ left \in Seq(Rows)
      BY <1>1, <1>b, <2>3
    <3> HIDE DEF left, u, s
    <3> QED
      BY <3>1, <3>2, PutRows
  <2>5. v = [s EXCEPT ![j].rows = RemoveAt(@, n), ![k].rows = Append(@, s[j].rows[n])]
    <3>1. u[k] = s[k]
      BY <2>2, <2>4
    <3> QED
      BY <2>2, <3>1
  <2>6. EditRules(v)
    BY <2>2, <2>5
  <2> HIDE DEF u, rows
  <2>7. v \in Seq(Blocks) /\ DOMAIN v = DOMAIN s /\ \A i \in DOMAIN s : v[i].target = s[i].target
    <3>1. v = WithRows(u, k, rows)
      BY DEF WithRows
    <3>2. k \in DOMAIN u /\ u \in Seq(Blocks) /\ rows \in Seq(Rows)
      BY <2>3, <2>4
    <3> HIDE DEF v, s
    <3>3. v \in Seq(Blocks) /\ DOMAIN v = DOMAIN u /\ \A i \in DOMAIN u : v[i].target = u[i].target
      BY <3>1, <3>2, PutRows
    <3> QED
      BY <2>4, <3>3
  <2> HIDE DEF v, s
  <2>8. \A i \in DOMAIN v : UsableIn(setup, v[i].target)
    BY <1>1, <2>7
  <2> QED
    BY <2>6, <2>7, <2>8, RulesKeep
<1> QED
  BY <1>2, <1>3, <1>4
---------------------------------------------------------------------------
\* A first setup is empty.
LEMMA EmptyIs ==
  /\ Empty \in Setups /\ ~Empty.refused /\ Empty.rules = <<>> /\ Empty.router.port = 0
  /\ \A c \in Refs : Empty.chan[c] = Absent
  /\ Usable(Empty) /\ Apart(Empty)
<1> DEFINE chan == [c \in Refs |-> Absent]
           router == [port |-> 0, explicit |-> FALSE, kill |-> FALSE]
<1>1. chan \in [Refs -> Entries] /\ \A c \in Refs : chan[c] = Absent
  BY AbsentType
<1>2. router \in Entrypoints /\ router.port = 0
  BY DEF Entrypoints
<1>3. Empty = [chan |-> chan, prov |-> "absent", rules |-> <<>>, router |-> router, refused |-> FALSE]
  BY DEF Empty
<1>4. <<>> \in Seq(Blocks)
  OBVIOUS
<1> HIDE DEF chan, router
<1>5. /\ Empty \in Setups /\ ~Empty.refused /\ Empty.rules = <<>> /\ Empty.router.port = 0
      /\ \A c \in Refs : Empty.chan[c] = Absent
  BY <1>1, <1>2, <1>3, <1>4 DEF Setups
<1>6. Usable(Empty) /\ Apart(Empty)
  BY <1>5 DEF Usable, Apart, Absent
<1> QED
  BY <1>5, <1>6

LEMMA BundleInit == Init => BundleInv
BY EmptyIs DEF Init, BundleInv, JobOK

LEMMA BundleInductive == BundleInv /\ [Next]_vars => BundleInv'
<1> SUFFICES ASSUME BundleInv, [Next]_vars PROVE BundleInv'
  OBVIOUS
<1>1. ASSUME NEW c \in Refs,
             \/ \E place \in Places, wg \in WgSet : AddChannel(c, place, wg)
             \/ RemoveChannel(c) \/ Disable(c) \/ \E wg \in WgSet : Enable(c, wg) \/ Reconnect(c, wg)
      PROVE  BundleInv'
  <2>1. CASE \E place \in Places, wg \in WgSet : AddChannel(c, place, wg)
    BY <2>1, AddKeeps
  <2>2. CASE RemoveChannel(c) \/ Disable(c) \/ \E wg \in WgSet : Enable(c, wg) \/ Reconnect(c, wg)
    BY <2>2, ToggleKeeps
  <2> QED
    BY <1>1, <2>1, <2>2
<1>2. CASE People
  <2>1. CASE \E spec \in Specs : CreateRuleset(spec) \/ \E j \in DOMAIN setup.rules : UpdateRuleset(j, spec)
    BY <2>1, RulesetsKeep
  <2>2. CASE \E j \in DOMAIN setup.rules :
               \/ RemoveRuleset(j)
               \/ \E m \in Matchers : AddMatcher(j, m)
               \/ \E n \in DOMAIN setup.rules[j].rows, k \in DOMAIN setup.rules : MoveRule(j, n, k)
    BY <2>2, RowsKeep
  <2> QED
    BY <1>1, <1>2, <2>1, <2>2 DEF People
<1>3. CASE \E kind \in Kinds, b \in Bundles, fresh \in WgSet \cup {0} : Stage(kind, b, fresh)
  BY <1>3, StageKeeps
<1>4. CASE Commit
  BY <1>4, CommitKeeps
<1>5. CASE UNCHANGED vars
  BY <1>5 DEF vars, BundleInv, JobOK, Usable, UsableIn, Apart
<1> QED
  BY <1>2, <1>3, <1>4, <1>5 DEF Next

---------------------------------------------------------------------------
(* A second sync changes nothing *)

\* A name's specs, and its rulesets that a sync wrote.
SpecsOf(specs, n) == {i \in DOMAIN specs : specs[i].name = n}
SyncedOf(blocks, n) == {j \in DOMAIN blocks : IsManaged(blocks[j]) /\ blocks[j].name = n}
RankOfSpec(specs, i) == Rank(SpecsOf(specs, specs[i].name), i)
Asked(specs, n) == Rank(SpecsOf(specs, n), Len(specs))
Total(blocks, n) == Rank(SyncedOf(blocks, n), Len(blocks))

\* The n-th ruleset of a name is the n-th spec's.
InStep(blocks, specs) ==
  \A k \in DOMAIN blocks :
    IsManaged(blocks[k]) =>
      \E i \in DOMAIN specs :
        /\ blocks[k] = BlockOf(specs[i], TRUE)
        /\ RankOfSpec(specs, i) = Rank(SyncedOf(blocks, specs[i].name), k)

LEMMA MatchIs ==
  ASSUME NEW blocks \in Seq(Blocks), NEW specs \in Seq(Ruled), NEW j \in DOMAIN blocks,
         NEW i \in DOMAIN specs
  PROVE  i \in Match(blocks, j, specs)
           <=> (/\ IsManaged(blocks[j]) /\ specs[i].name = blocks[j].name
                /\ RankOfSpec(specs, i) = Rank(SyncedOf(blocks, specs[i].name), j))
<1> DEFINE n == blocks[j].name
<1>1. {h \in 1..i : specs[h].name = n} = {h \in 1..i : h \in SpecsOf(specs, n)}
  <2>1. \A h \in 1..i : h \in DOMAIN specs
    OBVIOUS
  <2> QED
    BY <2>1 DEF SpecsOf
<1>2. {h \in 1..j : IsManaged(blocks[h]) /\ blocks[h].name = n} = {h \in 1..j : h \in SyncedOf(blocks, n)}
  <2>1. \A h \in 1..j : h \in DOMAIN blocks
    OBVIOUS
  <2> QED
    BY <2>1 DEF SyncedOf
<1>3. /\ Cardinality({h \in 1..i : specs[h].name = n}) = Rank(SpecsOf(specs, n), i)
      /\ Cardinality({h \in 1..j : IsManaged(blocks[h]) /\ blocks[h].name = n}) = Rank(SyncedOf(blocks, n), j)
  BY <1>1, <1>2 DEF Rank
<1> QED
  BY <1>3 DEF Match, RankOfSpec

\* The block of a spec counts for its name.
LEMMA SpecBlock ==
  ASSUME NEW spec \in Ruled
  PROVE  /\ BlockOf(spec, TRUE) \in Blocks /\ BlockOf(spec, TRUE).name = spec.name
         /\ IsManaged(BlockOf(spec, TRUE))
<1>1. spec \in Grouped
  BY DEF Ruled, Grouped
<1> QED
  BY <1>1, GroupIs, BlockIs

\* A ruleset put behind the others: a hand-made one, or the next spec's.
NextIs(blocks, e, specs) ==
  IsManaged(e) =>
    \E i \in DOMAIN specs : /\ e = BlockOf(specs[i], TRUE)
                            /\ RankOfSpec(specs, i) = Total(blocks, specs[i].name) + 1
Grown(u, blocks, e) ==
  \A n \in Names :
    Total(u, n) = IF IsManaged(e) /\ e.name = n THEN Total(blocks, n) + 1 ELSE Total(blocks, n)

LEMMA StepAppend ==
  ASSUME NEW blocks \in Seq(Blocks), NEW specs \in Seq(Ruled), InStep(blocks, specs),
         NEW e \in Blocks, NextIs(blocks, e, specs), NEW u, u = Append(blocks, e)
  PROVE  u \in Seq(Blocks) /\ InStep(u, specs) /\ Grown(u, blocks, e)
<1> DEFINE N == Len(blocks)
<1>1. /\ N \in Nat /\ DOMAIN blocks = 1..N /\ u \in Seq(Blocks) /\ Len(u) = N + 1
      /\ DOMAIN u = 1..(N + 1) /\ u[N + 1] = e /\ \A k \in 1..N : u[k] = blocks[k]
  OBVIOUS
<1>2. ASSUME NEW n, NEW k \in 1..N PROVE Rank(SyncedOf(u, n), k) = Rank(SyncedOf(blocks, n), k)
  <2>1. \A h \in 1..k : h \in SyncedOf(u, n) <=> h \in SyncedOf(blocks, n)
    <3>1. \A h \in 1..k : h \in 1..N /\ h \in 1..(N + 1)
      BY <1>1
    <3> HIDE DEF N
    <3> QED
      BY <1>1, <3>1 DEF SyncedOf
  <2> QED
    BY <2>1, RankLocal
<1>3. ASSUME NEW n
      PROVE  Rank(SyncedOf(u, n), N + 1)
               = IF IsManaged(e) /\ e.name = n THEN Total(blocks, n) + 1 ELSE Total(blocks, n)
  <2>1. Rank(SyncedOf(u, n), N) = Rank(SyncedOf(blocks, n), N)
    <3>1. CASE N = 0
      BY <3>1, RankSteps
    <3>2. CASE N # 0
      <4>1. N \in 1..N
        BY <1>1, <3>2
      <4> QED
        BY <1>2, <4>1
    <3> QED
      BY <3>1, <3>2
  <2>2. N + 1 \in SyncedOf(u, n) <=> IsManaged(e) /\ e.name = n
    <3>1. N + 1 \in DOMAIN u
      BY <1>1
    <3> HIDE DEF N
    <3> QED
      BY <1>1, <3>1 DEF SyncedOf
  <2>3. Rank(SyncedOf(u, n), N + 1)
          = IF N + 1 \in SyncedOf(u, n) THEN Rank(SyncedOf(u, n), N) + 1 ELSE Rank(SyncedOf(u, n), N)
    BY <1>1, RankSteps
  <2> QED
    BY <2>1, <2>2, <2>3 DEF Total
<1>4. ASSUME NEW k \in DOMAIN u, IsManaged(u[k])
      PROVE  \E i \in DOMAIN specs :
               /\ u[k] = BlockOf(specs[i], TRUE)
               /\ RankOfSpec(specs, i) = Rank(SyncedOf(u, specs[i].name), k)
  <2>1. CASE k \in 1..N
    <3>1. u[k] = blocks[k] /\ k \in DOMAIN blocks
      BY <1>1, <2>1
    <3>2. PICK i \in DOMAIN specs : /\ blocks[k] = BlockOf(specs[i], TRUE)
                                    /\ RankOfSpec(specs, i) = Rank(SyncedOf(blocks, specs[i].name), k)
      BY <1>4, <3>1 DEF InStep
    <3>3. Rank(SyncedOf(u, specs[i].name), k) = Rank(SyncedOf(blocks, specs[i].name), k)
      BY <1>2, <2>1
    <3> QED
      BY <3>1, <3>2, <3>3
  <2>2. CASE k = N + 1
    <3>1. u[k] = e
      BY <1>1, <2>2
    <3>2. PICK i \in DOMAIN specs : /\ e = BlockOf(specs[i], TRUE)
                                    /\ RankOfSpec(specs, i) = Total(blocks, specs[i].name) + 1
      BY <1>4, <3>1 DEF NextIs
    <3>3. specs[i] \in Ruled
      OBVIOUS
    <3>4. IsManaged(e) /\ e.name = specs[i].name
      BY <3>2, <3>3, SpecBlock
    <3>5. Rank(SyncedOf(u, specs[i].name), N + 1) = Total(blocks, specs[i].name) + 1
      BY <1>3, <3>4
    <3> QED
      BY <2>2, <3>1, <3>2, <3>5
  <2>3. k \in 1..N \/ k = N + 1
    BY <1>1
  <2> QED
    BY <2>1, <2>2, <2>3
<1>5. InStep(u, specs)
  BY <1>4 DEF InStep
<1>6. \A n \in Names : Total(u, n) = Rank(SyncedOf(u, n), N + 1)
  BY <1>1 DEF Total
<1> QED
  BY <1>1, <1>3, <1>5, <1>6 DEF Grown

\* The kept rulesets of a name are the first specs', as many as there are of both.
Lesser(m, n) == IF m <= n THEN m ELSE n
BothHave(F, blocks, specs) ==
  \A n \in Names : Total(F, n) = Lesser(Total(blocks, n), Asked(specs, n))
LEMMA KeptInStep ==
  ASSUME NEW blocks \in Seq(Blocks), NEW specs \in Seq(Ruled),
         NEW F, F = FlattenSeq([j \in DOMAIN blocks |-> Kept(blocks, j, specs)])
  PROVE  F \in Seq(Blocks) /\ InStep(F, specs) /\ BothHave(F, blocks, specs)
<1> DEFINE N == Len(blocks)
           ss == [j \in DOMAIN blocks |-> Kept(blocks, j, specs)]
           level(n, j) == Lesser(Rank(SyncedOf(blocks, n), j), Asked(specs, n))
<1>1. /\ N \in Nat /\ DOMAIN blocks = 1..N /\ \A j \in 1..N : blocks[j] \in Blocks
      /\ \A i \in DOMAIN specs : specs[i] \in Ruled /\ specs[i].name \in Names
      /\ Len(specs) \in Nat /\ DOMAIN specs = 1..Len(specs)
  <2>1. \A spec \in Ruled : spec.name \in Names
    BY DEF Ruled
  <2> QED
    BY <2>1
<1>2. ss \in [1..N -> Seq(Blocks)] /\ \A j \in 1..N : ss[j] = Kept(blocks, j, specs)
  BY <1>1, KeptIs
<1> HIDE DEF ss
<1>3. ss \in Seq(Seq(Blocks)) /\ Len(ss) = N
  <2>1. N \in Nat /\ ss \in [1..N -> Seq(Blocks)]
    BY <1>1, <1>2
  <2> HIDE DEF N
  <2> QED
    BY <2>1
<1>4. PICK g : Flattening(ss, Blocks, g)
  BY <1>3, FlattenSteps
<1>5. /\ g \in [0..N -> Seq(Blocks)] /\ g[0] = <<>>
      /\ \A n \in 1..N : g[n] = g[n - 1] \o ss[n]
      /\ F = g[N]
  BY <1>3, <1>4 DEF Flattening, ss
<1>r. /\ \A n, j : j \in Nat => Rank(SyncedOf(blocks, n), j) \in Nat
      /\ \A n : Asked(specs, n) \in Nat
  BY <1>1, RankSteps DEF Asked
<1> DEFINE ok == {j \in 0..N : InStep(g[j], specs) /\ \A n \in Names : Total(g[j], n) = level(n, j)}
<1>6. 0 \in ok
  <2>1. InStep(<<>>, specs)
    BY DEF InStep
  <2>2. \A n \in Names : Total(<<>>, n) = 0 /\ Rank(SyncedOf(blocks, n), 0) = 0
    BY RankSteps DEF Total
  <2> QED
    BY <1>1, <1>5, <1>r, <2>1, <2>2 DEF Lesser
<1>7. ASSUME NEW j \in 0..(N - 1), j \in ok PROVE j + 1 \in ok
  <2> DEFINE e == blocks[j + 1]
             u == g[j]
             v == g[j + 1]
  <2>1. j \in Nat /\ j + 1 \in 1..N /\ j + 1 \in 0..N /\ j \in 0..N /\ (j + 1) - 1 = j /\ j + 1 \in DOMAIN blocks
    BY <1>1
  <2>2. u \in Seq(Blocks) /\ InStep(u, specs) /\ \A n \in Names : Total(u, n) = level(n, j)
    BY <1>5, <1>7, <2>1
  <2>3. v = u \o Kept(blocks, j + 1, specs) /\ e \in Blocks
    BY <1>1, <1>2, <1>5, <2>1
  <2>4. \A n \in Names : Rank(SyncedOf(blocks, n), j + 1)
          = IF IsManaged(e) /\ e.name = n THEN Rank(SyncedOf(blocks, n), j) + 1 ELSE Rank(SyncedOf(blocks, n), j)
    <3> SUFFICES ASSUME NEW n \in Names
                 PROVE  Rank(SyncedOf(blocks, n), j + 1)
                          = IF IsManaged(e) /\ e.name = n THEN Rank(SyncedOf(blocks, n), j) + 1
                            ELSE Rank(SyncedOf(blocks, n), j)
      OBVIOUS
    <3>1. j + 1 \in SyncedOf(blocks, n) <=> IsManaged(e) /\ e.name = n
      BY <2>1 DEF SyncedOf
    <3> QED
      BY <2>1, <3>1, RankSteps
  <2>5. e.name \in Names /\ \A x \in Seq(Blocks) : x \o <<>> = x /\ \A y \in Blocks : x \o <<y>> = Append(x, y)
    BY <2>3 DEF Blocks
  <2> HIDE DEF u, v, e
  <2>6. CASE ~IsManaged(e)
    <3>1. v = Append(u, e)
      BY <2>1, <2>2, <2>3, <2>5, <2>6, KeptIs DEF e
    <3>2. InStep(v, specs) /\ \A n \in Names : Total(v, n) = Total(u, n)
      <4>1. NextIs(u, e, specs)
        BY <2>6 DEF NextIs
      <4>2. InStep(v, specs) /\ Grown(v, u, e)
        BY <2>2, <2>3, <3>1, <4>1, StepAppend
      <4> QED
        BY <2>6, <4>2 DEF Grown
    <3>3. \A n \in Names : level(n, j + 1) = level(n, j)
      BY <2>4, <2>6
    <3>4. InStep(v, specs) /\ \A n \in Names : Total(v, n) = level(n, j + 1)
      BY <2>2, <3>2, <3>3
    <3> QED
      BY <2>1, <3>4 DEF v
  <2>7. CASE IsManaged(e)
    <3> DEFINE n == e.name
               r == Rank(SyncedOf(blocks, n), j + 1)
               match == Match(blocks, j + 1, specs)
    <3>1. n \in Names /\ r = Rank(SyncedOf(blocks, n), j) + 1 /\ r \in Nat /\ Rank(SyncedOf(blocks, n), j) \in Nat
      <4>1. /\ Rank(SyncedOf(blocks, n), j) \in Nat
            /\ Rank(SyncedOf(blocks, n), j + 1) = Rank(SyncedOf(blocks, n), j) + 1
        BY <2>1, <2>4, <2>5, <2>7, RankSteps
      <4> QED
        BY <2>5, <4>1
    <3>2. \A m \in Names \ {n} : level(m, j + 1) = level(m, j)
      BY <2>4
    <3>3. \A i \in DOMAIN specs : i \in match <=> specs[i].name = n /\ RankOfSpec(specs, i) = r
      BY <2>1, <2>7, MatchIs DEF e
    <3>4. CASE match = {}
      <4>1. Kept(blocks, j + 1, specs) = <<>>
        BY <2>7, <3>4 DEF Kept, e
      <4>2. v = u
        BY <2>2, <2>3, <2>5, <4>1
      <4>3. ~(r <= Asked(specs, n))
        <5> SUFFICES ASSUME r <= Asked(specs, n) PROVE FALSE
          OBVIOUS
        <5>1. r \in 1..Rank(SpecsOf(specs, n), Len(specs))
          BY <3>1 DEF Asked
        <5>2. PICK i \in 1..Len(specs) : i \in SpecsOf(specs, n) /\ Rank(SpecsOf(specs, n), i) = r
          BY <1>1, <5>1, RankReached
        <5>3. i \in DOMAIN specs /\ specs[i].name = n /\ RankOfSpec(specs, i) = r
          BY <5>2 DEF SpecsOf, RankOfSpec
        <5> QED
          BY <3>3, <3>4, <5>3
      <4>4. level(n, j + 1) = level(n, j)
        BY <1>r, <3>1, <4>3 DEF Lesser
      <4>5. \A m \in Names : level(m, j + 1) = level(m, j)
        BY <3>2, <4>4
      <4> QED
        BY <2>1, <2>2, <4>2, <4>5 DEF v
    <3>5. CASE match # {}
      <4> DEFINE i == CHOOSE h \in match : TRUE
      <4>1. i \in match /\ match \subseteq DOMAIN specs
        BY <3>5 DEF Match
      <4>2. Kept(blocks, j + 1, specs) = <<BlockOf(specs[i], TRUE)>>
        BY <2>7, <3>5 DEF Kept, e
      <4> HIDE DEF i, match
      <4>3. i \in DOMAIN specs /\ specs[i].name = n /\ RankOfSpec(specs, i) = r
        BY <3>3, <4>1
      <4> DEFINE f == BlockOf(specs[i], TRUE)
      <4>4. f \in Blocks /\ f.name = n /\ IsManaged(f)
        BY <1>1, <4>3, SpecBlock
      <4>5. v = Append(u, f)
        BY <2>2, <2>3, <2>5, <4>2, <4>4
      <4>6. r <= Asked(specs, n)
        <5>1. r = Rank(SpecsOf(specs, n), i) /\ i \in Nat /\ i <= Len(specs)
          BY <1>1, <4>3 DEF RankOfSpec
        <5> QED
          BY <1>1, <5>1, RankGrows DEF Asked
      <4>7. Total(u, n) + 1 = r
        BY <1>r, <2>2, <3>1, <4>6 DEF Lesser
      <4>8. /\ InStep(v, specs)
            /\ \A m \in Names : Total(v, m) = IF f.name = m THEN Total(u, m) + 1 ELSE Total(u, m)
        <5>1. NextIs(u, f, specs)
          BY <4>3, <4>7 DEF NextIs
        <5> HIDE DEF f
        <5>2. InStep(v, specs) /\ Grown(v, u, f)
          BY <2>2, <4>4, <4>5, <5>1, StepAppend
        <5> QED
          BY <4>4, <5>2 DEF Grown
      <4> HIDE DEF f
      <4>9. level(n, j + 1) = r
        BY <1>r, <3>1, <4>6 DEF Lesser
      <4>10. \A m \in Names : Total(v, m) = level(m, j + 1)
        <5> SUFFICES ASSUME NEW m \in Names PROVE Total(v, m) = level(m, j + 1)
          OBVIOUS
        <5>1. CASE m = n
          BY <4>4, <4>7, <4>8, <4>9, <5>1
        <5>2. CASE m # n
          BY <2>2, <3>2, <4>4, <4>8, <5>2
        <5> QED
          BY <5>1, <5>2
      <4> QED
        BY <2>1, <4>8, <4>10 DEF v
    <3> QED
      BY <3>4, <3>5
  <2> QED
    BY <2>6, <2>7
<1>8. 0..N \subseteq ok
  <2> HIDE DEF ok, N
  <2> QED
    BY <1>1, <1>6, <1>7, IntervalInduction
<1>9. N \in ok
  BY <1>1, <1>8
<1> QED
  BY <1>1, <1>5, <1>9 DEF Total, BothHave

LEMMA AppendedOne ==
  ASSUME NEW F \in Seq(Blocks), NEW q \in Seq(Ruled), NEW s \in Ruled
  PROVE  Appended(F, Append(q, s), TRUE) = Append(Appended(F, q, TRUE), BlockOf(s, TRUE))
<1> DEFINE w == Append(q, s)
           N == Len(q)
           e == BlockOf(s, TRUE)
           old == [i \in DOMAIN q |-> BlockOf(q[i], TRUE)]
           new == [i \in DOMAIN w |-> BlockOf(w[i], TRUE)]
<1>1. /\ N \in Nat /\ DOMAIN q = 1..N /\ \A i \in 1..N : q[i] \in Ruled
      /\ DOMAIN w = 1..(N + 1) /\ w[N + 1] = s /\ \A i \in 1..N : w[i] = q[i]
  OBVIOUS
<1> HIDE DEF w, N
<1>2. \A i \in 1..(N + 1) : w[i] \in Ruled
  BY <1>1
<1>3. /\ e \in Blocks /\ \A i \in 1..N : BlockOf(q[i], TRUE) \in Blocks
      /\ \A i \in 1..(N + 1) : BlockOf(w[i], TRUE) \in Blocks
  BY <1>1, <1>2, SpecBlock
<1>4. old \in [1..N -> Blocks] /\ new \in [1..(N + 1) -> Blocks]
  BY <1>1, <1>3
<1>5. new[N + 1] = e /\ \A i \in 1..N : new[i] = old[i]
  <2>1. /\ \A i \in 1..(N + 1) : new[i] = BlockOf(w[i], TRUE)
        /\ \A i \in 1..N : old[i] = BlockOf(q[i], TRUE)
    BY <1>1
  <2>2. N + 1 \in 1..(N + 1) /\ \A i \in 1..N : i \in 1..(N + 1)
    BY <1>1
  <2> HIDE DEF new, old
  <2>3. new[N + 1] = BlockOf(w[N + 1], TRUE)
    BY <2>1, <2>2
  <2>4. ASSUME NEW i \in 1..N PROVE new[i] = old[i]
    <3>1. new[i] = BlockOf(w[i], TRUE) /\ old[i] = BlockOf(q[i], TRUE) /\ w[i] = q[i]
      BY <1>1, <2>1, <2>2
    <3> QED
      BY <3>1
  <2> QED
    BY <1>1, <2>3, <2>4
<1>6. Appended(F, w, TRUE) = F \o new /\ Appended(F, q, TRUE) = F \o old
  BY DEF Appended
<1> HIDE DEF old, new, e
<1>7. old \in Seq(Blocks) /\ Len(old) = N /\ new \in Seq(Blocks) /\ Len(new) = N + 1
  BY <1>1, <1>4
<1>8. new = Append(old, e)
  BY <1>1, <1>3, <1>5, <1>7
<1>9. F \o Append(old, e) = Append(F \o old, e)
  BY <1>3, <1>7
<1> QED
  BY <1>6, <1>8, <1>9 DEF w, e

\* The specs that no ruleset was kept for follow in their order.
Unclaimed(blocks, specs) ==
  {i \in DOMAIN specs : RankOfSpec(specs, i) > Total(blocks, specs[i].name)}
Completed(F, specs, at) == Appended(F, ChosenAt(specs, at), TRUE)
LEMMA NewInStep ==
  ASSUME NEW blocks \in Seq(Blocks), NEW specs \in Seq(Ruled),
         NEW F \in Seq(Blocks), InStep(F, specs), BothHave(F, blocks, specs),
         NEW at, at = Unclaimed(blocks, specs),
         NEW R, R = Completed(F, specs, at)
  PROVE  R \in Seq(Blocks) /\ InStep(R, specs) /\ \A n \in Names : Total(R, n) = Asked(specs, n)
<1> DEFINE N == Len(specs)
           level(n, i) == IF Rank(SpecsOf(specs, n), i) <= Total(F, n) THEN Total(F, n)
                          ELSE Rank(SpecsOf(specs, n), i)
<1>1. /\ N \in Nat /\ DOMAIN specs = 1..N
      /\ \A i \in 1..N : specs[i] \in Ruled /\ specs[i].name \in Names
  <2>1. \A spec \in Ruled : spec.name \in Names
    BY DEF Ruled
  <2> QED
    BY <2>1
<1>2. PICK g : Choosing(specs, at, Ruled, g)
  BY ChosenSteps
<1>3. /\ g \in [0..N -> Seq(Ruled)] /\ g[0] = <<>>
      /\ \A i \in 1..N : g[i] = IF i \in at THEN Append(g[i - 1], specs[i]) ELSE g[i - 1]
      /\ ChosenAt(specs, at) = g[N]
  BY <1>2 DEF Choosing
<1>r. /\ \A n, i : i \in Nat => Rank(SpecsOf(specs, n), i) \in Nat
      /\ \A n : Asked(specs, n) = Rank(SpecsOf(specs, n), N)
      /\ \A s \in Seq(Blocks) : \A n : Total(s, n) \in Nat
  <2>1. \A s \in Seq(Blocks) : Len(s) \in Nat
    OBVIOUS
  <2> QED
    BY <2>1, RankSteps DEF Asked, Total
<1>4. Appended(F, <<>>, TRUE) = F
  <2>1. [i \in DOMAIN <<>> |-> BlockOf(<<>>[i], TRUE)] = <<>>
    OBVIOUS
  <2> QED
    BY <2>1 DEF Appended
<1>5. \A q \in Seq(Ruled) : \A s \in Ruled :
        Appended(F, Append(q, s), TRUE) = Append(Appended(F, q, TRUE), BlockOf(s, TRUE))
  BY AppendedOne
<1> DEFINE ok == {i \in 0..N : /\ Appended(F, g[i], TRUE) \in Seq(Blocks)
                               /\ InStep(Appended(F, g[i], TRUE), specs)
                               /\ \A n \in Names : Total(Appended(F, g[i], TRUE), n) = level(n, i)}
<1>6. 0 \in ok
  <2>1. \A n \in Names : level(n, 0) = Total(F, n)
    <3>1. \A n \in Names : Rank(SpecsOf(specs, n), 0) = 0 /\ 0 <= Total(F, n)
      BY <1>r, RankSteps
    <3> QED
      BY <3>1
  <2>2. Appended(F, g[0], TRUE) = F
    <3>1. g[0] = <<>>
      BY <1>3
    <3> QED
      BY <1>4, <3>1
  <2>3. 0 \in 0..N
    BY <1>1
  <2> HIDE DEF level, N
  <2> QED
    BY <2>1, <2>2, <2>3
<1>7. ASSUME NEW i \in 0..(N - 1), i \in ok PROVE i + 1 \in ok
  <2> DEFINE s == specs[i + 1]
             n == s.name
             r == RankOfSpec(specs, i + 1)
             u == Appended(F, g[i], TRUE)
             v == Appended(F, g[i + 1], TRUE)
  <2>1. i \in Nat /\ i + 1 \in 1..N /\ i + 1 \in 0..N /\ i \in 0..N /\ (i + 1) - 1 = i
    BY <1>1
  <2>2. /\ u \in Seq(Blocks) /\ InStep(u, specs) /\ \A m \in Names : Total(u, m) = level(m, i)
        /\ s \in Ruled /\ n \in Names /\ g[i] \in Seq(Ruled)
    BY <1>1, <1>3, <1>7, <2>1
  <2>3. \A m \in Names :
          Rank(SpecsOf(specs, m), i + 1)
            = IF m = n THEN Rank(SpecsOf(specs, m), i) + 1 ELSE Rank(SpecsOf(specs, m), i)
    <3> SUFFICES ASSUME NEW m \in Names
                 PROVE  Rank(SpecsOf(specs, m), i + 1)
                          = IF m = n THEN Rank(SpecsOf(specs, m), i) + 1 ELSE Rank(SpecsOf(specs, m), i)
      OBVIOUS
    <3>1. i + 1 \in SpecsOf(specs, m) <=> m = n
      BY <1>1, <2>1 DEF SpecsOf
    <3> QED
      BY <2>1, <3>1, RankSteps
  <2>4. r = Rank(SpecsOf(specs, n), i + 1)
    BY DEF RankOfSpec
  <2>5. /\ r = Rank(SpecsOf(specs, n), i) + 1 /\ r \in Nat /\ Rank(SpecsOf(specs, n), i) \in Nat
        /\ \A m \in Names \ {n} : level(m, i + 1) = level(m, i)
    <3>1. Rank(SpecsOf(specs, n), i + 1) \in Nat /\ Rank(SpecsOf(specs, n), i) \in Nat
      <4>1. i \in Nat /\ i + 1 \in Nat
        BY <2>1
      <4>2. \A A, k : k \in Nat => Rank(A, k) \in Nat
        BY RankSteps
      <4> QED
        BY <4>1, <4>2
    <3>2. \A m \in Names \ {n} : Rank(SpecsOf(specs, m), i + 1) = Rank(SpecsOf(specs, m), i)
      BY <2>3
    <3>3. Rank(SpecsOf(specs, n), i + 1) = Rank(SpecsOf(specs, n), i) + 1
      BY <2>2, <2>3
    <3>4. \A m \in Names \ {n} : level(m, i + 1) = level(m, i)
      BY <3>2
    <3> HIDE DEF r, level, n
    <3> QED
      BY <2>4, <3>1, <3>3, <3>4
  <2>6. r <= Asked(specs, n)
    BY <1>1, <1>r, <2>1, <2>4, RankGrows
  <2>7. /\ Total(F, n) = Lesser(Total(blocks, n), Asked(specs, n))
        /\ Total(F, n) \in Nat /\ Total(blocks, n) \in Nat /\ Asked(specs, n) \in Nat
    BY <1>1, <1>r, <2>2 DEF BothHave
  <2>8. g[i + 1] = IF i + 1 \in at THEN Append(g[i], s) ELSE g[i]
    BY <1>3, <2>1
  <2>9. i + 1 \in at <=> r > Total(blocks, n)
    BY <1>1, <2>1 DEF Unclaimed
  <2>10. Appended(F, Append(g[i], s), TRUE) = Append(u, BlockOf(s, TRUE))
    BY <1>5, <2>2
  <2>11. CASE i + 1 \notin at
    <3>1. v = u
      BY <2>8, <2>11
    <3>2. level(n, i + 1) = level(n, i)
      BY <2>4, <2>5, <2>6, <2>7, <2>9, <2>11 DEF Lesser
    <3>3. \A m \in Names : Total(v, m) = level(m, i + 1)
      BY <2>2, <2>5, <3>1, <3>2
    <3> QED
      BY <2>1, <2>2, <3>1, <3>3
  <2>12. CASE i + 1 \in at
    <3> DEFINE f == BlockOf(s, TRUE)
    <3>1. v = Append(u, f)
      BY <2>8, <2>10, <2>12
    <3>2. Total(u, n) + 1 = r /\ level(n, i + 1) = r
      <4>1. r > Total(blocks, n) /\ Total(F, n) = Total(blocks, n)
        BY <2>5, <2>6, <2>7, <2>9, <2>12 DEF Lesser
      <4>2. level(n, i + 1) = r
        BY <2>4, <2>5, <2>7, <4>1
      <4>3. level(n, i) = r - 1
        BY <2>5, <2>7, <4>1
      <4>4. Total(u, n) = r - 1
        BY <2>2, <4>3
      <4> HIDE DEF r, n, u, level
      <4> QED
        BY <2>5, <4>2, <4>4
    <3>3. f \in Blocks /\ f.name = n /\ IsManaged(f)
      BY <2>2, SpecBlock
    <3>4. NextIs(u, f, specs)
      <4>1. i + 1 \in DOMAIN specs /\ f = BlockOf(specs[i + 1], TRUE)
            /\ RankOfSpec(specs, i + 1) = Total(u, specs[i + 1].name) + 1
        BY <1>1, <2>1, <3>2
      <4> HIDE DEF f, u
      <4> QED
        BY <4>1 DEF NextIs
    <3> HIDE DEF f, u, v, s, n, r
    <3>5. v \in Seq(Blocks) /\ InStep(v, specs) /\ Grown(v, u, f)
      BY <2>2, <3>1, <3>3, <3>4, StepAppend
    <3>6. \A m \in Names : Total(v, m) = level(m, i + 1)
      <4> SUFFICES ASSUME NEW m \in Names PROVE Total(v, m) = level(m, i + 1)
        OBVIOUS
      <4>1. CASE m = n
        BY <3>2, <3>3, <3>5, <4>1 DEF Grown
      <4>2. CASE m # n
        BY <2>2, <2>5, <3>3, <3>5, <4>2 DEF Grown
      <4> QED
        BY <4>1, <4>2
    <3> QED
      BY <2>1, <3>5, <3>6 DEF v
  <2> QED
    BY <2>11, <2>12
<1>8. 0..N \subseteq ok
  <2> HIDE DEF ok, N
  <2> QED
    BY <1>1, <1>6, <1>7, IntervalInduction
<1>9. N \in ok
  <2> HIDE DEF ok
  <2> QED
    BY <1>1, <1>8
<1>10. R = Appended(F, g[N], TRUE)
  BY <1>3 DEF Completed
<1>11. \A n \in Names : level(n, N) = Asked(specs, n)
  <2> SUFFICES ASSUME NEW n \in Names PROVE level(n, N) = Asked(specs, n)
    OBVIOUS
  <2>1. Total(F, n) <= Asked(specs, n) /\ Total(F, n) \in Nat /\ Asked(specs, n) \in Nat
    BY <1>1, <1>r DEF Lesser, BothHave
  <2> QED
    BY <1>r, <2>1
<1> QED
  BY <1>9, <1>10, <1>11

\* A spec is claimed when a ruleset of its rank is there.
LEMMA ClaimedIs ==
  ASSUME NEW blocks \in Seq(Blocks), NEW specs \in Seq(Ruled), NEW i \in DOMAIN specs
  PROVE  i \in UNION {Match(blocks, j, specs) : j \in DOMAIN blocks}
           <=> RankOfSpec(specs, i) <= Total(blocks, specs[i].name)
<1> DEFINE n == specs[i].name
           r == RankOfSpec(specs, i)
<1>1. /\ Len(blocks) \in Nat /\ DOMAIN blocks = 1..Len(blocks)
      /\ i \in Nat /\ i # 0
  OBVIOUS
<1>2. r \in Nat /\ r # 0
  <2>1. i \in SpecsOf(specs, n) /\ i - 1 \in Nat /\ i \in Nat \ {0}
    BY <1>1 DEF SpecsOf
  <2>2. r = Rank(SpecsOf(specs, n), i - 1) + 1 /\ Rank(SpecsOf(specs, n), i - 1) \in Nat
    BY <2>1, RankSteps DEF RankOfSpec
  <2> HIDE DEF r
  <2> QED
    BY <2>2
<1>3. ASSUME NEW j \in DOMAIN blocks, i \in Match(blocks, j, specs)
      PROVE  r <= Total(blocks, n)
  <2>1. r = Rank(SyncedOf(blocks, n), j)
    BY <1>3, MatchIs
  <2>2. j \in Nat /\ j <= Len(blocks)
    BY <1>1
  <2> QED
    BY <1>1, <2>1, <2>2, RankGrows DEF Total
<1>4. ASSUME r <= Total(blocks, n)
      PROVE  \E j \in DOMAIN blocks : i \in Match(blocks, j, specs)
  <2>0. Rank(SyncedOf(blocks, n), Len(blocks)) \in Nat
    BY <1>1, RankSteps
  <2>1. r \in 1..Rank(SyncedOf(blocks, n), Len(blocks))
    <3> HIDE DEF r, n
    <3> QED
      BY <1>2, <1>4, <2>0 DEF Total
  <2>2. PICK j \in 1..Len(blocks) : j \in SyncedOf(blocks, n) /\ Rank(SyncedOf(blocks, n), j) = r
    <3> HIDE DEF r, n
    <3> QED
      BY <1>1, <2>1, RankReached
  <2>3. j \in DOMAIN blocks /\ IsManaged(blocks[j]) /\ blocks[j].name = n
    BY <2>2 DEF SyncedOf
  <2> QED
    BY <2>2, <2>3, MatchIs
<1> QED
  BY <1>3, <1>4

LEMMA ConvergedInStep ==
  ASSUME NEW blocks \in Seq(Blocks), NEW specs \in Seq(Ruled),
         NEW R, R = Converged(blocks, specs)
  PROVE  R \in Seq(Blocks) /\ InStep(R, specs) /\ \A n \in Names : Total(R, n) = Asked(specs, n)
<1> DEFINE F == FlattenSeq([j \in DOMAIN blocks |-> Kept(blocks, j, specs)])
           claimed == UNION {Match(blocks, j, specs) : j \in DOMAIN blocks}
           at == DOMAIN specs \ claimed
<1>1. F \in Seq(Blocks) /\ InStep(F, specs) /\ BothHave(F, blocks, specs)
  BY KeptInStep
<1>2. at = Unclaimed(blocks, specs)
  <2> SUFFICES ASSUME NEW i \in DOMAIN specs
               PROVE  i \in at <=> RankOfSpec(specs, i) > Total(blocks, specs[i].name)
    BY DEF Unclaimed
  <2>1. i \in claimed <=> RankOfSpec(specs, i) <= Total(blocks, specs[i].name)
    BY ClaimedIs
  <2>2. RankOfSpec(specs, i) \in Nat /\ Total(blocks, specs[i].name) \in Nat
    <3>1. i \in Nat /\ Len(blocks) \in Nat
      OBVIOUS
    <3> QED
      BY <3>1, RankSteps DEF RankOfSpec, Total
  <2> HIDE DEF claimed
  <2> QED
    BY <2>1, <2>2
<1>3. R = Completed(F, specs, at)
  BY DEF Converged, Completed
<1> HIDE DEF F, at
<1> QED
  BY <1>1, <1>2, <1>3, NewInStep

\* Choosing everything, and nothing.
LEMMA FlattenOnes ==
  ASSUME NEW T, NEW s \in Seq(T), NEW F, F = FlattenSeq([j \in DOMAIN s |-> <<s[j]>>])
  PROVE  F = s
<1> DEFINE N == Len(s)
           ss == [j \in DOMAIN s |-> <<s[j]>>]
<1>1. N \in Nat /\ DOMAIN s = 1..N /\ \A j \in 1..N : s[j] \in T
  OBVIOUS
<1>2. ss \in [1..N -> Seq(T)] /\ \A j \in 1..N : ss[j] = <<s[j]>>
  BY <1>1
<1> HIDE DEF ss
<1>3. ss \in Seq(Seq(T)) /\ Len(ss) = N
  BY <1>1, <1>2
<1>4. PICK g : Flattening(ss, T, g)
  BY <1>3, FlattenSteps
<1>5. /\ g \in [0..N -> Seq(T)] /\ g[0] = <<>>
      /\ \A n \in 1..N : g[n] = g[n - 1] \o ss[n]
      /\ F = g[N]
  BY <1>3, <1>4 DEF Flattening, ss
<1> DEFINE ok == {n \in 0..N : Len(g[n]) = n /\ \A j \in 1..n : g[n][j] = s[j]}
<1>6. 0 \in ok
  BY <1>1, <1>5
<1>7. ASSUME NEW n \in 0..(N - 1), n \in ok PROVE n + 1 \in ok
  <2>1. n \in Nat /\ n + 1 \in 1..N /\ n + 1 \in 0..N /\ n \in 0..N /\ (n + 1) - 1 = n
    BY <1>1
  <2>2. g[n] \in Seq(T) /\ Len(g[n]) = n /\ (\A j \in 1..n : g[n][j] = s[j]) /\ s[n + 1] \in T
    BY <1>1, <1>5, <1>7, <2>1
  <2>3. g[n + 1] = g[n] \o <<s[n + 1]>>
    BY <1>2, <1>5, <2>1
  <2>4. Len(g[n + 1]) = n + 1 /\ \A j \in 1..(n + 1) : g[n + 1][j] = s[j]
    BY <2>1, <2>2, <2>3
  <2> QED
    BY <2>1, <2>4
<1>8. 0..N \subseteq ok
  <2> HIDE DEF ok, N
  <2> QED
    BY <1>1, <1>6, <1>7, IntervalInduction
<1>9. F \in Seq(T) /\ Len(F) = N /\ \A j \in 1..N : F[j] = s[j]
  <2>1. N \in ok
    <3> HIDE DEF ok
    <3> QED
      BY <1>1, <1>8
  <2> QED
    BY <1>1, <1>5, <2>1
<1> QED
  BY <1>9

LEMMA ChosenNone ==
  ASSUME NEW T, NEW s \in Seq(T), NEW at, at \cap DOMAIN s = {}
  PROVE  ChosenAt(s, at) = <<>>
<1>1. /\ ChosenAt(s, at) \in Seq(T)
      /\ \A k \in DOMAIN ChosenAt(s, at) : \E i \in at \cap DOMAIN s : ChosenAt(s, at)[k] = s[i]
  BY ChosenIs
<1>2. DOMAIN ChosenAt(s, at) = {}
  BY <1>1
<1> QED
  BY <1>1, <1>2

\* Rulesets in step with all specs converge to themselves.
LEMMA InStepStays ==
  ASSUME NEW blocks \in Seq(Blocks), NEW specs \in Seq(Ruled), InStep(blocks, specs),
         \A n \in Names : Total(blocks, n) = Asked(specs, n)
  PROVE  Converged(blocks, specs) = blocks
<1> DEFINE claimed == UNION {Match(blocks, j, specs) : j \in DOMAIN blocks}
           at == DOMAIN specs \ claimed
<1>0. /\ \A i \in DOMAIN specs : specs[i] \in Ruled /\ specs[i].name \in Names
      /\ Len(specs) \in Nat /\ DOMAIN specs = 1..Len(specs)
  <2>1. \A spec \in Ruled : spec.name \in Names
    BY DEF Ruled
  <2> QED
    BY <2>1
<1>1. ASSUME NEW j \in DOMAIN blocks PROVE Kept(blocks, j, specs) = <<blocks[j]>>
  <2>1. CASE ~IsManaged(blocks[j])
    BY <2>1, KeptIs
  <2>2. CASE IsManaged(blocks[j])
    <3> DEFINE match == Match(blocks, j, specs)
               h == CHOOSE k \in match : TRUE
    <3>1. PICK i \in DOMAIN specs :
            /\ blocks[j] = BlockOf(specs[i], TRUE)
            /\ RankOfSpec(specs, i) = Rank(SyncedOf(blocks, specs[i].name), j)
      BY <2>2 DEF InStep
    <3>2. blocks[j].name = specs[i].name
      BY <1>0, <3>1, SpecBlock
    <3>3. i \in match
      BY <2>2, <3>1, <3>2, MatchIs
    <3>4. h \in match /\ match \subseteq DOMAIN specs
      BY <3>3 DEF Match
    <3>5. Kept(blocks, j, specs) = <<BlockOf(specs[h], TRUE)>>
      BY <2>2, <3>3 DEF Kept
    <3> HIDE DEF h
    <3>6. h \in DOMAIN specs /\ specs[h].name = specs[i].name /\ RankOfSpec(specs, h) = RankOfSpec(specs, i)
      <4>1. h \in DOMAIN specs /\ h \in Match(blocks, j, specs)
        BY <3>4
      <4>2. specs[h].name = blocks[j].name /\ RankOfSpec(specs, h) = Rank(SyncedOf(blocks, specs[h].name), j)
        BY <4>1, MatchIs
      <4> QED
        BY <3>1, <3>2, <4>1, <4>2
    <3>7. h = i
      <4>1. /\ h \in SpecsOf(specs, specs[i].name) /\ i \in SpecsOf(specs, specs[i].name)
            /\ Rank(SpecsOf(specs, specs[i].name), h) = Rank(SpecsOf(specs, specs[i].name), i)
        BY <3>6 DEF SpecsOf, RankOfSpec
      <4>2. h \in Nat /\ i \in Nat
        BY <1>0, <3>6
      <4> QED
        BY <4>1, <4>2, RankDiffers
    <3> QED
      BY <3>1, <3>5, <3>7
  <2> QED
    BY <2>1, <2>2
<1>2. FlattenSeq([j \in DOMAIN blocks |-> Kept(blocks, j, specs)]) = blocks
  <2>1. [j \in DOMAIN blocks |-> Kept(blocks, j, specs)] = [j \in DOMAIN blocks |-> <<blocks[j]>>]
    BY <1>1
  <2> QED
    BY <2>1, FlattenOnes
<1>3. at \cap DOMAIN specs = {}
  <2> SUFFICES ASSUME NEW i \in DOMAIN specs PROVE i \in claimed
    OBVIOUS
  <2>1. RankOfSpec(specs, i) <= Asked(specs, specs[i].name)
    <3>1. i \in Nat /\ i <= Len(specs)
      BY <1>0
    <3> QED
      BY <1>0, <3>1, RankGrows DEF RankOfSpec, Asked
  <2>2. RankOfSpec(specs, i) <= Total(blocks, specs[i].name)
    BY <1>0, <2>1
  <2> QED
    BY <2>2, ClaimedIs
<1> HIDE DEF at
<1>4. ChosenAt(specs, at) = <<>>
  BY <1>3, ChosenNone
<1>5. Appended(blocks, <<>>, TRUE) = blocks
  <2>1. [i \in DOMAIN <<>> |-> BlockOf(<<>>[i], TRUE)] = <<>>
    OBVIOUS
  <2> QED
    BY <2>1 DEF Appended
<1> QED
  BY <1>2, <1>4, <1>5 DEF Converged, at

LEMMA ConvergedStays ==
  ASSUME NEW blocks \in Seq(Blocks), NEW specs \in Seq(Ruled)
  PROVE  Converged(Converged(blocks, specs), specs) = Converged(blocks, specs)
BY ConvergedInStep, InStepStays

\* A channel as a sync leaves it, by its spec and the entry found.
Landed(spec, old, e) ==
  /\ e.there /\ e.on = WillBeOn("merge", spec, old) /\ e.place = spec.place /\ e.wg = spec.wg
  /\ e.explicit = (spec.port # 0) /\ (spec.port # 0 => e.port = spec.port)

LEMMA UpsertLands ==
  ASSUME NEW t \in Setups, NEW spec \in Declared, NEW u, u = Upsert(t, spec, TRUE), ~u.refused
  PROVE  u.prov = t.prov /\ Landed(spec, t.chan[spec.ref], u.chan[spec.ref])
<1> DEFINE c == spec.ref
           old == t.chan[c]
           port == PortOf(t, spec, old)
           on == WillBeOn("merge", spec, old)
           explicit == spec.port # 0 \/ (~TRUE /\ old.explicit)
           managed == IF old.there THEN old.managed ELSE TRUE
           entry == [there |-> TRUE, on |-> on, place |-> spec.place, wg |-> spec.wg, port |-> port,
                     explicit |-> explicit, managed |-> managed]
<1>1. c \in Refs /\ t.chan \in [Refs -> Entries]
  BY SetupParts DEF Declared
<1>2. u = IF t.refused \/ port = 0 \/ port \in UsedBy(t, {c}) THEN Refuse(t)
          ELSE [t EXCEPT !.chan[c] = entry]
  BY DEF Upsert
<1>3. Refuse(t).refused
  BY Refused
<1>4. spec.port # 0 => port = spec.port
  BY DEF PortOf
<1>5. explicit = (spec.port # 0)
  OBVIOUS
<1> HIDE DEF port, on, explicit, managed, c, old
<1>6. /\ entry.there = TRUE /\ entry.on = on /\ entry.place = spec.place /\ entry.wg = spec.wg
      /\ entry.port = port /\ entry.explicit = explicit
  OBVIOUS
<1> HIDE DEF entry
<1>7. u = [t EXCEPT !.chan[c] = entry]
  BY <1>2, <1>3
<1>8. u.prov = t.prov /\ u.chan[c] = entry
  BY <1>1, <1>7 DEF Setups
<1>9. Landed(spec, old, entry)
  BY <1>4, <1>5, <1>6 DEF Landed, on
<1> QED
  BY <1>8, <1>9 DEF c, old

\* A channel that is as its spec wants it is put in again as it is.
LEMMA UpsertAgain ==
  ASSUME NEW u \in Setups, ~u.refused, Apart(u), NEW spec \in Declared,
         Landed(spec, u.chan[spec.ref], u.chan[spec.ref])
  PROVE  Upsert(u, spec, TRUE) = u
<1> DEFINE c == spec.ref
           old == u.chan[c]
           port == PortOf(u, spec, old)
           on == WillBeOn("merge", spec, old)
           explicit == spec.port # 0 \/ (~TRUE /\ old.explicit)
           managed == IF old.there THEN old.managed ELSE TRUE
           entry == [there |-> TRUE, on |-> on, place |-> spec.place, wg |-> spec.wg, port |-> port,
                     explicit |-> explicit, managed |-> managed]
<1>1. c \in Refs /\ u.chan \in [Refs -> Entries] /\ old \in Entries /\ spec.port \in Nat
  BY SetupParts DEF Declared
<1>2. Upsert(u, spec, TRUE)
        = IF u.refused \/ port = 0 \/ port \in UsedBy(u, {c}) THEN Refuse(u)
          ELSE [u EXCEPT !.chan[c] = entry]
  BY DEF Upsert
<1>3. old.there /\ old.on = on /\ old.place = spec.place /\ old.wg = spec.wg
      /\ old.explicit = (spec.port # 0) /\ (spec.port # 0 => old.port = spec.port)
  BY DEF Landed
<1>4. port = old.port
  <2>1. CASE spec.port # 0
    BY <1>3, <2>1 DEF PortOf
  <2>2. CASE spec.port = 0
    BY <1>3, <2>2 DEF PortOf
  <2> QED
    BY <2>1, <2>2
<1>5. explicit = old.explicit
  BY <1>3
<1>6. managed = old.managed
  BY <1>3
<1>7. port \notin UsedBy(u, {c}) /\ port # 0
  BY <1>1, <1>3, <1>4, ApartIs DEF Present
<1>8. old = [there |-> old.there, on |-> old.on, place |-> old.place, wg |-> old.wg, port |-> old.port,
             explicit |-> old.explicit, managed |-> old.managed]
      /\ old.there = TRUE
  BY <1>1, <1>3 DEF Entries
<1> HIDE DEF port, on, explicit, managed, old
<1>9. entry = old
  BY <1>3, <1>4, <1>5, <1>6, <1>8
<1> HIDE DEF entry
<1>10. Upsert(u, spec, TRUE) = [u EXCEPT !.chan[c] = entry]
  BY <1>2, <1>7
<1>11. [u EXCEPT !.chan[c] = old] = u
  <2>1. [u.chan EXCEPT ![c] = u.chan[c]] = u.chan
    BY <1>1
  <2>2. [u EXCEPT !.chan[c] = u.chan[c]] = [u EXCEPT !.chan = u.chan]
    BY <2>1
  <2>3. [u EXCEPT !.chan = u.chan] = u
    BY DEF Setups
  <2> QED
    BY <2>2, <2>3 DEF old
<1> QED
  BY <1>9, <1>10, <1>11

\* The same of all the channels of a file.
AllLanded(b, t, u) ==
  \A i \in DOMAIN b.channels : Landed(b.channels[i], t.chan[b.channels[i].ref], u.chan[b.channels[i].ref])

LEMMA UpsertedLands ==
  ASSUME NEW t \in Setups, NEW b \in Files, NEW u, u = Upserted(t, b, TRUE), ~u.refused
  PROVE  u.prov = t.prov /\ AllLanded(b, t, u)
<1> DEFINE N == Len(b.channels)
           ref(i) == b.channels[i].ref
           So(n, s) == ~s.refused =>
                         /\ s.prov = t.prov
                         /\ \A i \in 1..N :
                              IF i <= n THEN Landed(b.channels[i], t.chan[ref(i)], s.chan[ref(i)])
                              ELSE s.chan[ref(i)] = t.chan[ref(i)]
<1>1. /\ N \in Nat /\ DOMAIN b.channels = 1..N
      /\ \A i \in 1..N : b.channels[i] \in Declared /\ ref(i) \in Refs
      /\ \A i, j \in 1..N : ref(i) = ref(j) => i = j
  BY FileParts
<1>2. PICK a \in [0..N -> Setups] :
        /\ a[0] = t
        /\ \A n \in 1..N : a[n] = Upsert(a[n - 1], b.channels[n], TRUE)
        /\ Upserted(t, b, TRUE) = a[N]
  BY UpsertedSteps
<1> DEFINE ok == {n \in 0..N : So(n, a[n])}
<1>3. 0 \in ok
  BY <1>1, <1>2
<1>4. ASSUME NEW n \in 0..(N - 1), n \in ok PROVE n + 1 \in ok
  <2> DEFINE s == a[n]
             v == a[n + 1]
             spec == b.channels[n + 1]
  <2>1. n \in Nat /\ n + 1 \in 1..N /\ n + 1 \in 0..N /\ (n + 1) - 1 = n /\ n \in 0..N
    BY <1>1
  <2>2. s \in Setups /\ So(n, s) /\ v = Upsert(s, spec, TRUE) /\ spec \in Declared
    BY <1>1, <1>2, <1>4, <2>1
  <2> HIDE DEF s, v
  <2> SUFFICES ASSUME ~v.refused PROVE So(n + 1, v)
    BY <2>1 DEF v
  <2>3. ~s.refused /\ \A d \in Refs \ {spec.ref} : v.chan[d] = s.chan[d]
    BY <2>2, UpsertIs
  <2>4. v.prov = s.prov /\ Landed(spec, s.chan[spec.ref], v.chan[spec.ref])
    BY <2>2, UpsertLands
  <2>5. s.chan[spec.ref] = t.chan[spec.ref]
    BY <2>1, <2>2, <2>3
  <2>6. ASSUME NEW i \in 1..N
        PROVE  IF i <= n + 1 THEN Landed(b.channels[i], t.chan[ref(i)], v.chan[ref(i)])
               ELSE v.chan[ref(i)] = t.chan[ref(i)]
    <3>1. CASE i = n + 1
      BY <2>1, <2>4, <2>5, <3>1
    <3>2. CASE i # n + 1
      <4>1. v.chan[ref(i)] = s.chan[ref(i)]
        BY <1>1, <2>1, <2>3, <3>2
      <4>2. i <= n + 1 <=> i <= n
        BY <2>1, <3>2
      <4> HIDE DEF ref
      <4> QED
        BY <2>2, <2>3, <4>1, <4>2
    <3> QED
      BY <3>1, <3>2
  <2> QED
    BY <2>2, <2>3, <2>4, <2>6
<1>5. 0..N \subseteq ok
  <2> HIDE DEF ok, N
  <2> QED
    BY <1>1, <1>3, <1>4, IntervalInduction
<1>6. So(N, u)
  <2>1. N \in ok
    <3> HIDE DEF ok
    <3> QED
      BY <1>1, <1>5
  <2> QED
    BY <1>2, <2>1
<1> HIDE DEF N
<1>7. \A i \in 1..N : i <= N
  BY <1>1
<1> QED
  BY <1>1, <1>6, <1>7 DEF AllLanded

LEMMA UpsertedAgain ==
  ASSUME NEW u \in Setups, ~u.refused, Apart(u), NEW b \in Files, AllLanded(b, u, u)
  PROVE  Upserted(u, b, TRUE) = u
<1> DEFINE N == Len(b.channels)
<1>1. /\ N \in Nat /\ DOMAIN b.channels = 1..N
      /\ \A i \in 1..N : b.channels[i] \in Declared
  BY FileParts
<1>2. PICK a \in [0..N -> Setups] :
        /\ a[0] = u
        /\ \A n \in 1..N : a[n] = Upsert(a[n - 1], b.channels[n], TRUE)
        /\ Upserted(u, b, TRUE) = a[N]
  BY UpsertedSteps
<1> DEFINE ok == {n \in 0..N : a[n] = u}
<1>3. 0 \in ok
  BY <1>1, <1>2
<1>4. ASSUME NEW n \in 0..(N - 1), n \in ok PROVE n + 1 \in ok
  <2>1. n + 1 \in 1..N /\ n + 1 \in 0..N /\ (n + 1) - 1 = n
    BY <1>1
  <2>2. a[n + 1] = Upsert(u, b.channels[n + 1], TRUE)
    BY <1>2, <1>4, <2>1
  <2>3. a[n + 1] = u
    BY <1>1, <2>1, <2>2, UpsertAgain DEF AllLanded
  <2> QED
    BY <2>1, <2>3
<1>5. 0..N \subseteq ok
  <2> HIDE DEF ok, N
  <2> QED
    BY <1>1, <1>3, <1>4, IntervalInduction
<1> QED
  BY <1>1, <1>2, <1>5

\* A setup that a sync of a file has nothing to do in.
Settled(u, b) ==
  /\ Converged(u.rules, b.rulesets) = u.rules /\ AllLanded(b, u, u)
  /\ \A c \in Refs \ BundleRefs(b) : u.chan[c].managed => c \in Targeted(u.rules)
  /\ b.channels # <<>> => u.prov # "absent"
  /\ b.channels = <<>> /\ Present(u) = {} => u.prov # "managed"
  /\ \A i \in DOMAIN b.rulesets : UsableIn(u, b.rulesets[i].target)
  /\ (b.port # 0 => u.router.port = b.port) /\ u.router.explicit = (b.port # 0)
  /\ b.kill # "unstated" => u.router.kill = (b.kill = "yes")

LEMMA SettledStays ==
  ASSUME NEW u \in Setups, ~u.refused, Apart(u), NEW b \in Files, Settled(u, b)
  PROVE  Synced(u, b) = u
<1> DEFINE conv == [u EXCEPT !.rules = Converged(u.rules, b.rulesets)]
<1>1. /\ u.chan \in [Refs -> Entries] /\ u.router \in Entrypoints
      /\ b.port \in Nat /\ b.kill \in {"yes", "no", "unstated"}
      /\ \A i \in DOMAIN b.channels : b.channels[i] \in Declared /\ b.channels[i].ref \in Refs
  BY SetupParts, FileParts
<1>2. conv = u
  <2>1. [u EXCEPT !.rules = u.rules] = u
    BY DEF Setups
  <2> QED
    BY <2>1 DEF Settled
<1>3. Pruned(u, b) = u
  <2> DEFINE chan == [c \in Refs |->
                        IF u.chan[c].managed /\ c \notin BundleRefs(b) \cup Targeted(u.rules)
                        THEN Absent ELSE u.chan[c]]
  <2>1. chan = u.chan
    BY <1>1 DEF Settled
  <2>2. Pruned(u, b) = [u EXCEPT !.chan = chan]
    BY DEF Pruned
  <2> HIDE DEF chan
  <2>3. [u EXCEPT !.chan = u.chan] = u
    BY DEF Setups
  <2> QED
    BY <2>1, <2>2, <2>3
<1>4. Provided(u, b) = u
  <2> DEFINE prov == CASE b.channels # <<>> /\ u.prov = "absent" -> "managed"
                       [] b.channels = <<>> /\ u.prov = "managed" /\ Present(u) = {} -> "absent"
                       [] OTHER -> u.prov
  <2>1. Provided(u, b) = [u EXCEPT !.prov = prov]
    BY DEF Provided
  <2>2. prov = u.prov
    BY DEF Settled
  <2> HIDE DEF prov
  <2>3. [u EXCEPT !.prov = u.prov] = u
    BY DEF Setups
  <2> QED
    BY <2>1, <2>2, <2>3
<1>5. Upserted(u, b, TRUE) = u
  BY UpsertedAgain DEF Settled
<1>6. Disabling(u, b) = {}
  <2> SUFFICES ASSUME NEW i \in DOMAIN b.channels, b.channels[i].on = "no"
               PROVE  u.chan[b.channels[i].ref].there /\ ~u.chan[b.channels[i].ref].on
    BY DEF Disabling, DisabledIn
  <2> QED
    BY DEF Settled, AllLanded, Landed, WillBeOn
<1>7. Checked(u, b, Disabling(u, b)) = u
  BY <1>6 DEF Checked, Settled
<1>8. Toggled(u, b, TRUE) = u
  <2> DEFINE port == IF b.port # 0 THEN b.port ELSE u.router.port
             explicit == b.port # 0 \/ (~TRUE /\ u.router.explicit)
             kill == IF b.kill = "unstated" THEN u.router.kill ELSE b.kill = "yes"
             r == [port |-> port, explicit |-> explicit, kill |-> kill]
  <2>1. Toggled(u, b, TRUE)
          = IF b.port # 0 /\ b.port \in UsedBy(u, {"router"}) THEN Refuse(u) ELSE [u EXCEPT !.router = r]
    BY DEF Toggled
  <2>2. b.port # 0 => b.port \notin UsedBy(u, {"router"})
    <3>1. \A c \in Refs : u.chan[c].port = 0 \/ u.chan[c].port # u.router.port
      BY DEF Apart
    <3> QED
      BY <3>1 DEF UsedBy, Settled
  <2>3. port = u.router.port
    BY DEF Settled
  <2>4. explicit = u.router.explicit
    BY DEF Settled
  <2>5. kill = u.router.kill
    BY DEF Settled
  <2>6. u.router = [port |-> u.router.port, explicit |-> u.router.explicit, kill |-> u.router.kill]
    BY <1>1 DEF Entrypoints
  <2> HIDE DEF port, explicit, kill
  <2>7. r = u.router
    BY <2>3, <2>4, <2>5, <2>6
  <2> HIDE DEF r
  <2>8. [u EXCEPT !.router = u.router] = u
    BY DEF Setups
  <2> QED
    BY <2>1, <2>2, <2>7, <2>8
<1> HIDE DEF conv
<1>9. Synced(u, b)
        = LET up == Upserted(Provided(Pruned(conv, b), b), b, TRUE)
              ch == Checked(up, b, Disabling(u, b))
          IN  IF ch.refused THEN ch ELSE Toggled(ch, b, TRUE)
  BY DEF Synced, conv
<1> QED
  BY <1>2, <1>3, <1>4, <1>5, <1>7, <1>8, <1>9

\* What a sync keeps of the others: pruned channels are gone.
LEMMA PrunedDrops ==
  ASSUME NEW t \in Setups, NEW b, NEW u, u = Pruned(t, b)
  PROVE  /\ u.prov = t.prov
         /\ \A c \in Refs : u.chan[c].managed => c \in BundleRefs(b) \cup Targeted(t.rules)
<1> DEFINE chan == [c \in Refs |->
                      IF t.chan[c].managed /\ c \notin BundleRefs(b) \cup Targeted(t.rules)
                      THEN Absent ELSE t.chan[c]]
<1>1. \A c \in Refs : chan[c].managed => c \in BundleRefs(b) \cup Targeted(t.rules)
  BY DEF Absent
<1>2. u = [t EXCEPT !.chan = chan]
  BY DEF Pruned
<1> HIDE DEF chan
<1>3. u.chan = chan /\ u.prov = t.prov
  BY <1>2 DEF Setups
<1> QED
  BY <1>1, <1>3

LEMMA ProvidedAs ==
  ASSUME NEW t \in Setups, NEW b, NEW u, u = Provided(t, b)
  PROVE  /\ b.channels # <<>> => u.prov # "absent"
         /\ b.channels = <<>> /\ Present(t) = {} => u.prov # "managed"
<1> DEFINE prov == CASE b.channels # <<>> /\ t.prov = "absent" -> "managed"
                     [] b.channels = <<>> /\ t.prov = "managed" /\ Present(t) = {} -> "absent"
                     [] OTHER -> t.prov
<1>1. u = [t EXCEPT !.prov = prov]
  BY DEF Provided
<1>2. /\ b.channels # <<>> => prov # "absent"
      /\ b.channels = <<>> /\ Present(t) = {} => prov # "managed"
  OBVIOUS
<1> HIDE DEF prov
<1>3. u.prov = prov
  BY <1>1 DEF Setups
<1> QED
  BY <1>2, <1>3

LEMMA ToggledAs ==
  ASSUME NEW t \in Setups, NEW b \in Files, NEW u, u = Toggled(t, b, TRUE), ~u.refused
  PROVE  /\ u.prov = t.prov
         /\ (b.port # 0 => u.router.port = b.port) /\ u.router.explicit = (b.port # 0)
         /\ b.kill # "unstated" => u.router.kill = (b.kill = "yes")
<1> DEFINE port == IF b.port # 0 THEN b.port ELSE t.router.port
           explicit == b.port # 0 \/ (~TRUE /\ t.router.explicit)
           kill == IF b.kill = "unstated" THEN t.router.kill ELSE b.kill = "yes"
           r == [port |-> port, explicit |-> explicit, kill |-> kill]
<1>1. u = IF b.port # 0 /\ b.port \in UsedBy(t, {"router"}) THEN Refuse(t) ELSE [t EXCEPT !.router = r]
  BY DEF Toggled
<1>2. Refuse(t).refused
  BY Refused
<1>3. explicit = (b.port # 0)
  OBVIOUS
<1>4. (b.kill # "unstated" => kill = (b.kill = "yes")) /\ (b.port # 0 => port = b.port)
  OBVIOUS
<1> HIDE DEF port, explicit, kill
<1>5. r.port = port /\ r.explicit = explicit /\ r.kill = kill
  OBVIOUS
<1> HIDE DEF r
<1>6. u = [t EXCEPT !.router = r]
  BY <1>1, <1>2
<1>7. u.router = r /\ u.prov = t.prov
  BY <1>6 DEF Setups
<1> QED
  BY <1>3, <1>4, <1>5, <1>7

\* A landed channel is where its spec wants it from then on.
LEMMA LandedStays ==
  ASSUME NEW spec, NEW old, NEW e \in Entries, Landed(spec, old, e)
  PROVE  Landed(spec, e, e)
<1>1. e.on \in BOOLEAN
  BY DEF Entries
<1> QED
  BY <1>1 DEF Landed, WillBeOn

LEMMA SyncedSettles ==
  ASSUME NEW t \in Setups, Usable(t), Apart(t), NEW b \in Files, NEW u, u = Synced(t, b), ~u.refused
  PROVE  Settled(u, b) /\ AllLanded(b, t, u)
<1> DEFINE rules == Converged(t.rules, b.rulesets)
           conv == [t EXCEPT !.rules = rules]
           pr == Pruned(conv, b)
           pv == Provided(pr, b)
           up == Upserted(pv, b, TRUE)
           ch == Checked(up, b, Disabling(t, b))
<1>1. u = IF ch.refused THEN ch ELSE Toggled(ch, b, TRUE)
  BY DEF Synced
<1>0. /\ t.rules \in Seq(Blocks) /\ b.rulesets \in Seq(Ruled)
      /\ \A i \in DOMAIN b.channels : b.channels[i].ref \in Refs /\ b.channels[i].ref \in BundleRefs(b)
  BY SetupParts, FileParts DEF BundleRefs
<1>2. rules \in Seq(Blocks) /\ Converged(rules, b.rulesets) = rules
  BY <1>0, ConvergedIs, ConvergedStays
<1> HIDE DEF rules
<1>3. conv \in Setups /\ conv.rules = rules /\ conv.chan = t.chan
  BY <1>2, SetRules
<1> HIDE DEF conv
<1>4. /\ pr \in Setups /\ pr.rules = rules
      /\ \A c \in Refs : ~t.chan[c].managed \/ c \in BundleRefs(b) \cup Targeted(rules) =>
           pr.chan[c] = t.chan[c]
      /\ \A c \in Refs : pr.chan[c].managed => c \in BundleRefs(b) \cup Targeted(rules)
  BY <1>3, PrunedIs, PrunedDrops
<1> HIDE DEF pr
<1>5. /\ pv \in Setups /\ pv.chan = pr.chan /\ pv.rules = rules
      /\ b.channels # <<>> => pv.prov # "absent"
      /\ b.channels = <<>> /\ Present(pr) = {} => pv.prov # "managed"
  BY <1>4, ProvidedIs, ProvidedAs
<1> HIDE DEF pv
<1>6. /\ up \in Setups /\ Carried(pv, up, b)
      /\ ~up.refused => up.prov = pv.prov /\ AllLanded(b, pv, up)
  BY <1>5, UpsertedIs, UpsertedLands
<1> HIDE DEF up
<1>7. /\ ch \in Setups
      /\ ~ch.refused => /\ ch = up
                        /\ \A i \in DOMAIN b.rulesets : UsableIn(up, b.rulesets[i].target)
  BY <1>6, CheckedIs
<1> HIDE DEF ch
<1>8. ~ch.refused
  BY <1>1
<1>9. ch = up /\ u = Toggled(up, b, TRUE) /\ \A i \in DOMAIN b.rulesets : UsableIn(up, b.rulesets[i].target)
  BY <1>1, <1>7, <1>8
<1>10. /\ u \in Setups /\ ~up.refused /\ u.chan = up.chan /\ u.rules = up.rules
  BY <1>6, <1>9, ToggledIs
<1>11. /\ u.prov = up.prov
       /\ (b.port # 0 => u.router.port = b.port) /\ u.router.explicit = (b.port # 0)
       /\ b.kill # "unstated" => u.router.kill = (b.kill = "yes")
  BY <1>6, <1>9, ToggledAs
<1>12. /\ up.prov = pv.prov /\ AllLanded(b, pv, up) /\ up.rules = rules
       /\ \A c \in Refs \ BundleRefs(b) : up.chan[c] = pv.chan[c]
  BY <1>5, <1>6, <1>10 DEF Carried
<1>13. AllLanded(b, t, u)
  <2> SUFFICES ASSUME NEW i \in DOMAIN b.channels
               PROVE  Landed(b.channels[i], t.chan[b.channels[i].ref], u.chan[b.channels[i].ref])
    BY DEF AllLanded
  <2>1. pv.chan[b.channels[i].ref] = t.chan[b.channels[i].ref]
    BY <1>0, <1>4, <1>5
  <2> QED
    BY <1>10, <1>12, <2>1 DEF AllLanded
<1>14. AllLanded(b, u, u)
  <2> SUFFICES ASSUME NEW i \in DOMAIN b.channels
               PROVE  Landed(b.channels[i], u.chan[b.channels[i].ref], u.chan[b.channels[i].ref])
    BY DEF AllLanded
  <2>1. u.chan[b.channels[i].ref] \in Entries
    BY <1>0, <1>10, SetupParts
  <2> QED
    BY <1>13, <2>1, LandedStays DEF AllLanded
<1>15. ASSUME NEW c \in Refs \ BundleRefs(b), u.chan[c].managed PROVE c \in Targeted(u.rules)
  BY <1>4, <1>5, <1>10, <1>12, <1>15
<1>16. b.channels = <<>> /\ Present(u) = {} => u.prov # "managed"
  <2> SUFFICES ASSUME b.channels = <<>>, Present(u) = {} PROVE u.prov # "managed"
    OBVIOUS
  <2>1. BundleRefs(b) = {}
    BY DEF BundleRefs
  <2>2. \A c \in Refs : u.chan[c] = pr.chan[c]
    BY <1>5, <1>10, <1>12, <2>1
  <2>3. Present(pr) = {}
    BY <2>2 DEF Present
  <2> QED
    BY <1>5, <1>11, <1>12, <2>3
<1>17. Converged(u.rules, b.rulesets) = u.rules
  BY <1>2, <1>10, <1>12
<1>18. \A i \in DOMAIN b.rulesets : UsableIn(u, b.rulesets[i].target)
  BY <1>9, <1>10 DEF UsableIn
<1>19. b.channels # <<>> => u.prov # "absent"
  BY <1>5, <1>11, <1>12
<1> QED
  BY <1>11, <1>13, <1>14, <1>15, <1>16, <1>17, <1>18, <1>19 DEF Settled

\* After a sync, planning the same file finds what the sync wrote.
LEMMA PlanStays ==
  ASSUME NEW t \in Setups, NEW u \in Setups, NEW b \in Files, NEW first \in Nat, NEW second \in Nat,
         Resolvable("sync", t, b, first), NEW p, p = Planned("sync", t, b, first), AllLanded(p, t, u)
  PROVE  Planned("sync", u, b, second) = p /\ Resolvable("sync", u, b, second)
<1> DEFINE ref(i) == b.channels[i].ref
           wg(i) == Resolved("sync", b.channels[i], t.chan[ref(i)], first)
           again(i) == Resolved("sync", b.channels[i], u.chan[ref(i)], second)
<1>1. \A i \in DOMAIN b.channels : b.channels[i] \in Declared /\ ref(i) \in Refs
  BY FileParts
<1>2. ASSUME NEW i \in DOMAIN b.channels
      PROVE  /\ again(i) = wg(i)
             /\ WillBeOn("sync", b.channels[i], u.chan[ref(i)]) => again(i) # 0
  <2> DEFINE spec == b.channels[i]
             q == p.channels[i]
             old == t.chan[ref(i)]
             e == u.chan[ref(i)]
  <2>1. /\ DOMAIN p.channels = DOMAIN b.channels /\ q = [spec EXCEPT !.wg = wg(i)]
    <3>1. p.channels = [j \in DOMAIN b.channels |-> [b.channels[j] EXCEPT !.wg = wg(j)]]
      BY DEF Planned, Files
    <3> QED
      BY <3>1
  <2>2. q.on = spec.on /\ q.wg = wg(i) /\ q.place = spec.place /\ q.ref = spec.ref
    <3>1. spec \in Declared
      BY <1>1
    <3> HIDE DEF spec, q, wg
    <3> QED
      BY <2>1, <3>1 DEF Declared
  <2>3. Landed(q, old, e)
    BY <2>1, <2>2 DEF AllLanded
  <2>4. old \in Entries /\ e \in Entries /\ spec.wg \in Nat /\ spec.on \in {"yes", "no", "unstated"}
    BY <1>1, SetupParts DEF Declared
  <2>5. e.there /\ e.wg = wg(i) /\ e.place = spec.place /\ e.on = WillBeOn("sync", spec, old)
    <3>1. WillBeOn("merge", q, old) = WillBeOn("sync", spec, old)
      BY <2>2 DEF WillBeOn
    <3> QED
      BY <2>2, <2>3, <3>1 DEF Landed
  <2>6. WillBeOn("sync", spec, e) = WillBeOn("sync", spec, old)
    <3>1. e.on \in BOOLEAN
      BY <2>4 DEF Entries
    <3> QED
      BY <2>4, <2>5, <3>1 DEF WillBeOn
  <2>7. WillBeOn("sync", spec, old) => wg(i) # 0
    BY DEF Resolvable
  <2>8. wg(i) = 0 => spec.wg = 0
    BY <2>7 DEF Resolved
  <2>9. again(i) = wg(i)
    <3>1. CASE wg(i) # 0
      BY <2>5, <3>1 DEF Resolved
    <3>2. CASE wg(i) = 0
      BY <2>5, <2>6, <2>7, <2>8, <3>2 DEF Resolved
    <3> QED
      BY <3>1, <3>2
  <2> QED
    BY <2>6, <2>7, <2>9
<1>3. Planned("sync", u, b, second) = p
  <2>1. [i \in DOMAIN b.channels |-> [b.channels[i] EXCEPT !.wg = again(i)]]
          = [i \in DOMAIN b.channels |-> [b.channels[i] EXCEPT !.wg = wg(i)]]
    <3> HIDE DEF again, wg
    <3> QED
      BY <1>2
  <2> QED
    BY <2>1 DEF Planned
<1> QED
  BY <1>2, <1>3 DEF Resolvable

LEMMA ValidStays ==
  ASSUME NEW t \in Setups, NEW u \in Setups, NEW b \in Files, Valid("sync", t, b),
         NEW p, BundleRefs(p) = BundleRefs(b), AllLanded(p, t, u),
         \A c \in Refs \ BundleRefs(b) : ~t.chan[c].managed => u.chan[c] = t.chan[c]
  PROVE  Valid("sync", u, b)
<1>1. \A c \in BundleRefs(b) : u.chan[c].there
  <2>1. \A i \in DOMAIN p.channels : u.chan[p.channels[i].ref].there
    BY DEF AllLanded, Landed
  <2>2. \A c \in BundleRefs(p) : \E i \in DOMAIN p.channels : c = p.channels[i].ref
    BY DEF BundleRefs
  <2> QED
    BY <2>1, <2>2
<1>2. Known("sync", t, b) \subseteq Known("sync", u, b)
  BY <1>1 DEF Known, Present
<1> QED
  BY <1>2 DEF Valid, TargetsKnown

LEMMA SecondSync ==
  ASSUME NEW t \in Setups, ~t.refused, Usable(t), Apart(t), NEW b \in Files,
         NEW first \in Nat, NEW second \in Nat,
         NEW u, u = Applied("sync", t, b, first), ~u.refused
  PROVE  Applied("sync", u, b, second) = u
<1> DEFINE p == Planned("sync", t, b, first)
<1>1. Valid("sync", t, b) /\ Resolvable("sync", t, b, first) /\ u = Synced(t, p)
  <2>1. Refuse(t).refused
    BY Refused
  <2> QED
    BY <2>1 DEF Applied, Committed
<1>2. p \in Files /\ BundleRefs(p) = BundleRefs(b)
  BY PlannedIs
<1> HIDE DEF p
<1>3. u \in Setups /\ Apart(u) /\ HandKept(t, u, p)
  BY <1>1, <1>2, SyncedIs
<1>4. Settled(u, p) /\ AllLanded(p, t, u)
  BY <1>1, <1>2, SyncedSettles
<1>5. Synced(u, p) = u
  BY <1>2, <1>3, <1>4, SettledStays
<1>6. Planned("sync", u, b, second) = p /\ Resolvable("sync", u, b, second)
  BY <1>1, <1>3, <1>4, PlanStays DEF p
<1>7. Valid("sync", u, b)
  <2>1. \A c \in Refs \ BundleRefs(b) : ~t.chan[c].managed => u.chan[c] = t.chan[c]
    BY <1>2, <1>3 DEF HandKept
  <2> QED
    BY <1>1, <1>2, <1>3, <1>4, <2>1, ValidStays
<1> QED
  BY <1>5, <1>6, <1>7 DEF Applied, Committed
---------------------------------------------------------------------------
(* Theorems *)

\* No apply, however stale its plan, and no edit leaves a rule on a channel that
\* is gone or disabled, or one port with two owners (state.py:1873, 2050).
THEOREM AppliesAreSound == Spec => []SetupSound
<1>1. BundleInv => SetupSound
  <2> SUFFICES ASSUME BundleInv PROVE SetupSound
    OBVIOUS
  <2>1. setup \in Setups /\ Usable(setup) /\ Apart(setup)
    BY DEF BundleInv
  <2>2. \A c \in Present(setup) : setup.chan[c].port \notin UsedBy(setup, {c}) \cup {0}
    BY <2>1, ApartIs
  <2> QED
    BY <2>1, <2>2 DEF SetupSound, Usable
<1> QED
  BY <1>1, BundleInit, BundleInductive, PTL DEF Spec

\* A sync changes nothing that people made and the file does not name, and an
\* ad-hoc disable that the file leaves unstated stays (state.py:2035).
THEOREM SyncSparesPeople == Spec => HandMadeStays
<1> DEFINE Spared ==
      SyncCommits =>
        /\ \A c \in Refs \ BundleRefs(job.bundle) :
             ~setup.chan[c].managed => setup'.chan[c] = setup.chan[c]
        /\ \A i \in DOMAIN job.bundle.channels :
             LET spec == job.bundle.channels[i] IN
             setup.chan[spec.ref].there /\ spec.on = "unstated" =>
               setup'.chan[spec.ref].on = setup.chan[spec.ref].on
        /\ HandBlocks(setup) = HandBlocks(setup')
<1>1. BundleInv /\ [Next]_vars => [Spared]_vars
  <2> SUFFICES ASSUME BundleInv, SyncCommits PROVE Spared
    OBVIOUS
  <2> DEFINE t == Synced(setup, job.bundle)
  <2>1. job # Idle /\ job.kind = "sync" /\ IF t.refused THEN UNCHANGED setup ELSE setup' = t
    BY DEF SyncCommits, Commit, Committed
  <2>2. job.bundle \in Files /\ setup \in Setups /\ Usable(setup) /\ Apart(setup)
    BY <2>1, JobIs DEF BundleInv
  <2>3. ~t.refused => HandKept(setup, t, job.bundle)
    BY <2>2, SyncedIs
  <2> HIDE DEF t
  <2>4. HandKept(setup, setup', job.bundle)
    <3>1. CASE t.refused
      BY <2>1, <3>1 DEF HandKept
    <3>2. CASE ~t.refused
      BY <2>1, <2>3, <3>2
    <3> QED
      BY <3>1, <3>2
  <2>5. HandBlocks(setup) = HandBlocks(setup')
    BY <2>4 DEF HandKept, HandBlocks, Hand
  <2> QED
    BY <2>4, <2>5 DEF HandKept
<1> QED
  BY <1>1, BundleInit, BundleInductive, PTL DEF Spec, HandMadeStays

\* An export restored, on this or on an empty machine, with or without the
\* provider's API, gives back every channel, ruleset and toggle, here the ports
\* too (bundle.py:217, state.py:2311), as long as there are ports for all channels.
THEOREM ExportsComeBack ==
  ASSUME IsFiniteSet(Refs), IsFiniteSet(PortSet), Cardinality(Refs) <= Cardinality(PortSet)
  PROVE  Spec => []RestoreRoundTrip
<1>1. BundleInv => RestoreRoundTrip
  <2> SUFFICES ASSUME BundleInv, EnabledIsUsable, NEW fresh \in WgSet \cup {0}
               PROVE  LET here == Applied("restore", setup, Export(setup), fresh)
                          there == Applied("restore", Empty, Export(setup), 0)
                          content(t) == Export([t EXCEPT !.refused = FALSE])
                      IN  /\ ~here.refused /\ content(here) = content(setup)
                          /\ \A c \in Refs : here.chan[c].port = setup.chan[c].port
                          /\ ~there.refused /\ content(there) = content(setup)
    BY DEF RestoreRoundTrip
  <2> DEFINE b == Export(setup)
             here == Applied("restore", setup, b, fresh)
             there == Applied("restore", Empty, b, 0)
  <2>1. Room /\ setup \in Setups /\ ~setup.refused /\ Usable(setup) /\ Apart(setup)
    BY DEF BundleInv, Room
  <2>2. /\ Empty \in Setups /\ ~Empty.refused /\ Apart(Empty) /\ Empty.router.port = 0
        /\ \A c \in Refs : Empty.chan[c] = Absent
    BY EmptyIs
  <2>3. \A c \in Refs : setup.chan[c].on => setup.chan[c].wg # 0
    BY DEF EnabledIsUsable
  <2>4. Valid("restore", setup, b) /\ Valid("restore", Empty, b)
    BY <2>1, ExportValid DEF Room
  <2>5. /\ Planned("restore", setup, b, fresh) = b /\ Resolvable("restore", setup, b, fresh)
        /\ Planned("restore", Empty, b, 0) = b /\ Resolvable("restore", Empty, b, 0)
    BY <2>1, <2>2, <2>3, ExportPlans DEF Room
  <2>6. here = Restored(setup, b) /\ there = Restored(Empty, b)
    BY <2>4, <2>5 DEF Applied, Committed
  <2> HIDE DEF here, there
  <2>7. /\ here \in Setups /\ ~here.refused /\ Export(here) = Export(setup)
        /\ \A c \in Refs : here.chan[c].port = setup.chan[c].port
        /\ there \in Setups /\ ~there.refused /\ Export(there) = Export(setup)
    BY <2>1, <2>2, <2>6, ExportRestored
  <2>8. \A t \in Setups : ~t.refused => [t EXCEPT !.refused = FALSE] = t
    BY DEF Setups
  <2> QED
    BY <2>1, <2>7, <2>8 DEF here, there
<1> QED
  BY <1>1, BundleInit, BundleInductive, PTL DEF Spec

\* "the same bundle across N boots is byte-idempotent" (state.py:2042): a second
\* sync of a file changes nothing, whatever server the provider picks.
THEOREM SyncSettles == Spec => []SyncIdempotent
<1>1. BundleInv => SyncIdempotent
  <2> SUFFICES ASSUME BundleInv, NEW b \in Bundles, NEW first \in WgSet \cup {0},
                      NEW second \in WgSet \cup {0}, ~Applied("sync", setup, b, first).refused
               PROVE  Applied("sync", Applied("sync", setup, b, first), b, second)
                        = Applied("sync", setup, b, first)
    BY DEF SyncIdempotent
  <2>1. /\ setup \in Setups /\ ~setup.refused /\ Usable(setup) /\ Apart(setup)
        /\ b \in Files /\ first \in Nat /\ second \in Nat
    BY BundleAssumption DEF BundleInv
  <2> QED
    BY <2>1, SecondSync
<1> QED
  BY <1>1, BundleInit, BundleInductive, PTL DEF Spec
=============================================================================
