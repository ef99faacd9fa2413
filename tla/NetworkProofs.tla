---------------------------- MODULE NetworkProofs ----------------------------
(***************************************************************************)
(* Theorems about what meets the host's network: TunTrial, for any number  *)
(* of trials, windows and faults, and Ports, for any owners and ports.     *)
(***************************************************************************)
EXTENDS MCNetwork, Foundations

Kinds == {"none", "arm", "on", "off", "revert", "recover"}
Steps == {"-", "write", "spawn", "unlink", "set", "ensure"}
Reverting == op.kind \in {"revert", "recover"}

TypeInv ==
  /\ tun \in BOOLEAN
  /\ latest \in Nat /\ latest <= MaxTrials
  /\ decided \subseteq 0..latest
  /\ marker \in [nonce : {NoMarker, Bad} \cup Trials, left : Nat] /\ marker.nonce <= latest
  /\ dogs \subseteq [nonce : Int, left : Nat]
  /\ op \in [kind : Kinds, at : Steps, nonce : Int, left : Nat, window : Nat]
  /\ faults \in Nat
  /\ boot \in {"down", "settle", "run"}

\* The holder's step fits its kind; one that is not held has none.
StepInv ==
  /\ op.kind = "none" <=> op = Nobody
  /\ op.at = "-" <=> op = Nobody
  /\ op.at = "write" => op.kind = "arm"
  /\ op.at = "spawn" => op.kind \in {"arm", "recover"}
  /\ op.kind = "recover" => boot = "settle"
  /\ op.kind = "arm" => op.at # "unlink"

\* A trial whose marker is there, or that is being reverted, was not decided.
UndecidedInv ==
  /\ marker.nonce = NoMarker => marker = Gone
  /\ Pending => marker.nonce \notin decided
  /\ Reverting => op.nonce \in Trials \cup {Bad} /\ op.nonce \notin decided

\* What the holder has done so far.
HolderInv ==
  /\ op.kind = "arm" /\ op.at = "write" => op.nonce = latest + 1 /\ op.nonce \in Trials
  /\ op.kind = "arm" /\ op.at # "write" => op.nonce = latest /\ marker.nonce = latest
  /\ op.kind = "arm" /\ op.at \in {"set", "ensure"} => \E d \in dogs : d.nonce = latest
  /\ op.kind = "recover" /\ op.at = "spawn" => op.nonce = marker.nonce
  /\ op.kind \in {"on", "off"} /\ op.at \in {"set", "ensure"} => latest \in decided
  /\ Reverting /\ op.at = "ensure" => ~tun

\* The revert of a trial, while the lock is held.
PendingInv ==
  OnTrial /\ faults = 0 =>
    /\ ~(Reverting /\ op.at = "set") => marker.nonce = latest
    /\ boot = "run" /\ ~Reverting /\ op.at # "spawn" => \E d \in dogs : d.nonce = latest

IInv == TypeInv /\ StepInv /\ UndecidedInv /\ HolderInv /\ PendingInv
---------------------------------------------------------------------------
\* What taking the lock writes down.
LEMMA HoldFields ==
  ASSUME NEW kind, NEW at
  PROVE  Hold(kind, at) = [kind |-> kind, at |-> at, nonce |-> 0, left |-> 0, window |-> 0]
<1> DEFINE named == [Nobody EXCEPT !.kind = kind]
<1>1. named = [kind |-> kind, at |-> "-", nonce |-> 0, left |-> 0, window |-> 0]
  BY DEF Nobody
<1>2. Hold(kind, at) = [named EXCEPT !.at = at]
  BY DEF Hold
<1> HIDE DEF named
<1> QED
  BY <1>1, <1>2

\* At rest without TUN there is nothing to revert.
LEMMA InitInv == Init => IInv
<1> SUFFICES ASSUME Init PROVE IInv
  OBVIOUS
<1>1. TypeInv
  <2>1. marker \in [nonce : {NoMarker, Bad} \cup Trials, left : Nat] /\ marker.nonce = 0
    BY DEF Init, Gone, NoMarker
  <2>2. op \in [kind : Kinds, at : Steps, nonce : Int, left : Nat, window : Nat]
    BY DEF Init, Nobody, Kinds, Steps
  <2>3. /\ decided \subseteq 0..latest /\ dogs \subseteq [nonce : Int, left : Nat]
        /\ latest \in Nat /\ latest <= MaxTrials
    BY TrialAssumption DEF Init
  <2>4. tun \in BOOLEAN /\ boot \in {"down", "settle", "run"} /\ faults \in Nat
    BY DEF Init
  <2>5. marker.nonce <= latest
    BY <2>1 DEF Init
  <2> QED
    BY <2>1, <2>2, <2>3, <2>4, <2>5 DEF TypeInv
<1> QED
  BY <1>1
   DEF Init, IInv, StepInv, UndecidedInv, HolderInv, PendingInv, Kinds, Steps, Nobody,
       Gone, NoMarker, Bad, Pending, Trials, Reverting, OnTrial

\* Every step of the commands, the watchdogs, the daemon and the machine keeps
\* the invariant.
LEMMA Inductive == IInv /\ [Next]_vars => IInv'
<1> SUFFICES ASSUME IInv, [Next]_vars PROVE IInv'
  OBVIOUS
<1> USE TrialAssumption, HoldFields
    DEF IInv, TypeInv, StepInv, UndecidedInv, HolderInv, PendingInv, Kinds, Steps, Trials,
        NoMarker, Bad, Gone, Pending, OnTrial, Reverting, Nobody
<1>1. ASSUME NEW w \in Windows, NEW waited \in 0..w, Arm(w, waited) PROVE IInv'
  BY <1>1 DEF Arm
<1>2. ASSUME NEW kind \in {"on", "off"}, Toggle(kind) PROVE IInv'
  BY <1>2 DEF Toggle
<1>3. CASE Confirm
  <2>1. /\ decided' = decided \cup {marker.nonce} /\ marker.nonce \in 1..latest
        /\ marker' = Gone /\ UNCHANGED <<tun, dogs, op, boot, latest, faults>>
    BY <1>3 DEF Confirm, ConfirmLate
  <2>2. TypeInv'
    <3>1. decided' \subseteq 0..latest
      <4>1. decided \subseteq 0..latest /\ marker.nonce \in 0..latest
        BY <2>1
      <4>2. decided' = decided \cup {marker.nonce}
        BY <2>1
      <4> QED
        BY <4>1, <4>2
    <3>2. marker' \in [nonce : {NoMarker, Bad} \cup Trials, left : Nat] /\ marker'.nonce <= latest
      BY <2>1
    <3> QED
      BY <2>1, <3>1, <3>2
  <2>3. PendingInv'
    BY <1>3, <2>1 DEF Confirm
  <2> QED
    BY <1>3, <2>1, <2>2, <2>3 DEF Confirm
<1>4. ASSUME NEW d \in dogs, Expire(d) PROVE IInv'
  BY <1>4 DEF Expire
<1>5. CASE Settle
  <2> DEFINE recovering(at, window) ==
        [kind |-> "recover", at |-> at, nonce |-> marker.nonce, left |-> 0, window |-> window]
  <2>1. op = Nobody /\ boot = "settle" /\ UNCHANGED <<tun, marker, dogs, decided, latest, faults>>
    BY <1>5 DEF Settle
  <2>2. CASE marker = Gone /\ boot' = "run" /\ op' = op
    BY <2>1, <2>2
  <2>3. CASE Pending /\ op' = recovering("spawn", marker.left) /\ boot' = boot
    BY <2>1, <2>3
  <2>4. CASE marker # Gone /\ op' = recovering("unlink", 0) /\ boot' = boot
    BY <2>1, <2>4
  <2> QED
    BY <1>5, <2>2, <2>3, <2>4 DEF Settle
<1>6. CASE WriteMarker
  BY <1>6 DEF WriteMarker, Goto
<1>7. CASE Spawn
  <2>1. \E d \in dogs' : d.nonce = op.nonce
    <3>1. [nonce |-> op.nonce, left |-> op.window] \in dogs'
      BY <1>7 DEF Spawn
    <3> QED
      BY <3>1
  <2>2. TypeInv' /\ StepInv' /\ UndecidedInv'
    BY <1>7 DEF Spawn, Goto, Released
  <2>3. HolderInv'
    BY <1>7, <2>1 DEF Spawn, Goto, Released
  <2>4. PendingInv'
    BY <1>7, <2>1 DEF Spawn, Goto, Released
  <2> QED
    BY <2>2, <2>3, <2>4
<1>8. CASE Unlink
  BY <1>8 DEF Unlink, Goto, Released
<1>9. CASE SetTun
  <2>1. TypeInv'
    BY <1>9 DEF SetTun, Goto
  <2>2. StepInv'
    BY <1>9 DEF SetTun, Goto
  <2>3. UndecidedInv'
    BY <1>9 DEF SetTun, Goto
  <2>4. HolderInv'
    BY <1>9 DEF SetTun, Goto
  <2>5. PendingInv'
    BY <1>9 DEF SetTun, Goto
  <2> QED
    BY <2>1, <2>2, <2>3, <2>4, <2>5
<1>10. CASE EnsureRunning
  BY <1>10 DEF EnsureRunning
<1>11. CASE Cut
  BY <1>11 DEF Cut, Released
<1>12. CASE Reconcile
  BY <1>12 DEF Reconcile
<1>13. CASE DaemonStarts
  BY <1>13 DEF DaemonStarts
<1>14. CASE DaemonDies
  BY <1>14 DEF DaemonDies
<1>15. CASE PowerLoss
  BY <1>15 DEF PowerLoss
<1>16. CASE MarkerDamaged
  BY <1>16 DEF MarkerDamaged
<1>17. CASE Tick
  <2>1. ASSUME NEW d \in dogs PROVE \E e \in dogs' : e.nonce = d.nonce
    <3>1. [d EXCEPT !.left = Elapsed(@)] \in dogs'
      BY <1>17 DEF Tick
    <3>2. [d EXCEPT !.left = Elapsed(@)].nonce = d.nonce
      OBVIOUS
    <3> QED
      BY <3>1, <3>2
  <2>2. \A n \in Nat : Elapsed(n) \in Nat
    BY DEF Elapsed
  <2>3. /\ marker' = [marker EXCEPT !.left = Elapsed(@)] /\ op' = [op EXCEPT !.left = Elapsed(@)]
        /\ UNCHANGED <<tun, applied, boot, decided, latest, faults>>
    BY <1>17 DEF Tick
  <2>4. /\ op'.kind = op.kind /\ op'.at = op.at /\ op'.nonce = op.nonce
        /\ marker'.nonce = marker.nonce
    BY <2>3
  <2>5. TypeInv' /\ StepInv' /\ UndecidedInv'
    BY <1>17 DEF Tick, Elapsed
  <2>6. HolderInv'
    BY <2>1, <2>3, <2>4
  <2>7. PendingInv'
    BY <2>1, <2>3, <2>4
  <2> QED
    BY <2>5, <2>6, <2>7
<1>18. CASE UNCHANGED vars
  BY <1>18 DEF vars
<1> QED
  BY <1>1, <1>2, <1>3, <1>4, <1>5, <1>6, <1>7, <1>8, <1>9, <1>10,
     <1>11, <1>12, <1>13, <1>14, <1>15, <1>16, <1>17, <1>18
  DEF Next, People, SomeExpire, Holder, Faults

\* A watchdog or a recovery that turns TUN off does so for a trial nobody
\* decided, whatever it waited for and whoever was killed (tun_trial_expire,
\* tun_trial_recover).
THEOREM DecisionsStand == Spec => HumanWins
<1>1. IInv /\ [Next]_vars
        => [SetTun /\ op.kind \in {"revert", "recover"} => op.nonce \notin decided]_vars
  BY DEF IInv, UndecidedInv, Reverting
<1> QED
  BY <1>1, InitInv, Inductive, PTL DEF Spec, HumanWins

\* While TUN is on under an undecided trial its marker is there, and beside a
\* running daemon a watchdog, through restarts and power loss (tun_trial_arm).
THEOREM RevertIsPending == Spec => []RevertPending
<1>1. IInv => RevertPending
  BY DEF IInv, PendingInv, RevertPending, Armed, StepInv, Reverting, Nobody
<1> QED
  BY <1>1, InitInv, Inductive, PTL DEF Spec
---------------------------------------------------------------------------
(* Ports: why no two owners share one *)

Numbers == PortSet \cup {0}
Entries == [port : Numbers, explicit : BOOLEAN, home : Numbers]
Tables == [P!OwnerSet -> Entries]
Unshared(t) == \A o, q \in P!OwnerSet : o # q /\ t[o].port # 0 => t[o].port # t[q].port
PortsInv == own \in Tables /\ Unshared(own)

\* Giving one owner a port that nobody else has keeps the table in order.
LEMMA OneEntry ==
  ASSUME NEW t \in Tables, Unshared(t), NEW o \in P!OwnerSet, NEW e \in Entries,
         \A q \in P!OwnerSet \ {o} : e.port # 0 => t[q].port # e.port
  PROVE  [t EXCEPT ![o] = e] \in Tables /\ Unshared([t EXCEPT ![o] = e])
<1> DEFINE u == [t EXCEPT ![o] = e]
<1>1. u \in Tables /\ \A q \in P!OwnerSet : u[q] = IF q = o THEN e ELSE t[q]
  BY DEF Tables
<1> HIDE DEF u
<1>2. Unshared(u)
  BY <1>1 DEF Unshared
<1> QED
  BY <1>1, <1>2 DEF u

\* An owner goes home only to a port that no other owner has meanwhile.
LEMMA SentHome ==
  ASSUME NEW t \in Tables, Unshared(t), NEW o \in P!OwnerSet
  PROVE  P!Sent(t, o) \in Tables /\ Unshared(P!Sent(t, o))
<1>1. CASE ~P!GoesHome(t, o)
  BY <1>1 DEF P!Sent
<1>2. CASE P!GoesHome(t, o)
  <2> DEFINE e == [t[o] EXCEPT !.port = t[o].home]
  <2>1. P!Sent(t, o) = [t EXCEPT ![o] = e]
    BY <1>2 DEF P!Sent
  <2>2. e \in Entries /\ e.port = t[o].home
    BY DEF Tables, Entries
  <2>3. t[o].home \notin P!UsedIn(t)
    BY <1>2 DEF P!GoesHome
  <2>4. \A q \in P!OwnerSet \ {o} : e.port # 0 => t[q].port # e.port
    BY <2>2, <2>3 DEF P!UsedIn
  <2> HIDE DEF e
  <2> QED
    BY <2>1, <2>2, <2>4, OneEntry
<1> QED
  BY <1>1, <1>2

\* The owners are sent home one after the other.
LEMMA AllSentHome ==
  ASSUME PortsInv
  PROVE  P!Homed \in Tables /\ Unshared(P!Homed)
<1> DEFINE N == Len(Owners)
           good == {t \in Tables : Unshared(t)}
           send == [n \in 1..N |-> [t \in good |-> P!Sent(t, Owners[n])]]
<1>1. N \in Nat /\ DOMAIN Owners = 1..N
  BY OwnersAssumption
<1>2. \A n \in 1..N : Owners[n] \in P!OwnerSet
  BY <1>1 DEF P!OwnerSet
<1>3. own \in good
  BY DEF PortsInv
<1>4. send \in [1..N -> [good -> good]]
  BY <1>2, SentHome
<1> HIDE DEF good
<1>5. \E f : Iterated(f, N, good, own, send)
  <2> HIDE DEF N, send
  <2> QED
    BY <1>1, <1>3, <1>4, IterationExists
<1>6. PICK f \in [0..N -> good] : f[0] = own /\ \A n \in 1..N : f[n] = send[n][f[n - 1]]
  BY <1>5 DEF Iterated
<1>7. \A n \in 0..N : f[n] = IF n = 0 THEN own ELSE P!Sent(f[n - 1], Owners[n])
  <2> SUFFICES ASSUME NEW n \in 0..N, n # 0
               PROVE  f[n] = P!Sent(f[n - 1], Owners[n])
    BY <1>6
  <2>1. n \in 1..N /\ n - 1 \in 0..N
    BY <1>1
  <2>2. f[n - 1] \in good /\ f[n] = send[n][f[n - 1]]
    BY <1>6, <2>1
  <2> QED
    BY <2>1, <2>2
<1>8. f = [n \in 0..N |-> IF n = 0 THEN own ELSE P!Sent(f[n - 1], Owners[n])]
  BY <1>6, <1>7
<1> DEFINE up == P!HomedUpTo
<1>9. up = [n \in 0..N |-> IF n = 0 THEN own ELSE P!Sent(up[n - 1], Owners[n])]
  BY <1>8 DEF P!HomedUpTo
<1>10. \A n \in 0..N : up[n] = IF n = 0 THEN own ELSE P!Sent(up[n - 1], Owners[n])
  BY <1>9
<1> HIDE DEF up
<1> DEFINE S == {n \in 0..N : up[n] \in good}
<1>11. 0 \in S
  BY <1>1, <1>3, <1>10
<1>12. ASSUME NEW n \in 0..(N - 1), n \in S PROVE n + 1 \in S
  <2>1. n + 1 \in 0..N /\ n + 1 # 0 /\ n + 1 \in 1..N /\ (n + 1) - 1 = n
    BY <1>1
  <2>2. up[n + 1] = P!Sent(up[n], Owners[n + 1])
    BY <1>10, <2>1
  <2>3. up[n] \in good
    BY <1>12
  <2>4. up[n + 1] \in good
    BY <1>2, <2>1, <2>2, <2>3, SentHome DEF good
  <2> QED
    BY <2>1, <2>4
<1> HIDE DEF S
<1>13. 0..N \subseteq S
  BY <1>1, <1>11, <1>12, IntervalInduction
<1>14. up[N] \in good
  BY <1>1, <1>13 DEF S
<1> QED
  BY <1>14 DEF good, up, P!Homed

\* A command changes one entry: it claims a port nobody else has, or frees one.
LEMMA EditKeeps ==
  ASSUME PortsInv, NEW o \in P!OwnerSet, NEW e \in Entries, P!Edit(o, e),
         \A q \in P!OwnerSet \ {o} : e.port # 0 => own[q].port # e.port
  PROVE  PortsInv'
<1>1. own' = [own EXCEPT ![o] = e]
  BY DEF P!Edit
<1>2. [own EXCEPT ![o] = e] \in Tables /\ Unshared([own EXCEPT ![o] = e])
  BY OneEntry DEF PortsInv
<1>3. own' \in Tables /\ Unshared(own')
  BY <1>1, <1>2
<1> QED
  BY <1>3 DEF PortsInv, Tables, Entries, Numbers, Unshared

\* Owners that are moved get free ports, each its own.
LEMMA ReallocateKeeps ==
  ASSUME PortsInv, P!Reallocate
  PROVE  own' \in Tables /\ Unshared(own')
<1> DEFINE moved == P!Moves(rec.stolen)
<1>1. moved \subseteq P!OwnerSet
  BY DEF P!Moves, P!HitBy
<1>2. PICK new \in [moved -> P!Free(own)] :
        /\ P!IsInjective(new)
        /\ own' = [o \in P!OwnerSet |->
                     IF o \in moved
                     THEN [own[o] EXCEPT !.port = new[o], !.home = P!HomeOf(o)] ELSE own[o]]
  BY DEF P!Reallocate
<1>3. ASSUME NEW o \in P!OwnerSet
      PROVE  /\ own[o] \in Entries
             /\ o \notin moved => own'[o] = own[o]
             /\ o \in moved => /\ own'[o] \in Entries /\ own'[o].port = new[o]
                               /\ new[o] \in PortSet /\ new[o] \notin P!UsedIn(own)
  <2>1. own[o] \in Entries
    BY DEF PortsInv, Tables
  <2>2. CASE o \in moved
    <3>1. new[o] \in PortSet /\ new[o] \notin P!UsedIn(own)
      BY <1>2, <2>2 DEF P!Free
    <3>2. P!HomeOf(o) \in Numbers
      BY <2>1 DEF P!HomeOf, Entries
    <3>3. own'[o] = [own[o] EXCEPT !.port = new[o], !.home = P!HomeOf(o)]
      BY <1>2, <2>2
    <3>4. own'[o] \in Entries /\ own'[o].port = new[o]
      BY <2>1, <3>1, <3>2, <3>3 DEF Entries, Numbers
    <3> QED
      BY <2>1, <2>2, <3>1, <3>4
  <2>3. CASE o \notin moved
    BY <1>2, <2>1, <2>3
  <2> QED
    BY <2>2, <2>3
<1>4. own' \in Tables
  BY <1>2, <1>3 DEF Tables
<1>5. ASSUME NEW o \in P!OwnerSet, NEW q \in P!OwnerSet, o # q, own'[o].port # 0
      PROVE  own'[o].port # own'[q].port
  <2>1. \A x \in P!OwnerSet : own[x].port # 0 => own[x].port \in P!UsedIn(own)
    BY DEF P!UsedIn
  <2>2. own[o].port # 0 => own[o].port # own[q].port
    BY <1>5 DEF PortsInv, Unshared
  <2>3. CASE o \in moved /\ q \in moved
    <3>1. new[o] # new[q]
      BY <1>2, <1>5, <2>3 DEF P!IsInjective
    <3> QED
      BY <1>3, <2>3, <3>1
  <2>4. CASE o \in moved /\ q \notin moved
    BY <1>3, <1>5, <2>1, <2>4
  <2>5. CASE o \notin moved /\ q \in moved
    BY <1>3, <1>5, <2>1, <2>5
  <2>6. CASE o \notin moved /\ q \notin moved
    BY <1>3, <1>5, <2>2, <2>6
  <2> QED
    BY <2>3, <2>4, <2>5, <2>6
<1>6. Unshared(own')
  BY <1>5 DEF Unshared
<1> QED
  BY <1>4, <1>6

LEMMA PortsInductive == PortsInv /\ [P!Next]_P!vars => PortsInv'
<1> SUFFICES ASSUME PortsInv, [P!Next]_P!vars PROVE PortsInv'
  OBVIOUS
<1>1. ASSUME own' \in Tables, Unshared(own') PROVE PortsInv'
  BY <1>1 DEF PortsInv, Tables, Entries, Numbers, Unshared
<1>2. ASSUME own' = own PROVE PortsInv'
  BY <1>1, <1>2 DEF PortsInv
<1>3. ASSUME NEW o \in P!OwnerSet, P!AddAutomatic(o) PROVE PortsInv'
  <2>1. PICK p \in P!Free(own) : P!Edit(o, [port |-> p, explicit |-> FALSE, home |-> 0])
    BY <1>3 DEF P!AddAutomatic
  <2> DEFINE e == [port |-> p, explicit |-> FALSE, home |-> 0]
  <2>2. e \in Entries /\ e.port = p /\ p \notin P!UsedIn(own)
    BY DEF P!Free, Entries, Numbers
  <2>3. \A q \in P!OwnerSet \ {o} : e.port # 0 => own[q].port # e.port
    BY <2>2 DEF P!UsedIn
  <2> QED
    BY <2>1, <2>2, <2>3, EditKeeps
<1>4. ASSUME NEW o \in P!OwnerSet, NEW p \in PortSet, P!Declare(o, p) PROVE PortsInv'
  <2> DEFINE e == [own[o] EXCEPT !.port = p, !.explicit = TRUE]
             alone == [own EXCEPT ![o] = P!Absent]
  <2>1. P!Edit(o, e) /\ p \notin P!UsedIn(alone)
    BY <1>4 DEF P!Declare, P!Claimable
  <2>2. own[o] \in Entries
    BY DEF PortsInv, Tables
  <2>3. e \in Entries /\ e.port = p
    BY <2>2 DEF Entries, Numbers
  <2>4. \A q \in P!OwnerSet \ {o} : alone[q] = own[q]
    BY DEF PortsInv, Tables
  <2>5. \A q \in P!OwnerSet \ {o} : p # 0 => own[q].port # p
    BY <2>1, <2>4 DEF P!UsedIn
  <2> HIDE DEF e
  <2> QED
    BY <2>1, <2>3, <2>5, EditKeeps
<1>5. ASSUME NEW o \in P!OwnerSet, P!Undeclare(o) PROVE PortsInv'
  <2> DEFINE e == [own[o] EXCEPT !.explicit = FALSE]
  <2>1. P!Edit(o, e)
    BY <1>5 DEF P!Undeclare
  <2>2. own[o] \in Entries
    BY DEF PortsInv, Tables
  <2>3. e \in Entries /\ e.port = own[o].port
    BY <2>2 DEF Entries
  <2>4. \A q \in P!OwnerSet \ {o} : e.port # 0 => own[q].port # e.port
    BY <2>3 DEF PortsInv, Unshared
  <2> HIDE DEF e
  <2> QED
    BY <2>1, <2>3, <2>4, EditKeeps
<1>6. ASSUME NEW o \in P!OwnerSet, P!Remove(o) PROVE PortsInv'
  <2>1. P!Edit(o, P!Absent) /\ P!Absent \in Entries /\ P!Absent.port = 0
    BY <1>6 DEF P!Remove, P!Absent, Entries, Numbers
  <2> QED
    BY <2>1, EditKeeps
<1>7. ASSUME NEW p \in PortSet, P!ForeignTakes(p) \/ P!ForeignLeaves(p) PROVE PortsInv'
  BY <1>2, <1>7 DEF P!ForeignTakes, P!ForeignLeaves
<1>8. CASE P!RestoreHome
  BY <1>1, <1>8, AllSentHome DEF P!RestoreHome
<1>9. CASE P!Reallocate
  BY <1>1, <1>9, ReallocateKeeps
<1>10. CASE P!Begin \/ P!Apply \/ P!Identified \/ P!Unidentified \/ P!NoFreePort
  BY <1>2, <1>10 DEF P!Begin, P!Apply, P!Identified, P!Unidentified, P!NoFreePort
<1>11. CASE UNCHANGED P!vars
  BY <1>2, <1>11 DEF P!vars
<1> QED
  BY <1>3, <1>4, <1>5, <1>6, <1>7, <1>8, <1>9, <1>10, <1>11 DEF P!Next, P!Commands, P!Reconcile

\* No port has two owners, whatever commands, foreign programs, moves and
\* returns follow each other (StateStore._claim_port, reallocate_channel_ports,
\* restore_home_ports).
THEOREM PortsHaveOneOwner == P!Spec => []UniqueOwners
<1>1. P!Init => PortsInv
  BY DEF P!Init, P!Absent, PortsInv, Tables, Entries, Numbers, Unshared
<1>2. PortsInv => UniqueOwners
  BY DEF PortsInv, Unshared, UniqueOwners, P!UniqueOwners
<1> QED
  BY <1>1, <1>2, PortsInductive, PTL DEF P!Spec
=============================================================================
