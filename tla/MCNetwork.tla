------------------------------ MODULE MCNetwork ------------------------------
(***************************************************************************)
(* What meets the host's network: TUN trials, and ports that other         *)
(* programs take.  The two modules share no state: each is a branch, and   *)
(* focus says which one moves.                                             *)
(***************************************************************************)
EXTENDS TunTrial, Sequences

CONSTANTS Owners, PortSet, MaxEdits, MaxForeign   \* Ports

VARIABLES own, foreign, live, rec, tried, failed, edits, outside,
          focus

\* One channel and the router.
TwoOwners == <<"channel", "router">>
P == INSTANCE Ports

\* The owners are listed in the order they are sent home in.
ASSUME OwnersAssumption == Owners \in Seq(P!OwnerSet)

portVars == <<own, foreign, live, rec, tried, failed, edits, outside>>
all == <<vars, portVars, focus>>

InTun(A) == focus = "tun" /\ A /\ UNCHANGED <<portVars, focus>>
InPorts(A) == focus = "ports" /\ A /\ UNCHANGED <<vars, focus>>

NetworkInit == focus \in {"tun", "ports"} /\ Init /\ P!Init
NetworkNext == InTun(Next) \/ InPorts(P!Next)

\* The fairness of the modules.  Only one of them moves in a behaviour, so
\* a condition of one and a condition of another are stated as one.
NetworkFairness ==
  /\ WF_all(\/ InTun(Tick)
            \/ InPorts(P!Begin \/ P!RestoreHome \/ P!Reallocate \/ P!NoFreePort \/ P!Unidentified))
  /\ WF_all(InTun(Holder)) /\ WF_all(InTun(Reconcile))
  /\ SF_all(InTun(SomeExpire) \/ InPorts(P!Apply /\ rec' # rec))
  /\ SF_all(InTun(Settle) \/ InPorts(P!Identified))
NetworkSpec == NetworkInit /\ [][NetworkNext]_all /\ NetworkFairness
---------------------------------------------------------------------------
(* The properties of the modules that EXTENDS does not bring *)

\* Ports: no port has two owners.
UniqueOwners == P!UniqueOwners
\* Ports: port recovery comes to rest.
Settles == P!Settles
=============================================================================
