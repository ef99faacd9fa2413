---------------------------- MODULE MCReconnect ----------------------------
(* A small instance of Reconnect: one channel of a provider with an API.   *)
EXTENDS Reconnect

CONSTANT c1

OneChannel == {c1}
=============================================================================
