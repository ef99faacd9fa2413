----------------------------- MODULE MCSetupTxn -----------------------------
(* Small instances of SetupTxn. *)
EXTENDS SetupTxn, TLC

CONSTANTS p1, p2, nordvpn, surfshark, t1, t2

OneProc == {p1}
TwoProcs == {p1, p2}
OneProvider == {nordvpn}
TwoProviders == {nordvpn, surfshark}
TwoTokens == {t1, t2}

\* The operations that write a provider and its credential together.
PairedKinds == {"add", "update", "remove", "restore"}
ImportOnly == {"import"}

\* Providers and tokens are interchangeable: nothing in the code orders them.
Interchangeable == Permutations(Providers) \cup Permutations(Tokens)
=============================================================================
