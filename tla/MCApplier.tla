----------------------------- MODULE MCApplier -----------------------------
(* Small instances of Applier: of four configurations, the third is refused. *)
EXTENDS Applier

ThirdRefused == {3}
=============================================================================
