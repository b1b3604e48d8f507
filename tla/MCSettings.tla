----------------------------- MODULE MCSettings -----------------------------
(* Two targets, so that the default and another one can be told apart.       *)
EXTENDS Settings

MCTargets == {2111, 1800}
=============================================================================
