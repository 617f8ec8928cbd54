----------------------------- MODULE MCTpmReset -----------------------------
(* TpmReset with two calling tasks. *)
EXTENDS TpmReset

CONSTANTS t1, t2

MCCallers == {t1, t2}
====
