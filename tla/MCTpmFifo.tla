----------------------------- MODULE MCTpmFifo -----------------------------
(* TpmFifo on a small FIFO; the constants are given in the .cfg files. *)
EXTENDS TpmFifo
====
