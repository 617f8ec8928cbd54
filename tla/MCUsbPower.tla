----------------------------- MODULE MCUsbPower -----------------------------
(***************************************************************************)
(* A small instance of UsbPower for TLC: two tasks calling usb_wake twice  *)
(* each, and a resume timeout of 2 frames, so that the countdown reaches  *)
(* both its zero (RESUME released) and its timeout.                        *)
(***************************************************************************)
EXTENDS UsbPower

CONSTANTS t1, t2

MCCallers == {t1, t2}
====
