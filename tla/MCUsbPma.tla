----------------------------- MODULE MCUsbPma ------------------------------
(* UsbPma on a small packet memory; the constants are given in the .cfg. *)
EXTENDS UsbPma
====
