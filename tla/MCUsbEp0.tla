----------------------------- MODULE MCUsbEp0 -----------------------------
(***************************************************************************)
(* A small instance of UsbEp0 for TLC.  Packets are 2 bytes long, and the  *)
(* descriptor lengths make every case of the streamer happen: shorter than *)
(* a packet (the string), longer but not a multiple (the device and URL    *)
(* descriptors, 3 bytes), exactly one packet (the BOS descriptor, 2        *)
(* bytes) and an exact multiple (the configuration descriptor, 4 bytes),   *)
(* so that a zero-length packet follows when wLength is larger; wLength is *)
(* below, at and above the length.                                         *)
(***************************************************************************)
EXTENDS UsbEp0

MCDescLen ==
  [d \in Descriptors |->
     CASE d = DevDesc  -> 3
       [] d = ConfDesc -> 4
       [] d = BosDesc  -> 2
       [] d = UrlDesc  -> 3
       [] OTHER        -> 1]

Setup(bm, req, value, index, length) ==
  [bmRequestType |-> bm, bRequest |-> req, wValue |-> value,
   wIndex |-> index, wLength |-> length]

(* GET_DESCRIPTOR for a descriptor type and index, with a wLength. *)
GetDesc(type, idx, length) ==
  Setup(USB_DIR_IN, USB_REQ_GET_DESCRIPTOR, type * 256 + idx, 0, length)

MCSetups ==
  {GetDesc(USB_DT_DEVICE, 0, 2), GetDesc(USB_DT_DEVICE, 0, 64),
   GetDesc(USB_DT_CONFIGURATION, 0, 4), GetDesc(USB_DT_CONFIGURATION, 0, 9),
   GetDesc(USB_DT_BOS, 0, 255), GetDesc(USB_DT_STRING, 0, 255),
   GetDesc(USB_DT_STRING, 1, 255),   \* past USB_STR_COUNT
   GetDesc(6, 0, 10), \* USB_DT_DEVICE_QUALIFIER
   Setup(USB_DIR_IN, USB_REQ_GET_STATUS, 0, 0, 2),
   Setup(USB_DIR_OUT, USB_REQ_SET_ADDRESS, 1, 0, 0),
   Setup(USB_DIR_OUT, USB_REQ_SET_ADDRESS, 0, 0, 0),
   Setup(USB_DIR_OUT, USB_REQ_SET_CONFIGURATION, 1, 0, 0),
   Setup(USB_DIR_OUT, USB_REQ_SET_FEATURE, 1, 0, 0),
   Setup(USB_DIR_OUT, USB_REQ_CLEAR_FEATURE, 1, 0, 0),
   \* interface 0: a class read (HID GET_REPORT) and a class write
   Setup(161, 1, 0, 0, 64), Setup(33, 10, 0, 0, 0),
   \* vendor: the WebUSB URL, and an unknown vendor request
   Setup(192, 1, 0, WEBUSB_REQ_GET_URL, 255), Setup(192, 7, 0, 0, 8)}
====
