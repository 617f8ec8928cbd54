------------------------------ MODULE UsbEp0 ------------------------------
(***************************************************************************)
(* The control endpoint (EP0) of the STM32 USB device driver,              *)
(* src/fw/chip/stm32/usb.c: the SETUP handler ep0_rx with its request      *)
(* router, the descriptor streamer ep0_send_descriptor / ep0_tx, the       *)
(* deferred SET_ADDRESS, the interface-handler slot iface_next and the     *)
(* bus reset usb_reset / ep0_event.                                        *)
(*                                                                         *)
(* Every handler runs inside the single USB interrupt, so one transaction  *)
(* of the host together with the handler it triggers is one atomic step.   *)
(* The host is the environment: it may send a SETUP or reset the bus at    *)
(* any time (preempting a transfer), and otherwise follows the control     *)
(* transfer protocol (data IN packets, then the status stage).             *)
(*                                                                         *)
(* Data is abstracted: a descriptor is a record naming it, and the packet  *)
(* in the transmit buffer is a chunk [data, from, count] naming the bytes  *)
(* from..from+count-1 of that descriptor.                                  *)
(***************************************************************************)
EXTENDS Integers

CONSTANTS
  MaxPacket,     \* USB_MAX_PACKET_SIZE
  IfaceCount,    \* USB_IFACE_COUNT
  StrCount,      \* USB_STR_COUNT
  DescLen,       \* length in bytes of every descriptor the device serves
  Setups,        \* the setup packets the host may send
  RemoteWakeup,  \* CONFIG_USB_REMOTE_WAKEUP
  WebUsb,        \* CONFIG_WEBUSB_URL
  Bos,           \* CONFIG_USB_BOS
  MaxEvents      \* bound: SETUP packets plus bus resets in one behaviour

(* Constants of the USB 2.0 framework used by ep0_rx. *)
USB_DIR_IN == 128
USB_DIR_OUT == 0
USB_RECIP_INTERFACE == 1
USB_TYPE_VENDOR == 2              \* (0x40 & USB_TYPE_MASK) >> 5
USB_REQ_GET_STATUS == 0
USB_REQ_CLEAR_FEATURE == 1
USB_REQ_SET_FEATURE == 3
USB_REQ_SET_ADDRESS == 5
USB_REQ_GET_DESCRIPTOR == 6
USB_REQ_SET_CONFIGURATION == 9
USB_DT_DEVICE == 1
USB_DT_CONFIGURATION == 2
USB_DT_STRING == 3
USB_DT_BOS == 15
USB_REQ_FEATURE_DEVICE_REMOTE_WAKEUP == 1
WEBUSB_REQ_GET_URL == 2

Min(a, b) == IF a < b THEN a ELSE b

(* What the transmit buffer can hold: a descriptor, the GET_STATUS word,   *)
(* nothing (a zero-length packet) or data staged by an interface handler. *)
Data(k, i) == [kind |-> k, idx |-> i]
DevDesc == Data("device", 0)
ConfDesc == Data("config", 0)
BosDesc == Data("bos", 0)
UrlDesc == Data("url", 0)
StrDesc(i) == Data("string", i)
Descriptors == {DevDesc, ConfDesc, BosDesc, UrlDesc}
                 \cup {StrDesc(i) : i \in 0..(StrCount - 1)}
StatusData == Data("status", 0)
NoData == Data("none", 0)
IfaceData(i) == Data("iface", i)
Payloads == Descriptors \cup {StatusData, NoData}
              \cup {IfaceData(i) : i \in 0..(IfaceCount - 1)}

Chunk(d, from, n) == [data |-> d, from |-> from, count |-> n]
Chunks == [data : Payloads, from : Nat, count : 0..MaxPacket]

(* desc_ptr: NULL, or a position inside a descriptor. *)
NoPtr == [src |-> NoData, off |-> 0]
DescPtrs == [src : Descriptors, off : Nat]

(* The 8-byte setup packet as decoded by usb_read_setup_packet: two     *)
(* uint8_t fields and three uint16_t fields.                            *)
Byte == {n \in Nat : n < 256}
Word == {n \in Nat : n < 65536}
SetupPackets == [bmRequestType : Byte, bRequest : Byte,
                 wValue : Word, wIndex : Word, wLength : Word]
Recip(p) == p.bmRequestType % 32                \* & USB_RECIP_MASK
ReqType(p) == (p.bmRequestType \div 32) % 4     \* & USB_TYPE_MASK
IsIn(p) == p.bmRequestType \div 128 = 1         \* & USB_DIR_IN

EpStats == {"DISABLED", "STALL", "NAK", "VALID"}
Phases == {"idle", "dataIn", "statusOut", "statusIn"}

(* USB_MAX_PACKET_SIZE is at least the 2 bytes of a GET_STATUS answer;   *)
(* iface_next is a uint8_t.                                                *)
ASSUME SizeAssumption ==
  /\ MaxPacket \in Nat /\ MaxPacket >= 2
  /\ IfaceCount \in Nat /\ IfaceCount < 256
  /\ StrCount \in Nat
  /\ MaxEvents \in Nat

ASSUME ConfigAssumption ==
  /\ DescLen \in [Descriptors -> Nat]
  /\ {RemoteWakeup, WebUsb, Bos} \subseteq BOOLEAN

ASSUME SetupAssumption ==
  /\ Setups \subseteq SetupPackets
  \* Control reads carry a data stage, control writes have none: the
  \* requests ep0_rx serves itself have no OUT data stage.
  /\ \A p \in Setups : IsIn(p) <=> p.wLength > 0

(***************************************************************************)
(* The request router of ep0_rx (lines 153-274) as a pure decision on the  *)
(* setup packet: what the handler does with it.                            *)
(***************************************************************************)
Act(op, d, v) == [op |-> op, desc |-> d, val |-> v]
Stalled == Act("stall", NoData, 0)

Ep0Request(p) ==
  LET req   == p.bmRequestType + 256 * p.bRequest
      iface == p.wIndex % 256
      type  == p.wValue \div 256
      idx   == p.wValue % 256
  IN  IF Recip(p) = USB_RECIP_INTERFACE /\ iface < IfaceCount
        THEN Act("iface", NoData, iface)
      ELSE IF ReqType(p) = USB_TYPE_VENDOR
        THEN IF WebUsb /\ p.bRequest = 1 /\ p.wIndex = WEBUSB_REQ_GET_URL
               THEN Act("send", UrlDesc, 0)
               ELSE Stalled
      ELSE IF req = USB_DIR_IN + 256 * USB_REQ_GET_DESCRIPTOR
        THEN IF type = USB_DT_DEVICE THEN Act("send", DevDesc, 0)
             ELSE IF type = USB_DT_CONFIGURATION THEN Act("send", ConfDesc, 0)
             ELSE IF type = USB_DT_BOS /\ Bos THEN Act("send", BosDesc, 0)
             ELSE IF type = USB_DT_STRING /\ idx < StrCount
               THEN Act("send", StrDesc(idx), 0)
             ELSE Stalled   \* USB_DT_DEVICE_QUALIFIER and the rest
      ELSE IF req = USB_DIR_IN + 256 * USB_REQ_GET_STATUS
        THEN Act("status", StatusData, 0)
      ELSE IF p.bmRequestType = USB_DIR_OUT
        THEN IF /\ p.bRequest \in {USB_REQ_SET_FEATURE, USB_REQ_CLEAR_FEATURE}
                /\ RemoteWakeup
                /\ p.wValue = USB_REQ_FEATURE_DEVICE_REMOTE_WAKEUP
               THEN Act("feature", NoData,
                        IF p.bRequest = USB_REQ_SET_FEATURE THEN 1 ELSE 0)
             ELSE IF p.bRequest = USB_REQ_SET_ADDRESS
               THEN Act("address", NoData, p.wValue % 256)
             ELSE IF p.bRequest = USB_REQ_SET_CONFIGURATION
               THEN Act("config", NoData, 0)
             ELSE Stalled
      ELSE Stalled

VARIABLES
  set_addr,              \* address of a SET_ADDRESS awaiting its status IN
  desc_left,             \* bytes of the descriptor still to be sent
  desc_ptr,              \* next byte of the descriptor to send, or NULL
  iface_next,            \* interface to handle the next IN, or IfaceCount
  remote_wakeup_enabled, \* the DEVICE_REMOTE_WAKEUP feature
  ep0_buf_rx,            \* the last setup packet received
  ep0_buf_tx,            \* the staged IN packet (buffer and tx_count)
  stat_tx,               \* STAT_TX of the EP0 register
  stat_rx,               \* STAT_RX of the EP0 register
  status_out,            \* EP_KIND (STATUS_OUT) as last requested
  daddr,                 \* STM32_USB_DADDR (address field)
  iface_ret,             \* the last value an interface handler returned
  \* The host side of the bus, and history of the transfer.
  host,                  \* the host's stage of the current control transfer
  got,                   \* data bytes the host received in this data stage
  host_addr,             \* the address the host has assigned the device
  iface_calls,           \* interface handler calls with this setup packet
  events                 \* SETUP packets and bus resets so far

dev_vars == <<set_addr, desc_left, desc_ptr, iface_next,
              remote_wakeup_enabled, ep0_buf_rx, ep0_buf_tx, stat_tx,
              stat_rx, status_out, daddr, iface_ret>>
host_vars == <<host, got, host_addr, iface_calls, events>>
vars == <<dev_vars, host_vars>>

TypeOK ==
  /\ set_addr \in Byte
  /\ desc_left \in Nat
  /\ desc_ptr \in DescPtrs \cup {NoPtr}
  /\ iface_next \in 0..IfaceCount
  /\ remote_wakeup_enabled \in BOOLEAN
  /\ ep0_buf_rx \in SetupPackets
  /\ ep0_buf_tx \in Chunks
  /\ stat_tx \in EpStats
  /\ stat_rx \in EpStats
  /\ status_out \in BOOLEAN
  /\ daddr \in Byte
  /\ iface_ret \in {-1, 0, 1}
  /\ host \in Phases
  /\ got \in Nat
  /\ host_addr \in Byte
  /\ iface_calls \in 0..2
  /\ events \in 0..MaxEvents

(* State after usb_init, before the first bus reset: the endpoint is       *)
(* disabled and the statics have their initial values.                     *)
Init ==
  /\ set_addr = 0
  /\ desc_left = 0
  /\ desc_ptr = NoPtr
  /\ iface_next = IfaceCount
  /\ remote_wakeup_enabled = FALSE
  /\ ep0_buf_rx = [bmRequestType |-> 0, bRequest |-> 0, wValue |-> 0,
                   wIndex |-> 0, wLength |-> 0]
  /\ ep0_buf_tx = Chunk(NoData, 0, 0)
  /\ stat_tx = "DISABLED"
  /\ stat_rx = "DISABLED"
  /\ status_out = FALSE
  /\ daddr = 0
  /\ iface_ret = 0
  /\ host = "idle"
  /\ got = 0
  /\ host_addr = 0
  /\ iface_calls = 0
  /\ events = 0
(***************************************************************************)
(* Endpoint register writes of the handlers.                               *)
(***************************************************************************)
(* Stage buf and STM32_TOGGLE_EP(0, EP_TX_RX_MASK, EP_TX_RX_VALID, kind). *)
Arm(buf, kind) ==
  /\ ep0_buf_tx' = buf
  /\ stat_tx' = "VALID"
  /\ stat_rx' = "VALID"
  /\ status_out' = kind

(* unknown_req: STM32_TOGGLE_EP(0, EP_TX_RX_MASK, EP_RX_VALID|EP_TX_STALL, 0) *)
StallEp0 ==
  /\ stat_tx' = "STALL"
  /\ stat_rx' = "VALID"
  /\ status_out' = FALSE
  /\ UNCHANGED ep0_buf_tx

(* An interface handler that returns 0 or 1 has staged its packet (a full *)
(* one when more follows, a short one when it is the last) and armed EP0. *)
IfaceStaged(i, ret) ==
  Arm(Chunk(IfaceData(i), 0, IF ret = 1 THEN MaxPacket ELSE 0), ret = 0)

(* Mutant: the remainder computed from the uncut descriptor length. *)
ep0_send_descriptor_uncut(d, p) ==
  LET len == Min(p.wLength, DescLen[d]) IN
  \/ /\ len >= MaxPacket
     /\ desc_left' = DescLen[d] - MaxPacket
     /\ desc_ptr' = [src |-> d, off |-> MaxPacket]
     /\ Arm(Chunk(d, 0, MaxPacket), len - MaxPacket = 0)
  \/ /\ len < MaxPacket
     /\ desc_ptr' = NoPtr
     /\ UNCHANGED desc_left
     /\ Arm(Chunk(d, 0, len), desc_left = 0)

(* Mutant: "len > USB_MAX_PACKET_SIZE", no stream for a one-packet answer. *)
ep0_send_descriptor_gt(d, p) ==
  LET len == Min(p.wLength, DescLen[d]) IN
  \/ /\ len > MaxPacket
     /\ desc_left' = len - MaxPacket
     /\ desc_ptr' = [src |-> d, off |-> MaxPacket]
     /\ Arm(Chunk(d, 0, MaxPacket), len - MaxPacket = 0)
  \/ /\ len <= MaxPacket
     /\ desc_ptr' = NoPtr
     /\ UNCHANGED desc_left
     /\ Arm(Chunk(d, 0, len), desc_left = 0)

(* ep0_send_descriptor: at most wLength bytes, at most one packet now, the *)
(* rest left to ep0_tx.  On a short descriptor desc_left is not written.  *)
ep0_send_descriptor(d, p) ==
  LET len == Min(p.wLength, DescLen[d]) IN
  \/ /\ len >= MaxPacket
     /\ desc_left' = len - MaxPacket
     /\ desc_ptr' = [src |-> d, off |-> MaxPacket]
     /\ Arm(Chunk(d, 0, MaxPacket), len - MaxPacket = 0)
  \/ /\ len < MaxPacket
     /\ desc_ptr' = NoPtr
     /\ UNCHANGED desc_left
     /\ Arm(Chunk(d, 0, len), desc_left = 0)

(***************************************************************************)
(* ep0_rx: a transaction received on EP0.  It first drops any transfer in  *)
(* progress (desc_ptr, iface_next), then serves the request in the buffer. *)
(***************************************************************************)
(* Mutant: an interface request that does not drop the descriptor stream. *)
Ep0RxIfaceKeepsStream(p) ==
  LET iface == Ep0Request(p).val IN
  /\ Ep0Request(p).op = "iface"
  /\ \E ret \in {-1, 0, 1} :
       /\ iface_ret' = ret
       /\ iface_next' = IF ret = 1 THEN iface ELSE IfaceCount
       /\ \/ ret < 0 /\ StallEp0
          \/ ret >= 0 /\ IfaceStaged(iface, ret)
  /\ UNCHANGED <<desc_ptr, set_addr, desc_left, remote_wakeup_enabled>>

Ep0RxIface(p) ==
  LET iface == Ep0Request(p).val IN
  /\ Ep0Request(p).op = "iface"
  /\ \E ret \in {-1, 0, 1} :
       /\ iface_ret' = ret
       /\ iface_next' = IF ret = 1 THEN iface ELSE IfaceCount
       /\ \/ ret < 0 /\ StallEp0
          \/ ret >= 0 /\ IfaceStaged(iface, ret)
  /\ desc_ptr' = NoPtr
  /\ UNCHANGED <<set_addr, desc_left, remote_wakeup_enabled>>

Ep0RxDescriptor(p) ==
  /\ Ep0Request(p).op = "send"
  /\ ep0_send_descriptor(Ep0Request(p).desc, p)
  /\ iface_next' = IfaceCount
  /\ UNCHANGED <<set_addr, remote_wakeup_enabled, iface_ret>>

Ep0RxStatus(p) ==
  /\ Ep0Request(p).op = "status"
  /\ Arm(Chunk(StatusData, 0, 2), TRUE)
  /\ desc_ptr' = NoPtr
  /\ iface_next' = IfaceCount
  /\ UNCHANGED <<set_addr, desc_left, remote_wakeup_enabled, iface_ret>>

Ep0RxFeature(p) ==
  /\ Ep0Request(p).op = "feature"
  /\ remote_wakeup_enabled' = (Ep0Request(p).val = 1)
  /\ Arm(Chunk(NoData, 0, 0), FALSE)
  /\ desc_ptr' = NoPtr
  /\ iface_next' = IfaceCount
  /\ UNCHANGED <<set_addr, desc_left, iface_ret>>

Ep0RxSetAddress(p) ==
  /\ Ep0Request(p).op = "address"
  /\ set_addr' = Ep0Request(p).val
  /\ Arm(Chunk(NoData, 0, 0), FALSE)
  /\ desc_ptr' = NoPtr
  /\ iface_next' = IfaceCount
  /\ UNCHANGED <<desc_left, remote_wakeup_enabled, iface_ret>>

Ep0RxSetConfig(p) ==
  /\ Ep0Request(p).op = "config"
  /\ Arm(Chunk(NoData, 0, 0), FALSE)
  /\ desc_ptr' = NoPtr
  /\ iface_next' = IfaceCount
  /\ UNCHANGED <<set_addr, desc_left, remote_wakeup_enabled, iface_ret>>

Ep0RxUnknown(p) ==
  /\ Ep0Request(p).op = "stall"
  /\ StallEp0
  /\ desc_ptr' = NoPtr
  /\ iface_next' = IfaceCount
  /\ UNCHANGED <<set_addr, desc_left, remote_wakeup_enabled, iface_ret>>

ep0_rx(p) ==
  \/ Ep0RxIface(p)
  \/ Ep0RxDescriptor(p)
  \/ Ep0RxStatus(p)
  \/ Ep0RxFeature(p)
  \/ Ep0RxSetAddress(p)
  \/ Ep0RxSetConfig(p)
  \/ Ep0RxUnknown(p)

(***************************************************************************)
(* ep0_tx: an IN transaction on EP0 completed.  The pending address is     *)
(* applied first, then the descriptor stream, else the interface slot,     *)
(* else (and on a handler error) the endpoint is re-armed as it is.        *)
(***************************************************************************)
(* Mutant: the packet length not limited by desc_left. *)
Ep0TxStreamNoMin ==
  LET len == MaxPacket IN
  /\ desc_ptr # NoPtr
  /\ ep0_buf_tx' = Chunk(desc_ptr.src, desc_ptr.off, len)
  /\ desc_left' = desc_left - len
  /\ desc_ptr' = [desc_ptr EXCEPT !.off = @ + len]
  /\ stat_tx' = "VALID"
  /\ status_out' = (desc_left - len = 0)
  /\ UNCHANGED <<iface_next, iface_ret, stat_rx>>

Ep0TxStream ==
  LET len == Min(desc_left, MaxPacket) IN
  /\ desc_ptr # NoPtr
  /\ ep0_buf_tx' = Chunk(desc_ptr.src, desc_ptr.off, len)
  /\ desc_left' = desc_left - len
  /\ desc_ptr' = [desc_ptr EXCEPT !.off = @ + len]
  /\ stat_tx' = "VALID"
  /\ status_out' = (desc_left - len = 0)
  /\ UNCHANGED <<iface_next, iface_ret, stat_rx>>

(* Mutant: a handler error that leaves the endpoint NAKing. *)
Ep0TxIfaceNoRearm ==
  /\ desc_ptr = NoPtr
  /\ iface_next < IfaceCount
  /\ \E ret \in {-1, 0, 1} :
       /\ iface_ret' = ret
       /\ \/ /\ ret < 0
             /\ stat_tx' = "NAK"
             /\ status_out' = FALSE
             /\ UNCHANGED <<ep0_buf_tx, stat_rx, iface_next>>
          \/ /\ ret >= 0
             /\ IfaceStaged(iface_next, ret)
             /\ iface_next' = IF ret = 0 THEN IfaceCount ELSE iface_next
  /\ UNCHANGED <<desc_ptr, desc_left>>

Ep0TxIface ==
  /\ desc_ptr = NoPtr
  /\ iface_next < IfaceCount
  /\ \E ret \in {-1, 0, 1} :
       /\ iface_ret' = ret
       /\ \/ /\ ret < 0
             /\ stat_tx' = "VALID"
             /\ status_out' = FALSE
             /\ UNCHANGED <<ep0_buf_tx, stat_rx, iface_next>>
          \/ /\ ret >= 0
             /\ IfaceStaged(iface_next, ret)
             /\ iface_next' = IF ret = 0 THEN IfaceCount ELSE iface_next
  /\ UNCHANGED <<desc_ptr, desc_left>>

Ep0TxIdle ==
  /\ desc_ptr = NoPtr
  /\ iface_next = IfaceCount
  /\ stat_tx' = "VALID"
  /\ status_out' = FALSE
  /\ UNCHANGED <<desc_ptr, desc_left, iface_next, iface_ret, ep0_buf_tx,
                 stat_rx>>

ep0_tx ==
  /\ daddr' = IF set_addr # 0 THEN set_addr ELSE daddr
  /\ set_addr' = 0
  /\ Ep0TxStream \/ Ep0TxIface \/ Ep0TxIdle
  /\ UNCHANGED <<remote_wakeup_enabled, ep0_buf_rx>>

(***************************************************************************)
(* The host's transactions, each with the interrupt handler it causes.     *)
(***************************************************************************)
IsSetAddress(p) == p.bmRequestType = USB_DIR_OUT
                     /\ p.bRequest = USB_REQ_SET_ADDRESS

(* A SETUP is always accepted by the endpoint and starts a new transfer;  *)
(* usb_interrupt calls ep0_rx.                                            *)
HostSetup ==
  /\ events < MaxEvents
  /\ stat_rx # "DISABLED"
  /\ \E p \in Setups :
       /\ ep0_buf_rx' = p
       /\ ep0_rx(p)
       /\ host' = IF IsIn(p) THEN "dataIn" ELSE "statusIn"
       /\ iface_calls' = IF Ep0Request(p).op = "iface" THEN 1 ELSE 0
  /\ got' = 0
  /\ events' = events + 1
  /\ UNCHANGED <<daddr, host_addr>>

(* An IN token answered with the staged packet; usb_interrupt calls ep0_tx. *)
(* The data stage ends on a short packet or when wLength bytes arrived.    *)
HostIn ==
  /\ host \in {"dataIn", "statusIn"}
  /\ stat_tx = "VALID"
  /\ \/ /\ host = "dataIn"
        /\ got' = got + ep0_buf_tx.count
        /\ host' = IF \/ ep0_buf_tx.count < MaxPacket
                      \/ got + ep0_buf_tx.count >= ep0_buf_rx.wLength
                   THEN "statusOut" ELSE "dataIn"
        /\ UNCHANGED host_addr
     \/ /\ host = "statusIn"
        /\ host' = "idle"
        /\ host_addr' = IF IsSetAddress(ep0_buf_rx)
                          THEN ep0_buf_rx.wValue % 256 ELSE host_addr
        /\ UNCHANGED got
  /\ ep0_tx
  /\ UNCHANGED <<ep0_buf_rx, iface_calls, events>>

(* A STALL handshake ends the transfer; no interrupt is raised. *)
HostSeesStall ==
  /\ host \in {"dataIn", "statusIn"}
  /\ stat_tx = "STALL"
  /\ host' = "idle"
  /\ UNCHANGED <<dev_vars, got, host_addr, iface_calls, events>>

(* The zero-length status OUT of a control read.  It does not overwrite  *)
(* the buffer, and usb_interrupt calls ep0_rx on it all the same.        *)
HostStatusOut ==
  /\ host = "statusOut"
  /\ stat_rx = "VALID"
  /\ host' = "idle"
  /\ ep0_rx(ep0_buf_rx)
  /\ iface_calls' = IF Ep0Request(ep0_buf_rx).op = "iface"
                      THEN Min(iface_calls + 1, 2) ELSE iface_calls
  /\ UNCHANGED <<ep0_buf_rx, daddr, got, host_addr, events>>

(* usb_reset: ep0_event(USB_EVENT_RESET) for the endpoint, address 0. *)
usb_reset ==
  /\ events < MaxEvents
  /\ stat_tx' = "NAK"
  /\ stat_rx' = "VALID"
  /\ status_out' = FALSE
  /\ ep0_buf_tx' = [ep0_buf_tx EXCEPT !.count = 0]
  /\ daddr' = 0
  /\ host' = "idle"
  /\ host_addr' = 0
  /\ events' = events + 1
  /\ UNCHANGED <<set_addr, desc_left, desc_ptr, iface_next,
                 remote_wakeup_enabled, ep0_buf_rx, iface_ret, got,
                 iface_calls>>

Next ==
  \/ HostSetup
  \/ HostIn
  \/ HostSeesStall
  \/ HostStatusOut
  \/ usb_reset

(* The host keeps polling a transfer it has started; the interrupt is    *)
(* always serviced.  SETUPs and resets are bounded, so need no fairness. *)
Fairness ==
  /\ WF_vars(HostIn)
  /\ WF_vars(HostSeesStall)
  /\ WF_vars(HostStatusOut)

Spec == Init /\ [][Next]_vars /\ Fairness

(***************************************************************************)
(* Properties.                                                             *)
(***************************************************************************)
(* What a request is answered with, by the router's decision. *)
Answer(p) ==
  IF Ep0Request(p).op = "send" THEN Ep0Request(p).desc
  ELSE IF Ep0Request(p).op = "iface" THEN IfaceData(Ep0Request(p).val)
  ELSE IF Ep0Request(p).op = "status" THEN StatusData
  ELSE NoData

(* The length of the whole answer to a control read: the descriptor cut *)
(* to wLength, or the two bytes of GET_STATUS.                           *)
AnswerLength(p) ==
  IF Ep0Request(p).op = "send"
    THEN Min(p.wLength, DescLen[Ep0Request(p).desc]) ELSE 2

(* Spec 3, descriptor stream cursor: while a descriptor is being streamed *)
(* (desc_ptr set by ep0_send_descriptor, advanced by ep0_tx) it points    *)
(* into the descriptor the current request asks for, past the first      *)
(* packet, and the bytes already sent plus desc_left make exactly the     *)
(* descriptor cut to wLength -- across preempting SETUPs, status-stage    *)
(* re-dispatch and bus resets.                                            *)
StreamConsistent ==
  desc_ptr # NoPtr =>
    /\ Ep0Request(ep0_buf_rx).op = "send"
    /\ desc_ptr.src = Ep0Request(ep0_buf_rx).desc
    /\ MaxPacket <= desc_ptr.off
    /\ desc_ptr.off + desc_left
         = Min(ep0_buf_rx.wLength, DescLen[desc_ptr.src])

(* Every packet the host takes in a data stage belongs to the answer of  *)
(* the request it sent, and a descriptor arrives in order, each packet   *)
(* starting where the previous one ended (ep0_send_descriptor, ep0_tx,   *)
(* and the reset of desc_ptr/iface_next when a SETUP preempts).          *)
DataInOrder ==
  [][host = "dataIn" /\ HostIn =>
       /\ ep0_buf_tx.data = Answer(ep0_buf_rx)
       /\ Ep0Request(ep0_buf_rx).op = "send" => ep0_buf_tx.from = got]_vars

(* Spec 8: a control read of a descriptor or of the status ends with the *)
(* host holding exactly min(wLength, length) bytes: no truncation, no    *)
(* excess, the zero-length packet sent when a multiple of the packet     *)
(* size falls short of wLength.                                          *)
DataStageLength ==
  [][/\ host = "dataIn" /\ HostIn /\ host' = "statusOut"
     /\ Ep0Request(ep0_buf_rx).op \in {"send", "status"}
     => got' = AnswerLength(ep0_buf_rx)]_vars

(* Spec 7: no request leaves EP0 hanging: every control transfer the    *)
(* host starts reaches its end (data, status, or a STALL) as long as the *)
(* host keeps polling it.                                                *)
TransferCompletes == host # "idle" ~> host = "idle"

(* Spec 8 and USB 9.4.6: the address register holds exactly the address  *)
(* the host assigned by the last SET_ADDRESS whose status stage completed *)
(* since the last bus reset (set_addr applied in ep0_tx).                *)
AddressAgreement == daddr = host_addr

(* Spec 3 and 7: the active interface slot is set only while its handler *)
(* last reported more data; an error clears it (ep0_tx error path).      *)
IfaceSlotHonoured == iface_next < IfaceCount => iface_ret = 1

(* Spec 6: an interface handler is called with the setup data once per   *)
(* SETUP, and afterwards only for IN tokens.                              *)
SetupDispatchedOnce == iface_calls <= 1
====
