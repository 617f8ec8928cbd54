---------------------------- MODULE UsbEp0Proofs ----------------------------
(***************************************************************************)
(* Proofs about the EP0 engine of UsbEp0, for every value of the          *)
(* constants that satisfy the assumptions of UsbEp0.                       *)
(***************************************************************************)
EXTENDS UsbEp0, TLAPS

(* Every decision the router of ep0_rx can take. *)
Decisions ==
  {Act("iface", NoData, i) : i \in 0..(IfaceCount - 1)}
    \cup {Act("send", d, 0) : d \in Descriptors}
    \cup {Act("status", StatusData, 0), Act("config", NoData, 0), Stalled}
    \cup {Act("feature", NoData, v) : v \in {0, 1}}
    \cup {Act("address", NoData, a) : a \in Byte}

(* The low byte of a 16-bit field, as the code's casts to uint8_t take it. *)
LEMMA LowByte ==
  ASSUME NEW x \in Word
  PROVE  x % 256 \in Byte
<1>1. x \in Nat
  BY DEF Word
<1>2. x % 256 \in 0..255
  BY <1>1
<1>3. QED
  BY <1>2 DEF Byte

(***************************************************************************)
(* The router's decision is well formed for every setup packet: a         *)
(* descriptor it serves is one of the descriptors, an interface it routes *)
(* to exists, and an address it records is a byte.                        *)
(***************************************************************************)
LEMMA RequestInDecisions ==
  ASSUME NEW p \in SetupPackets
  PROVE  Ep0Request(p) \in Decisions
<1> DEFINE req   == p.bmRequestType + 256 * p.bRequest
           iface == p.wIndex % 256
           type  == p.wValue \div 256
           idx   == p.wValue % 256
           IsIface == Recip(p) = USB_RECIP_INTERFACE /\ iface < IfaceCount
           IsVendor == ReqType(p) = USB_TYPE_VENDOR
           IsGetDesc == req = USB_DIR_IN + 256 * USB_REQ_GET_DESCRIPTOR
           IsGetStatus == req = USB_DIR_IN + 256 * USB_REQ_GET_STATUS
           IsOut == p.bmRequestType = USB_DIR_OUT
<1>1. iface \in Byte /\ idx \in Byte
  <2>1. p.wIndex \in Word /\ p.wValue \in Word
    BY DEF SetupPackets
  <2>2. QED
    BY <2>1, LowByte
<1>2. CASE IsIface
  <2>1. Ep0Request(p) = Act("iface", NoData, iface)
    BY <1>2 DEF Ep0Request
  <2>2. iface \in 0..(IfaceCount - 1)
    BY <1>1, <1>2, SizeAssumption DEF Byte
  <2>3. QED
    BY <2>1, <2>2 DEF Decisions
<1>3. CASE ~IsIface /\ IsVendor
  <2>1. Ep0Request(p) \in {Act("send", UrlDesc, 0), Stalled}
    BY <1>3 DEF Ep0Request
  <2>2. QED
    BY <2>1 DEF Decisions, Descriptors
<1>4. CASE ~IsIface /\ ~IsVendor /\ IsGetDesc
  <2>1. \/ Ep0Request(p) \in {Act("send", DevDesc, 0),
                              Act("send", ConfDesc, 0),
                              Act("send", BosDesc, 0), Stalled}
        \/ idx < StrCount /\ Ep0Request(p) = Act("send", StrDesc(idx), 0)
    BY <1>4 DEF Ep0Request
  <2>2. idx < StrCount => StrDesc(idx) \in Descriptors
    BY <1>1, SizeAssumption DEF Descriptors, Byte
  <2>3. QED
    BY <2>1, <2>2 DEF Decisions, Descriptors
<1>5. CASE ~IsIface /\ ~IsVendor /\ ~IsGetDesc /\ IsGetStatus
  BY <1>5 DEF Ep0Request, Decisions
<1>6. CASE ~IsIface /\ ~IsVendor /\ ~IsGetDesc /\ ~IsGetStatus /\ IsOut
  <2>1. Ep0Request(p) \in {Act("feature", NoData, 1),
                           Act("feature", NoData, 0),
                           Act("address", NoData, p.wValue % 256),
                           Act("config", NoData, 0), Stalled}
    BY <1>6 DEF Ep0Request
  <2>2. QED
    BY <2>1, <1>1 DEF Decisions
<1>7. CASE ~IsIface /\ ~IsVendor /\ ~IsGetDesc /\ ~IsGetStatus /\ ~IsOut
  BY <1>7 DEF Ep0Request, Decisions
<1>8. QED
  BY <1>2, <1>3, <1>4, <1>5, <1>6, <1>7

(* What the rest of the engine relies on from the router: the descriptor *)
(* to send is served by the device, the interface slot exists, and the    *)
(* address recorded for SET_ADDRESS is a byte.                            *)
LEMMA RequestFields ==
  ASSUME NEW p \in SetupPackets
  PROVE  /\ Ep0Request(p).op = "send" => Ep0Request(p).desc \in Descriptors
         /\ Ep0Request(p).op = "iface" => Ep0Request(p).val \in 0..(IfaceCount - 1)
         /\ Ep0Request(p).op = "address" => Ep0Request(p).val \in Byte
BY RequestInDecisions DEF Decisions, Act, Stalled

(* The part of TypeOK about the endpoint state the handlers write. *)
EpTypeOK ==
  /\ set_addr \in Byte
  /\ desc_left \in Nat
  /\ desc_ptr \in DescPtrs \cup {NoPtr}
  /\ iface_next \in 0..IfaceCount
  /\ remote_wakeup_enabled \in BOOLEAN
  /\ ep0_buf_tx \in Chunks
  /\ stat_tx \in EpStats
  /\ stat_rx \in EpStats
  /\ status_out \in BOOLEAN
  /\ iface_ret \in {-1, 0, 1}

(* ep0_rx, whatever the request, leaves the endpoint state well typed. *)
LEMMA Ep0RxType ==
  ASSUME TypeOK, NEW p \in SetupPackets, ep0_rx(p)
  PROVE  EpTypeOK'
<1> USE SizeAssumption
<1>1. p.wLength \in Nat
  BY DEF SetupPackets, Word
<1>0. status_out' \in BOOLEAN /\ remote_wakeup_enabled' \in BOOLEAN
  BY Zenon DEF TypeOK, ep0_rx, Ep0RxIface, Ep0RxDescriptor, Ep0RxStatus,
     Ep0RxFeature, Ep0RxSetAddress, Ep0RxSetConfig, Ep0RxUnknown,
     ep0_send_descriptor, Arm, StallEp0, IfaceStaged
<1>2. CASE Ep0RxIface(p)
  BY <1>0, <1>2, RequestFields DEF Ep0RxIface, EpTypeOK, TypeOK, StallEp0,
     IfaceStaged, Arm, Chunk, Chunks, Payloads, EpStats
<1>3. CASE Ep0RxDescriptor(p)
  <2> DEFINE d == Ep0Request(p).desc
             len == Min(p.wLength, DescLen[d])
  <2>1. d \in Descriptors /\ d \in Payloads
    BY <1>3, RequestFields DEF Ep0RxDescriptor, Payloads
  <2>2. len \in Nat
    BY <1>1, <2>1, ConfigAssumption DEF Min
  <2>3. CASE len >= MaxPacket
    <3>1. /\ desc_left' = len - MaxPacket
          /\ desc_ptr' = [src |-> d, off |-> MaxPacket]
          /\ Arm(Chunk(d, 0, MaxPacket), len - MaxPacket = 0)
      <4>1. ~(len < MaxPacket)
        BY <2>2, <2>3
      <4>2. QED
        BY <1>3, <4>1, Zenon DEF Ep0RxDescriptor, ep0_send_descriptor
    <3>2. desc_left' \in Nat
      BY <2>2, <2>3, <3>1
    <3>3. desc_ptr' \in DescPtrs
      BY <2>1, <3>1 DEF DescPtrs
    <3>4. ep0_buf_tx' \in Chunks
      BY <2>1, <3>1 DEF Arm, Chunk, Chunks
    <3>5. QED
      BY <1>0, <1>3, <3>1, <3>2, <3>3, <3>4
      DEF Ep0RxDescriptor, EpTypeOK, TypeOK, Arm, EpStats
  <2>4. CASE len < MaxPacket
    <3>1. /\ desc_ptr' = NoPtr
          /\ UNCHANGED desc_left
          /\ Arm(Chunk(d, 0, len), desc_left = 0)
      <4>1. ~(len >= MaxPacket)
        BY <2>2, <2>4
      <4>2. QED
        BY <1>3, <4>1, Zenon DEF Ep0RxDescriptor, ep0_send_descriptor
    <3>2. ep0_buf_tx' \in Chunks
      BY <2>1, <2>2, <2>4, <3>1 DEF Arm, Chunk, Chunks
    <3>3. QED
      BY <1>0, <1>3, <3>1, <3>2 DEF Ep0RxDescriptor, EpTypeOK, TypeOK, Arm,
         EpStats
  <2>5. QED
    BY <2>2, <2>3, <2>4
<1>4. CASE Ep0RxStatus(p)
  BY <1>0, <1>4 DEF Ep0RxStatus, EpTypeOK, TypeOK, Arm, Chunk, Chunks, Payloads,
     EpStats
<1>5. CASE Ep0RxFeature(p)
  BY <1>0, <1>5 DEF Ep0RxFeature, EpTypeOK, TypeOK, Arm, Chunk, Chunks, Payloads,
     EpStats
<1>6. CASE Ep0RxSetAddress(p)
  BY <1>0, <1>6, RequestFields DEF Ep0RxSetAddress, EpTypeOK, TypeOK, Arm, Chunk,
     Chunks, Payloads, EpStats
<1>7. CASE Ep0RxSetConfig(p)
  BY <1>0, <1>7 DEF Ep0RxSetConfig, EpTypeOK, TypeOK, Arm, Chunk, Chunks, Payloads,
     EpStats
<1>8. CASE Ep0RxUnknown(p)
  BY <1>0, <1>8 DEF Ep0RxUnknown, EpTypeOK, TypeOK, StallEp0, EpStats
<1>9. QED
  BY <1>2, <1>3, <1>4, <1>5, <1>6, <1>7, <1>8 DEF ep0_rx

(* ep0_tx -- the pending address, the next packet of a descriptor, the *)
(* interface slot or a plain re-arm -- leaves the endpoint well typed.  *)
LEMMA Ep0TxType ==
  ASSUME TypeOK, ep0_tx
  PROVE  EpTypeOK' /\ daddr' \in Byte
<1> USE SizeAssumption
<1>0. status_out' \in BOOLEAN /\ remote_wakeup_enabled' \in BOOLEAN
  BY Zenon DEF TypeOK, ep0_tx, Ep0TxStream, Ep0TxIface, Ep0TxIdle,
     IfaceStaged, Arm
<1>1. daddr' \in Byte /\ set_addr' \in Byte
  BY DEF ep0_tx, TypeOK, Byte
<1>2. CASE Ep0TxStream
  <2> DEFINE len == Min(desc_left, MaxPacket)
  <2>1. desc_ptr \in DescPtrs
    BY <1>2 DEF Ep0TxStream, TypeOK
  <2>2. len \in 0..desc_left /\ len \in 0..MaxPacket
    BY DEF TypeOK, Min
  <2>3. ep0_buf_tx' \in Chunks
    BY <1>2, <2>1, <2>2 DEF Ep0TxStream, Chunk, Chunks, DescPtrs, Payloads
  <2>4. desc_left' \in Nat
    BY <1>2, <2>2 DEF Ep0TxStream, TypeOK
  <2>5. desc_ptr' \in DescPtrs
    <3>1. desc_ptr = [src |-> desc_ptr.src, off |-> desc_ptr.off]
      BY <2>1 DEF DescPtrs
    <3>2. desc_ptr' = [src |-> desc_ptr.src, off |-> desc_ptr.off + len]
      BY <1>2, <3>1 DEF Ep0TxStream
    <3>3. QED
      BY <2>1, <2>2, <3>2 DEF DescPtrs
  <2>6. QED
    BY <1>0, <1>1, <1>2, <2>3, <2>4, <2>5 DEF Ep0TxStream, EpTypeOK, TypeOK,
       EpStats
<1>3. CASE Ep0TxIface
  <2>1. iface_next \in 0..(IfaceCount - 1)
    BY <1>3 DEF Ep0TxIface, TypeOK
  <2>2. QED
    BY <1>0, <1>1, <1>3, <2>1 DEF Ep0TxIface, EpTypeOK, TypeOK, EpStats,
       IfaceStaged, Arm, Chunk, Chunks, Payloads
<1>4. CASE Ep0TxIdle
  BY <1>0, <1>1, <1>4 DEF Ep0TxIdle, EpTypeOK, TypeOK, EpStats
<1>5. QED
  BY <1>2, <1>3, <1>4 DEF ep0_tx

(* TypeOK is EpTypeOK and the types of the buffer, the address register *)
(* and the host's state.                                                 *)
RestTypeOK ==
  /\ ep0_buf_rx \in SetupPackets
  /\ daddr \in Byte
  /\ host \in Phases
  /\ got \in Nat
  /\ host_addr \in Byte
  /\ iface_calls \in 0..2
  /\ events \in 0..MaxEvents

LEMMA InitType == Init => TypeOK
<1> SUFFICES ASSUME Init PROVE TypeOK
  OBVIOUS
<1> USE SizeAssumption
<1>1. ep0_buf_rx \in SetupPackets
  BY DEF Init, SetupPackets, Byte, Word
<1>2. status_out \in BOOLEAN /\ remote_wakeup_enabled \in BOOLEAN
  BY Zenon DEF Init
<1>3. QED
  BY <1>1, <1>2 DEF Init, TypeOK, Byte, NoPtr, DescPtrs, Chunk, Chunks,
     Payloads, EpStats, Phases

(* Every step of the host and of the interrupt handler keeps TypeOK. *)
LEMMA NextType == TypeOK /\ [Next]_vars => TypeOK'
<1> SUFFICES ASSUME TypeOK, [Next]_vars PROVE TypeOK'
  OBVIOUS
<1> USE SizeAssumption
<1>1. CASE HostSetup
  <2>1. PICK p \in Setups : /\ ep0_buf_rx' = p
                            /\ ep0_rx(p)
                            /\ host' = IF IsIn(p) THEN "dataIn" ELSE "statusIn"
                            /\ iface_calls' = IF Ep0Request(p).op = "iface"
                                                THEN 1 ELSE 0
    BY <1>1 DEF HostSetup
  <2>2. p \in SetupPackets
    BY SetupAssumption
  <2>3. EpTypeOK'
    BY <2>1, <2>2, Ep0RxType
  <2>4. RestTypeOK'
    BY <1>1, <2>1, <2>2 DEF HostSetup, TypeOK, RestTypeOK, Phases
  <2>5. QED
    BY <2>3, <2>4, Zenon DEF TypeOK, EpTypeOK, RestTypeOK
<1>2. CASE HostIn
  <2>1. EpTypeOK' /\ daddr' \in Byte
    BY <1>2, Ep0TxType DEF HostIn
  <2>2. ep0_buf_rx.wValue \in Word
    BY DEF TypeOK, SetupPackets
  <2>3. ep0_buf_rx.wValue % 256 \in Byte
    BY <2>2, LowByte
  <2>4. ep0_buf_tx.count \in Nat
    BY DEF TypeOK, Chunks
  <2>5. RestTypeOK'
    BY <1>2, <2>1, <2>3, <2>4 DEF HostIn, TypeOK, RestTypeOK, Phases
  <2>6. QED
    BY <2>1, <2>5, Zenon DEF TypeOK, EpTypeOK, RestTypeOK
<1>3. CASE HostSeesStall
  BY <1>3 DEF HostSeesStall, TypeOK, dev_vars, Phases
<1>4. CASE HostStatusOut
  <2>1. EpTypeOK'
    BY <1>4, Ep0RxType DEF HostStatusOut, TypeOK
  <2>2. RestTypeOK'
    BY <1>4 DEF HostStatusOut, TypeOK, RestTypeOK, Phases, Min
  <2>3. QED
    BY <2>1, <2>2, Zenon DEF TypeOK, EpTypeOK, RestTypeOK
<1>5. CASE usb_reset
  <2>1. status_out' \in BOOLEAN
    BY <1>5, Zenon DEF usb_reset
  <2>2. ep0_buf_tx' \in Chunks
    BY <1>5 DEF usb_reset, TypeOK, Chunks
  <2>3. QED
    BY <1>5, <2>1, <2>2 DEF usb_reset, TypeOK, EpStats, Phases, Byte
<1>6. CASE UNCHANGED vars
  BY <1>6 DEF vars, dev_vars, host_vars, TypeOK
<1>7. QED
  BY <1>1, <1>2, <1>3, <1>4, <1>5, <1>6 DEF Next

(* The model of the EP0 engine never leaves its types: every decision of *)
(* the ep0_rx router, every descriptor cursor ep0_send_descriptor and    *)
(* ep0_tx produce, and every packet staged is of the declared shape.     *)
THEOREM TypeCorrect == Spec => []TypeOK
BY InitType, NextType, PTL DEF Spec

(***************************************************************************)
(* The descriptor stream cursor.  StreamConsistent is inductive together  *)
(* with TypeOK: ep0_rx either drops the stream or starts it from the      *)
(* request it has just stored in the buffer, ep0_tx moves bytes from      *)
(* desc_left to the cursor's offset, and nothing else writes the three.   *)
(***************************************************************************)
LEMMA Ep0RxStream ==
  ASSUME TypeOK, NEW p \in SetupPackets, ep0_rx(p), ep0_buf_rx' = p
  PROVE  StreamConsistent'
<1>1. CASE Ep0RxDescriptor(p)
  <2> DEFINE d == Ep0Request(p).desc
             len == Min(p.wLength, DescLen[d])
  <2>1. len \in Nat
    <3>1. d \in Descriptors /\ p.wLength \in Nat
      BY <1>1, RequestFields DEF Ep0RxDescriptor, SetupPackets, Word
    <3>2. QED
      BY <3>1, ConfigAssumption DEF Min
  <2>2. CASE len >= MaxPacket
    <3>1. ~(len < MaxPacket)
      BY <2>1, <2>2, SizeAssumption
    <3>2. /\ desc_left' = len - MaxPacket
          /\ desc_ptr' = [src |-> d, off |-> MaxPacket]
      BY <1>1, <3>1, Zenon DEF Ep0RxDescriptor, ep0_send_descriptor
    <3>3. QED
      BY <1>1, <2>1, <3>2, SizeAssumption DEF Ep0RxDescriptor,
         StreamConsistent
  <2>3. CASE len < MaxPacket
    <3>1. ~(len >= MaxPacket)
      BY <2>1, <2>3, SizeAssumption
    <3>2. desc_ptr' = NoPtr
      BY <1>1, <3>1, Zenon DEF Ep0RxDescriptor, ep0_send_descriptor
    <3>3. QED
      BY <3>2 DEF StreamConsistent
  <2>4. QED
    BY <2>1, <2>2, <2>3, SizeAssumption
<1>2. CASE ~Ep0RxDescriptor(p)
  <2>1. desc_ptr' = NoPtr
    BY <1>2, Zenon DEF ep0_rx, Ep0RxIface, Ep0RxStatus, Ep0RxFeature,
       Ep0RxSetAddress, Ep0RxSetConfig, Ep0RxUnknown
  <2>2. QED
    BY <2>1 DEF StreamConsistent
<1>3. QED
  BY <1>1, <1>2

LEMMA Ep0TxStreamKeeps ==
  ASSUME TypeOK, StreamConsistent, ep0_tx, UNCHANGED ep0_buf_rx
  PROVE  StreamConsistent'
<1>1. CASE Ep0TxStream
  <2> DEFINE len == Min(desc_left, MaxPacket)
  <2>1. desc_ptr \in DescPtrs
    BY <1>1 DEF Ep0TxStream, TypeOK
  <2>2. desc_ptr = [src |-> desc_ptr.src, off |-> desc_ptr.off]
    BY <2>1 DEF DescPtrs
  <2>3. /\ desc_ptr' = [src |-> desc_ptr.src, off |-> desc_ptr.off + len]
        /\ desc_left' = desc_left - len
    BY <1>1, <2>2 DEF Ep0TxStream
  <2>4. len \in Nat /\ desc_ptr.off \in Nat
    BY <2>1, SizeAssumption DEF TypeOK, Min, DescPtrs
  <2>5. desc_ptr # NoPtr
    BY <1>1 DEF Ep0TxStream
  <2>6. Ep0Request(ep0_buf_rx)' = Ep0Request(ep0_buf_rx)
    BY DEF Ep0Request, Recip, ReqType
  <2>7. QED
    BY <2>3, <2>4, <2>5, <2>6, SizeAssumption DEF StreamConsistent, TypeOK, Min
<1>2. CASE Ep0TxIface \/ Ep0TxIdle
  BY <1>2 DEF Ep0TxIface, Ep0TxIdle, StreamConsistent
<1>3. QED
  BY <1>1, <1>2 DEF ep0_tx

(* The inductive invariant: the types, and the cursor invariant. *)
IInv == TypeOK /\ StreamConsistent

LEMMA NextStream == IInv /\ [Next]_vars => StreamConsistent'
<1> SUFFICES ASSUME IInv, [Next]_vars PROVE StreamConsistent'
  OBVIOUS
<1>1. CASE HostSetup
  <2>1. PICK p \in Setups : ep0_buf_rx' = p /\ ep0_rx(p)
    BY <1>1 DEF HostSetup
  <2>2. QED
    BY <2>1, SetupAssumption, Ep0RxStream DEF IInv
<1>2. CASE HostIn
  BY <1>2, Ep0TxStreamKeeps DEF HostIn, IInv
<1>3. CASE HostSeesStall
  BY <1>3 DEF HostSeesStall, dev_vars, IInv, StreamConsistent
<1>4. CASE HostStatusOut
  BY <1>4, Ep0RxStream DEF HostStatusOut, IInv, TypeOK
<1>5. CASE usb_reset
  BY <1>5 DEF usb_reset, IInv, StreamConsistent
<1>6. CASE UNCHANGED vars
  BY <1>6 DEF vars, dev_vars, host_vars, IInv, StreamConsistent
<1>7. QED
  BY <1>1, <1>2, <1>3, <1>4, <1>5, <1>6 DEF Next

(* ep0_send_descriptor and ep0_tx keep the descriptor cursor consistent *)
(* with the request in ep0_buf_rx: it points past the first packet of   *)
(* the descriptor asked for, and offset plus desc_left is that          *)
(* descriptor cut to wLength, across preempting SETUPs, status-stage    *)
(* re-dispatches and bus resets, for every packet size and descriptor   *)
(* length.                                                              *)
THEOREM StreamSafe == Spec => []StreamConsistent
<1>1. Init => IInv
  BY InitType DEF Init, IInv, StreamConsistent
<1>2. IInv /\ [Next]_vars => IInv'
  BY NextType, NextStream DEF IInv
<1>3. QED
  BY <1>1, <1>2, PTL DEF Spec, IInv

(***************************************************************************)
(* The packet the host takes.  While the host is in a data stage and the  *)
(* endpoint is armed, the staged packet belongs to the answer of the      *)
(* request in ep0_buf_rx.  Only an interface read may hold an interface   *)
(* slot (its own), and only a descriptor read a cursor.  For a descriptor *)
(* the packet starts at the bytes the host already holds, and either the  *)
(* cursor points just past it or it is the last, short, packet.           *)
(***************************************************************************)
DataBody ==
  LET r == Ep0Request(ep0_buf_rx) IN
  /\ ep0_buf_tx.data = Answer(ep0_buf_rx)
  /\ iface_next \in IF r.op = "iface" THEN {r.val, IfaceCount} ELSE {IfaceCount}
  /\ r.op # "send" => desc_ptr = NoPtr
  /\ r.op = "send" =>
       /\ ep0_buf_tx.from = got
       /\ IF desc_ptr = NoPtr THEN ep0_buf_tx.count < MaxPacket
          ELSE desc_ptr.off = got + ep0_buf_tx.count

DataInv == host = "dataIn" /\ stat_tx = "VALID" => DataBody

(* A request ep0_rx has just armed the endpoint for stages its answer from *)
(* its first byte.                                                         *)
LEMMA Ep0RxData ==
  ASSUME TypeOK, NEW p \in SetupPackets, ep0_rx(p), ep0_buf_rx' = p,
         got' = 0, stat_tx' = "VALID"
  PROVE  DataBody'
<1> DEFINE r == Ep0Request(p)
<1> USE SizeAssumption
<1>0. r.op = "iface" => r.val \in 0..(IfaceCount - 1)
  BY RequestFields
<1>1. CASE Ep0RxIface(p)
  <2>1. PICK ret \in {-1, 0, 1} :
          /\ iface_next' = IF ret = 1 THEN r.val ELSE IfaceCount
          /\ \/ ret < 0 /\ StallEp0
             \/ ret >= 0 /\ IfaceStaged(r.val, ret)
    BY <1>1 DEF Ep0RxIface
  <2>2. ~StallEp0
    BY DEF StallEp0
  <2>3. ep0_buf_tx'.data = IfaceData(r.val)
    BY <2>1, <2>2 DEF IfaceStaged, Arm, Chunk
  <2>4. r.op = "iface" /\ desc_ptr' = NoPtr
    BY <1>1 DEF Ep0RxIface
  <2>5. QED
    BY <2>1, <2>3, <2>4 DEF DataBody, Answer
<1>2. CASE Ep0RxDescriptor(p)
  <2> DEFINE d == r.desc
             len == Min(p.wLength, DescLen[d])
  <2>1. r.op = "send" /\ iface_next' = IfaceCount
    BY <1>2 DEF Ep0RxDescriptor
  <2>2. \/ /\ ep0_buf_tx' = Chunk(d, 0, MaxPacket)
           /\ desc_ptr' = [src |-> d, off |-> MaxPacket]
        \/ /\ ep0_buf_tx' = Chunk(d, 0, len)
           /\ desc_ptr' = NoPtr
           /\ len < MaxPacket
    BY <1>2 DEF Ep0RxDescriptor, ep0_send_descriptor, Arm
  <2>3. [src |-> d, off |-> MaxPacket] # NoPtr
    BY DEF NoPtr
  <2>4. QED
    BY <2>1, <2>2, <2>3 DEF DataBody, Answer, Chunk
<1>3. CASE Ep0RxStatus(p)
  BY <1>3 DEF Ep0RxStatus, Arm, Chunk, DataBody, Answer
<1>4. CASE Ep0RxFeature(p) \/ Ep0RxSetAddress(p) \/ Ep0RxSetConfig(p)
  <2>1. r.op \in {"feature", "address", "config"}
    BY <1>4 DEF Ep0RxFeature, Ep0RxSetAddress, Ep0RxSetConfig
  <2>2. /\ ep0_buf_tx' = Chunk(NoData, 0, 0)
        /\ desc_ptr' = NoPtr /\ iface_next' = IfaceCount
    BY <1>4 DEF Ep0RxFeature, Ep0RxSetAddress, Ep0RxSetConfig, Arm
  <2>3. QED
    BY <2>1, <2>2 DEF DataBody, Answer, Chunk
<1>5. CASE Ep0RxUnknown(p)
  BY <1>5 DEF Ep0RxUnknown, StallEp0
<1>6. QED
  BY <1>1, <1>2, <1>3, <1>4, <1>5 DEF ep0_rx

(* An IN that keeps the host in its data stage was a full packet, and    *)
(* ep0_tx stages the next packet of the same answer.                      *)
LEMMA Ep0TxData ==
  ASSUME TypeOK, StreamConsistent, DataBody, ep0_tx,
         UNCHANGED ep0_buf_rx, got' = got + ep0_buf_tx.count,
         ~(ep0_buf_tx.count < MaxPacket)
  PROVE  DataBody'
<1> DEFINE r == Ep0Request(ep0_buf_rx)
<1> USE SizeAssumption
<1>0. Ep0Request(ep0_buf_rx)' = r /\ Answer(ep0_buf_rx)' = Answer(ep0_buf_rx)
  OBVIOUS
<1>1. CASE r.op = "send"
  <2>1. desc_ptr # NoPtr
    BY <1>1 DEF DataBody
  <2>2. desc_ptr \in DescPtrs /\ desc_ptr.src = r.desc
    BY <1>1, <2>1 DEF TypeOK, StreamConsistent
  <2>3. Ep0TxStream
    BY <2>1 DEF ep0_tx, Ep0TxIface, Ep0TxIdle
  <2> DEFINE len == Min(desc_left, MaxPacket)
  <2>4. desc_ptr = [src |-> desc_ptr.src, off |-> desc_ptr.off]
    BY <2>2 DEF DescPtrs
  <2>5. /\ ep0_buf_tx' = Chunk(desc_ptr.src, desc_ptr.off, len)
        /\ desc_ptr' = [src |-> desc_ptr.src, off |-> desc_ptr.off + len]
        /\ iface_next' = iface_next
    BY <2>3, <2>4 DEF Ep0TxStream
  <2>6. desc_ptr.off = got + ep0_buf_tx.count
    BY <1>1, <2>1 DEF DataBody
  <2>7. [src |-> desc_ptr.src, off |-> desc_ptr.off + len] # NoPtr
    <3>1. desc_ptr.src \in Descriptors
      BY <2>2 DEF DescPtrs
    <3>2. NoData \notin Descriptors
      BY DEF NoData, Descriptors, DevDesc, ConfDesc, BosDesc, UrlDesc, StrDesc,
         Data
    <3>3. QED
      BY <3>1, <3>2 DEF NoPtr
  <2>8. QED
    BY <1>0, <1>1, <2>2, <2>5, <2>6, <2>7 DEF DataBody, Answer, Chunk
<1>2. CASE r.op # "send"
  <2>1. desc_ptr = NoPtr
    BY <1>2 DEF DataBody
  <2>2. CASE Ep0TxIface
    <3>1. iface_next < IfaceCount
      BY <2>2 DEF Ep0TxIface
    <3>2. r.op = "iface" /\ iface_next = r.val
      BY <3>1 DEF DataBody, TypeOK
    <3>3. PICK ret \in {-1, 0, 1} :
            \/ /\ ret < 0
               /\ UNCHANGED <<ep0_buf_tx, iface_next>>
            \/ /\ ret >= 0
               /\ IfaceStaged(iface_next, ret)
               /\ iface_next' = IF ret = 0 THEN IfaceCount ELSE iface_next
      BY <2>2 DEF Ep0TxIface
    <3>4. UNCHANGED desc_ptr
      BY <2>2 DEF Ep0TxIface
    <3>5. QED
      BY <1>0, <1>2, <3>2, <3>3, <3>4, <2>1 DEF DataBody, Answer, IfaceStaged,
         Arm, Chunk
  <2>8. CASE Ep0TxIdle
    BY <1>0, <1>2, <2>8 DEF Ep0TxIdle, DataBody
  <2>9. QED
    BY <2>1, <2>2, <2>8 DEF ep0_tx, Ep0TxStream
<1>3. QED
  BY <1>1, <1>2

(* Only a SETUP starts a data stage, and only a full packet continues one. *)
LEMMA NextData == IInv /\ DataInv /\ [Next]_vars => DataInv'
<1> SUFFICES ASSUME IInv, DataInv, [Next]_vars,
                    host' = "dataIn", stat_tx' = "VALID"
             PROVE  DataBody'
  BY DEF DataInv
<1>1. CASE HostSetup
  <2>1. PICK p \in Setups : ep0_buf_rx' = p /\ ep0_rx(p)
    BY <1>1 DEF HostSetup
  <2>2. QED
    BY <1>1, <2>1, SetupAssumption, Ep0RxData DEF HostSetup, IInv
<1>2. CASE HostIn
  <2>1. host = "dataIn" /\ stat_tx = "VALID"
    BY <1>2 DEF HostIn
  <2>2. /\ got' = got + ep0_buf_tx.count
        /\ ~(ep0_buf_tx.count < MaxPacket)
    BY <1>2, <2>1 DEF HostIn
  <2>3. QED
    BY <1>2, <2>1, <2>2, Ep0TxData DEF HostIn, IInv, DataInv
<1>3. CASE HostSeesStall \/ HostStatusOut \/ usb_reset
  BY <1>3 DEF HostSeesStall, HostStatusOut, usb_reset
<1>4. CASE UNCHANGED vars
  <2>1. DataBody
    BY <1>4 DEF vars, host_vars, dev_vars, DataInv
  <2>2. /\ Ep0Request(ep0_buf_rx)' = Ep0Request(ep0_buf_rx)
        /\ Answer(ep0_buf_rx)' = Answer(ep0_buf_rx)
    BY <1>4 DEF vars, dev_vars
  <2>3. QED
    BY <1>4, <2>1, <2>2 DEF vars, dev_vars, host_vars, DataBody
<1>5. QED
  BY <1>1, <1>2, <1>3, <1>4 DEF Next

(* The stream feeds the host in order: every packet the host takes in a *)
(* data stage is part of the answer ep0_rx chose for the request in      *)
(* ep0_buf_rx, and a descriptor packet starts exactly at the byte count  *)
(* the host already holds -- across ep0_tx's streaming, interface slots, *)
(* preempting SETUPs and bus resets, for every packet size and           *)
(* descriptor length.                                                    *)
THEOREM DataInOrderSafe == Spec => DataInOrder
<1> DEFINE Inv == IInv /\ DataInv
<1>1. Init => Inv
  BY InitType DEF Init, IInv, StreamConsistent, DataInv
<1>2. Inv /\ [Next]_vars => Inv'
  BY NextType, NextStream, NextData DEF IInv
<1>3. Inv => [host = "dataIn" /\ HostIn =>
                /\ ep0_buf_tx.data = Answer(ep0_buf_rx)
                /\ Ep0Request(ep0_buf_rx).op = "send"
                     => ep0_buf_tx.from = got]_vars
  BY DEF DataInv, DataBody, HostIn
<1>4. QED
  BY <1>1, <1>2, <1>3, PTL DEF Spec, DataInOrder

====
