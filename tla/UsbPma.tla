------------------------------ MODULE UsbPma ------------------------------
(***************************************************************************)
(* The packet memory access shim of src/fw/chip/stm32/usb.c:              *)
(* memcpy_to_usbram and memcpy_from_usbram.  The packet memory is an       *)
(* array of 16-bit words (usb_uint) addressed by byte offset: the byte at *)
(* offset a is the low byte of word a \div 2 when a is even and its high  *)
(* byte when a is odd.                                                     *)
(*                                                                         *)
(* One behaviour writes n bytes of src at offset off with                  *)
(* memcpy_to_usbram, then reads n bytes back from off with                 *)
(* memcpy_from_usbram.  Each statement that touches the memory or the     *)
(* output is one step: the unaligned leading byte, one iteration of the   *)
(* word loop, the trailing byte.                                           *)
(***************************************************************************)
EXTENDS Integers, Sequences

CONSTANTS
  NWords,   \* words of packet memory in the model
  Vals,     \* byte values the source and the memory hold
  MaxLen    \* bound: the largest n copied

MaxByte == 255     \* the largest uint8_t
MaxWord == 65535   \* the largest usb_uint, a 16-bit word

ASSUME PmaAssumption ==
  /\ NWords \in Nat \ {0}
  /\ Vals \subseteq 0..MaxByte /\ Vals # {}
  /\ MaxLen \in Nat

VARIABLES
  pma,     \* the packet memory, word index -> 16-bit value
  pma0,    \* the memory before the copy (history, for the properties)
  src,     \* the source bytes, a sequence
  off,     \* the byte offset copied to and read back from
  phase,   \* the statement each routine has reached
  d,       \* d (or s): the word pointer into the packet memory
  s,       \* s (or d): the next position of src
  k,       \* n, decremented by the unaligned leading byte
  i,       \* the word loop counter
  out      \* the bytes memcpy_from_usbram has stored so far

vars == <<pma, pma0, src, off, phase, d, s, k, i, out>>

WordAddrs == 0..(NWords - 1)
Word(lo, hi) == hi * 256 + lo
Words == {Word(lo, hi) : lo, hi \in Vals}
Phases == {"toLead", "toLoop", "toTrail",
           "fromLead", "fromLoop", "fromTrail", "done"}

(* The byte at offset a of the packet memory m (little endian words). *)
ByteAt(m, a) == IF a % 2 = 0 THEN m[a \div 2] % 256 ELSE m[a \div 2] \div 256

TypeOK ==
  /\ pma \in [WordAddrs -> 0..MaxWord]
  /\ pma0 \in [WordAddrs -> Words]
  /\ src \in Seq(Vals)
  /\ off \in 0..(2 * NWords)
  /\ phase \in Phases
  /\ d \in 0..NWords
  /\ s \in 1..(Len(src) + 1)
  /\ k \in 0..Len(src)
  /\ i \in Nat
  /\ out \in Seq(0..MaxByte)

(* Any copy that fits: an offset, odd or even, a length, the bytes and the *)
(* memory contents before it.                                              *)
Init ==
  /\ \E n \in 0..MaxLen, o \in 0..(2 * NWords) :
       /\ o + n <= 2 * NWords
       /\ off = o
       /\ src \in [1..n -> Vals]
       /\ k = n
       /\ d = o \div 2
  /\ pma0 \in [WordAddrs -> Words]
  /\ pma = pma0
  /\ phase = "toLead"
  /\ s = 1
  /\ i = 0
  /\ out = <<>>

(***************************************************************************)
(* memcpy_to_usbram(dest = off, src, n).                                   *)
(***************************************************************************)
(* The unaligned leading byte goes to the high half of its word, by a     *)
(* read-modify-write that keeps the low half.                             *)
ToLead ==
  /\ phase = "toLead"
  /\ \/ /\ off % 2 = 1 /\ k # 0
        /\ pma' = [pma EXCEPT ![d] = Word(@ % 256, src[s])]
        /\ k' = k - 1
        /\ s' = s + 1
        /\ d' = d + 1
     \/ /\ ~(off % 2 = 1 /\ k # 0)
        /\ UNCHANGED <<pma, k, s, d>>
  /\ phase' = "toLoop"
  /\ UNCHANGED <<pma0, src, off, i, out>>

(* for (i = 0; i < n / 2; i++, s += 2) *d++ = (s[1] << 8) | s[0]; *)
ToLoop ==
  /\ phase = "toLoop"
  /\ \/ /\ i < k \div 2
        /\ pma' = [pma EXCEPT ![d] = Word(src[s], src[s + 1])]
        /\ d' = d + 1
        /\ s' = s + 2
        /\ i' = i + 1
        /\ UNCHANGED phase
     \/ /\ ~(i < k \div 2)
        /\ phase' = "toTrail"
        /\ UNCHANGED <<pma, d, s, i>>
  /\ UNCHANGED <<pma0, src, off, k, out>>

(* Mutant: the trailing byte stored with a plain write of the word. *)
ToTrailNoMask ==
  /\ phase = "toTrail"
  /\ \/ /\ k % 2 = 1
        /\ pma' = [pma EXCEPT ![d] = src[s]]
     \/ /\ k % 2 = 0
        /\ UNCHANGED pma
  /\ phase' = "fromLead"
  /\ d' = off \div 2
  /\ k' = Len(src)
  /\ i' = 0
  /\ UNCHANGED <<pma0, src, off, s, out>>

(* The trailing byte goes to the low half of its word, keeping the high *)
(* half.  Then memcpy_from_usbram(dest, src = off, n) starts.            *)
ToTrail ==
  /\ phase = "toTrail"
  /\ \/ /\ k % 2 = 1
        /\ pma' = [pma EXCEPT ![d] = Word(src[s], @ \div 256)]
     \/ /\ k % 2 = 0
        /\ UNCHANGED pma
  /\ phase' = "fromLead"
  /\ d' = off \div 2
  /\ k' = Len(src)
  /\ i' = 0
  /\ UNCHANGED <<pma0, src, off, s, out>>

(***************************************************************************)
(* memcpy_from_usbram(out, off, n).                                        *)
(***************************************************************************)
(* Mutant: "if (unaligned)" without the test of n. *)
FromLeadNoCount ==
  /\ phase = "fromLead"
  /\ \/ /\ off % 2 = 1
        /\ out' = Append(out, pma[d] \div 256)
        /\ k' = k - 1
        /\ d' = d + 1
     \/ /\ ~(off % 2 = 1)
        /\ UNCHANGED <<out, k, d>>
  /\ phase' = "fromLoop"
  /\ UNCHANGED <<pma, pma0, src, off, s, i>>

(* *d = *s >> 8 for the unaligned leading byte. *)
FromLead ==
  /\ phase = "fromLead"
  /\ \/ /\ off % 2 = 1 /\ k # 0
        /\ out' = Append(out, pma[d] \div 256)
        /\ k' = k - 1
        /\ d' = d + 1
     \/ /\ ~(off % 2 = 1 /\ k # 0)
        /\ UNCHANGED <<out, k, d>>
  /\ phase' = "fromLoop"
  /\ UNCHANGED <<pma, pma0, src, off, s, i>>

(* Mutant: the two bytes of a word stored high byte first. *)
FromLoopSwapped ==
  /\ phase = "fromLoop"
  /\ \/ /\ i < k \div 2
        /\ out' = out \o <<(pma[d] \div 256) % 256, pma[d] % 256>>
        /\ d' = d + 1
        /\ i' = i + 1
        /\ UNCHANGED phase
     \/ /\ ~(i < k \div 2)
        /\ phase' = "fromTrail"
        /\ UNCHANGED <<out, d, i>>
  /\ UNCHANGED <<pma, pma0, src, off, s, k>>

(* value = *s++; *d++ = value & 0xff; *d++ = (value >> 8) & 0xff; *)
FromLoop ==
  /\ phase = "fromLoop"
  /\ \/ /\ i < k \div 2
        /\ out' = out \o <<pma[d] % 256, (pma[d] \div 256) % 256>>
        /\ d' = d + 1
        /\ i' = i + 1
        /\ UNCHANGED phase
     \/ /\ ~(i < k \div 2)
        /\ phase' = "fromTrail"
        /\ UNCHANGED <<out, d, i>>
  /\ UNCHANGED <<pma, pma0, src, off, s, k>>

(* *d = *s: the uint16_t word stored into a uint8_t keeps its low byte. *)
FromTrail ==
  /\ phase = "fromTrail"
  /\ \/ /\ k % 2 = 1
        /\ out' = Append(out, pma[d] % 256)
     \/ /\ k % 2 = 0
        /\ UNCHANGED out
  /\ phase' = "done"
  /\ UNCHANGED <<pma, pma0, src, off, d, s, k, i>>

Next == ToLead \/ ToLoop \/ ToTrail \/ FromLead \/ FromLoop \/ FromTrail

Spec == Init /\ [][Next]_vars

(***************************************************************************)
(* Properties.                                                             *)
(***************************************************************************)
(* The memory a byte-for-byte copy of src to off would leave. *)
Expected(a) ==
  IF off <= a /\ a < off + Len(src) THEN src[a - off + 1] ELSE ByteAt(pma0, a)

(* Spec 4.1: once memcpy_to_usbram has returned, the bytes off..off+n-1  *)
(* of the packet memory are those of src and no other byte has changed,  *)
(* for odd and even offsets and lengths.                                  *)
CopyToExact ==
  phase \in {"fromLead", "fromLoop", "fromTrail", "done"} =>
    \A a \in 0..(2 * NWords - 1) : ByteAt(pma, a) = Expected(a)

(* The refinement mapping: until memcpy_to_usbram returns, the abstract  *)
(* memory is the one before the copy; the bytes read back appear when     *)
(* memcpy_from_usbram returns.                                            *)
ToPhases == {"toLead", "toLoop", "toTrail"}
AbsPma == IF phase \in ToPhases THEN pma0 ELSE pma
AbsStage ==
  IF phase \in ToPhases THEN "write" ELSE IF phase = "done" THEN "done" ELSE "read"
AbsOut == IF phase = "done" THEN out ELSE <<>>

Copy == INSTANCE PmaCopy WITH pma <- AbsPma, stage <- AbsStage, out <- AbsOut

(* Spec 4.1 and 8: statement by statement, with odd and even offsets and  *)
(* lengths, memcpy_to_usbram followed by memcpy_from_usbram implements     *)
(* an exact byte copy into the packet memory and back: the word loop and  *)
(* the masked leading and trailing bytes leave the memory exactly as the  *)
(* copy would, and the read returns the bytes of that memory.             *)
CopyRefined == Copy!Spec
====
