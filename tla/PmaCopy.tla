------------------------------ MODULE PmaCopy ------------------------------
(***************************************************************************)
(* What memcpy_to_usbram and memcpy_from_usbram promise (spec 4.1 and 8), *)
(* as two atomic steps: n bytes of src are copied into the packet memory  *)
(* at byte offset off, leaving every other byte as it was, and n bytes    *)
(* read back from off are exactly those of the memory.  UsbPma refines    *)
(* it.                                                                     *)
(***************************************************************************)
EXTENDS Integers, Sequences

CONSTANTS NWords, Vals, MaxLen

VARIABLES
  pma,    \* the packet memory, word index -> 16-bit value
  src,    \* the bytes to copy
  off,    \* the byte offset
  out,    \* the bytes read back
  stage   \* "write", "read" or "done"

vars == <<pma, src, off, out, stage>>

WordAddrs == 0..(NWords - 1)
Word(lo, hi) == hi * 256 + lo

(* The byte at offset a of the packet memory m (little endian words). *)
ByteAt(m, a) == IF a % 2 = 0 THEN m[a \div 2] % 256 ELSE m[a \div 2] \div 256

(* Byte a after the copy: from src inside the copied range, else as before. *)
Copied(a) ==
  IF off <= a /\ a < off + Len(src) THEN src[a - off + 1] ELSE ByteAt(pma, a)

Init ==
  /\ \E n \in 0..MaxLen, o \in 0..(2 * NWords) :
       /\ o + n <= 2 * NWords
       /\ off = o
       /\ src \in [1..n -> Vals]
  /\ pma \in [WordAddrs -> {Word(lo, hi) : lo, hi \in Vals}]
  /\ out = <<>>
  /\ stage = "write"

(* memcpy_to_usbram(off, src, n) as one step. *)
Write ==
  /\ stage = "write"
  /\ pma' = [w \in WordAddrs |-> Word(Copied(2 * w), Copied(2 * w + 1))]
  /\ stage' = "read"
  /\ UNCHANGED <<src, off, out>>

(* memcpy_from_usbram(out, off, n) as one step. *)
Read ==
  /\ stage = "read"
  /\ out' = [i \in 1..Len(src) |-> ByteAt(pma, off + i - 1)]
  /\ stage' = "done"
  /\ UNCHANGED <<pma, src, off>>

Spec == Init /\ [][Write \/ Read]_vars
====
