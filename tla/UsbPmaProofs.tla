---------------------------- MODULE UsbPmaProofs ----------------------------
(***************************************************************************)
(* Proofs about memcpy_to_usbram and memcpy_from_usbram (UsbPma): the      *)
(* type invariant, CopyToExact, and that UsbPma implements PmaCopy.        *)
(*                                                                         *)
(* The word and byte ranges are written 0..MaxWord and 0..MaxByte and the *)
(* proofs expand MaxWord and MaxByte only in the arithmetic lemmas, which *)
(* state their facts as inequalities.                                      *)
(***************************************************************************)
EXTENDS UsbPma, TLAPS

Bytes == 0..(2 * NWords - 1)

(***************************************************************************)
(* Lemmas about the little-endian 16-bit words of the packet memory.       *)
(***************************************************************************)
(* A word built from two bytes is a 16-bit value and gives them back. *)
LEMMA WordBytes ==
  ASSUME NEW lo \in Nat, NEW hi \in Nat, lo <= MaxByte, hi <= MaxByte
  PROVE  /\ Word(lo, hi) \in 0..MaxWord
         /\ Word(lo, hi) % 256 = lo
         /\ Word(lo, hi) \div 256 = hi
<1>1. Word(lo, hi) \in Nat /\ Word(lo, hi) <= MaxWord
  BY DEF Word, MaxByte, MaxWord
<1>2. Word(lo, hi) % 256 = lo
  BY DEF Word, MaxByte
<1>3. Word(lo, hi) \div 256 = hi
  BY DEF Word, MaxByte
<1>4. QED
  BY <1>1, <1>2, <1>3

(* The high byte of a 16-bit value is at most 255. *)
LEMMA HighByte ==
  ASSUME NEW x \in Nat, x <= MaxWord
  PROVE  x \div 256 <= MaxByte
BY DEF MaxWord, MaxByte

(* The low and the high byte of a 16-bit value are bytes, and the value is *)
(* the word they make.                                                      *)
LEMMA WordSplit ==
  ASSUME NEW x \in 0..MaxWord
  PROVE  /\ x % 256 \in 0..MaxByte
         /\ x \div 256 \in 0..MaxByte
         /\ x = Word(x % 256, x \div 256)
<1>1. x \in Nat /\ x <= MaxWord
  OBVIOUS
<1>2. x % 256 \in Nat /\ x % 256 <= MaxByte
  BY <1>1 DEF MaxByte
<1>3. x \div 256 \in Nat /\ x \div 256 <= MaxByte
  <2>1. x \div 256 \in Nat
    BY <1>1
  <2>2. QED
    BY <1>1, <2>1, HighByte
<1>4. (x % 256) + (x \div 256) * 256 = x
  BY <1>1
<1>5. QED
  BY <1>2, <1>3, <1>4 DEF Word

(* A byte of a packet memory is a byte. *)
LEMMA ByteRange ==
  ASSUME NEW m \in [WordAddrs -> 0..MaxWord], NEW a \in Bytes
  PROVE  ByteAt(m, a) \in 0..MaxByte
<1>1. a \div 2 \in WordAddrs
  BY PmaAssumption DEF Bytes, WordAddrs
<1>2. QED
  BY <1>1, WordSplit DEF ByteAt

(* Storing one word changes only the two bytes of that word: a memory m2 *)
(* that agrees with m except at word w agrees with it on every other byte. *)
LEMMA ByteAtStore ==
  ASSUME NEW m, NEW m2, NEW w \in WordAddrs, NEW a \in Bytes,
         \A x \in WordAddrs \ {w} : m2[x] = m[x]
  PROVE  ByteAt(m2, a) =
           IF a \div 2 = w THEN IF a % 2 = 0 THEN m2[w] % 256 ELSE m2[w] \div 256
           ELSE ByteAt(m, a)
<1>1. a \div 2 \in WordAddrs
  BY PmaAssumption DEF Bytes, WordAddrs
<1>2. QED
  BY <1>1 DEF ByteAt

(* Storing the word of bytes lo and hi at word w sets bytes 2w and 2w+1. *)
LEMMA StoreWord ==
  ASSUME NEW m, NEW m2, NEW w \in WordAddrs, NEW a \in Bytes,
         NEW lo \in Nat, NEW hi \in Nat, lo <= MaxByte, hi <= MaxByte,
         m2[w] = Word(lo, hi),
         \A x \in WordAddrs \ {w} : m2[x] = m[x]
  PROVE  ByteAt(m2, a) =
           IF a = 2 * w THEN lo ELSE IF a = 2 * w + 1 THEN hi ELSE ByteAt(m, a)
<1>1. ByteAt(m2, a) =
        IF a \div 2 = w THEN IF a % 2 = 0 THEN m2[w] % 256 ELSE m2[w] \div 256
        ELSE ByteAt(m, a)
  BY ByteAtStore
<1>2. m2[w] % 256 = lo /\ m2[w] \div 256 = hi
  BY WordBytes
<1>3. /\ (a \div 2 = w /\ a % 2 = 0) <=> a = 2 * w
      /\ (a \div 2 = w /\ a % 2 # 0) <=> a = 2 * w + 1
  BY PmaAssumption DEF Bytes, WordAddrs
<1>4. QED
  BY <1>1, <1>2, <1>3

(* A packet memory is the function of the words its bytes make. *)
LEMMA WordsOfBytes ==
  ASSUME NEW m \in [WordAddrs -> 0..MaxWord]
  PROVE  m = [w \in WordAddrs |-> Word(ByteAt(m, 2 * w), ByteAt(m, 2 * w + 1))]
<1>1. ASSUME NEW w \in WordAddrs
      PROVE  m[w] = Word(ByteAt(m, 2 * w), ByteAt(m, 2 * w + 1))
  <2>1. /\ (2 * w) % 2 = 0 /\ (2 * w) \div 2 = w
        /\ (2 * w + 1) % 2 = 1 /\ (2 * w + 1) \div 2 = w
    BY PmaAssumption DEF WordAddrs
  <2>2. ByteAt(m, 2 * w) = m[w] % 256 /\ ByteAt(m, 2 * w + 1) = m[w] \div 256
    BY <2>1 DEF ByteAt
  <2>3. QED
    BY <2>2, WordSplit
<1>2. QED
  BY <1>1

(***************************************************************************)
(* The inductive invariant IInv.  While memcpy_to_usbram runs, the first *)
(* s - 1 bytes of src are in place and the rest of the memory is as before; *)
(* while memcpy_from_usbram runs, the memory is the copied one and out    *)
(* holds its bytes from off on.  The positions d, s, k and i follow the   *)
(* loop: Lead is 1 when the unaligned leading byte was copied.            *)
(***************************************************************************)
Lead == IF off % 2 = 1 /\ Len(src) # 0 THEN 1 ELSE 0

(* The memory once the first m bytes of src have been stored. *)
Partial(m, a) ==
  IF off <= a /\ a < off + m THEN src[a - off + 1] ELSE ByteAt(pma0, a)

FromPhases == {"fromLead", "fromLoop", "fromTrail", "done"}

(* Where the word loop of either routine stands after i iterations. *)
LoopPos ==
  /\ k = Len(src) - Lead
  /\ d = off \div 2 + Lead + i
  /\ i <= k \div 2

WriteInv ==
  phase \in ToPhases =>
    /\ \A a \in Bytes : ByteAt(pma, a) = Partial(s - 1, a)
    /\ out = <<>>
    /\ phase = "toLead" => s = 1 /\ k = Len(src) /\ d = off \div 2 /\ i = 0
    /\ phase # "toLead" => LoopPos /\ s = 1 + Lead + 2 * i
    /\ phase = "toTrail" => i = k \div 2

ReadInv ==
  phase \in FromPhases =>
    /\ \A a \in Bytes : ByteAt(pma, a) = Expected(a)
    /\ phase = "fromLead" => out = <<>> /\ k = Len(src) /\ d = off \div 2 /\ i = 0
    /\ phase \in {"fromLoop", "fromTrail"} => LoopPos /\ Len(out) = Lead + 2 * i
    /\ phase = "fromTrail" => i = k \div 2
    /\ phase = "done" => Len(out) = Len(src)
    /\ \A j \in 1..Len(out) : out[j] = ByteAt(pma, off + j - 1)

IInv ==
  /\ TypeOK
  /\ off + Len(src) <= 2 * NWords
  /\ WriteInv
  /\ ReadInv

(* A byte of src is a byte. *)
LEMMA SrcByte ==
  ASSUME TypeOK, NEW j \in 1..Len(src)
  PROVE  src[j] \in Nat /\ src[j] <= MaxByte
<1>1. src[j] \in Vals
  BY DEF TypeOK
<1>2. src[j] \in 0..MaxByte
  BY <1>1, PmaAssumption
<1>3. QED
  BY <1>2

(* The memory before the copy holds 16-bit words. *)
LEMMA WordsInRange == Words \subseteq 0..MaxWord
<1> SUFFICES ASSUME NEW lo \in Vals, NEW hi \in Vals
             PROVE  Word(lo, hi) \in 0..MaxWord
  BY DEF Words
<1>1. lo \in Nat /\ lo <= MaxByte /\ hi \in Nat /\ hi <= MaxByte
  BY PmaAssumption
<1>2. QED
  BY <1>1, WordBytes

(* TypeOK after a step, from the type of each variable the step changes. *)
LEMMA TypeStep ==
  ASSUME TypeOK, pma' \in [WordAddrs -> 0..MaxWord], pma0' = pma0,
         src' = src, off' = off, phase' \in Phases, d' \in 0..NWords,
         s' \in 1..(Len(src) + 1), k' \in 0..Len(src), i' \in Nat,
         out' \in Seq(0..MaxByte)
  PROVE  TypeOK'
BY DEF TypeOK

(* Every initial state satisfies the inductive invariant. *)
LEMMA InitInv == Init => IInv
<1> SUFFICES ASSUME Init PROVE IInv
  OBVIOUS
<1>1. PICK n \in 0..MaxLen, o \in 0..(2 * NWords) :
        /\ o + n <= 2 * NWords /\ off = o /\ src \in [1..n -> Vals]
        /\ k = n /\ d = o \div 2
  BY DEF Init
<1>2. Len(src) = n /\ src \in Seq(Vals)
  BY <1>1, PmaAssumption
<1>3. TypeOK
  <2>1. pma \in [WordAddrs -> 0..MaxWord] /\ pma0 \in [WordAddrs -> Words]
    BY WordsInRange DEF Init
  <2>2. d \in 0..NWords /\ off \in 0..(2 * NWords) /\ k \in 0..Len(src)
    BY <1>1, <1>2, PmaAssumption
  <2>3. phase \in Phases /\ s \in 1..(Len(src) + 1) /\ i \in Nat
        /\ out \in Seq(0..MaxByte)
    BY DEF Init, Phases
  <2>4. QED
    BY <1>2, <2>1, <2>2, <2>3 DEF TypeOK
<1>4. WriteInv
  <2>1. \A a \in Bytes : ByteAt(pma, a) = Partial(s - 1, a)
    BY <1>1, PmaAssumption DEF Init, Partial, Bytes
  <2>2. phase = "toLead" /\ s = 1 /\ k = Len(src) /\ d = off \div 2 /\ i = 0
        /\ out = <<>>
    BY <1>1, <1>2 DEF Init
  <2>3. QED
    BY <2>1, <2>2 DEF WriteInv
<1>5. ReadInv
  BY DEF Init, ReadInv, FromPhases
<1>6. QED
  BY <1>1, <1>2, <1>3, <1>4, <1>5 DEF IInv

(***************************************************************************)
(* One lemma per statement of the two routines.                            *)
(***************************************************************************)
(* The unaligned leading byte of memcpy_to_usbram. *)
LEMMA ToLeadInv ==
  ASSUME IInv, ToLead
  PROVE  IInv'
<1>1. /\ TypeOK /\ off + Len(src) <= 2 * NWords
      /\ phase = "toLead" /\ s = 1 /\ k = Len(src) /\ d = off \div 2 /\ i = 0
      /\ out = <<>>
      /\ \A a \in Bytes : ByteAt(pma, a) = Partial(0, a)
      /\ phase' = "toLoop"
      /\ UNCHANGED <<pma0, src, off, i, out>>
  BY DEF IInv, WriteInv, ToLead, ToPhases
<1>2. off \in Nat /\ Len(src) \in Nat /\ NWords \in Nat
  BY <1>1, PmaAssumption DEF TypeOK
<1>3. ReadInv'
  BY <1>1 DEF ReadInv, FromPhases
<1>4. CASE off % 2 = 1 /\ k # 0
  <2> DEFINE v == Word(pma[d] % 256, src[1])
  <2>1. Len(src) >= 1 /\ Lead = 1 /\ d \in WordAddrs /\ 2 * d + 1 = off
    BY <1>1, <1>2, <1>4 DEF Lead, WordAddrs
  <2>2. /\ pma[d] % 256 \in Nat /\ pma[d] % 256 <= MaxByte
        /\ src[1] \in Nat /\ src[1] <= MaxByte
    <3>1. pma[d] \in 0..MaxWord
      BY <1>1, <2>1 DEF TypeOK
    <3>2. pma[d] % 256 \in 0..MaxByte
      BY ONLY <3>1, WordSplit
    <3>3. src[1] \in Nat /\ src[1] <= MaxByte
      BY <1>1, <2>1, SrcByte
    <3>4. QED
      BY <3>2, <3>3
  <2>3. v \in 0..MaxWord /\ v % 256 = pma[d] % 256 /\ v \div 256 = src[1]
    BY ONLY <2>2, WordBytes
  <2>4. pma' = [pma EXCEPT ![d] = v] /\ k' = k - 1 /\ s' = 2 /\ d' = d + 1
    BY <1>1, <1>4 DEF ToLead
  <2>5. TypeOK'
    <3>1. pma' \in [WordAddrs -> 0..MaxWord]
      BY <1>1, <2>1, <2>3, <2>4 DEF TypeOK
    <3>2. d' \in 0..NWords /\ s' \in 1..(Len(src) + 1) /\ k' \in 0..Len(src)
      BY <1>1, <1>2, <2>1, <2>4 DEF WordAddrs
    <3>3. i' \in Nat /\ out' \in Seq(0..MaxByte)
      BY <1>1 DEF TypeOK
    <3>4. QED
      BY <1>1, <3>1, <3>2, <3>3, TypeStep DEF Phases
  <2>6. ASSUME NEW a \in Bytes
        PROVE  ByteAt(pma', a) = Partial(s - 1, a)'
    <3>1. ByteAt(pma', a) =
            IF a \div 2 = d THEN IF a % 2 = 0 THEN v % 256 ELSE v \div 256
            ELSE ByteAt(pma, a)
      <4>1. pma'[d] = v /\ \A x \in WordAddrs \ {d} : pma'[x] = pma[x]
        BY <1>1, <2>1, <2>4 DEF TypeOK
      <4>2. QED
        BY <2>1, <4>1, ByteAtStore
    <3>2. Partial(s - 1, a)' = Partial(1, a)
      BY <1>1, <2>4 DEF Partial
    <3>3. a \in Nat
      BY PmaAssumption DEF Bytes
    <3>4. CASE a \div 2 = d /\ a % 2 = 0
      <4>1. a = off - 1 /\ ByteAt(pma, a) = pma[d] % 256
        BY <2>1, <3>3, <3>4 DEF ByteAt
      <4>2. Partial(1, a) = Partial(0, a)
        BY <4>1, <1>2 DEF Partial
      <4>3. QED
        BY <1>1, <2>3, <3>1, <3>2, <3>4, <4>1, <4>2
    <3>5. CASE a \div 2 = d /\ a % 2 # 0
      <4>1. a = off
        BY <2>1, <3>3, <3>5
      <4>2. Partial(1, a) = src[1]
        BY <4>1, <1>2, <2>1 DEF Partial
      <4>3. QED
        BY <2>3, <3>1, <3>2, <3>5, <4>2
    <3>6. CASE a \div 2 # d
      <4>1. a # off
        BY <1>2, <2>1, <3>3, <3>6 DEF WordAddrs
      <4>2. Partial(1, a) = Partial(0, a)
        BY <4>1, <1>2, <3>3 DEF Partial
      <4>3. QED
        BY <1>1, <3>1, <3>2, <3>6, <4>2
    <3>7. QED
      BY <3>4, <3>5, <3>6
  <2>7. WriteInv'
    <3>1. LoopPos' /\ s' = 1 + Lead' + 2 * i'
      BY <1>1, <1>2, <2>1, <2>4 DEF LoopPos, Lead
    <3>2. QED
      BY <1>1, <2>6, <3>1 DEF WriteInv, ToPhases
  <2>8. QED
    BY <1>1, <1>3, <2>5, <2>7 DEF IInv
<1>5. CASE ~(off % 2 = 1 /\ k # 0)
  <2>1. UNCHANGED <<pma, k, s, d>> /\ Lead = 0
    BY <1>1, <1>5 DEF ToLead, Lead
  <2>2. TypeOK'
    BY <1>1, <2>1 DEF TypeOK, Phases
  <2>3. WriteInv'
    <3>1. LoopPos' /\ s' = 1 + Lead' + 2 * i'
      BY <1>1, <1>2, <2>1 DEF LoopPos, Lead
    <3>2. \A a \in Bytes : ByteAt(pma', a) = Partial(s - 1, a)'
      BY <1>1, <2>1 DEF Partial
    <3>3. QED
      BY <1>1, <3>1, <3>2 DEF WriteInv, ToPhases
  <2>4. QED
    BY <1>1, <1>3, <2>2, <2>3 DEF IInv
<1>6. QED
  BY <1>4, <1>5

(* One iteration of the word loop of memcpy_to_usbram, or its exit. *)
LEMMA ToLoopInv ==
  ASSUME IInv, ToLoop
  PROVE  IInv'
<1>1. /\ TypeOK /\ off + Len(src) <= 2 * NWords
      /\ phase = "toLoop" /\ LoopPos /\ s = 1 + Lead + 2 * i /\ out = <<>>
      /\ \A a \in Bytes : ByteAt(pma, a) = Partial(s - 1, a)
      /\ pma0' = pma0 /\ src' = src /\ off' = off /\ k' = k /\ out' = out
  BY DEF IInv, WriteInv, ToLoop, ToPhases
<1>2. off \in Nat /\ Len(src) \in Nat /\ NWords \in Nat /\ i \in Nat
      /\ k \in Nat /\ d \in Nat
  BY <1>1, PmaAssumption DEF TypeOK
<1>3. ReadInv'
  BY <1>1 DEF ToLoop, ReadInv, FromPhases
<1>4. CASE i < k \div 2
  <2> DEFINE v == Word(src[s], src[s + 1])
  <2>1. 2 * (off \div 2) + Lead = off
    <3>1. k >= 2
      BY <1>2, <1>4
    <3>2. CASE off % 2 = 1
      <4>1. Lead = 1
        BY <1>1, <1>2, <3>1, <3>2 DEF LoopPos, Lead
      <4>2. QED
        BY <1>2, <3>2, <4>1
    <3>3. CASE off % 2 # 1
      <4>1. Lead = 0 /\ off % 2 = 0
        BY <1>2, <3>3 DEF Lead
      <4>2. QED
        BY <1>2, <4>1
    <3>4. QED
      BY <3>2, <3>3
  <2>2. 2 * d = off + s - 1 /\ 1 <= s /\ s + 1 <= Len(src) /\ d \in WordAddrs
    <3>1. Lead \in {0, 1} /\ 2 * (k \div 2) <= k
      BY <1>2 DEF Lead
    <3>2. 2 * d = off + s - 1 /\ 1 <= s
      BY <1>1, <1>2, <2>1, <3>1 DEF LoopPos
    <3>3. s + 1 <= Len(src)
      BY <1>1, <1>2, <1>4, <3>1 DEF LoopPos
    <3>4. QED
      BY <1>1, <1>2, <3>2, <3>3, PmaAssumption DEF WordAddrs
  <2>3. /\ src[s] \in Nat /\ src[s] <= MaxByte
        /\ src[s + 1] \in Nat /\ src[s + 1] <= MaxByte
    BY <1>1, <1>2, <2>2, SrcByte
  <2>4. pma' = [pma EXCEPT ![d] = v] /\ d' = d + 1 /\ s' = s + 2 /\ i' = i + 1
        /\ phase' = "toLoop"
    BY <1>1, <1>4 DEF ToLoop
  <2>5. pma'[d] = v /\ \A x \in WordAddrs \ {d} : pma'[x] = pma[x]
    BY <1>1, <2>2, <2>4 DEF TypeOK
  <2>6. TypeOK'
    <3>1. v \in 0..MaxWord
      BY <2>3, WordBytes
    <3>2. pma' \in [WordAddrs -> 0..MaxWord]
      BY <1>1, <2>2, <2>4, <3>1 DEF TypeOK
    <3>3. d' \in 0..NWords /\ s' \in 1..(Len(src') + 1) /\ i' \in Nat
      BY <1>1, <1>2, <2>2, <2>4 DEF WordAddrs
    <3>4. k' \in 0..Len(src) /\ out' \in Seq(0..MaxByte)
      BY <1>1 DEF TypeOK
    <3>5. QED
      BY <1>1, <2>4, <3>2, <3>3, <3>4, TypeStep DEF Phases
  <2>7. ASSUME NEW a \in Bytes
        PROVE  ByteAt(pma', a) = Partial(s - 1, a)'
    <3>1. ByteAt(pma', a) =
            IF a = 2 * d THEN src[s] ELSE IF a = 2 * d + 1 THEN src[s + 1]
            ELSE ByteAt(pma, a)
      BY <2>2, <2>3, <2>5, StoreWord
    <3>2. Partial(s - 1, a)' = Partial(s + 1, a)
      BY <1>1, <2>4 DEF Partial
    <3>3. a \in Nat
      BY PmaAssumption DEF Bytes
    <3>0. s \in Nat
      BY <1>1 DEF TypeOK
    <3>4. CASE a = 2 * d \/ a = 2 * d + 1
      <4>1. CASE a = 2 * d
        <5>1. off <= a /\ a < off + (s + 1) /\ a - off + 1 = s
          BY ONLY <1>2, <2>2, <3>0, <3>3, <4>1
        <5>2. QED
          BY <3>1, <3>2, <4>1, <5>1 DEF Partial
      <4>2. CASE a = 2 * d + 1
        <5>1. off <= a /\ a < off + (s + 1) /\ a - off + 1 = s + 1
          BY ONLY <1>2, <2>2, <3>0, <3>3, <4>2
        <5>2. a # 2 * d
          BY ONLY <1>2, <4>2
        <5>3. QED
          BY <3>1, <3>2, <4>2, <5>1, <5>2 DEF Partial
      <4>3. QED
        BY <3>4, <4>1, <4>2
    <3>5. CASE a # 2 * d /\ a # 2 * d + 1
      <4>1. ByteAt(pma', a) = Partial(s - 1, a)
        BY <1>1, <3>1, <3>5
      <4>2. Partial(s - 1, a) = Partial(s + 1, a)
        <5>1. (off <= a /\ a < off + (s - 1)) <=> (off <= a /\ a < off + (s + 1))
          BY ONLY <1>2, <2>2, <3>0, <3>3, <3>5
        <5>2. QED
          BY <5>1 DEF Partial
      <4>3. QED
        BY <3>2, <4>1, <4>2
    <3>6. QED
      BY <3>4, <3>5
  <2>8. WriteInv'
    <3>1. Lead' = Lead /\ Lead \in {0, 1}
      BY <1>1 DEF Lead
    <3>2. k' = Len(src') - Lead'
      BY <1>1, <3>1 DEF LoopPos
    <3>3. d' = off' \div 2 + Lead' + i'
      BY <1>1, <1>2, <2>2, <2>4, <3>1 DEF LoopPos
    <3>4. i' <= k' \div 2
      BY <1>1, <1>2, <1>4, <2>4
    <3>5. s' = 1 + Lead' + 2 * i'
      BY <1>1, <1>2, <2>2, <2>4, <3>1
    <3>6. LoopPos' /\ s' = 1 + Lead' + 2 * i'
      BY <3>2, <3>3, <3>4, <3>5 DEF LoopPos
    <3>7. QED
      BY <1>1, <2>4, <2>7, <3>6 DEF WriteInv, ToPhases
  <2>9. QED
    BY <1>1, <1>3, <2>6, <2>8 DEF IInv
<1>5. CASE ~(i < k \div 2)
  <2>1. UNCHANGED <<pma, d, s, i>> /\ phase' = "toTrail" /\ i = k \div 2
    BY <1>1, <1>2, <1>5 DEF ToLoop, LoopPos
  <2>2. TypeOK'
    BY <1>1, <2>1 DEF TypeOK, Phases
  <2>3. WriteInv'
    <3>1. LoopPos' /\ s' = 1 + Lead' + 2 * i' /\ i' = k' \div 2
      BY <1>1, <2>1 DEF LoopPos, Lead
    <3>2. \A a \in Bytes : ByteAt(pma', a) = Partial(s - 1, a)'
      BY <1>1, <2>1 DEF Partial
    <3>3. QED
      BY <1>1, <2>1, <3>1, <3>2 DEF WriteInv, ToPhases
  <2>4. QED
    BY <1>1, <1>3, <2>2, <2>3 DEF IInv
<1>6. QED
  BY <1>4, <1>5

(* The trailing byte of memcpy_to_usbram, then the start of             *)
(* memcpy_from_usbram.                                                   *)
LEMMA ToTrailInv ==
  ASSUME IInv, ToTrail
  PROVE  IInv'
<1>1. /\ TypeOK /\ off + Len(src) <= 2 * NWords
      /\ phase = "toTrail" /\ LoopPos /\ s = 1 + Lead + 2 * i /\ i = k \div 2
      /\ out = <<>>
      /\ \A a \in Bytes : ByteAt(pma, a) = Partial(s - 1, a)
      /\ pma0' = pma0 /\ src' = src /\ off' = off /\ s' = s /\ out' = out
      /\ phase' = "fromLead" /\ d' = off \div 2 /\ k' = Len(src) /\ i' = 0
  BY DEF IInv, WriteInv, ToTrail, ToPhases
<1>2. /\ off \in Nat /\ Len(src) \in Nat /\ NWords \in Nat /\ i \in Nat
      /\ k \in Nat /\ d \in Nat /\ Lead \in {0, 1}
  BY <1>1, PmaAssumption DEF TypeOK, Lead
<1>3. Expected(0)' = Expected(0) /\ \A a \in Bytes : Expected(a)' = Expected(a)
  BY <1>1 DEF Expected
<1>4. \A a \in Bytes : Expected(a) = Partial(Len(src), a)
  BY DEF Expected, Partial
<1>5. WriteInv'
  BY <1>1 DEF WriteInv, ToPhases
<1>6. CASE k % 2 = 1
  <2> DEFINE hb == ByteAt(pma, 2 * d + 1)
              v == Word(src[s], pma[d] \div 256)
  <2>1. 2 * (off \div 2) + Lead = off
    <3>1. CASE off % 2 = 1
      <4>1. Len(src) # 0
        <5>1. k = Len(src) - Lead
          BY <1>1 DEF LoopPos
        <5>2. SUFFICES ASSUME Len(src) = 0 PROVE FALSE
          OBVIOUS
        <5>3. Lead = 0
          BY <5>2 DEF Lead
        <5>4. k = 0
          BY <5>1, <5>2, <5>3
        <5>5. QED
          BY <1>6, <5>4
      <4>2. Lead = 1
        BY <3>1, <4>1 DEF Lead
      <4>3. QED
        BY <1>2, <3>1, <4>2
    <3>2. CASE off % 2 # 1
      BY <1>2, <3>2 DEF Lead
    <3>3. QED
      BY <3>1, <3>2
  <2>2. 2 * d = off + s - 1 /\ s = Len(src) /\ d \in WordAddrs
    <3>1. 2 * i + 1 = k
      BY <1>1, <1>2, <1>6
    <3>2. 2 * d = off + s - 1 /\ s = Len(src)
      BY <1>1, <1>2, <2>1, <3>1 DEF LoopPos
    <3>3. QED
      BY <1>1, <1>2, <3>2, PmaAssumption DEF WordAddrs
  <2>3. /\ src[s] \in Nat /\ src[s] <= MaxByte
        /\ hb \in Nat /\ hb <= MaxByte /\ hb = pma[d] \div 256
        /\ 2 * d + 1 \in Bytes
    <3>1. 2 * d + 1 \in Bytes /\ (2 * d + 1) \div 2 = d /\ (2 * d + 1) % 2 = 1
      BY <1>2, <2>2, PmaAssumption DEF Bytes, WordAddrs
    <3>2. hb \in 0..MaxByte
      BY <1>1, <3>1, ByteRange DEF TypeOK
    <3>3. hb = pma[d] \div 256
      BY <3>1 DEF ByteAt
    <3>4. QED
      BY <1>1, <1>2, <2>2, <3>1, <3>2, <3>3, SrcByte
  <2>4. pma' = [pma EXCEPT ![d] = v]
    BY <1>1, <1>6 DEF ToTrail
  <2>5. pma'[d] = v /\ \A x \in WordAddrs \ {d} : pma'[x] = pma[x]
    BY <1>1, <2>2, <2>4 DEF TypeOK
  <2>6. TypeOK'
    <3>1. v \in 0..MaxWord
      <4>1. v = Word(src[s], hb)
        BY <2>3
      <4>2. QED
        BY <2>3, <4>1, WordBytes
    <3>2. pma' \in [WordAddrs -> 0..MaxWord]
      BY <1>1, <2>2, <2>4, <3>1 DEF TypeOK
    <3>3. d' \in 0..NWords /\ k' \in 0..Len(src') /\ i' \in Nat
      BY <1>1, <1>2, PmaAssumption
    <3>4. QED
      BY <1>1, <3>2, <3>3 DEF TypeOK, Phases
  <2>7. ASSUME NEW a \in Bytes
        PROVE  ByteAt(pma', a) = Expected(a)'
    <3>1. ByteAt(pma', a) =
            IF a = 2 * d THEN src[s] ELSE IF a = 2 * d + 1 THEN pma[d] \div 256
            ELSE ByteAt(pma, a)
      <4>1. ByteAt(pma', a) =
              IF a \div 2 = d THEN IF a % 2 = 0 THEN pma'[d] % 256
                                   ELSE pma'[d] \div 256
              ELSE ByteAt(pma, a)
        <5>1. \A x \in WordAddrs \ {d} : pma'[x] = pma[x]
          BY <2>5
        <5>2. d \in WordAddrs
          BY <2>2
        <5>3. QED
          BY <5>1, <5>2, ByteAtStore
      <4>2. pma'[d] % 256 = src[s] /\ pma'[d] \div 256 = pma[d] \div 256
        <5>1. pma'[d] = Word(src[s], hb)
          BY <2>3, <2>5
        <5>2. QED
          BY <2>3, <5>1, WordBytes
      <4>3. /\ (a \div 2 = d /\ a % 2 = 0) <=> a = 2 * d
            /\ (a \div 2 = d /\ a % 2 # 0) <=> a = 2 * d + 1
        BY <1>2, PmaAssumption DEF Bytes
      <4>4. QED
        BY <4>1, <4>2, <4>3
    <3>2. 2 * d + 1 \in Bytes /\ ByteAt(pma, 2 * d + 1) = pma[d] \div 256
      BY <1>2, <2>2, PmaAssumption DEF Bytes, WordAddrs, ByteAt
    <3>3. a \in Nat
      BY PmaAssumption DEF Bytes
    <3>4. ByteAt(pma, 2 * d + 1) = Partial(Len(src), 2 * d + 1)
      BY <1>1, <1>2, <2>2, <3>2 DEF Partial
    <3>5. Expected(a)' = Partial(Len(src), a)
      BY <1>3, <1>4
    <3>6. CASE a = 2 * d
      <4>0. s \in Nat /\ s >= 1
        BY <1>1 DEF TypeOK
      <4>1. Partial(Len(src), a) = src[s]
        BY <1>2, <2>2, <3>3, <3>6, <4>0 DEF Partial
      <4>2. QED
        BY <3>1, <3>5, <3>6, <4>1
    <3>7. CASE a = 2 * d + 1
      BY <3>1, <3>2, <3>4, <3>5, <3>7
    <3>8. CASE a # 2 * d /\ a # 2 * d + 1
      <4>1. ByteAt(pma, a) = Partial(s - 1, a)
        BY <1>1
      <4>2. Partial(s - 1, a) = Partial(Len(src), a)
        BY <1>2, <2>2, <3>3, <3>8 DEF Partial
      <4>3. QED
        BY <3>1, <3>5, <3>8, <4>1, <4>2
    <3>9. QED
      BY <3>6, <3>7, <3>8
  <2>8. ReadInv'
    BY <1>1, <2>7 DEF ReadInv, FromPhases
  <2>9. QED
    BY <1>1, <1>5, <2>6, <2>8 DEF IInv
<1>7. CASE k % 2 # 1
  <2>1. pma' = pma /\ s - 1 = Len(src)
    <3>1. k % 2 = 0 /\ 2 * i = k
      BY <1>1, <1>2, <1>7
    <3>2. QED
      BY <1>1, <1>2, <1>7, <3>1 DEF ToTrail, LoopPos
  <2>2. TypeOK'
    BY <1>1, <1>2, <2>1, PmaAssumption DEF TypeOK, Phases
  <2>3. \A a \in Bytes : ByteAt(pma', a) = Expected(a)'
    BY <1>1, <1>3, <1>4, <2>1
  <2>4. ReadInv'
    BY <1>1, <2>3 DEF ReadInv, FromPhases
  <2>5. QED
    BY <1>1, <1>5, <2>2, <2>4 DEF IInv
<1>8. QED
  BY <1>6, <1>7

(* The unaligned leading byte of memcpy_from_usbram. *)
LEMMA FromLeadInv ==
  ASSUME IInv, FromLead
  PROVE  IInv'
<1>1. /\ TypeOK /\ off + Len(src) <= 2 * NWords
      /\ phase = "fromLead" /\ out = <<>> /\ k = Len(src) /\ d = off \div 2
      /\ i = 0
      /\ \A a \in Bytes : ByteAt(pma, a) = Expected(a)
      /\ pma' = pma /\ pma0' = pma0 /\ src' = src /\ off' = off /\ s' = s
      /\ i' = i /\ phase' = "fromLoop"
  BY DEF IInv, ReadInv, FromLead, FromPhases
<1>2. /\ off \in Nat /\ Len(src) \in Nat /\ NWords \in Nat
      /\ Lead \in {0, 1}
  BY <1>1, PmaAssumption DEF TypeOK, Lead
<1>3. WriteInv'
  BY <1>1 DEF WriteInv, ToPhases
<1>4. \A a \in Bytes : ByteAt(pma', a) = Expected(a)'
  BY <1>1 DEF Expected
<1>5. CASE off % 2 = 1 /\ k # 0
  <2> DEFINE hb == ByteAt(pma, off)
  <2>1. off \in Bytes /\ off \div 2 = d /\ Lead = 1 /\ d \in WordAddrs
    BY <1>1, <1>2, <1>5, PmaAssumption DEF Bytes, Lead, WordAddrs
  <2>2. hb \in 0..MaxByte /\ hb = pma[d] \div 256
    <3>1. hb \in 0..MaxByte
      BY <1>1, <2>1, ByteRange DEF TypeOK
    <3>2. hb = pma[d] \div 256
      BY <1>5, <2>1 DEF ByteAt
    <3>3. QED
      BY <3>1, <3>2
  <2>3. out' = <<hb>> /\ k' = k - 1 /\ d' = d + 1
    BY <1>1, <1>5, <2>2 DEF FromLead
  <2>4. TypeOK'
    <3>1. d' \in 0..NWords
      BY ONLY <1>2, <2>1, <2>3 DEF WordAddrs
    <3>2. k' \in 0..Len(src')
      BY ONLY <1>1, <1>2, <1>5, <2>3
    <3>3. out' \in Seq(0..MaxByte)
      BY ONLY <2>2, <2>3
    <3>4. QED
      BY <1>1, <3>1, <3>2, <3>3 DEF TypeOK, Phases
  <2>5. LoopPos' /\ Len(out') = Lead' + 2 * i'
    <3>1. Lead' = Lead
      BY <1>1 DEF Lead
    <3>2. k' = Len(src') - Lead'
      BY <1>1, <2>1, <2>3, <3>1
    <3>3. d' = off' \div 2 + Lead' + i'
      BY <1>1, <2>1, <2>3, <3>1 DEF WordAddrs
    <3>4. i' <= k' \div 2 /\ Len(out') = Lead' + 2 * i'
      BY <1>1, <1>2, <1>5, <2>1, <2>3, <3>1
    <3>5. QED
      BY <3>2, <3>3, <3>4 DEF LoopPos
  <2>6. \A j \in 1..Len(out') : out'[j] = ByteAt(pma', off' + j - 1)
    BY <1>1, <1>2, <2>3
  <2>7. ReadInv'
    BY <1>1, <1>4, <2>5, <2>6 DEF ReadInv, FromPhases
  <2>8. QED
    BY <1>1, <1>3, <2>4, <2>7 DEF IInv
<1>6. CASE ~(off % 2 = 1 /\ k # 0)
  <2>1. out' = out /\ k' = k /\ d' = d /\ Lead = 0
    BY <1>1, <1>6 DEF FromLead, Lead
  <2>2. TypeOK'
    BY <1>1, <2>1 DEF TypeOK, Phases
  <2>3. LoopPos' /\ Len(out') = Lead' + 2 * i'
    <3>1. Lead' = Lead
      BY <1>1 DEF Lead
    <3>2. QED
      BY <1>1, <1>2, <2>1, <3>1 DEF LoopPos
  <2>4. ReadInv'
    BY <1>1, <1>4, <2>1, <2>3 DEF ReadInv, FromPhases
  <2>5. QED
    BY <1>1, <1>3, <2>2, <2>4 DEF IInv
<1>7. QED
  BY <1>5, <1>6

(* One iteration of the word loop of memcpy_from_usbram, or its exit. *)
LEMMA FromLoopInv ==
  ASSUME IInv, FromLoop
  PROVE  IInv'
<1>1. /\ TypeOK /\ off + Len(src) <= 2 * NWords
      /\ phase = "fromLoop" /\ LoopPos /\ Len(out) = Lead + 2 * i
      /\ \A j \in 1..Len(out) : out[j] = ByteAt(pma, off + j - 1)
      /\ \A a \in Bytes : ByteAt(pma, a) = Expected(a)
      /\ pma' = pma /\ pma0' = pma0 /\ src' = src /\ off' = off /\ s' = s
      /\ k' = k
  BY DEF IInv, ReadInv, FromLoop, FromPhases
<1>2. /\ off \in Nat /\ Len(src) \in Nat /\ NWords \in Nat /\ i \in Nat
      /\ k \in Nat /\ d \in Nat /\ Lead \in {0, 1} /\ Lead' = Lead
      /\ out \in Seq(0..MaxByte)
  BY <1>1, PmaAssumption DEF TypeOK, Lead
<1>3. WriteInv'
  BY <1>1 DEF FromLoop, WriteInv, ToPhases
<1>4. \A a \in Bytes : ByteAt(pma', a) = Expected(a)'
  BY <1>1 DEF Expected
<1>5. CASE i < k \div 2
  <2> DEFINE lb == ByteAt(pma, 2 * d)
             hb == ByteAt(pma, 2 * d + 1)
  <2>1. 2 * (off \div 2) + Lead = off
    <3>1. CASE off % 2 = 1
      <4>1. Len(src) # 0
        <5>1. SUFFICES ASSUME Len(src) = 0 PROVE FALSE
          OBVIOUS
        <5>2. Lead = 0
          BY <5>1 DEF Lead
        <5>3. k = 0
          BY <1>1, <5>1, <5>2 DEF LoopPos
        <5>4. QED
          BY <1>2, <1>5, <5>3
      <4>2. Lead = 1
        BY <3>1, <4>1 DEF Lead
      <4>3. QED
        BY <1>2, <3>1, <4>2
    <3>2. CASE off % 2 # 1
      BY <1>2, <3>2 DEF Lead
    <3>3. QED
      BY <3>1, <3>2
  <2>2. /\ 2 * d = off + Len(out) /\ 2 * d + 1 < off + Len(src)
        /\ d \in WordAddrs /\ 2 * d \in Bytes /\ 2 * d + 1 \in Bytes
    <3>1. 2 * (k \div 2) <= k
      BY <1>2
    <3>2. 2 * d = off + Len(out)
      BY <1>1, <1>2, <2>1 DEF LoopPos
    <3>3. 2 * d + 1 < off + Len(src)
      BY <1>1, <1>2, <1>5, <3>1, <3>2 DEF LoopPos
    <3>4. QED
      BY <1>1, <1>2, <3>2, <3>3, PmaAssumption DEF WordAddrs, Bytes
  <2>3. /\ lb \in 0..MaxByte /\ hb \in 0..MaxByte
        /\ lb = pma[d] % 256 /\ hb = pma[d] \div 256
    <3>1. lb \in 0..MaxByte /\ hb \in 0..MaxByte
      BY <1>1, <2>2, ByteRange DEF TypeOK
    <3>2. /\ (2 * d) % 2 = 0 /\ (2 * d) \div 2 = d
          /\ (2 * d + 1) % 2 = 1 /\ (2 * d + 1) \div 2 = d
      BY <1>2
    <3>3. lb = pma[d] % 256 /\ hb = pma[d] \div 256
      BY <3>2 DEF ByteAt
    <3>4. QED
      BY <3>1, <3>3
  <2>4. hb % 256 = hb
    <4>1. hb \in Nat /\ hb <= 255
      BY <2>3 DEF MaxByte
    <4>2. QED
      BY <4>1
  <2>5. out' = out \o <<lb, hb>> /\ d' = d + 1 /\ i' = i + 1
        /\ phase' = "fromLoop"
    BY <1>1, <1>5, <2>3, <2>4 DEF FromLoop
  <2>6. /\ out' \in Seq(0..MaxByte) /\ Len(out') = Len(out) + 2
        /\ \A j \in 1..Len(out) : out'[j] = out[j]
        /\ out'[Len(out) + 1] = lb /\ out'[Len(out) + 2] = hb
    BY <1>2, <2>3, <2>5
  <2>7. TypeOK'
    <3>1. d' \in 0..NWords /\ i' \in Nat
      BY <1>2, <2>2, <2>5 DEF WordAddrs
    <3>2. QED
      BY <1>1, <2>5, <2>6, <3>1 DEF TypeOK, Phases
  <2>8. LoopPos' /\ Len(out') = Lead' + 2 * i'
    <3>1. k' = Len(src') - Lead'
      BY <1>1, <1>2 DEF LoopPos
    <3>2. d' = off' \div 2 + Lead' + i'
      BY <1>1, <1>2, <2>5 DEF LoopPos
    <3>3. i' <= k' \div 2
      BY ONLY <1>1, <1>2, <1>5, <2>5
    <3>4. Len(out') = Lead' + 2 * i'
      BY ONLY <1>1, <1>2, <2>5, <2>6
    <3>5. QED
      BY <3>1, <3>2, <3>3, <3>4 DEF LoopPos
  <2>9. ASSUME NEW j \in 1..Len(out')
        PROVE  out'[j] = ByteAt(pma', off' + j - 1)
    <3>1. Len(out) \in Nat
      BY <1>2
    <3>2. CASE j <= Len(out)
      BY <1>1, <2>6, <3>1, <3>2
    <3>3. CASE j = Len(out) + 1
      <4>1. off' + j - 1 = 2 * d
        BY <1>1, <1>2, <2>2, <3>1, <3>3
      <4>2. QED
        BY <1>1, <2>6, <3>3, <4>1
    <3>4. CASE j = Len(out) + 2
      <4>1. off' + j - 1 = 2 * d + 1
        BY <1>1, <1>2, <2>2, <3>1, <3>4
      <4>2. QED
        BY <1>1, <2>6, <3>4, <4>1
    <3>5. QED
      BY <2>6, <3>1, <3>2, <3>3, <3>4
  <2>10. ReadInv'
    BY <1>1, <1>4, <2>5, <2>8, <2>9 DEF ReadInv, FromPhases
  <2>11. QED
    BY <1>1, <1>3, <2>7, <2>10 DEF IInv
<1>6. CASE ~(i < k \div 2)
  <2>1. out' = out /\ d' = d /\ i' = i /\ phase' = "fromTrail" /\ i = k \div 2
    BY <1>1, <1>2, <1>6 DEF FromLoop, LoopPos
  <2>2. TypeOK'
    BY <1>1, <2>1 DEF TypeOK, Phases
  <2>3. LoopPos' /\ Len(out') = Lead' + 2 * i' /\ i' = k' \div 2
    BY <1>1, <1>2, <2>1 DEF LoopPos
  <2>4. ReadInv'
    BY <1>1, <1>4, <2>1, <2>3 DEF ReadInv, FromPhases
  <2>5. QED
    BY <1>1, <1>3, <2>2, <2>4 DEF IInv
<1>7. QED
  BY <1>5, <1>6

(* The trailing byte of memcpy_from_usbram. *)
LEMMA FromTrailInv ==
  ASSUME IInv, FromTrail
  PROVE  IInv'
<1>1. /\ TypeOK /\ off + Len(src) <= 2 * NWords
      /\ phase = "fromTrail" /\ LoopPos /\ Len(out) = Lead + 2 * i
      /\ i = k \div 2
      /\ \A j \in 1..Len(out) : out[j] = ByteAt(pma, off + j - 1)
      /\ \A a \in Bytes : ByteAt(pma, a) = Expected(a)
      /\ pma' = pma /\ pma0' = pma0 /\ src' = src /\ off' = off /\ s' = s
      /\ k' = k /\ d' = d /\ i' = i /\ phase' = "done"
  BY DEF IInv, ReadInv, FromTrail, FromPhases
<1>2. /\ off \in Nat /\ Len(src) \in Nat /\ NWords \in Nat /\ i \in Nat
      /\ k \in Nat /\ d \in Nat /\ Lead \in {0, 1}
      /\ out \in Seq(0..MaxByte) /\ Len(out) \in Nat
  BY <1>1, PmaAssumption DEF TypeOK, Lead
<1>3. WriteInv'
  BY <1>1 DEF WriteInv, ToPhases
<1>4. \A a \in Bytes : ByteAt(pma', a) = Expected(a)'
  BY <1>1 DEF Expected
<1>5. CASE k % 2 = 1
  <2> DEFINE lb == ByteAt(pma, 2 * d)
  <2>1. 2 * (off \div 2) + Lead = off
    <3>1. CASE off % 2 = 1
      <4>1. Len(src) # 0
        <5>1. SUFFICES ASSUME Len(src) = 0 PROVE FALSE
          OBVIOUS
        <5>2. Lead = 0
          BY <5>1 DEF Lead
        <5>3. k = 0
          BY <1>1, <5>1, <5>2 DEF LoopPos
        <5>4. QED
          BY <1>2, <1>5, <5>3
      <4>2. Lead = 1
        BY <3>1, <4>1 DEF Lead
      <4>3. QED
        BY <1>2, <3>1, <4>2
    <3>2. CASE off % 2 # 1
      BY <1>2, <3>2 DEF Lead
    <3>3. QED
      BY <3>1, <3>2
  <2>2. /\ 2 * d = off + Len(out) /\ Len(out) + 1 = Len(src)
        /\ 2 * d \in Bytes
    <3>1. 2 * i + 1 = k
      <4>1. (k % 2) + (k \div 2) * 2 = k
        BY <1>2
      <4>2. QED
        BY ONLY <1>1, <1>2, <1>5, <4>1
    <3>2. 2 * d = off + Len(out)
      <4>1. d = off \div 2 + Lead + i /\ Len(out) = Lead + 2 * i
        BY <1>1 DEF LoopPos
      <4>2. QED
        BY ONLY <1>2, <2>1, <4>1
    <3>3. Len(out) + 1 = Len(src)
      BY <1>1, <1>2, <3>1 DEF LoopPos
    <3>4. QED
      BY <1>1, <1>2, <3>2, <3>3, PmaAssumption DEF Bytes
  <2>3. lb \in 0..MaxByte /\ lb = pma[d] % 256
    <3>1. lb \in 0..MaxByte
      BY <1>1, <2>2, ByteRange DEF TypeOK
    <3>2. (2 * d) % 2 = 0 /\ (2 * d) \div 2 = d
      BY <1>2
    <3>3. QED
      BY <3>1, <3>2 DEF ByteAt
  <2>4. out' = Append(out, lb)
    BY <1>1, <1>5, <2>3 DEF FromTrail
  <2>5. /\ out' \in Seq(0..MaxByte) /\ Len(out') = Len(src)
        /\ \A j \in 1..Len(out) : out'[j] = out[j]
        /\ out'[Len(out) + 1] = lb
    BY <1>2, <2>2, <2>3, <2>4
  <2>6. TypeOK'
    BY <1>1, <2>5 DEF TypeOK, Phases
  <2>7. ASSUME NEW j \in 1..Len(out')
        PROVE  out'[j] = ByteAt(pma', off' + j - 1)
    <3>1. CASE j <= Len(out)
      BY <1>1, <1>2, <2>5, <3>1
    <3>2. CASE j = Len(out) + 1
      <4>1. off' + j - 1 = 2 * d
        BY <1>1, <1>2, <2>2, <3>2
      <4>2. QED
        BY <1>1, <2>5, <3>2, <4>1
    <3>3. QED
      BY <1>2, <2>2, <2>5, <3>1, <3>2
  <2>8. ReadInv'
    BY <1>1, <1>4, <2>5, <2>7 DEF ReadInv, FromPhases
  <2>9. QED
    BY <1>1, <1>3, <2>6, <2>8 DEF IInv
<1>6. CASE k % 2 # 1
  <2>1. out' = out /\ Len(out) = Len(src)
    <3>1. 2 * i = k
      <4>1. k % 2 = 0
        <5>1. k % 2 \in 0..1
          BY <1>2
        <5>2. QED
          BY <1>6, <5>1
      <4>2. (k % 2) + (k \div 2) * 2 = k
        BY <1>2
      <4>3. QED
        BY <1>1, <1>2, <4>1, <4>2
    <3>2. out' = out
      <4>1. k % 2 = 0
        BY <1>1, <1>2, <3>1
      <4>2. QED
        BY <1>1, <1>6, <4>1 DEF FromTrail
    <3>3. Len(out) = Len(src)
      <4>1. k = Len(src) - Lead /\ Len(out) = Lead + 2 * i
        BY <1>1 DEF LoopPos
      <4>2. QED
        BY ONLY <1>2, <3>1, <4>1
    <3>4. QED
      BY <3>2, <3>3
  <2>2. TypeOK'
    BY <1>1, <2>1 DEF TypeOK, Phases
  <2>3. ReadInv'
    BY <1>1, <1>4, <2>1 DEF ReadInv, FromPhases
  <2>4. QED
    BY <1>1, <1>3, <2>2, <2>3 DEF IInv
<1>7. QED
  BY <1>5, <1>6

(* A stuttering step keeps the invariant. *)
LEMMA StutterInv ==
  ASSUME IInv, UNCHANGED vars
  PROVE  IInv'
BY DEF IInv, vars, TypeOK, WriteInv, ReadInv, LoopPos, Lead, Partial,
       Expected, Phases, ToPhases, FromPhases

(* Every step of either routine, and every stutter, keeps it. *)
LEMMA NextInv == IInv /\ [Next]_vars => IInv'
BY ToLeadInv, ToLoopInv, ToTrailInv, FromLeadInv, FromLoopInv,
   FromTrailInv, StutterInv DEF Next

(* The type invariant of UsbPma holds in every state of every behaviour. *)
THEOREM TypeCorrect == Spec => []TypeOK
<1>1. IInv => TypeOK
  BY DEF IInv
<1>2. QED
  BY InitInv, NextInv, <1>1, PTL DEF Spec

(* Spec 4.1: once memcpy_to_usbram has returned, bytes off..off+n-1 of  *)
(* the packet memory hold src and every other byte is as it was, for     *)
(* every offset, odd or even, every length and every memory size.        *)
THEOREM CopyToExactSafe == Spec => []CopyToExact
<1>1. IInv => CopyToExact
  BY DEF IInv, ReadInv, CopyToExact, FromPhases, Bytes
<1>2. QED
  BY InitInv, NextInv, <1>1, PTL DEF Spec

(***************************************************************************)
(* Refinement of PmaCopy.  memcpy_to_usbram's trailing byte is the         *)
(* abstract Write, memcpy_from_usbram's trailing byte the abstract Read,  *)
(* and every other statement is a stutter of the abstract copy.            *)
(***************************************************************************)
(* The two modules read a byte of the memory alike. *)
LEMMA SameByteAt ==
  ASSUME NEW m, NEW a
  PROVE  Copy!ByteAt(m, a) = ByteAt(m, a)
BY DEF Copy!ByteAt, ByteAt

(* An initial state of the code is an initial state of the copy. *)
LEMMA InitRefined == Init => Copy!Init
<1> SUFFICES ASSUME Init PROVE Copy!Init
  OBVIOUS
<1>1. AbsPma = pma0 /\ AbsStage = "write" /\ AbsOut = <<>>
  BY DEF Init, AbsPma, AbsStage, AbsOut, ToPhases
<1>2. QED
  BY <1>1 DEF Init, Copy!Init, Copy!WordAddrs, WordAddrs, Copy!Word,
              Word, Words

(* The trailing byte of memcpy_to_usbram completes the abstract Write:    *)
(* the memory it leaves is, word by word, the copy of src over the       *)
(* memory before the call.                                                *)
LEMMA ToTrailRefined ==
  ASSUME IInv, IInv', ToTrail
  PROVE  Copy!Write
<1>1. /\ phase = "toTrail" /\ phase' = "fromLead"
      /\ src' = src /\ off' = off /\ out' = out /\ pma0' = pma0
  BY DEF ToTrail
<1>2. /\ AbsPma = pma0 /\ AbsPma' = pma'
      /\ AbsStage = "write" /\ AbsStage' = "read"
      /\ AbsOut' = AbsOut
  BY <1>1 DEF AbsPma, AbsStage, AbsOut, ToPhases
<1>3. pma' \in [WordAddrs -> 0..MaxWord]
  BY DEF IInv, TypeOK
<1>4. \A a \in Bytes : ByteAt(pma', a) = Expected(a)
  BY <1>1 DEF IInv, ReadInv, FromPhases, Expected
<1>5. \A w \in WordAddrs : 2 * w \in Bytes /\ 2 * w + 1 \in Bytes
  BY PmaAssumption DEF WordAddrs, Bytes
<1>6. pma' = [w \in WordAddrs |-> Word(ByteAt(pma', 2 * w), ByteAt(pma', 2 * w + 1))]
  BY <1>3, WordsOfBytes
<1>7. pma' = [w \in WordAddrs |-> Word(Expected(2 * w), Expected(2 * w + 1))]
  BY <1>4, <1>5, <1>6
<1>8. \A a : Copy!Copied(a) = Expected(a)
  BY <1>2, SameByteAt DEF Copy!Copied, Expected
<1>9. QED
  BY <1>1, <1>2, <1>7, <1>8 DEF Copy!Write, Copy!WordAddrs, WordAddrs,
                                 Copy!Word, Word

(* The trailing byte of memcpy_from_usbram completes the abstract Read:   *)
(* the n bytes stored are those of the memory from off.                   *)
LEMMA FromTrailRefined ==
  ASSUME IInv, IInv', FromTrail
  PROVE  Copy!Read
<1>1. /\ phase = "fromTrail" /\ phase' = "done"
      /\ pma' = pma /\ src' = src /\ off' = off
  BY DEF FromTrail
<1>2. /\ AbsPma = pma /\ AbsPma' = pma'
      /\ AbsStage = "read" /\ AbsStage' = "done" /\ AbsOut' = out'
  BY <1>1 DEF AbsPma, AbsStage, AbsOut, ToPhases
<1>3. /\ out' \in Seq(0..MaxByte) /\ Len(out') = Len(src)
      /\ \A j \in 1..Len(out') : out'[j] = ByteAt(pma, off + j - 1)
  BY <1>1 DEF IInv, TypeOK, ReadInv, FromPhases
<1>4. out' = [j \in 1..Len(src) |-> ByteAt(pma, off + j - 1)]
  BY <1>3
<1>5. QED
  BY <1>1, <1>2, <1>4, SameByteAt DEF Copy!Read

(* Every other statement leaves the abstract state as it is. *)
LEMMA OtherStutters ==
  ASSUME IInv, ToLead \/ ToLoop \/ FromLead \/ FromLoop \/ UNCHANGED vars
  PROVE  UNCHANGED Copy!vars
BY DEF ToLead, ToLoop, FromLead, FromLoop, vars, Copy!vars, AbsPma,
       AbsStage, AbsOut, ToPhases

(* Spec 4.1 and 8: memcpy_to_usbram followed by memcpy_from_usbram, with *)
(* its word loop and its masked leading and trailing bytes, implements   *)
(* PmaCopy, the exact copy into the packet memory and back, for every    *)
(* memory size, offset and length.                                        *)
THEOREM CopyRefinement == Spec => CopyRefined
<1>1. IInv /\ IInv' /\ [Next]_vars => [Copy!Write \/ Copy!Read]_Copy!vars
  BY ToTrailRefined, FromTrailRefined, OtherStutters DEF Next
<1>2. QED
  BY InitInv, NextInv, InitRefined, <1>1, PTL DEF Spec, CopyRefined, Copy!Spec
====
