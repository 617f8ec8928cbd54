---------------------------- MODULE TpmFifoProofs ----------------------------
(***************************************************************************)
(* Proofs about the TPM FIFO interface of TpmFifo, for every FIFO size,   *)
(* every set of transfer, command and response sizes and every bound on  *)
(* register accesses.                                                     *)
(***************************************************************************)
EXTENDS TpmFifo, TLAPS

(***************************************************************************)
(* FifoBounded is inductive together with TypeOK: the write index is only *)
(* raised by fifo_reg_write after its overflow check, and set by the task *)
(* to a response size that fits the FIFO.                                 *)
(***************************************************************************)
(* A task past TaskWake holds the size ExecuteCommand returned. *)
RespTaken == tpc \in {"exec", "sts"} => resp \in RespSizes

IInv == TypeOK /\ FifoBounded /\ RespTaken /\ FwVerInString

(* The part of TypeOK about the register state, as the host actions keep *)
(* it; ops is counted by Put.                                            *)
RegsOK ==
  /\ state \in TpmStates /\ rd \in Nat /\ wr \in Nat /\ wr <= FifoSize
  /\ locality \in BOOLEAN /\ sts \in StsRegs /\ hdr \in CmdSizes \cup {0}
  /\ cmd \in Nat

LEMMA StateCodes ==
  {Idle, Ready, Receiving, Executing, Completing} \subseteq TpmStates
BY DEF Idle, Ready, Receiving, Executing, Completing, TpmStates

LEMMA MinNat == ASSUME NEW a \in Nat, NEW b \in Nat PROVE Min(a, b) \in 0..b
BY DEF Min

(* snprintf's cut: the version string ends inside the buffer. *)
LEMMA VersionFits ==
  ASSUME NEW ro \in Nat, NEW rw \in Nat
  PROVE  set_version_string(ro, rw) \in 0..(FwVerSize - 1)
BY FwVerAssumption DEF set_version_string, Min

LEMMA InitInv == Init => IInv
<1> SUFFICES ASSUME Init PROVE IInv
  OBVIOUS
<1>1. 63 \in 0..63
  OBVIOUS
<1>2. sts \in StsRegs /\ saved \in StsRegs
  BY <1>1, Zenon DEF Init, InitSts, StsRegs
<1>3. locality \in BOOLEAN /\ wake \in BOOLEAN
  BY Zenon DEF Init
<1>4. state \in TpmStates /\ wr <= FifoSize
  BY StateCodes, FifoAssumption DEF Init
<1>5. tpm_fw_ver \in 0..(FwVerSize - 1)
  BY VersionFits, FwVerAssumption DEF Init
<1>6. QED
  BY <1>2, <1>3, <1>4, <1>5, FifoAssumption, FwVerAssumption
  DEF Init, IInv, TypeOK, FifoBounded, RespTaken, FwVerInString

(* set_tpm_state keeps the indices within the FIFO. *)
LEMMA SetStateRegs ==
  ASSUME NEW st \in TpmStates, TypeOK, FifoBounded, SetState(st)
  PROVE  state' \in TpmStates /\ rd' \in Nat /\ wr' \in Nat /\ wr' <= FifoSize
BY FifoAssumption DEF SetState, TypeOK, FifoBounded

(* The register accesses of the host, without the count of Put. *)
HostAct ==
  \/ AccessRequestUse \/ AccessRelease \/ StsCommandReady \/ StsGo
  \/ StsResponseRetry
  \/ \E n \in XferSizes, h \in CmdSizes : FifoWrite(n, h)
  \/ \E n \in XferSizes : FifoRead(n)

(* What a host access does to the task's variables: it may raise the  *)
(* wake event and touches nothing else.                                *)
HostKeeps ==
  /\ wake' = wake \/ wake' = TRUE
  /\ UNCHANGED <<tpc, resp, saved, exec_cmd, resp_cmd>>

(* A host access keeps the register state well formed and bounded, and *)
(* leaves the task alone.                                               *)
LEMMA HostRegs ==
  ASSUME TypeOK, FifoBounded, HostAct
  PROVE  RegsOK' /\ HostKeeps
<1>1. CASE AccessRequestUse
  <2>1. locality' \in BOOLEAN
    BY <1>1, Zenon DEF AccessRequestUse
  <2>2. QED
    BY <1>1, <2>1 DEF AccessRequestUse, RegsOK, TypeOK, FifoBounded,
       HostKeeps, task_vars
<1>2. CASE AccessRelease
  <2>1. locality' \in BOOLEAN
    BY <1>2, Zenon DEF AccessRelease
  <2>2. state' \in TpmStates /\ rd' \in Nat /\ wr' \in Nat /\ wr' <= FifoSize
    BY <1>2, StateCodes, SetStateRegs DEF AccessRelease
  <2>3. QED
    BY <1>2, <2>1, <2>2 DEF AccessRelease, RegsOK, TypeOK, HostKeeps,
       task_vars
<1>3. CASE StsCommandReady
  <2>1. sts' \in StsRegs
    BY <1>3, Zenon DEF StsCommandReady, TypeOK, StsRegs
  <2>2. state' \in TpmStates /\ rd' \in Nat /\ wr' \in Nat /\ wr' <= FifoSize
    BY <1>3, StateCodes, SetStateRegs DEF StsCommandReady, TypeOK, FifoBounded
  <2>3. QED
    BY <1>3, <2>1, <2>2 DEF StsCommandReady, RegsOK, TypeOK, HostKeeps,
       task_vars
<1>4. CASE StsGo
  <2>1. state' \in TpmStates /\ rd' \in Nat /\ wr' \in Nat /\ wr' <= FifoSize
    BY <1>4, StateCodes, SetStateRegs DEF StsGo, TypeOK, FifoBounded
  <2>2. wake' = wake \/ wake' = TRUE
    BY <1>4, Zenon DEF StsGo
  <2>3. QED
    BY <1>4, <2>1, <2>2 DEF StsGo, RegsOK, TypeOK, HostKeeps, task_vars
<1>5. CASE StsResponseRetry
  BY <1>5 DEF StsResponseRetry, RegsOK, TypeOK, FifoBounded,
     HostKeeps, task_vars
<1>6. ASSUME NEW n \in XferSizes, NEW h \in CmdSizes, FifoWrite(n, h)
      PROVE  RegsOK' /\ HostKeeps
  <2>1. n \in Nat /\ h \in CmdSizes \cup {0}
    BY FifoAssumption
  <2> DEFINE starts == state = Ready /\ wr = 0
              st == IF starts THEN Receiving ELSE state
              w == wr + n
  <2>2. state' \in TpmStates /\ rd' \in Nat /\ wr' \in Nat /\ wr' <= FifoSize
    <3>1. st \in TpmStates /\ w \in Nat
      BY <2>1, StateCodes DEF TypeOK
    <3>2. CASE st # Receiving
      BY <1>6, <3>2 DEF FifoWrite, TypeOK, FifoBounded
    <3>3. CASE st = Receiving /\ w > FifoSize
      <4>0. ~(w <= FifoSize)
        BY <3>1, <3>3, FifoAssumption
      <4>1. wr' = 0 /\ state' = Ready /\ rd' = rd
        BY <1>6, <3>3, <4>0, Zenon DEF FifoWrite
      <4>2. QED
        BY <4>1, StateCodes, FifoAssumption DEF TypeOK
    <3>4. CASE st = Receiving /\ w <= FifoSize
      <4>0. ~(w > FifoSize)
        BY <3>1, <3>4, FifoAssumption
      <4>1. wr' = w /\ state' = Receiving /\ rd' = rd
        BY <1>6, <3>4, <4>0, Zenon DEF FifoWrite
      <4>2. QED
        BY <3>1, <3>4, <4>1, StateCodes DEF TypeOK
    <3>5. QED
      BY <3>1, <3>2, <3>3, <3>4, FifoAssumption
  <2>3. hdr' \in CmdSizes \cup {0} /\ cmd' \in Nat
    BY <1>6, <2>1 DEF FifoWrite, TypeOK
  <2>4. sts' \in StsRegs
    BY <1>6, Zenon DEF FifoWrite, TypeOK, StsRegs
  <2>5. QED
    BY <1>6, <2>2, <2>3, <2>4 DEF FifoWrite, RegsOK, TypeOK, HostKeeps, task_vars
<1>7. ASSUME NEW n \in XferSizes, FifoRead(n) PROVE RegsOK' /\ HostKeeps
  <2> DEFINE r == rd + Min(n, U32Diff(wr, rd))
  <2>1. n \in Nat
    BY FifoAssumption
  <2>2. rd' = r /\ r \in Nat /\ U32Diff(wr, r) \in Nat
    BY <1>7, <2>1 DEF FifoRead, TypeOK, U32Diff, WrapBig, Min
  <2>3. Min(U32Diff(wr, r), 63) \in 0..63 /\ 63 \in 0..63
    BY <2>2 DEF Min
  <2>4. sts' \in StsRegs
    <3>1. CASE wr = r
      BY <1>7, <2>3, <3>1, Zenon DEF FifoRead, TypeOK, StsRegs
    <3>2. CASE wr # r
      BY <1>7, <2>3, <3>2, Zenon DEF FifoRead, TypeOK, StsRegs
    <3>3. QED
      BY <3>1, <3>2
  <2>5. QED
    BY <1>7, <2>2, <2>4 DEF FifoRead, RegsOK, TypeOK, FifoBounded,
       HostKeeps, task_vars
<1>8. QED
  BY <1>1, <1>2, <1>3, <1>4, <1>5, <1>6, <1>7 DEF HostAct

(* A TPM_FW_VER access keeps the index on the string, and leaves the *)
(* version string and every other variable alone.                    *)
LEMMA FwVerStep ==
  ASSUME TypeOK, FwVerInString,
         \/ FwVerReset
         \/ \E n \in XferSizes : FwVerRead(n)
  PROVE  /\ tpm_fw_ver' = tpm_fw_ver
         /\ tpm_fw_ver_index' \in 0..tpm_fw_ver
<1>1. CASE FwVerReset
  BY <1>1 DEF FwVerReset, TypeOK
<1>2. ASSUME NEW n \in XferSizes, FwVerRead(n)
      PROVE  tpm_fw_ver' = tpm_fw_ver /\ tpm_fw_ver_index' \in 0..tpm_fw_ver
  BY <1>2, FifoAssumption DEF FwVerRead, Min, TypeOK, FwVerInString
<1>3. QED
  BY <1>1, <1>2

LEMMA NextInv == IInv /\ [Next]_vars => IInv'
<1> SUFFICES ASSUME TypeOK, FifoBounded, RespTaken, FwVerInString,
                    [Next]_vars
             PROVE  IInv'
  BY DEF IInv
<1>1. CASE FifoHost /\ UNCHANGED fw_vars
  <2>1. HostAct /\ ops < MaxOps /\ ops' = ops + 1
    BY <1>1, Zenon DEF FifoHost, Put, HostAct
  <2>2. RegsOK' /\ HostKeeps
    BY <2>1, HostRegs
  <2>3. ops' \in 0..MaxOps
    BY <2>1, FifoAssumption DEF TypeOK
  <2>4. wake' \in BOOLEAN
    BY <2>2, Zenon DEF HostKeeps, TypeOK
  <2>5. QED
    BY <1>1, <2>2, <2>3, <2>4 DEF RegsOK, HostKeeps, IInv, TypeOK,
       FifoBounded, RespTaken, FwVerInString, fw_vars
<1>2. CASE \/ Put(FwVerReset /\ UNCHANGED <<state, rd, wr, locality, sts,
                                           hdr, cmd, task_vars>>)
           \/ \E n \in XferSizes :
                Put(FwVerRead(n) /\ UNCHANGED <<state, rd, wr, locality, sts,
                                               hdr, cmd, task_vars>>)
  <2>1. /\ \/ FwVerReset
           \/ \E n \in XferSizes : FwVerRead(n)
        /\ UNCHANGED <<state, rd, wr, locality, sts, hdr, cmd, task_vars>>
        /\ ops < MaxOps /\ ops' = ops + 1
    BY <1>2, Zenon DEF Put
  <2>2. tpm_fw_ver' = tpm_fw_ver /\ tpm_fw_ver_index' \in 0..tpm_fw_ver
    BY <2>1, FwVerStep
  <2>3. /\ locality' \in BOOLEAN /\ wake' \in BOOLEAN
        /\ sts' \in StsRegs /\ saved' \in StsRegs
    BY <2>1, Zenon DEF task_vars, TypeOK
  <2>4. ops' \in 0..MaxOps
    BY <2>1, FifoAssumption DEF TypeOK
  <2>5. QED
    BY <2>1, <2>2, <2>3, <2>4, FwVerAssumption DEF task_vars, IInv, TypeOK,
       FifoBounded, RespTaken, FwVerInString
<1>3. CASE TaskWake /\ UNCHANGED fw_vars
  <2>1. wake' \in BOOLEAN
    BY <1>3, Zenon DEF TaskWake
  <2>2. QED
    BY <1>3, <2>1 DEF TaskWake, IInv, TypeOK, FifoBounded, RespTaken,
       FwVerInString, fw_vars
<1>4. CASE TaskRespond /\ UNCHANGED fw_vars
  <2>1. resp \in 1..FifoSize
    BY <1>4, FifoAssumption DEF TaskRespond, RespTaken
  <2>2. QED
    BY <1>4, <2>1, StateCodes DEF TaskRespond, IInv, TypeOK, FifoBounded,
       RespTaken, FwVerInString, fw_vars
<1>5. CASE TaskSts /\ UNCHANGED fw_vars
  <2>1. resp \in Nat
    BY <1>5, FifoAssumption DEF TaskSts, RespTaken
  <2>2. Min(resp, 63) \in 0..63
    BY <2>1, MinNat
  <2>3. sts' \in StsRegs
    BY <1>5, <2>2, Zenon DEF TaskSts, TypeOK, StsRegs
  <2>4. QED
    BY <1>5, <2>3 DEF TaskSts, IInv, TypeOK, FifoBounded, RespTaken,
       FwVerInString, fw_vars
<1>6. CASE UNCHANGED vars
  BY <1>6 DEF vars, fw_vars, IInv, TypeOK, FifoBounded, RespTaken,
     FwVerInString
<1>7. QED
  BY <1>1, <1>2, <1>3, <1>4, <1>5, <1>6 DEF Next, Task, Host

(* The model of the FIFO interface is well typed for every FIFO size and *)
(* every sequence of register accesses.                                  *)
THEOREM TypeCorrect == Spec => []TypeOK
BY InitInv, NextInv, PTL DEF Spec, IInv

(* fifo_reg_write's overflow check (tpm_registers.c 376-381) and the     *)
(* task's response check keep fifo_write_index within data_fifo for     *)
(* every FIFO size and every sequence of transfer sizes the host uses.   *)
THEOREM FifoSafe == Spec => []FifoBounded
BY InitInv, NextInv, PTL DEF Spec, IInv

(* set_version_string (tpm_registers.c 158-178) terminates the version  *)
(* string inside tpm_fw_ver, and the TPM_FW_VER read (512-529) keeps the *)
(* host's index on it, for every buffer size, every length of the RO and *)
(* RW version strings and every sequence of reads and index resets.     *)
THEOREM FwVerSafe == Spec => []FwVerInString
BY InitInv, NextInv, PTL DEF Spec, IInv
====
