------------------------------ MODULE TpmFifo ------------------------------
(***************************************************************************)
(* The TPM register interface of src/fw/common/tpm_registers.c in FIFO    *)
(* mode: the TPM_ACCESS, TPM_STS and TPM_DATA_FIFO registers written and  *)
(* read by the host (tpm_register_put / tpm_register_get, in interrupt    *)
(* context), the command execution of tpm_task, and the firmware version  *)
(* string the host reads through TPM_FW_VER.                              *)
(*                                                                         *)
(* A register access is one atomic step.  The task runs between them and  *)
(* is preempted at every statement that touches shared state: it takes    *)
(* the command (ExecuteCommand reads fifo_write_index), publishes the     *)
(* response, then updates TPM_STS by a read-modify-write.                  *)
(*                                                                         *)
(* Data is abstracted: the FIFO holds byte counts, and the command header *)
(* only matters through its size field, which the host chooses when it   *)
(* starts writing a command.  Ghost counters name the command a response  *)
(* belongs to.                                                             *)
(***************************************************************************)
EXTENDS Integers

CONSTANTS
  FifoSize,   \* sizeof(tpm_.regs.data_fifo)
  XferSizes,  \* data_size of one register access (1..64 in the protocol)
  CmdSizes,   \* size fields the host may put in a command header
  RespSizes,  \* response sizes ExecuteCommand may produce
  MaxOps,     \* bound: register accesses of the host
  FwVerSize,  \* sizeof(tpm_fw_ver)
  RoLens,     \* lengths "%s:%d RO_%c:%s" would have untruncated
  RwLens      \* lengths " RW_%c:%s" would have untruncated

ASSUME FifoAssumption ==
  /\ FifoSize \in Nat \ {0}
  /\ XferSizes \subseteq 1..64 /\ XferSizes # {}
  /\ CmdSizes \subseteq Nat /\ CmdSizes # {}
  /\ RespSizes \subseteq 1..FifoSize /\ RespSizes # {}
  /\ MaxOps \in Nat

ASSUME FwVerAssumption ==
  /\ FwVerSize \in Nat \ {0}
  /\ RoLens \subseteq Nat /\ RoLens # {}
  /\ RwLens \subseteq Nat /\ RwLens # {}

(* enum tpm_states, with the values the compiler gives them. *)
Idle == 0
Ready == 1
Receiving == 2
Executing == 3
Completing == 4
TpmStates == Idle..Completing

(* The expect bit of TPM_STS (1 << 3) as a mask on a value. *)
Expect == 8
HasBit(x, bit) == (x \div bit) % 2 = 1

(* Bytes of the command header up to and including its size field. *)
HeaderSize == 6

Min(a, b) == IF a < b THEN a ELSE b

(* The uint32_t difference a - b.  When b > a it wraps to              *)
(* 2^32 - (b - a), which is larger than any transfer (at most 64 bytes) *)
(* and any burst count: WrapBig stands for it, as TLC cannot represent  *)
(* 2^32.                                                                *)
WrapBig == 65536
U32Diff(a, b) == IF a >= b THEN a - b ELSE WrapBig

VARIABLES
  state,      \* tpm_.state
  rd,         \* tpm_.fifo_read_index
  wr,         \* tpm_.fifo_write_index
  locality,   \* the active_locality bit of tpm_.regs.access
  sts,        \* the TPM_STS bits: commandReady, expect, dataAvail, burst
  hdr,        \* the size field of the command header in the FIFO
  wake,       \* TASK_EVENT_WAKE pending for the TPM task
  tpc,        \* where the TPM task is
  resp,       \* response_size of the command the task is executing
  saved,      \* TPM_STS as the task loaded it
  cmd,        \* ghost: number of the command last started by the host
  exec_cmd,   \* ghost: the command the task took
  resp_cmd,   \* ghost: the command whose response is in the FIFO
  ops,        \* register accesses so far
  tpm_fw_ver,       \* the version string, as the index of its first 0
                    \* byte (FwVerSize when it has none)
  tpm_fw_ver_index  \* next byte of it the host reads

fw_vars == <<tpm_fw_ver, tpm_fw_ver_index>>
vars == <<state, rd, wr, locality, sts, hdr, wake, tpc, resp, saved, cmd,
          exec_cmd, resp_cmd, ops, fw_vars>>

StsRegs == [cr : BOOLEAN, expect : BOOLEAN, avail : BOOLEAN, burst : 0..63]

TypeOK ==
  /\ state \in TpmStates
  /\ rd \in Nat
  /\ wr \in Nat
  /\ locality \in BOOLEAN
  /\ sts \in StsRegs
  /\ hdr \in CmdSizes \cup {0}
  /\ wake \in BOOLEAN
  /\ tpc \in {"wait", "exec", "sts"}
  /\ resp \in RespSizes \cup {0}
  /\ saved \in StsRegs
  /\ cmd \in Nat /\ exec_cmd \in Nat /\ resp_cmd \in Nat
  /\ ops \in 0..MaxOps
  /\ tpm_fw_ver \in 0..FwVerSize
  /\ tpm_fw_ver_index \in 0..FwVerSize

(* set_version_string: the RO part cut by snprintf to the buffer, and,   *)
(* unless that filled it, the RW part cut to what is left; snprintf      *)
(* always ends the string with a 0 inside its size.                      *)
set_version_string(ro, rw) ==
  LET offset == Min(ro, FwVerSize - 1) IN
  IF offset = FwVerSize - 1 THEN offset
  ELSE offset + Min(rw, FwVerSize - offset - 1)

(* After tpm_init: idle, empty FIFO (zeroed with .bss), burst count 63, *)
(* no locality, and the version string of the running images.          *)
InitSts == [cr |-> FALSE, expect |-> FALSE, avail |-> FALSE, burst |-> 63]
Init ==
  /\ state = Idle
  /\ rd = 0
  /\ wr = 0
  /\ locality = FALSE
  /\ sts = InitSts
  /\ hdr = 0
  /\ wake = FALSE
  /\ tpc = "wait"
  /\ resp = 0
  /\ saved = InitSts
  /\ cmd = 0
  /\ exec_cmd = 0
  /\ resp_cmd = 0
  /\ ops = 0
  /\ tpm_fw_ver \in {set_version_string(ro, rw) : ro \in RoLens, rw \in RwLens}
  /\ tpm_fw_ver_index = 0

(* set_tpm_state: entering idle empties the FIFO. *)
SetState(st) ==
  /\ state' = st
  /\ IF st = Idle THEN rd' = 0 /\ wr' = 0 ELSE UNCHANGED <<rd, wr>>

task_vars == <<wake, tpc, resp, saved, exec_cmd, resp_cmd>>

(***************************************************************************)
(* tpm_register_put: one action per register and written value.  Values   *)
(* that are not a single bit, or not handled, change nothing.              *)
(***************************************************************************)
Put(A) == ops < MaxOps /\ A /\ ops' = ops + 1

(* access_reg_write(request_use): always granted. *)
AccessRequestUse ==
  /\ locality' = TRUE
  /\ UNCHANGED <<state, rd, wr, sts, hdr, cmd, task_vars>>

(* access_reg_write(active_locality): release, and fall into idle. *)
AccessRelease ==
  /\ locality' = FALSE
  /\ SetState(Idle)
  /\ UNCHANGED <<sts, hdr, cmd, task_vars>>

(* sts_reg_write_cr *)
StsCommandReady ==
  /\ \/ /\ state = Idle
        /\ SetState(Ready)
        /\ sts' = [sts EXCEPT !.cr = TRUE]
     \/ /\ state = Ready
        /\ sts' = [sts EXCEPT !.cr = TRUE]
        /\ UNCHANGED <<state, rd, wr>>
     \/ /\ state \in {Receiving, Executing, Completing}
        /\ SetState(Idle)
        /\ sts' = [sts EXCEPT !.cr = FALSE]
  /\ UNCHANGED <<locality, hdr, cmd, task_vars>>

(* Mutant: TPM_GO without task_set_event. *)
StsGoNoEvent ==
  /\ \/ /\ state = Receiving /\ ~HasBit(state, Expect)
        /\ SetState(Executing)
     \/ /\ ~(state = Receiving /\ ~HasBit(state, Expect))
        /\ UNCHANGED <<state, rd, wr>>
  /\ UNCHANGED <<locality, sts, hdr, cmd, wake, tpc, resp, saved, exec_cmd,
                 resp_cmd>>

(* sts_reg_write_tg: only while receiving, and the expect test is made   *)
(* on tpm_.state (line 295).                                             *)
StsGo ==
  /\ \/ /\ state = Receiving /\ ~HasBit(state, Expect)
        /\ SetState(Executing)
        /\ wake' = TRUE
     \/ /\ ~(state = Receiving /\ ~HasBit(state, Expect))
        /\ UNCHANGED <<state, rd, wr, wake>>
  /\ UNCHANGED <<locality, sts, hdr, cmd, tpc, resp, saved, exec_cmd,
                 resp_cmd>>

(* sts_reg_write_rr: rewind the response. *)
StsResponseRetry ==
  /\ rd' = IF state = Completing THEN 0 ELSE rd
  /\ UNCHANGED <<state, wr, locality, sts, hdr, cmd, task_vars>>

(* Mutant: the overflow check made on the write index before the data. *)
FifoWriteLateCheck(n, h) ==
  LET starts == state = Ready /\ wr = 0
      st     == IF starts THEN Receiving ELSE state
      w      == wr + n
  IN
  /\ \/ /\ st # Receiving
        /\ UNCHANGED <<state, rd, wr, sts, hdr, cmd>>
     \/ /\ st = Receiving /\ wr > FifoSize
        /\ wr' = 0
        /\ state' = Ready
        /\ UNCHANGED <<rd, sts, hdr, cmd>>
     \/ /\ st = Receiving /\ wr <= FifoSize
        /\ wr' = w
        /\ state' = Receiving
        /\ hdr' = IF starts THEN h ELSE hdr
        /\ cmd' = IF starts THEN cmd + 1 ELSE cmd
        /\ sts' = [sts EXCEPT !.expect = w < HeaderSize \/ w < hdr']
        /\ UNCHANGED rd
  /\ UNCHANGED <<locality, task_vars>>

(* fifo_reg_write(n): a command starts in the ready state with an empty  *)
(* FIFO; an overflowing write drops the command back to ready; expect    *)
(* tells whether the header's size has been reached.                     *)
FifoWrite(n, h) ==
  LET starts == state = Ready /\ wr = 0
      st     == IF starts THEN Receiving ELSE state
      w      == wr + n
  IN
  /\ \/ /\ st # Receiving
        /\ UNCHANGED <<state, rd, wr, sts, hdr, cmd>>
     \/ /\ st = Receiving /\ w > FifoSize
        /\ wr' = 0
        /\ state' = Ready
        /\ UNCHANGED <<rd, sts, hdr, cmd>>
     \/ /\ st = Receiving /\ w <= FifoSize
        /\ wr' = w
        /\ state' = Receiving
        /\ hdr' = IF starts THEN h ELSE hdr
        /\ cmd' = IF starts THEN cmd + 1 ELSE cmd
        /\ sts' = [sts EXCEPT !.expect = w < HeaderSize \/ w < hdr']
        /\ UNCHANGED rd
  /\ UNCHANGED <<locality, task_vars>>

(* Mutant: the burst count not capped at 63. *)
FifoReadNoCap(n) ==
  LET still == U32Diff(wr, rd)
      m     == Min(n, still)
      r     == rd + m
  IN
  /\ rd' = r
  /\ sts' = IF wr = r
              THEN [sts EXCEPT !.avail = FALSE, !.cr = FALSE, !.burst = 63]
              ELSE [sts EXCEPT !.burst = U32Diff(wr, r)]
  /\ UNCHANGED <<state, wr, locality, hdr, cmd, task_vars>>

(* fifo_reg_read(n): at most what is left; the burst count and the      *)
(* dataAvail / commandReady bits follow what remains.                   *)
FifoRead(n) ==
  LET still == U32Diff(wr, rd)
      m     == Min(n, still)
      r     == rd + m
  IN
  /\ rd' = r
  /\ sts' = IF wr = r
              THEN [sts EXCEPT !.avail = FALSE, !.cr = FALSE, !.burst = 63]
              ELSE [sts EXCEPT !.burst = Min(U32Diff(wr, r), 63)]
  /\ UNCHANGED <<state, wr, locality, hdr, cmd, task_vars>>

FifoHost ==
  \/ Put(AccessRequestUse)
  \/ Put(AccessRelease)
  \/ Put(StsCommandReady)
  \/ Put(StsGo)
  \/ Put(StsResponseRetry)
  \/ \E n \in XferSizes, h \in CmdSizes : Put(FifoWrite(n, h))
  \/ \E n \in XferSizes : Put(FifoRead(n))

(* tpm_register_put(TPM_FW_VER): the host restarts the version string. *)
FwVerReset ==
  /\ tpm_fw_ver_index' = 0
  /\ UNCHANGED tpm_fw_ver

(* Mutant: the index advanced without the test for the terminating 0. *)
FwVerReadPastNul(n) ==
  /\ tpm_fw_ver_index' =
       IF tpm_fw_ver_index < FwVerSize
         THEN Min(tpm_fw_ver_index + n, FwVerSize) ELSE tpm_fw_ver_index
  /\ UNCHANGED tpm_fw_ver

(* tpm_register_get(TPM_FW_VER), n bytes: each byte read while the index  *)
(* is inside the buffer, the index advanced past characters only, so it  *)
(* stops on the terminating 0 (or at the end of a buffer without one).   *)
(* The bytes after the first 0 are not represented: the index never     *)
(* passes it (FwVerInString).                                           *)
FwVerRead(n) ==
  /\ tpm_fw_ver_index' =
       IF tpm_fw_ver_index < tpm_fw_ver
         THEN Min(tpm_fw_ver_index + n, tpm_fw_ver) ELSE tpm_fw_ver_index
  /\ UNCHANGED tpm_fw_ver

(* The FIFO-mode registers leave the version string alone. *)
Host ==
  \/ FifoHost /\ UNCHANGED fw_vars
  \/ Put(FwVerReset /\ UNCHANGED <<state, rd, wr, locality, sts, hdr, cmd,
                                   task_vars>>)
  \/ \E n \in XferSizes :
       Put(FwVerRead(n) /\ UNCHANGED <<state, rd, wr, locality, sts, hdr, cmd,
                                      task_vars>>)

(***************************************************************************)
(* tpm_task, one step per access to shared state.                          *)
(***************************************************************************)
(* A TASK_EVENT_WAKE: the command in the FIFO is executed. *)
TaskWake ==
  /\ tpc = "wait" /\ wake
  /\ wake' = FALSE
  /\ tpc' = "exec"
  /\ exec_cmd' = cmd
  /\ resp' \in RespSizes
  /\ UNCHANGED <<state, rd, wr, locality, sts, hdr, saved, resp_cmd, cmd,
                 ops>>

(* The response replaces the FIFO contents and the state is completing; *)
(* then the task loads TPM_STS.                                          *)
TaskRespond ==
  /\ tpc = "exec"
  /\ rd' = 0
  /\ wr' = resp
  /\ state' = Completing
  /\ resp_cmd' = exec_cmd
  /\ saved' = sts
  /\ tpc' = "sts"
  /\ UNCHANGED <<locality, sts, hdr, wake, resp, exec_cmd, cmd, ops>>

(* ... and stores it back with the burst count and dataAvail. *)
TaskSts ==
  /\ tpc = "sts"
  /\ sts' = [saved EXCEPT !.burst = Min(resp, 63), !.avail = TRUE]
  /\ tpc' = "wait"
  /\ UNCHANGED <<state, rd, wr, locality, hdr, wake, resp, saved, exec_cmd,
                 resp_cmd, cmd, ops>>

Task == (TaskWake \/ TaskRespond \/ TaskSts) /\ UNCHANGED fw_vars

Next == Host \/ Task

(* The TPM task is scheduled whenever it has work. *)
Spec == Init /\ [][Next]_vars /\ WF_vars(Task)

(***************************************************************************)
(* Properties.                                                             *)
(***************************************************************************)
(* fifo_reg_write's overflow check: the write index never passes the end *)
(* of data_fifo, whatever sizes the host writes.                          *)
FifoBounded == wr <= FifoSize

(* A command the host hands over with TPM_GO is executed to a response:  *)
(* the task's wake event is never lost and the executing state is left.  *)
ExecutionCompletes == state = Executing ~> state # Executing

(* The comments of fifo_reg_write (lines 392-403): TPM_GO starts a       *)
(* command only once all of it has been received (expect clear).         *)
GoOnlyWhenComplete == state = Executing => ~sts.expect

(* fifo_reg_read copies still_in_fifo = write index - read index bytes   *)
(* (line 449): the read index never passes the write index.              *)
ReadWithinWritten == rd <= wr

(* A response in the FIFO answers the command the host last started. *)
ResponseMatchesCommand == state = Completing => resp_cmd = cmd

(* set_version_string leaves a terminating 0 inside tpm_fw_ver, and the   *)
(* TPM_FW_VER read of tpm_register_get never moves the host's index past *)
(* it, whatever the lengths of the version strings and however the host  *)
(* splits its reads and resets of the index.                             *)
FwVerInString ==
  /\ tpm_fw_ver < FwVerSize
  /\ tpm_fw_ver_index <= tpm_fw_ver
====
