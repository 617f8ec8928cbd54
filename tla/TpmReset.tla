------------------------------ MODULE TpmReset ------------------------------
(***************************************************************************)
(* The TPM reset handshake of src/fw/common/tpm_registers.c: tasks call    *)
(* tpm_reset_request, which raises TPM_EVENT_RESET for the TPM task and,   *)
(* when asked to wait, names itself in waiting_for_reset and waits up to  *)
(* five seconds for TPM_EVENT_RESET; the TPM task runs tpm_reset_now,      *)
(* which notifies the waiting task and clears reset_in_progress.          *)
(*                                                                         *)
(* The task events are those of the EC kernel (not part of this source):  *)
(* task_set_event sets a bit in the target's pending events; a wait on a  *)
(* mask returns when a bit of the mask is pending and clears it, or       *)
(* returns 0 on timeout, and an event that arrives after the timeout      *)
(* stays pending.  Tasks are preempted between statements that touch      *)
(* shared state; each such statement is one step.  The work of the reset *)
(* itself (wipe, .bss clear, tpm_init) is one step.                       *)
(***************************************************************************)
EXTENDS Integers

CONSTANTS
  Callers,      \* tasks other than the TPM task that call tpm_reset_request
  TaskInvalid,  \* TASK_ID_INVALID
  MaxCalls      \* bound: calls of tpm_reset_request per task

ASSUME ResetAssumption ==
  /\ TaskInvalid \notin Callers
  /\ MaxCalls \in Nat

VARIABLES
  reset_in_progress,  \* the __preserved flag of line 84
  waiting_for_reset,  \* the task to notify, or TASK_ID_INVALID
  tpm_evt,            \* TPM_EVENT_RESET pending for the TPM task
  evt,                \* TPM_EVENT_RESET pending for each calling task
  pc,                 \* where each calling task is in tpm_reset_request
  tpc,                \* where the TPM task is
  result,             \* what each task's last call returned
  calls,              \* calls each task has made
  wipe_requested,     \* the .bss flag of line 661
  wipe_result,        \* the __preserved result of line 656
  wipe_first,         \* the argument tpm_reset_now runs with
  commits,            \* nvmem commits enabled
  deferred,           \* reinstate_nvmem_commits scheduled by hook_call_deferred
  commit_evt,         \* TPM_EVENT_COMMIT pending for the TPM task
  asked,              \* the wipe_nvmem_first argument of each task's call
  done,               \* ghost: resets tpm_reset_now has carried out
  wipes,              \* ghost: nvmem wipes that succeeded
  gen,                \* ghost: resets begun when the task raised its flag
  wgen                \* ghost: wipes when the task raised its flag

nv_vars == <<wipe_requested, wipe_result, wipe_first, commits, deferred,
             commit_evt, wipes>>
caller_vars == <<asked, gen, wgen>>
vars == <<reset_in_progress, waiting_for_reset, tpm_evt, evt, pc, tpc, result,
          calls, done, nv_vars, caller_vars>>

Pcs == {"idle", "set", "signal", "register", "block"}
TPcs == {"boot", "wait", "notify", "clear", "release"}
ErrorCodes == {"success", "error"}
Results == {"none", "busy", "timeout"} \cup ErrorCodes

TypeOK ==
  /\ reset_in_progress \in BOOLEAN
  /\ waiting_for_reset \in Callers \cup {TaskInvalid}
  /\ tpm_evt \in BOOLEAN
  /\ evt \in [Callers -> BOOLEAN]
  /\ pc \in [Callers -> Pcs]
  /\ tpc \in TPcs
  /\ result \in [Callers -> Results]
  /\ calls \in [Callers -> 0..MaxCalls]
  /\ wipe_requested \in BOOLEAN
  /\ wipe_result \in ErrorCodes
  /\ wipe_first \in BOOLEAN
  /\ commits \in BOOLEAN
  /\ deferred \in BOOLEAN
  /\ commit_evt \in BOOLEAN
  /\ asked \in [Callers -> BOOLEAN]
  /\ done \in Nat
  /\ wipes \in Nat
  /\ gen \in [Callers -> Nat]
  /\ wgen \in [Callers -> Nat]

(* Power on: nothing in progress, the TPM task in its boot loop.  Whether *)
(* nvmem commits are enabled is up to the nvmem module.                  *)
Init ==
  /\ reset_in_progress = FALSE
  /\ waiting_for_reset = TaskInvalid
  /\ tpm_evt = FALSE
  /\ evt = [c \in Callers |-> FALSE]
  /\ pc = [c \in Callers |-> "idle"]
  /\ tpc = "boot"
  /\ result = [c \in Callers |-> "none"]
  /\ calls = [c \in Callers |-> 0]
  /\ wipe_requested = FALSE
  /\ wipe_result = "success"
  /\ wipe_first = FALSE
  /\ commits \in BOOLEAN
  /\ deferred = FALSE
  /\ commit_evt = FALSE
  /\ asked = [c \in Callers |-> FALSE]
  /\ done = 0
  /\ wipes = 0
  /\ gen = [c \in Callers |-> 0]
  /\ wgen = [c \in Callers |-> 0]

tpm_vars == <<tpm_evt, tpc, done, nv_vars>>

(***************************************************************************)
(* tpm_reset_request(wait_until_done, wipe_nvmem_first), called by task   *)
(* c; a call from interrupt context or from the TPM task itself returns   *)
(* EC_ERROR_BUSY before it waits (lines 687-689) and is not modelled.     *)
(***************************************************************************)
Return(c, r) ==
  /\ pc' = [pc EXCEPT ![c] = "idle"]
  /\ result' = [result EXCEPT ![c] = r]

(* The call, and the test of reset_in_progress (line 670). *)
RequestCheck(c) ==
  /\ pc[c] = "idle" /\ calls[c] < MaxCalls
  /\ calls' = [calls EXCEPT ![c] = @ + 1]
  /\ \E w \in BOOLEAN : asked' = [asked EXCEPT ![c] = w]
  /\ \/ /\ reset_in_progress
        /\ Return(c, "busy")
     \/ /\ ~reset_in_progress
        /\ pc' = [pc EXCEPT ![c] = "set"]
        /\ UNCHANGED result
  /\ UNCHANGED <<reset_in_progress, waiting_for_reset, evt, gen, wgen,
                 tpm_vars>>

(* reset_in_progress = 1; wipe_result = EC_SUCCESS;                      *)
(* wipe_requested |= wipe_nvmem_first (lines 675-679).                    *)
RequestSet(c) ==
  /\ pc[c] = "set"
  /\ reset_in_progress' = TRUE
  /\ wipe_result' = "success"
  /\ wipe_requested' = (wipe_requested \/ asked[c])
  /\ gen' = [gen EXCEPT ![c] = IF tpc = "notify" THEN done + 1 ELSE done]
  /\ wgen' = [wgen EXCEPT ![c] = wipes]
  /\ pc' = [pc EXCEPT ![c] = "signal"]
  /\ UNCHANGED <<waiting_for_reset, tpm_evt, evt, tpc, result, calls, done,
                 wipe_first, commits, deferred, commit_evt, wipes, asked>>

(* Mutant: a caller that does not wait returns before raising the event. *)
RequestSignalLate(c) ==
  /\ pc[c] = "signal"
  /\ \/ /\ Return(c, "success")
        /\ UNCHANGED tpm_evt
     \/ /\ tpm_evt' = TRUE
        /\ pc' = [pc EXCEPT ![c] = "register"]
        /\ UNCHANGED result
  /\ UNCHANGED <<reset_in_progress, waiting_for_reset, evt, tpc, calls, done,
                 nv_vars, caller_vars>>

(* task_set_event(TASK_ID_TPM, TPM_EVENT_RESET) (line 682); a caller that *)
(* does not wait returns success.                                        *)
RequestSignal(c) ==
  /\ pc[c] = "signal"
  /\ tpm_evt' = TRUE
  /\ \/ Return(c, "success")
     \/ /\ pc' = [pc EXCEPT ![c] = "register"]
        /\ UNCHANGED result
  /\ UNCHANGED <<reset_in_progress, waiting_for_reset, evt, tpc, calls, done,
                 nv_vars, caller_vars>>

(* waiting_for_reset = task_get_current() (line 692). *)
RequestRegister(c) ==
  /\ pc[c] = "register"
  /\ waiting_for_reset' = c
  /\ pc' = [pc EXCEPT ![c] = "block"]
  /\ UNCHANGED <<reset_in_progress, tpm_evt, evt, tpc, result, calls, done,
                 nv_vars, caller_vars>>

(* task_wait_event_mask(TPM_EVENT_RESET, 5 * SECOND) returns with the     *)
(* event, and the call returns wipe_result (lines 693-697) ...            *)
RequestNotified(c) ==
  /\ pc[c] = "block" /\ evt[c]
  /\ evt' = [evt EXCEPT ![c] = FALSE]
  /\ Return(c, wipe_result)
  /\ UNCHANGED <<reset_in_progress, waiting_for_reset, calls, caller_vars,
                 tpm_vars>>

(* ... or times out (line 700). *)
RequestTimeout(c) ==
  /\ pc[c] = "block" /\ ~evt[c]
  /\ Return(c, "timeout")
  /\ UNCHANGED <<reset_in_progress, waiting_for_reset, evt, calls, caller_vars,
                 tpm_vars>>

Request(c) ==
  \/ RequestCheck(c) \/ RequestSet(c) \/ RequestSignal(c)
  \/ RequestRegister(c) \/ RequestNotified(c) \/ RequestTimeout(c)

(***************************************************************************)
(* tpm_task and tpm_reset_now.                                             *)
(***************************************************************************)
(* The boot loop: with the AP on the task goes straight to               *)
(* tpm_reset_now(0); otherwise it waits for TPM_EVENT_RESET, and then    *)
(* also calls tpm_reset_now(0) (lines 791-811).                          *)
TpmBoot ==
  /\ tpc = "boot"
  /\ \/ UNCHANGED tpm_evt
     \/ tpm_evt /\ tpm_evt' = FALSE
  /\ wipe_first' = FALSE
  /\ tpc' = "notify"
  /\ UNCHANGED <<reset_in_progress, waiting_for_reset, evt, pc, result,
                 calls, done, wipe_requested, wipe_result, commits, deferred,
                 commit_evt, wipes, caller_vars>>

(* The events task_wait_event(-1) in the main loop wakes up for (line     *)
(* 819): every event.                                                     *)
WaitMaskNoCommit == {"reset"}
WaitMask == {"reset", "commit"}

(* The wait returns TPM_EVENT_RESET, and clears every pending event with *)
(* it: a TPM_EVENT_COMMIT that came in too is dropped by the continue.   *)
(* tpm_reset_now(wipe_requested) starts (lines 819-831).                 *)
TpmWait ==
  /\ tpc = "wait" /\ tpm_evt /\ "reset" \in WaitMask
  /\ tpm_evt' = FALSE
  /\ commit_evt' = FALSE
  /\ wipe_first' = wipe_requested
  /\ tpc' = "notify"
  /\ UNCHANGED <<reset_in_progress, waiting_for_reset, evt, pc, result,
                 calls, done, wipe_requested, wipe_result, commits, deferred,
                 wipes, caller_vars>>

(* The wait returns TPM_EVENT_COMMIT alone: nvmem_enable_commits()       *)
(* (lines 833-834).                                                       *)
TpmCommit ==
  /\ tpc = "wait" /\ ~tpm_evt /\ commit_evt /\ "commit" \in WaitMask
  /\ commit_evt' = FALSE
  /\ commits' = TRUE
  /\ UNCHANGED <<reset_in_progress, waiting_for_reset, tpm_evt, evt, pc, tpc,
                 result, calls, done, wipe_requested, wipe_result, wipe_first,
                 deferred, wipes, caller_vars>>

(* Mutant: the event posted without the test for TASK_ID_INVALID. *)
TpmNotifyNoTest ==
  /\ tpc = "notify"
  /\ done' = done + 1
  /\ evt' = [x \in Callers \cup {waiting_for_reset} |->
               IF x = waiting_for_reset THEN TRUE ELSE evt[x]]
  /\ tpc' = "clear"
  /\ UNCHANGED <<reset_in_progress, waiting_for_reset, tpm_evt, pc, result,
                 calls, nv_vars, caller_vars>>

(* tpm_reset_now: the nvmem wipe when wipe_first, with its result; the    *)
(* .bss clear, which clears wipe_requested; commits enabled then disabled; *)
(* tpm_init; then the test of waiting_for_reset and the event for the     *)
(* task it names (lines 722-770).                                         *)
TpmNotify ==
  /\ tpc = "notify"
  /\ done' = done + 1
  /\ \/ /\ wipe_first
        /\ \E r \in ErrorCodes :
             /\ wipe_result' = r
             /\ wipes' = IF r = "success" THEN wipes + 1 ELSE wipes
     \/ /\ ~wipe_first
        /\ wipe_result' = "success"
        /\ UNCHANGED wipes
  /\ wipe_requested' = FALSE
  /\ commits' = FALSE
  /\ \/ /\ waiting_for_reset # TaskInvalid
        /\ evt' = [evt EXCEPT ![waiting_for_reset] = TRUE]
        /\ tpc' = "clear"
     \/ /\ waiting_for_reset = TaskInvalid
        /\ tpc' = "release"
        /\ UNCHANGED evt
  /\ UNCHANGED <<reset_in_progress, waiting_for_reset, tpm_evt, pc, result,
                 calls, wipe_first, deferred, commit_evt, caller_vars>>

(* Mutant: the waiting task's notification is cleared only once that    *)
(* task has taken the event.                                              *)
TpmClearAfterAck ==
  /\ tpc = "clear" /\ ~evt[waiting_for_reset]
  /\ waiting_for_reset' = TaskInvalid
  /\ tpc' = "release"
  /\ UNCHANGED <<reset_in_progress, tpm_evt, evt, pc, result, calls, done,
                 nv_vars, caller_vars>>

(* waiting_for_reset = TASK_ID_INVALID (line 771). *)
TpmClear ==
  /\ tpc = "clear"
  /\ waiting_for_reset' = TaskInvalid
  /\ tpc' = "release"
  /\ UNCHANGED <<reset_in_progress, tpm_evt, evt, pc, result, calls, done,
                 nv_vars, caller_vars>>

(* Mutant: tpm_reset_now without hook_call_deferred. *)
TpmReleaseNoDeferred ==
  /\ tpc = "release"
  /\ reset_in_progress' = FALSE
  /\ tpc' = "wait"
  /\ UNCHANGED <<waiting_for_reset, tpm_evt, evt, pc, result, calls, done,
                 nv_vars, caller_vars>>

(* hook_call_deferred(&reinstate_nvmem_commits_data, 3 * SECOND), then    *)
(* reset_in_progress = 0 (lines 786-788); back to the main loop.          *)
TpmRelease ==
  /\ tpc = "release"
  /\ deferred' = TRUE
  /\ reset_in_progress' = FALSE
  /\ tpc' = "wait"
  /\ UNCHANGED <<waiting_for_reset, tpm_evt, evt, pc, result, calls, done,
                 wipe_requested, wipe_result, wipe_first, commits, commit_evt,
                 wipes, caller_vars>>

(* The hook task runs reinstate_nvmem_commits three seconds later: it   *)
(* raises TPM_EVENT_COMMIT for the TPM task (lines 711-720).              *)
DeferredCommit ==
  /\ deferred
  /\ deferred' = FALSE
  /\ commit_evt' = TRUE
  /\ UNCHANGED <<reset_in_progress, waiting_for_reset, tpm_evt, evt, pc, tpc,
                 result, calls, done, wipe_requested, wipe_result, wipe_first,
                 commits, wipes, caller_vars>>

Tpm == TpmBoot \/ TpmWait \/ TpmCommit \/ TpmNotify \/ TpmClear \/ TpmRelease

Next == Tpm \/ DeferredCommit \/ \E c \in Callers : Request(c)

(* The TPM task runs whenever it has an event; the hook task runs a      *)
(* deferred call once its delay has passed; a task inside                 *)
(* tpm_reset_request is eventually scheduled again.                       *)
Fairness ==
  /\ WF_vars(Tpm)
  /\ WF_vars(DeferredCommit)
  /\ \A c \in Callers : WF_vars(RequestSet(c) \/ RequestSignal(c)
                                 \/ RequestRegister(c))

Spec == Init /\ [][Next]_vars /\ Fairness

(***************************************************************************)
(* Properties.                                                             *)
(***************************************************************************)
(* While reset_in_progress is set (and tpm_register_put / _get drop every *)
(* register access), a reset is on its way: a caller is about to raise    *)
(* TPM_EVENT_RESET, the event is pending, or tpm_reset_now is running.    *)
ResetPending ==
  reset_in_progress =>
    \/ \E c \in Callers : pc[c] = "signal"
    \/ tpm_evt
    \/ tpc \in {"boot", "notify", "clear", "release"}

(* The register interface is not locked out for good: reset_in_progress   *)
(* is always cleared again.                                               *)
ResetEnds == reset_in_progress ~> ~reset_in_progress

(* Nvmem commits, which tpm_reset_now disables, are only off while their *)
(* reinstatement is on its way: the deferred hook is scheduled, its      *)
(* TPM_EVENT_COMMIT is pending, or the reset that will schedule it is     *)
(* running.  The TPM_EVENT_COMMIT a reset drops at line 831 is not lost.  *)
ReinstatePending ==
  ~commits =>
    \/ deferred \/ commit_evt
    \/ tpc \in {"boot", "notify", "clear", "release"}

(* Nvmem commits disabled by a reset are always enabled again. *)
CommitsResume == ~commits ~> commits

(* A reset that began after the call raised reset_in_progress has been  *)
(* carried out, with a successful wipe when the call asked for one.     *)
Served(c) == done > gen[c] /\ (asked[c] => wipes > wgen[c])

(* Lines 690-700: a call of tpm_reset_request that waits returns          *)
(* EC_SUCCESS exactly when the reset it asked for, with the nvmem wipe it *)
(* asked for, has been carried out.                                       *)
ResultTruthful ==
  [][\A c \in Callers :
       pc[c] = "block" /\ pc'[c] = "idle" =>
         (result'[c] = "success" <=> Served(c))]_vars
====
