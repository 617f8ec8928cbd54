--------------------------- MODULE TpmResetProofs ---------------------------
(***************************************************************************)
(* Proofs about the TPM reset handshake of TpmReset, for every set of     *)
(* calling tasks and every bound on their calls.                          *)
(***************************************************************************)
EXTENDS TpmReset, TLAPS

LEMMA InitType == Init => TypeOK
<1> SUFFICES ASSUME Init PROVE TypeOK
  OBVIOUS
<1>1. calls \in [Callers -> 0..MaxCalls] /\ done \in Nat /\ wipes \in Nat
      /\ gen \in [Callers -> Nat] /\ wgen \in [Callers -> Nat]
  BY ResetAssumption DEF Init
<1>2. evt \in [Callers -> BOOLEAN] /\ asked \in [Callers -> BOOLEAN]
      /\ reset_in_progress \in BOOLEAN /\ tpm_evt \in BOOLEAN
      /\ wipe_requested \in BOOLEAN /\ wipe_first \in BOOLEAN
      /\ commits \in BOOLEAN /\ deferred \in BOOLEAN /\ commit_evt \in BOOLEAN
  BY Zenon DEF Init
<1>3. QED
  BY <1>1, <1>2 DEF Init, TypeOK, Pcs, TPcs, Results, ErrorCodes

LEMMA NextType == TypeOK /\ [Next]_vars => TypeOK'
<1> SUFFICES ASSUME TypeOK, [Next]_vars PROVE TypeOK'
  OBVIOUS
<1>1. ASSUME NEW c \in Callers, RequestCheck(c) PROVE TypeOK'
  <2>1. calls' \in [Callers -> 0..MaxCalls]
    BY <1>1, ResetAssumption DEF RequestCheck, TypeOK
  <2>2. pc' \in [Callers -> Pcs] /\ result' \in [Callers -> Results]
    BY <1>1 DEF RequestCheck, Return, TypeOK, Pcs, Results
  <2>3. asked' \in [Callers -> BOOLEAN]
    BY <1>1, Zenon DEF RequestCheck, TypeOK
  <2>4. QED
    BY <1>1, <2>1, <2>2, <2>3 DEF RequestCheck, TypeOK, tpm_vars, nv_vars
<1>2. ASSUME NEW c \in Callers, RequestSet(c) PROVE TypeOK'
  <2>1. wipe_requested' \in BOOLEAN
    BY <1>2, Zenon DEF RequestSet
  <2>2. gen' \in [Callers -> Nat] /\ wgen' \in [Callers -> Nat]
    BY <1>2 DEF RequestSet, TypeOK
  <2>3. QED
    BY <1>2, <2>1, <2>2 DEF RequestSet, TypeOK, Pcs, ErrorCodes
<1>3. ASSUME NEW c \in Callers, RequestSignal(c) PROVE TypeOK'
  BY <1>3 DEF RequestSignal, Return, TypeOK, Pcs, Results, ErrorCodes,
     nv_vars, caller_vars
<1>4. ASSUME NEW c \in Callers, RequestRegister(c) PROVE TypeOK'
  BY <1>4 DEF RequestRegister, TypeOK, Pcs, nv_vars, caller_vars
<1>5. ASSUME NEW c \in Callers, RequestNotified(c) PROVE TypeOK'
  BY <1>5 DEF RequestNotified, Return, TypeOK, Pcs, Results, ErrorCodes,
     tpm_vars, nv_vars, caller_vars
<1>6. ASSUME NEW c \in Callers, RequestTimeout(c) PROVE TypeOK'
  BY <1>6 DEF RequestTimeout, Return, TypeOK, Pcs, Results, ErrorCodes,
     tpm_vars, nv_vars, caller_vars
<1>7. CASE TpmBoot
  BY <1>7 DEF TpmBoot, TypeOK, TPcs, caller_vars
<1>8. CASE TpmWait
  BY <1>8 DEF TpmWait, TypeOK, TPcs, caller_vars
<1>9. CASE TpmCommit
  BY <1>9 DEF TpmCommit, TypeOK, caller_vars
<1>10. CASE TpmNotify
  <2>1. evt' \in [Callers -> BOOLEAN]
    BY <1>10 DEF TpmNotify, TypeOK
  <2>2. done' \in Nat /\ tpc' \in TPcs
    BY <1>10 DEF TpmNotify, TypeOK, TPcs
  <2>3. wipe_result' \in ErrorCodes /\ wipes' \in Nat
    BY <1>10 DEF TpmNotify, TypeOK, ErrorCodes
  <2>4. QED
    BY <1>10, <2>1, <2>2, <2>3 DEF TpmNotify, TypeOK, caller_vars
<1>11. CASE TpmClear
  BY <1>11 DEF TpmClear, TypeOK, TPcs, nv_vars, caller_vars
<1>12. CASE TpmRelease
  BY <1>12 DEF TpmRelease, TypeOK, TPcs, caller_vars
<1>13. CASE DeferredCommit
  BY <1>13 DEF DeferredCommit, TypeOK, caller_vars
<1>14. CASE UNCHANGED vars
  BY <1>14 DEF vars, TypeOK, nv_vars, caller_vars
<1>15. QED
  BY <1>1, <1>2, <1>3, <1>4, <1>5, <1>6, <1>7, <1>8, <1>9, <1>10, <1>11,
     <1>12, <1>13, <1>14 DEF Next, Tpm, Request

(* The model of the reset handshake is well typed for every set of tasks *)
(* calling tpm_reset_request.                                            *)
THEOREM TypeCorrect == Spec => []TypeOK
BY InitType, NextType, PTL DEF Spec

(***************************************************************************)
(* ResetPending is inductive together with TypeOK: the flag is raised by  *)
(* a caller that then raises the event, the event is consumed only by the *)
(* TPM task entering tpm_reset_now, and only tpm_reset_now's last         *)
(* statement clears the flag.                                             *)
(***************************************************************************)
IInv == TypeOK /\ ResetPending

LEMMA NextPending == IInv /\ [Next]_vars => ResetPending'
<1> SUFFICES ASSUME TypeOK, ResetPending, [Next]_vars PROVE ResetPending'
  BY DEF IInv
<1>1. ASSUME NEW c \in Callers, RequestCheck(c) PROVE ResetPending'
  <2>1. \A d \in Callers : pc[d] = "signal" => pc'[d] = "signal"
    BY <1>1 DEF RequestCheck, Return, TypeOK
  <2>2. QED
    BY <1>1, <2>1 DEF RequestCheck, ResetPending, tpm_vars
<1>2. ASSUME NEW c \in Callers, RequestSet(c) PROVE ResetPending'
  BY <1>2 DEF RequestSet, ResetPending, TypeOK
<1>3. ASSUME NEW c \in Callers, RequestSignal(c) PROVE ResetPending'
  BY <1>3 DEF RequestSignal, Return, ResetPending
<1>4. ASSUME NEW c \in Callers, RequestRegister(c) PROVE ResetPending'
  BY <1>4 DEF RequestRegister, ResetPending, TypeOK
<1>5. ASSUME NEW c \in Callers, RequestNotified(c) PROVE ResetPending'
  BY <1>5 DEF RequestNotified, Return, ResetPending, TypeOK, tpm_vars
<1>6. ASSUME NEW c \in Callers, RequestTimeout(c) PROVE ResetPending'
  BY <1>6 DEF RequestTimeout, Return, ResetPending, TypeOK, tpm_vars
<1>7. CASE TpmBoot
  BY <1>7 DEF TpmBoot, ResetPending
<1>8. CASE TpmWait
  BY <1>8 DEF TpmWait, ResetPending
<1>9. CASE TpmCommit
  BY <1>9 DEF TpmCommit, ResetPending
<1>10. CASE TpmNotify
  BY <1>10 DEF TpmNotify, ResetPending
<1>11. CASE TpmClear
  BY <1>11 DEF TpmClear, ResetPending
<1>12. CASE TpmRelease
  BY <1>12 DEF TpmRelease, ResetPending
<1>13. CASE DeferredCommit
  BY <1>13 DEF DeferredCommit, ResetPending
<1>14. CASE UNCHANGED vars
  BY <1>14 DEF vars, ResetPending
<1>15. QED
  BY <1>1, <1>2, <1>3, <1>4, <1>5, <1>6, <1>7, <1>8, <1>9, <1>10, <1>11,
     <1>12, <1>13, <1>14 DEF Next, Tpm, Request

(* For every set of tasks racing tpm_reset_request, reset_in_progress    *)
(* (which makes tpm_register_put and tpm_register_get drop every access)  *)
(* is only ever set while a reset is on its way to clear it.              *)
THEOREM ResetPendingSafe == Spec => []ResetPending
<1>1. Init => IInv
  BY InitType DEF Init, IInv, ResetPending
<1>2. IInv /\ [Next]_vars => IInv'
  BY NextType, NextPending DEF IInv
<1>3. QED
  BY <1>1, <1>2, PTL DEF Spec, IInv

(***************************************************************************)
(* ReinstatePending is inductive by itself: every step that disables      *)
(* commits leaves the TPM task inside tpm_reset_now, the step that leaves *)
(* it schedules the deferred hook, the hook raises TPM_EVENT_COMMIT, and  *)
(* the only step that drops that event starts another reset.              *)
(***************************************************************************)
LEMMA NextReinstate == ReinstatePending /\ [Next]_vars => ReinstatePending'
<1> SUFFICES ASSUME ReinstatePending, [Next]_vars PROVE ReinstatePending'
  OBVIOUS
<1>1. ASSUME NEW c \in Callers, Request(c) PROVE ReinstatePending'
  BY <1>1 DEF Request, RequestCheck, RequestSet, RequestSignal,
     RequestRegister, RequestNotified, RequestTimeout, ReinstatePending,
     tpm_vars, nv_vars
<1>2. CASE Tpm
  BY <1>2 DEF Tpm, TpmBoot, TpmWait, TpmCommit, TpmNotify, TpmClear,
     TpmRelease, ReinstatePending
<1>3. CASE DeferredCommit
  BY <1>3 DEF DeferredCommit, ReinstatePending
<1>4. CASE UNCHANGED vars
  BY <1>4 DEF vars, nv_vars, ReinstatePending
<1>5. QED
  BY <1>1, <1>2, <1>3, <1>4 DEF Next

(* For every set of tasks and every bound on their calls, nvmem commits  *)
(* that tpm_reset_now disables (line 763) stay disabled only while the    *)
(* deferred reinstate_nvmem_commits or its TPM_EVENT_COMMIT is on its way  *)
(* (lines 711-720, 786, 833-834), although tpm_task drops that event when *)
(* it arrives with TPM_EVENT_RESET (line 831).                            *)
THEOREM ReinstateSafe == Spec => []ReinstatePending
<1>1. Init => ReinstatePending
  BY DEF Init, ReinstatePending
<1>2. QED
  BY <1>1, NextReinstate, PTL DEF Spec
====
