--------------------------- MODULE UsbPowerProofs ---------------------------
(***************************************************************************)
(* Proofs about the power controller of UsbPower, for every number of     *)
(* tasks, every resume timeout and every bound on calls.                   *)
(***************************************************************************)
EXTENDS UsbPower, TLAPS

(* The state the interrupt handlers work on, as the record Now builds. *)
Counts == {n \in Int : n <= 3}
States == [cntr : Cntrs, clock_on : BOOLEAN, done : {0, 1}, count : Counts]

(* usb_suspend and usb_resume touch neither the wake flag nor the count. *)
LEMMA SuspendResumeType ==
  ASSUME NEW s \in States
  PROVE  /\ usb_suspend(s) \in States
         /\ usb_suspend(s).done = s.done /\ usb_suspend(s).count = s.count
         /\ usb_resume(s) \in States
         /\ usb_resume(s).done = s.done /\ usb_resume(s).count = s.count
BY DEF States, Cntrs, usb_suspend, usb_resume

(* One ESOF of the countdown keeps the state well formed, and it either  *)
(* ends the wake or leaves the count above -USB_RESUME_TIMEOUT_MS.       *)
LEMMA TickType ==
  ASSUME NEW s \in States, NEW state \in LineStates
  PROVE  /\ EsofTick(s, state) \in States
         /\ EsofTick(s, state).done = 1
              \/ EsofTick(s, state).count > -ResumeTimeout
<1> DEFINE n == s.count - 1
           t == [s EXCEPT !.count = n,
                          !.cntr.resume = IF n = 0 THEN FALSE ELSE @]
           u == [t EXCEPT !.cntr.esofm = FALSE, !.done = 1]
           Ends == n <= 0 /\ (state \in {2, 3} \/ n <= -ResumeTimeout)
<1>1. n \in Counts
  BY DEF States, Counts
<1>2. t \in States /\ t.done = s.done /\ t.count = n
  BY <1>1 DEF States, Cntrs
<1>3. u \in States /\ u.done = 1
  BY <1>2 DEF States, Cntrs
<1>4. CASE Ends
  <2>1. EsofTick(s, state) = IF state # 2 THEN usb_suspend(u) ELSE u
    BY <1>4 DEF EsofTick
  <2>2. QED
    BY <1>3, <2>1, SuspendResumeType
<1>5. CASE ~Ends
  <2>1. EsofTick(s, state) = t
    BY <1>5 DEF EsofTick
  <2>2. n > -ResumeTimeout
    BY <1>5, PowerAssumption DEF States, Counts
  <2>3. QED
    BY <1>2, <2>1, <2>2
<1>6. QED
  BY <1>4, <1>5

(* One interrupt, whatever flags it carries: the state stays well formed, *)
(* and it either leaves the wake flag and the count alone, or ends the    *)
(* wake, or leaves the count above the timeout.                           *)
LEMMA HandleIstrType ==
  ASSUME NEW s \in States, NEW st \in SUBSET Flags, NEW state \in LineStates
  PROVE  LET r == HandleIstr(s, st, state) IN
           /\ r \in States
           /\ \/ r.done = s.done /\ r.count = s.count
              \/ r.done = 1
              \/ r.count > -ResumeTimeout
<1> DEFINE s1 == IF "ESOF" \in st /\ s.done = 0 THEN EsofTick(s, state) ELSE s
           s2 == IF "SUSP" \in st THEN usb_suspend(s1) ELSE s1
           s3 == IF "WKUP" \in st THEN usb_resume(s2) ELSE s2
           Good(r) == \/ r.done = s.done /\ r.count = s.count
                      \/ r.done = 1
                      \/ r.count > -ResumeTimeout
<1>1. s1 \in States /\ Good(s1)
  BY TickType
<1>2. s2 \in States /\ s2.done = s1.done /\ s2.count = s1.count
  BY <1>1, SuspendResumeType
<1>3. s3 \in States /\ s3.done = s2.done /\ s3.count = s2.count
  BY <1>2, SuspendResumeType
<1>4. HandleIstr(s, st, state) = s3
  BY DEF HandleIstr
<1>5. QED
  BY <1>1, <1>2, <1>3, <1>4
(* The record the interrupt handlers work on is well formed. *)
LEMMA NowType == TypeOK => Now \in States
BY DEF TypeOK, Now, States, Counts

LEMMA InitType == Init => TypeOK
<1> SUFFICES ASSUME Init PROVE TypeOK
  OBVIOUS
<1>1. NoBits \in Cntrs
  BY Zenon DEF NoBits, Cntrs
<1>2. calls \in [Callers -> 0..MaxCalls]
  BY PowerAssumption DEF Init
<1>3. pc \in [Callers -> WakePcs] /\ saved \in [Callers -> Cntrs]
  BY <1>1 DEF Init, WakePcs
<1>4. usb_wake_done \in {0, 1} /\ esof_count \in Int /\ esof_count <= 3
  BY DEF Init
<1>5. QED
  BY <1>1, <1>2, <1>3, <1>4, Zenon DEF Init, TypeOK

(* An interrupt changes the four fields HandleIstr computes and no other. *)
LEMMA InterruptType ==
  ASSUME TypeOK, usb_interrupt
  PROVE  TypeOK'
<1>1. PICK st \in SUBSET Flags, state \in LineStates :
         /\ LET s == HandleIstr(Now, st, state) IN
              /\ cntr' = s.cntr
              /\ clock_on' = s.clock_on
              /\ usb_wake_done' = s.done
              /\ esof_count' = s.count
         /\ UNCHANGED <<remote_wakeup_enabled, pc, saved, calls>>
  BY DEF usb_interrupt
<1>2. HandleIstr(Now, st, state) \in States
  BY NowType, HandleIstrType
<1>3. QED
  BY <1>1, <1>2 DEF TypeOK, States, Counts

LEMMA NextType == TypeOK /\ [Next]_vars => TypeOK'
<1> SUFFICES ASSUME TypeOK, [Next]_vars PROVE TypeOK'
  OBVIOUS
<1>1. CASE usb_interrupt
  BY <1>1, InterruptType
<1>2. CASE SetRemoteWakeup
  BY <1>2 DEF SetRemoteWakeup, TypeOK
<1>3. ASSUME NEW c \in Callers, WakeCall(c) PROVE TypeOK'
  <2>1. calls' \in [Callers -> 0..MaxCalls]
    BY <1>3, PowerAssumption DEF WakeCall, TypeOK
  <2>2. pc' \in [Callers -> WakePcs]
    BY <1>3 DEF WakeCall, TypeOK, WakePcs
  <2>3. QED
    BY <1>3, <2>1, <2>2 DEF WakeCall, TypeOK
<1>4. ASSUME NEW c \in Callers, WakeXchg(c) PROVE TypeOK'
  BY <1>4 DEF WakeXchg, TypeOK, WakePcs
<1>5. ASSUME NEW c \in Callers, WakeCount(c) PROVE TypeOK'
  BY <1>5 DEF WakeCount, TypeOK, WakePcs
<1>6. ASSUME NEW c \in Callers, WakeLoad(c) PROVE TypeOK'
  BY <1>6 DEF WakeLoad, TypeOK, WakePcs
<1>7. ASSUME NEW c \in Callers, WakeStore(c) PROVE TypeOK'
  BY <1>7 DEF WakeStore, TypeOK, WakePcs, Cntrs
<1>8. CASE UNCHANGED vars
  BY <1>8 DEF vars, TypeOK
<1>9. QED
  BY <1>1, <1>2, <1>3, <1>4, <1>5, <1>6, <1>7, <1>8 DEF Next, Wake

(* The model of the power controller is well typed for every number of *)
(* tasks calling usb_wake, every resume timeout and every call bound.    *)
THEOREM TypeCorrect == Spec => []TypeOK
BY InitType, NextType, PTL DEF Spec
(***************************************************************************)
(* WakeWithinTimeout is inductive together with TypeOK: the count is      *)
(* only lowered by the ESOF countdown, which ends the wake as soon as it  *)
(* reaches -USB_RESUME_TIMEOUT_MS, and a task that starts a wake is at    *)
(* line 426 until it stores a fresh count.                                *)
(***************************************************************************)
IInv == TypeOK /\ WakeWithinTimeout

(* A step that keeps the flag, the count and every task at line 426   *)
(* keeps the invariant.                                                *)
LEMMA KeepsTimeout ==
  ASSUME WakeWithinTimeout,
         usb_wake_done' = usb_wake_done, esof_count' = esof_count,
         \A c \in Callers : pc[c] = "count" => pc'[c] = "count"
  PROVE  WakeWithinTimeout'
BY DEF WakeWithinTimeout

LEMMA InterruptTimeout ==
  ASSUME TypeOK, WakeWithinTimeout, usb_interrupt
  PROVE  WakeWithinTimeout'
<1>1. PICK st \in SUBSET Flags, state \in LineStates :
         /\ LET s == HandleIstr(Now, st, state) IN
              /\ cntr' = s.cntr
              /\ clock_on' = s.clock_on
              /\ usb_wake_done' = s.done
              /\ esof_count' = s.count
         /\ UNCHANGED <<remote_wakeup_enabled, pc, saved, calls>>
  BY DEF usb_interrupt
<1> DEFINE r == HandleIstr(Now, st, state)
<1>2. \/ r.done = usb_wake_done /\ r.count = esof_count
      \/ r.done = 1
      \/ r.count > -ResumeTimeout
  BY NowType, HandleIstrType DEF Now
<1>3. QED
  BY <1>1, <1>2 DEF WakeWithinTimeout

LEMMA NextTimeout == IInv /\ [Next]_vars => WakeWithinTimeout'
<1> SUFFICES ASSUME TypeOK, WakeWithinTimeout, [Next]_vars
             PROVE  WakeWithinTimeout'
  BY DEF IInv
<1>1. CASE usb_interrupt
  BY <1>1, InterruptTimeout
<1>2. CASE SetRemoteWakeup
  BY <1>2, KeepsTimeout DEF SetRemoteWakeup
<1>3. ASSUME NEW c \in Callers, WakeCall(c) PROVE WakeWithinTimeout'
  BY <1>3, KeepsTimeout DEF WakeCall, TypeOK
<1>4. ASSUME NEW c \in Callers, WakeXchg(c) PROVE WakeWithinTimeout'
  <2>1. CASE usb_wake_done = 1
    BY <1>4, <2>1 DEF WakeXchg, WakeWithinTimeout, TypeOK
  <2>2. CASE usb_wake_done # 1
    <3>1. usb_wake_done = 0
      BY <2>2 DEF TypeOK
    <3>2. QED
      BY <1>4, <3>1, KeepsTimeout DEF WakeXchg, TypeOK
  <2>3. QED
    BY <2>1, <2>2
<1>5. ASSUME NEW c \in Callers, WakeCount(c) PROVE WakeWithinTimeout'
  BY <1>5, PowerAssumption DEF WakeCount, WakeWithinTimeout
<1>6. ASSUME NEW c \in Callers, WakeLoad(c) PROVE WakeWithinTimeout'
  BY <1>6, KeepsTimeout DEF WakeLoad, TypeOK
<1>7. ASSUME NEW c \in Callers, WakeStore(c) PROVE WakeWithinTimeout'
  BY <1>7, KeepsTimeout DEF WakeStore, TypeOK
<1>8. CASE UNCHANGED vars
  BY <1>8 DEF vars, WakeWithinTimeout
<1>9. QED
  BY <1>1, <1>2, <1>3, <1>4, <1>5, <1>6, <1>7, <1>8 DEF Next, Wake

(* Spec 5 and usb_interrupt lines 464-483: for every number of tasks     *)
(* racing usb_wake and every USB_RESUME_TIMEOUT_MS, the ESOF countdown of *)
(* a wake in progress never passes the timeout (outside the window       *)
(* between lines 416 and 426, where the count is the previous one).     *)
THEOREM TimeoutSafe == Spec => []WakeWithinTimeout
<1>1. Init => IInv
  BY InitType DEF Init, IInv, WakeWithinTimeout
<1>2. IInv /\ [Next]_vars => IInv'
  BY NextType, NextTimeout DEF IInv
<1>3. QED
  BY <1>1, <1>2, PTL DEF Spec, IInv
====
