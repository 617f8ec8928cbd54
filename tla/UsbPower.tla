------------------------------ MODULE UsbPower ------------------------------
(***************************************************************************)
(* The power state controller of src/fw/chip/stm32/usb.c: usb_suspend,    *)
(* usb_resume, the remote wake usb_wake called from task context, the     *)
(* ESOF countdown in usb_interrupt that ends a wake, and usb_is_suspended. *)
(*                                                                         *)
(* usb_interrupt is atomic with respect to the tasks; usb_wake is not: a  *)
(* task runs it one statement at a time and the interrupt may run between *)
(* any two of them.  The statements are the check of line 406, the        *)
(* atomic_read_clear of 416, the store of 426 and the read-modify-write   *)
(* "STM32_USB_CNTR |= ..." of 427, split into its load and its store.     *)
(*                                                                         *)
(* The bus is the environment: the interrupt may carry any set of the      *)
(* ESOF, SUSP and WKUP flags (WKUP only while suspended), and the line     *)
(* state sampled from STM32_USB_FNR is any of the four values.            *)
(***************************************************************************)
EXTENDS Integers

CONSTANTS
  Callers,        \* tasks that may call usb_wake
  ResumeTimeout,  \* USB_RESUME_TIMEOUT_MS
  MaxCalls        \* bound: usb_wake calls per task

ASSUME PowerAssumption ==
  /\ Callers # {}
  /\ ResumeTimeout \in Nat /\ ResumeTimeout >= 1
  /\ MaxCalls \in Nat

VARIABLES
  cntr,                  \* STM32_USB_CNTR: FSUSP, LP_MODE, RESUME, ESOFM
  clock_on,              \* clock_enable_module(MODULE_USB, ...)
  usb_wake_done,         \* 0 while a wake is in progress
  esof_count,            \* ESOF countdown of the wake
  remote_wakeup_enabled, \* set and cleared by ep0_rx (SET/CLEAR_FEATURE)
  pc,                    \* where each task is in usb_wake
  saved,                 \* the CNTR value a task loaded at line 427
  calls                  \* usb_wake calls made by each task

vars == <<cntr, clock_on, usb_wake_done, esof_count, remote_wakeup_enabled,
          pc, saved, calls>>

Cntrs == [fsusp : BOOLEAN, lp_mode : BOOLEAN, resume : BOOLEAN,
          esofm : BOOLEAN]
Flags == {"ESOF", "SUSP", "WKUP"}
LineStates == 0..3   \* (STM32_USB_FNR & RXDP_RXDM_MASK) >> RXDP_RXDM_SHIFT
WakePcs == {"idle", "xchg", "count", "load", "store"}

TypeOK ==
  /\ cntr \in Cntrs
  /\ clock_on \in BOOLEAN
  /\ usb_wake_done \in {0, 1}
  /\ esof_count \in Int /\ esof_count <= 3
  /\ remote_wakeup_enabled \in BOOLEAN
  /\ pc \in [Callers -> WakePcs]
  /\ saved \in [Callers -> Cntrs]
  /\ calls \in [Callers -> 0..MaxCalls]

(* After usb_init: CNTR holds only interrupt masks, the clock is enabled, *)
(* and the statics have their initial values.                             *)
NoBits == [fsusp |-> FALSE, lp_mode |-> FALSE, resume |-> FALSE,
           esofm |-> FALSE]
Init ==
  /\ cntr = NoBits
  /\ clock_on = TRUE
  /\ usb_wake_done = 1
  /\ esof_count = 0
  /\ remote_wakeup_enabled = FALSE
  /\ pc = [c \in Callers |-> "idle"]
  /\ saved = [c \in Callers |-> NoBits]
  /\ calls = [c \in Callers |-> 0]

(***************************************************************************)
(* The interrupt's power handlers, as functions of the state they touch:  *)
(* a record [cntr, clock_on, done, count].                                *)
(***************************************************************************)
Now == [cntr |-> cntr, clock_on |-> clock_on, done |-> usb_wake_done,
        count |-> esof_count]

usb_suspend(s) ==
  [s EXCEPT !.cntr = [@ EXCEPT !.fsusp = TRUE, !.lp_mode = TRUE],
            !.clock_on = FALSE]

(* The hardware clears LP_MODE when it detects the wakeup (RM0091 30.5.5). *)
usb_resume(s) ==
  [s EXCEPT !.clock_on = TRUE,
            !.cntr = [@ EXCEPT !.fsusp = FALSE, !.lp_mode = FALSE]]

(* Mutant: the timeout test one ESOF late. *)
EsofTickLate(s, state) ==
  LET n == s.count - 1
      t == [s EXCEPT !.count = n,
                     !.cntr.resume = IF n = 0 THEN FALSE ELSE @]
      u == [t EXCEPT !.cntr.esofm = FALSE, !.done = 1]
  IN  IF n <= 0 /\ (state \in {2, 3} \/ n < -ResumeTimeout)
        THEN IF state # 2 THEN usb_suspend(u) ELSE u
        ELSE t

(* One ESOF of a wake in progress: count down, drop RESUME at zero, then *)
(* end the wake when the line has resumed or on timeout, re-suspending   *)
(* unless the line state is 2.                                           *)
EsofTick(s, state) ==
  LET n == s.count - 1
      t == [s EXCEPT !.count = n,
                     !.cntr.resume = IF n = 0 THEN FALSE ELSE @]
      u == [t EXCEPT !.cntr.esofm = FALSE, !.done = 1]
  IN  IF n <= 0 /\ (state \in {2, 3} \/ n <= -ResumeTimeout)
        THEN IF state # 2 THEN usb_suspend(u) ELSE u
        ELSE t

(* An interrupt is raised by a flag whose mask is set: ESOFM only during a *)
(* wake, SUSPM and WKUPM always (usb_init).  Other flags pending in ISTR   *)
(* are handled along with it, in the order of the code.                   *)
Raised(st) ==
  /\ st # {}
  /\ "ESOF" \in st /\ st = {"ESOF"} => cntr.esofm
  /\ "WKUP" \in st => cntr.fsusp

(* The handlers usb_interrupt runs for the flags st of one ISTR read, in *)
(* the order of the code: ESOF countdown, suspend, resume.               *)
HandleIstr(s, st, state) ==
  LET s1 == IF "ESOF" \in st /\ s.done = 0 THEN EsofTick(s, state) ELSE s
      s2 == IF "SUSP" \in st THEN usb_suspend(s1) ELSE s1
  IN  IF "WKUP" \in st THEN usb_resume(s2) ELSE s2

usb_interrupt ==
  \E st \in SUBSET Flags, state \in LineStates :
    /\ Raised(st)
    /\ LET s == HandleIstr(Now, st, state) IN
         /\ cntr' = s.cntr
         /\ clock_on' = s.clock_on
         /\ usb_wake_done' = s.done
         /\ esof_count' = s.count
    /\ UNCHANGED <<remote_wakeup_enabled, pc, saved, calls>>

(***************************************************************************)
(* usb_wake, one statement per step of a task.                             *)
(***************************************************************************)
(* Lines 406-413: return unless remote wake is enabled and suspended. *)
WakeCall(c) ==
  /\ pc[c] = "idle"
  /\ calls[c] < MaxCalls
  /\ calls' = [calls EXCEPT ![c] = @ + 1]
  /\ pc' = [pc EXCEPT ![c] = IF remote_wakeup_enabled /\ cntr.fsusp
                               THEN "xchg" ELSE "idle"]
  /\ UNCHANGED <<cntr, clock_on, usb_wake_done, esof_count,
                 remote_wakeup_enabled, saved>>

(* Mutant: an atomic decrement in place of atomic_read_clear. *)
WakeXchgDec(c) ==
  /\ pc[c] = "xchg"
  /\ usb_wake_done' = usb_wake_done - 1
  /\ pc' = [pc EXCEPT ![c] = IF usb_wake_done = 1 THEN "count" ELSE "idle"]
  /\ UNCHANGED <<cntr, clock_on, esof_count, remote_wakeup_enabled, saved,
                 calls>>

(* Line 416: atomic_read_clear(&usb_wake_done); return if it was 0. *)
WakeXchg(c) ==
  /\ pc[c] = "xchg"
  /\ usb_wake_done' = 0
  /\ pc' = [pc EXCEPT ![c] = IF usb_wake_done = 1 THEN "count" ELSE "idle"]
  /\ UNCHANGED <<cntr, clock_on, esof_count, remote_wakeup_enabled, saved,
                 calls>>

(* Line 426: esof_count = 3. *)
WakeCount(c) ==
  /\ pc[c] = "count"
  /\ esof_count' = 3
  /\ pc' = [pc EXCEPT ![c] = "load"]
  /\ UNCHANGED <<cntr, clock_on, usb_wake_done, remote_wakeup_enabled,
                 saved, calls>>

(* Line 427, the load of STM32_USB_CNTR. *)
WakeLoad(c) ==
  /\ pc[c] = "load"
  /\ saved' = [saved EXCEPT ![c] = cntr]
  /\ pc' = [pc EXCEPT ![c] = "store"]
  /\ UNCHANGED <<cntr, clock_on, usb_wake_done, esof_count,
                 remote_wakeup_enabled, calls>>

(* Mutant: RESUME set without unmasking ESOF. *)
WakeStoreNoEsofm(c) ==
  /\ pc[c] = "store"
  /\ cntr' = [saved[c] EXCEPT !.resume = TRUE]
  /\ pc' = [pc EXCEPT ![c] = "idle"]
  /\ UNCHANGED <<clock_on, usb_wake_done, esof_count, remote_wakeup_enabled,
                 saved, calls>>

(* Line 427, the store of the loaded value with RESUME and ESOFM set;   *)
(* board_usb_wake (line 430) changes nothing modelled.                  *)
WakeStore(c) ==
  /\ pc[c] = "store"
  /\ cntr' = [saved[c] EXCEPT !.resume = TRUE, !.esofm = TRUE]
  /\ pc' = [pc EXCEPT ![c] = "idle"]
  /\ UNCHANGED <<clock_on, usb_wake_done, esof_count, remote_wakeup_enabled,
                 saved, calls>>

(* ep0_rx's SET_FEATURE / CLEAR_FEATURE(DEVICE_REMOTE_WAKEUP). *)
SetRemoteWakeup ==
  /\ \E b \in BOOLEAN : remote_wakeup_enabled' = b
  /\ UNCHANGED <<cntr, clock_on, usb_wake_done, esof_count, pc, saved,
                 calls>>

Wake(c) ==
  WakeCall(c) \/ WakeXchg(c) \/ WakeCount(c) \/ WakeLoad(c) \/ WakeStore(c)

Next ==
  \/ usb_interrupt
  \/ SetRemoteWakeup
  \/ \E c \in Callers : Wake(c)

(* The ESOF interrupt fires every frame while ESOFM is set. *)
EsofInterrupt ==
  /\ cntr.esofm
  /\ \E state \in LineStates :
       /\ usb_wake_done = 0
       /\ LET s == EsofTick(Now, state) IN
            /\ cntr' = s.cntr
            /\ clock_on' = s.clock_on
            /\ usb_wake_done' = s.done
            /\ esof_count' = s.count
  /\ UNCHANGED <<remote_wakeup_enabled, pc, saved, calls>>

(* A task that has entered usb_wake is scheduled again, and ESOFs keep   *)
(* coming while the mask is set.                                         *)
Fairness ==
  /\ \A c \in Callers :
       WF_vars(WakeXchg(c) \/ WakeCount(c) \/ WakeLoad(c) \/ WakeStore(c))
  /\ WF_vars(EsofInterrupt)

Spec == Init /\ [][Next]_vars /\ Fairness

(***************************************************************************)
(* Properties.                                                             *)
(***************************************************************************)
(* usb_is_suspended, lines 434-447. *)
usb_is_suspended == cntr.fsusp \/ usb_wake_done = 0

(* Spec 5: a wake attempt never runs past the 300 ms timeout: while the  *)
(* ESOF countdown of usb_interrupt is running it has not yet reached    *)
(* -USB_RESUME_TIMEOUT_MS (except for the instant between the exchange  *)
(* of line 416 and the store of line 426, when it still holds the count *)
(* of the previous wake).                                               *)
WakeWithinTimeout ==
  (usb_wake_done = 0 /\ \A c \in Callers : pc[c] # "count")
    => esof_count > -ResumeTimeout

(* Spec 5: every wake usb_wake starts is ended by the ESOF countdown,   *)
(* with the line resumed or by the timeout.                             *)
WakeCompletes == usb_wake_done = 0 ~> usb_wake_done = 1

(* The comment of usb_wake (lines 421-424) and spec 5: RESUME is driven *)
(* only while a wake is in progress, and is released by the countdown.  *)
ResumeReleased == cntr.resume => usb_wake_done = 0

(* Spec 7: usb_is_suspended reports true whenever the USB clock is      *)
(* stopped by usb_suspend.                                              *)
SuspendedWhileClockedDown == ~clock_on => usb_is_suspended
====
