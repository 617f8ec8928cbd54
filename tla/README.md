# TLA+ models of the Twonkie USB device firmware

This directory holds TLA+ models of the STM32 USB device driver
`src/fw/chip/stm32/usb.c` and of the TPM register interface
`src/fw/common/tpm_registers.c` in the Twonkie firmware. It contains TLC
configurations that model-check them on small instances, and TLAPS proofs
that hold for every value of the constants.

## 1. The system and its parts

The firmware is a Chromium EC derivative. The code in `src/` that changes
state falls into these parts:

| Part | Source | State | Operations |
|------|--------|-------|------------|
| EP0 control engine | usb.c 93-344 | `set_addr`, `desc_left`, `desc_ptr`, `iface_next`, `remote_wakeup_enabled`, the EP0 buffers, EP0 register (STAT_TX, STAT_RX, EP_KIND), DADDR | `ep0_rx` (SETUP/OUT), `ep0_send_descriptor`, `ep0_tx` (IN), `ep0_event`/`usb_reset` |
| Power controller | usb.c 346-447, 459-497 | CNTR bits FSUSP, LP_MODE, RESUME, ESOFM; USB clock; `usb_wake_done`; `esof_count` | `usb_suspend`, `usb_resume`, `usb_wake` (task context), ESOF countdown (interrupt), `usb_is_suspended` |
| Interrupt dispatcher | usb.c 450-513 | ISTR | calls `usb_reset`, the ESOF countdown, `usb_suspend`, `usb_resume` and the EP0 handlers, in this order |
| Init/release | usb.c 517-597 | CNTR masks, clocks | straight-line register setup |
| PMA copy | usb.c 599-654 | none | `memcpy_to_usbram`, `memcpy_from_usbram` |
| Serial number | usb.c 656-751 | `usb_serialno_desc`, flash pstate | set/load/save, console command |
| TPM FIFO interface | tpm_registers.c 86-597, 791-893 | `tpm_.state`, `fifo_read_index`, `fifo_write_index`, TPM_ACCESS, TPM_STS, `data_fifo` | `tpm_register_put` (access, sts, fifo writes), `fifo_reg_read`, command execution in `tpm_task` |
| TPM reset | tpm_registers.c 650-834 | `reset_in_progress`, `waiting_for_reset`, `wipe_requested`, `wipe_result`, nvmem commits, task events | `tpm_reset_request` (task context), `tpm_reset_now`, the deferred `reinstate_nvmem_commits`, the reset and commit paths of `tpm_task` |
| Clock / idle | unnamed/part_001 | clock tree, idle statistics | clock config, `__idle`, RTC |
| Tablet mode | fw/common/tablet_mode.c | one int | get, set |

How the parts interact:

- Everything in the USB driver except `usb_wake` and `usb_is_suspended` runs
  inside the single USB interrupt `usb_interrupt`, so those handlers are
  atomic with respect to each other.
- `usb_wake` is called from tasks. It shares CNTR, `usb_wake_done` and
  `esof_count` with the interrupt.
- `ep0_rx` sets `remote_wakeup_enabled`, which `usb_wake` reads.
- Interface drivers plug into EP0 through `usb_iface_request[]`, following
  the return contract in `usb_hw.h` (part_000 lines 101-104): -1 for an
  error, 0 for the last chunk, 1 for more.

- In the TPM interface, `tpm_register_put` and `tpm_register_get` run in
  interrupt context (the comment at tpm_registers.c 203-209), while
  `tpm_task` executes commands and resets in task context. Both sides
  write `tpm_.state`, the FIFO indices and TPM_STS.
- `tpm_reset_request` is called by other tasks and hands the reset to the
  TPM task through `TPM_EVENT_RESET`; `reset_in_progress` makes the
  register accesses no-ops meanwhile. `tpm_reset_now` disables nvmem
  commits and schedules `reinstate_nvmem_commits` on the hook task three
  seconds later, which sends `TPM_EVENT_COMMIT` back to the TPM task.

The behaviours that make this code hard:

- The host may preempt any transfer with a new SETUP, or reset the bus, at
  any time.
- The status OUT of a control read re-enters `ep0_rx`.
- A task-context wake races suspend, wakeup and ESOF interrupts.
- The ESOF countdown has boundary cases at zero and at the timeout.
- The PMA copy has unaligned leading and trailing bytes.
- The TPM host can write and read any register in any state and abort a
  command while the task executes it; the reset handshake is a
  notify-then-wait protocol with a timeout.

## 2. Modules

### UsbEp0 (with MCUsbEp0)

State: one VARIABLE per static of the driver and per EP0 register field,
listed in the table above. The host side is modelled as well:

- `host`: the host's stage of the transfer;
- `got`: the bytes it received;
- `host_addr`: the address it assigned;
- `iface_calls` and `events`: history.

Data is abstracted. A descriptor is a record naming it; the staged packet is
`[data, from, count]`, meaning bytes `from..from+count-1` of that descriptor.

Actions are one host transaction together with the handler it triggers,
because the handler runs atomically in the interrupt:

- `HostSetup`: `ep0_rx` on a new setup packet from the set `Setups`.
- `HostIn`: `ep0_tx`.
- `HostStatusOut`: `ep0_rx` on the old buffer.
- `HostSeesStall`: a STALL handshake. No handler runs.
- `usb_reset`: `ep0_event(RESET)` and DADDR set to 0.

`ep0_rx(p)` is one disjunct per branch of the router:

- `Ep0RxIface`, `Ep0RxDescriptor`, `Ep0RxStatus`, `Ep0RxFeature`,
  `Ep0RxSetAddress`, `Ep0RxSetConfig`, `Ep0RxUnknown`.
- The decision itself is the pure operator `Ep0Request(p)`, translated
  branch for branch from lines 153-274. It decodes the bit fields of the
  setup packet arithmetically.

`ep0_tx` applies `set_addr` first, then one of `Ep0TxStream`,
`Ep0TxIface` or `Ep0TxIdle` (the error label).

Interface handlers are unknown code. They return -1, 0 or 1
nondeterministically and stage data according to the `usb_hw.h` contract.

### UsbPower (with MCUsbPower)

State:

- `cntr`: the four CNTR bits that matter;
- `clock_on`: the last `clock_enable_module(MODULE_USB, ...)` request.
  The spec treats clock gating as an external collaborator. In the clock
  file of this source (unnamed/part_001), that function has an empty body.
  So `clock_on` records what `usb_suspend` and `usb_resume` ask for, which
  is the "clocked down" state that spec 7 speaks of;
- `usb_wake_done` and `esof_count`;
- `remote_wakeup_enabled`: here it is an input, because `SetRemoteWakeup`
  stands for the SET/CLEAR_FEATURE branch of `ep0_rx`;
- per task: `pc` (the statement reached in `usb_wake`) and `saved` (the CNTR
  value loaded at line 427);
- `calls`: a bound on the number of calls.

Actions:

- `usb_interrupt` takes any non-empty set of the ESOF/SUSP/WKUP flags that
  `Raised` allows (by the masks set in `usb_init` and `usb_wake`) and any
  line state 0..3. It applies the countdown `EsofTick`, then `usb_suspend`,
  then `usb_resume`, in code order, as functions on a state record.
- `usb_wake` is split at every point where the interrupt can intervene:
  - `WakeCall`: lines 406-413;
  - `WakeXchg`: the `atomic_read_clear` at 416;
  - `WakeCount`: 426;
  - `WakeLoad` and `WakeStore`: the load and the store of the `|=` at 427.

### UsbPma (with MCUsbPma)

One behaviour copies `n` source bytes to byte offset `off` of a packet
memory of `NWords` 16-bit words with `memcpy_to_usbram`, then reads `n`
bytes back from `off` with `memcpy_from_usbram`. Each statement that
touches memory is one step: `ToLead` (the unaligned leading byte, a
read-modify-write of the high half), `ToLoop` (one word of the loop),
`ToTrail` (the trailing byte into the low half), and `FromLead`, `FromLoop`,
`FromTrail` for the read. `d`, `s`, `k` and `i` are the C locals; `pma0`
keeps the memory before the copy for the properties. Offsets, lengths,
source bytes and the previous memory contents are all chosen by `Init`.

**PmaCopy** is the abstract specification: the copy as one `Write` step
(every byte in `off..off+n-1` from `src`, every other byte unchanged) and
the read as one `Read` step (the bytes of the memory at `off`). UsbPma
instantiates it with the refinement mapping `AbsPma` (the memory before
the copy until `ToTrail` returns, then the real one), `AbsStage` and
`AbsOut` (the output once `FromTrail` returns), and `CopyRefined ==
Copy!Spec` says UsbPma implements it: every `To*` step but the last and
every `From*` step but the last is a stutter, `ToTrail` is `Write` and
`FromTrail` is `Read`.

### TpmFifo (with MCTpmFifo)

State: `state`, `rd`, `wr` (the FIFO indices), `locality`, `sts` (the
commandReady, expect, dataAvail bits and the burst count), `hdr` (the size
field of the command header), and for `tpm_task`: `wake` (TASK_EVENT_WAKE),
`tpc`, `resp` and `saved` (TPM_STS as the task loaded it). Ghost counters
`cmd`, `exec_cmd`, `resp_cmd` name the command a response belongs to; `ops`
bounds the host's accesses. FIFO contents are abstracted to byte counts,
and a command to its header's size. The version string is `tpm_fw_ver`,
abstracted to the index of its first 0 byte (the buffer size when it has
none). `tpm_fw_ver_index` is the host's read position in it.

Host actions (each wrapped in `Put`, one register access, atomic in the
interrupt): `AccessRequestUse`, `AccessRelease`, `StsCommandReady`,
`StsGo` (with the test of line 295 as written), `StsResponseRetry`,
`FifoWrite(n, h)`, `FifoRead(n)`. Task actions: `TaskWake` (the event, and
ExecuteCommand, which reads `fifo_write_index`), `TaskRespond` (the response
replaces the FIFO, state completing, TPM_STS loaded), `TaskSts` (TPM_STS
stored back). The version string is chosen in Init from
`set_version_string` over the possible lengths of the RO and RW parts.
That function models the two `snprintf` calls, each cut to the space
left, and the early return when the RO part fills the buffer.
`FwVerReset` (a write of TPM_FW_VER) and `FwVerRead(n)` (a read) are host
accesses too. The read's loop is modelled by its result: the index
advances over characters by at most `n` and stops on the terminating 0.
Bytes after the first 0 are not represented; FwVerInString checks that
the index never reaches them. `still_in_fifo` is a `uint32_t` difference: when it wraps,
its value 2^32 - (rd - wr) exceeds any transfer and burst count, and
`U32Diff` yields `WrapBig` for it (TLC has no 32-bit unsigned integers).

### TpmReset (with MCTpmReset)

State: `reset_in_progress`, `waiting_for_reset`, the pending
`TPM_EVENT_RESET` of the TPM task (`tpm_evt`) and of each calling task
(`evt`), a program counter for each caller (`pc`) and for the TPM task
(`tpc`), each caller's last `result` and `wipe_nvmem_first` (`asked`),
`wipe_requested`, `wipe_result`, the argument `wipe_first` of
`tpm_reset_now`, whether nvmem commits are enabled (`commits`), the
scheduled deferred hook (`deferred`) and the pending `TPM_EVENT_COMMIT`
(`commit_evt`). Ghosts: `done` (resets carried out), `wipes` (successful
wipes), and for each caller `gen` and `wgen` (resets begun and wipes done
when it raised the flag).

Caller actions, one per statement that touches shared state:
`RequestCheck` (line 670, with the choice of `wipe_nvmem_first`),
`RequestSet` (675-679), `RequestSignal` (682, and
the return of a caller that does not wait), `RequestRegister` (692),
`RequestNotified` and `RequestTimeout` (the two outcomes of the wait at
693; `RequestNotified` returns `wipe_result`). TPM task actions: `TpmBoot`
(the boot loop, which starts `tpm_reset_now(0)`), `TpmWait` (the main
loop's wait returning `TPM_EVENT_RESET`; every other pending event is
cleared with it, so a `TPM_EVENT_COMMIT` that came in too is dropped),
`TpmCommit` (the wait returning `TPM_EVENT_COMMIT` alone), `TpmNotify` (the
wipe and its result, the `.bss` clear that clears `wipe_requested`, the
commits disabled, and the test of `waiting_for_reset`), `TpmClear`,
`TpmRelease` (lines 786-788: the deferred hook scheduled, the flag
cleared). `DeferredCommit` is the hook task running
`reinstate_nvmem_commits`. `WaitMask` is the set of events the main loop's
`task_wait_event(-1)` wakes for: all of them.

Task events belong to the EC kernel, which is not in this source. The model
assumes its documented behaviour: `task_set_event` sets a pending bit; a
wait on a mask returns when a masked bit is pending and clears it, or
returns on timeout, and an event that arrives later stays pending. The five
second timeout can expire at any time the caller has no event: nothing
bounds how long the TPM task takes.

## 3. Runs

| Run | cfg | Checks | Shows |
|-----|-----|--------|-------|
| ep0_transfers | MCUsbEp0.cfg | TypeOK, StreamConsistent, DataInOrder, DataStageLength, TransferCompletes | Descriptor streaming is correct under preemption, re-dispatch and resets; transfers end |
| ep0_address | MCUsbEp0_AddressAgreement.cfg | AddressAgreement | violation: the stale deferred address |
| power_wake | MCUsbPower.cfg | TypeOK, WakeWithinTimeout, WakeCompletes | Every wake ends, and the countdown respects the timeout |
| power_resume_stuck | MCUsbPower_ResumeReleased.cfg | ResumeReleased | violation: RESUME left set after a wake |
| power_lost_suspend | MCUsbPower_SuspendedWhileClockedDown.cfg | SuspendedWhileClockedDown | violation: FSUSP lost by the non-atomic `|=` |
| pma_roundtrip | MCUsbPma.cfg | TypeOK, CopyToExact, CopyRefined | The copy writes exactly the bytes asked for, at odd and even offsets and lengths, and with the read implements the abstract copy of PmaCopy |
| tpm_fifo | MCTpmFifo.cfg | TypeOK, FifoBounded, FwVerInString, ExecutionCompletes | The write index stays inside `data_fifo`; the version string is terminated inside its buffer and the TPM_FW_VER index never passes the terminator; every command started with TPM_GO is executed |
| tpm_go_incomplete | MCTpmFifo_GoOnlyWhenComplete.cfg | GoOnlyWhenComplete | violation: TPM_GO executes an incomplete command |
| tpm_read_wrap | MCTpmFifo_ReadWithinWritten.cfg | ReadWithinWritten | violation: the read index passes the write index |
| tpm_stale_response | MCTpmFifo_ResponseMatchesCommand.cfg | ResponseMatchesCommand | violation: an aborted command's response replaces the next command |
| tpm_reset | MCTpmReset.cfg | TypeOK, ResetPending, ReinstatePending, ResetEnds, CommitsResume | With two callers racing, the reset flag is only up while a reset is on its way and nvmem commits are only off while their reinstatement is on its way; both always come back |
| tpm_reset_result | MCTpmReset_ResultTruthful.cfg | ResultTruthful | violation: a waiting call returns success for a reset it did not get, and without its wipe |

### What the violations mean (findings and hazards in PROJECT.json)

**AddressAgreement.** `set_addr` is cleared only by the IN that applies it.
A SETUP that preempts the status stage of SET_ADDRESS, or a bus reset,
leaves it pending. The next IN of an unrelated transfer then moves the
device to that address. SET_ADDRESS(0) is never applied, because 0 means
"none".

**IfaceSlotHonoured** (stated in UsbEp0, not among the runs; TLC
refutes it when it is checked as the only invariant of MCUsbEp0). On an interface handler error, `ep0_tx` jumps to
`error`: it re-arms TX with the old buffer and keeps `iface_next`.

**SetupDispatchedOnce** (likewise stated and refuted, not among the
runs, since the code's own TODO admits it). The status OUT of a control read causes a second
`ep0_rx` on the unchanged setup buffer (the TODO at line 183). An
interface read request therefore reaches its handler twice. For the
requests `ep0_rx` serves itself, the re-dispatch re-arms the same answer,
and `StreamConsistent` shows that this is harmless.

**ResumeReleased.** The race:

1. A task clears `usb_wake_done` at line 416.
2. An ESOF arrives before `esof_count = 3` at line 426. It counts down the
   previous wake's count, which is already at or below zero, and ends the
   wake.
3. The task sets RESUME and ESOFM.
4. The next ESOF sees `usb_wake_done = 1`, so nothing clears RESUME.

This breaks the comment at 421-424 (RESUME for 1 to 15 ms). A second
task can then start another wake.

**SuspendedWhileClockedDown.** A SUSP interrupt between the load and the
store of the `|=` at line 427 stops the clock and sets FSUSP. The store
writes the old CNTR back without FSUSP, so `usb_is_suspended()` is 0 while
the clock is off.

**GoOnlyWhenComplete.** `sts_reg_write_tg` tests `tpm_.state & expect`.
The state is a small enum value without bit 3, so the test always passes
and TPM_GO after the first two bytes of a command starts its execution
(two steps: a 2-byte FIFO write, then GO).

**ReadWithinWritten.** `fifo_reg_read` has no state check. The host reads 4
bytes while a command is being received, then writes a transfer that
overflows: the overflow path resets `fifo_write_index` only. With rd = 4
and wr = 0, the next read computes a wrapped `still_in_fifo` and copies
`data_size` bytes from beyond the written data (the TODO at line 478 asks
that nothing leak).

**ResponseMatchesCommand.** The host aborts command 1 with commandReady
while it executes, and writes the start of command 2. The task finishes
command 1, copies its response into `data_fifo` and sets the completing
state, on top of command 2.

**ResultTruthful.** An action property: when a waiting call returns, it
returns `EC_SUCCESS` exactly when a reset that began after it raised
`reset_in_progress` has completed, with a successful wipe if it asked for
one (`Served`). TLC's shortest counterexample, with one caller: the TPM
task, still in its boot path with the AP on, is about to run
`tpm_reset_now(0)`; the caller raises the flag and the event and names
itself in `waiting_for_reset`; the boot reset then notifies it, and it
returns `EC_SUCCESS` while its own event is still pending. Asked for a
wipe, it gets none at all: the boot reset passes 0, its `.bss` clear
clears `wipe_requested`, and the reset its event starts next runs with
`wipe_first = 0`. The same happens when the boot loop (AP off) is woken by
the caller's event: it calls `tpm_reset_now(0)` whatever was requested.
The property also catches the two other ways the answer is wrong, each
checked separately: the lost wake-up (the TPM task runs the reset between
line 682 and line 692, finds nobody to notify, and the caller times out
after a reset that succeeded) and the stale event (a wait times out, the
late notification stays pending, and the next call returns success at
once, before its reset).

### Bounds and why they suffice

**MCUsbEp0** uses packet size 2, one interface and one string.

- The descriptor lengths are 1, 2, 3 and 4 bytes. They are shorter than a
  packet, exactly one packet, not a multiple, and an exact multiple (which
  needs a zero-length packet).
- Each is requested with wLength below, at and above its length.
- The setup set also covers every router branch: the interface read and
  write, the WebUSB URL, an unknown vendor request, device qualifier, a
  string index past the end, status, both addresses (0 and 1), config, and
  set/clear feature.
- MaxEvents = 5 SETUPs and resets allows a preempted stream followed by a
  reset and a new transfer.
- The run has about 20 000 states.

**MCUsbPower** uses two tasks with two calls each and a timeout of 2 frames.

- The countdown reaches its zero (RESUME cleared) and the timeout.
- A second wake can start with a stale count.
- Two tasks are the smallest number that can race each other.
- The run has about 240 000 states, checked in about a minute.

**MCUsbPma** uses 3 words (6 bytes), byte values {0, 1} and lengths 0..5
at every offset that fits. This covers odd and even offsets with odd and
even lengths, a copy that leaves bytes on both sides untouched, and both
halves of a word differing. About 114 000 states.

**MCTpmFifo** uses an 8-byte FIFO, transfers of 2 and 4 bytes, command
sizes 6 (exactly a header) and 10 (longer), a 4-byte response and 8 host
accesses. 6 + 4 overflows the FIFO, a command completes in 2 or 3 writes,
and there are enough accesses for a full command, GO, a partial read and
an abort. The version buffer has 4 bytes. The RO lengths 1, 3 and 5 give
an RO part that leaves room, one that fills the buffer (the early return)
and one that snprintf cuts; the RW lengths 1 and 4 give an RW part that
fits and one that is cut. Reads of 2 and 4 bytes overshoot the string.
About 27 000 states.

**MCTpmReset** uses two calling tasks with one call each, each free to ask
for a wipe or not and to wait or not: a race on the check and set of
`reset_in_progress` needs two tasks, and with the boot reset there are up
to three resets, so a reset can start while the deferred hook of an
earlier one is still pending and a `TPM_EVENT_COMMIT` can arrive with a
`TPM_EVENT_RESET`. About 184 000 states. Two calls per task (needed for a
retry after a timeout) take the two-task model past the time budget, so
the violation run uses one task with two calls: the stale notification
needs that retry, the other two counterexamples need no second caller.
The calls are bounded, so `CommitsResume` does not cover resets requested
more often than every three seconds forever, which would keep commits off
for as long.

Deadlock is not checked for UsbEp0 (`CHECK_DEADLOCK FALSE`). Once the
bounded SETUPs and resets are used up and the last transfer has ended, the
host has nothing left to do, which is a real stop of the environment.
UsbPower is checked for deadlock. UsbPma stops when the copy is done,
and TpmFifo and TpmReset when their bounded host accesses or calls are
used up, so they are checked without deadlock detection too.

### Fairness

**UsbEp0.** Weak fairness on `HostIn`, `HostSeesStall` and `HostStatusOut`.
A host keeps polling a transfer it started, and the interrupt services
every transaction. New SETUPs and resets get no fairness, because the host
is free not to send them.

**UsbPower.** Weak fairness on each task's statements after the call: a
task that entered `usb_wake` is scheduled again. There is also weak
fairness on `EsofInterrupt`, which stands for the 1 ms ESOF the hardware
raises while ESOFM is set (spec 5). The flag sets and line states of other
interrupts get no fairness.

**TpmFifo.** Weak fairness on the TPM task: it is scheduled whenever it has
a pending event. The host gets none.

**TpmReset.** Weak fairness on the TPM task, and on a caller's statements
after its test of `reset_in_progress` up to its wait: a task inside
`tpm_reset_request` is scheduled again. Weak fairness on `DeferredCommit`:
the hook task runs a deferred call once its delay has passed. Starting a
call and the timeout get no fairness.

## 4. Mutants

Every property of a passing run is broken by one plausible bug in the
mapped code (the `mutants` list):

| Mutant | Property it breaks |
|--------|--------------------|
| A stream packet not limited by `desc_left` | TypeOK |
| The remainder computed from the uncut length | StreamConsistent |
| An interface request that keeps the old stream | DataInOrder |
| `>` for `>=` | DataStageLength |
| A handler error that leaves TX NAKing | TransferCompletes |
| An atomic decrement for `atomic_read_clear` | TypeOK |
| The timeout test one frame late | WakeWithinTimeout |
| RESUME without ESOFM | WakeCompletes |
| The trailing byte stored without keeping the high half | CopyToExact |
| The unaligned leading byte read without the test of `n` | TypeOK |
| The two bytes of a word stored high byte first | CopyRefined |
| TPM_GO without `task_set_event` | ExecutionCompletes |
| The overflow check made on the index before the write | FifoBounded |
| The burst count not capped at 63 | TypeOK |
| The TPM_FW_VER index advanced without the test for the terminating 0 | FwVerInString |
| A caller that does not wait returning before it raises the event | ResetPending |
| `tpm_reset_now` without `hook_call_deferred` | ReinstatePending |
| The main loop waiting on a mask without `TPM_EVENT_COMMIT` | CommitsResume |
| The event posted to `waiting_for_reset` without the test for TASK_ID_INVALID | TypeOK |
| `waiting_for_reset` cleared only once the waiter has taken its event (it may never, after a timeout) | ResetEnds |

## 5. Proofs

### UsbEp0Proofs

Proved with TLAPS for every value of the constants, under the assumptions
`SizeAssumption`, `ConfigAssumption` and `SetupAssumption`. These are:

- MaxPacket ≥ 2;
- IfaceCount < 256, because `iface_next` is a `uint8_t`;
- DescLen gives a natural length to every descriptor;
- a setup packet has a data stage exactly when it is a read.

The theorems:

- **TypeCorrect: `Spec => []TypeOK`.**
  - `InitType`: Init implies TypeOK.
  - `NextType`: the step, with one lemma each for `ep0_rx` (`Ep0RxType`)
    and `ep0_tx` (`Ep0TxType`).
  - The key facts are that `Ep0Request` only yields descriptor sends of real
    descriptors, interface numbers below IfaceCount and byte addresses
    (`RequestFields`), and that a streamed packet is cut to
    `Min(desc_left, MaxPacket)`.
- **StreamSafe: `Spec => []StreamConsistent`.**
  - StreamConsistent alone is not inductive. Its step proof needs the types
    of `desc_left`, `ep0_buf_rx` and the descriptor lengths, so the
    inductive invariant is `IInv == TypeOK /\ StreamConsistent`. TLC checks
    it in the ep0_transfers run.
  - `Ep0RxStream`: every `ep0_rx` re-establishes the invariant for the
    packet in the buffer.
  - `Ep0TxStreamKeeps`: `ep0_tx` advances the offset by exactly what it
    takes from `desc_left`.
  - The other actions leave the stream alone.
- **DataInOrderSafe: `Spec => DataInOrder`** (an action property).
  - It rests on `DataInv`: while the host is in a data stage and the
    endpoint is armed, the staged packet is part of the answer to the
    request in `ep0_buf_rx`. Only an interface read holds an interface slot,
    and only a descriptor read holds a cursor. A descriptor packet starts
    at the host's byte count `got`, and either the cursor points just past
    it or the packet is the short last one. TLC checks `DataInv` on the
    ep0_transfers instance before it is proved.
  - `Ep0RxData`: a SETUP that arms the endpoint stages its answer from
    byte 0.
  - `Ep0TxData`: an IN that keeps the host in the data stage carried a full
    packet. The cursor was then set, and `ep0_tx` stages the next packet
    from it. An interface slot stages its own data, or keeps the packet.
  - `NextData`: every other step ends the data stage.
  - With `IInv /\ DataInv` invariant, every `HostIn` of a data stage meets
    the condition of DataInOrder.

### UsbPowerProofs

Under `PowerAssumption` (a positive resume timeout, a natural call bound,
any set of tasks):

- **TypeCorrect: `Spec => []TypeOK`.** The interrupt is a composition of
  functions on a state record (`HandleIstr`); `TickType`, `SuspendResumeType`
  and `HandleIstrType` show each keeps the record well formed.
- **TimeoutSafe: `Spec => []WakeWithinTimeout`.** The inductive invariant
  is `TypeOK /\ WakeWithinTimeout`. TypeOK is needed because the
  argument is arithmetic on `esof_count` and case analysis on
  `usb_wake_done \in {0, 1}`. `TickType` shows one countdown tick either
  ends the wake or leaves the count above `-USB_RESUME_TIMEOUT_MS`; task
  steps keep the count, except `WakeCount`, which stores 3.

### TpmFifoProofs

Under `FifoAssumption` (a positive FIFO size, transfers of 1..64 bytes,
responses that fit the FIFO):

- **TypeCorrect** and **FifoSafe: `Spec => []FifoBounded`.** The
  inductive invariant is `TypeOK /\ FifoBounded /\ RespTaken`, where
  `RespTaken` says a task past `TaskWake` holds a response size of
  `RespSizes`. That is needed because `TaskRespond` sets the write index
  to it. `HostRegs` shows each host access keeps the register state within
  bounds; for `FifoWrite` the proof splits on the three outcomes (ignored,
  overflow, stored).
- **FwVerSafe: `Spec => []FwVerInString`.** FwVerInString is part of the
  same inductive invariant. `VersionFits` shows that `set_version_string`
  yields a length below the buffer size for all part lengths. `FwVerStep`
  shows that a read or reset of TPM_FW_VER keeps the index between 0 and
  the terminator.

### TpmResetProofs

Under `ResetAssumption` (TASK_ID_INVALID is not a caller):

- **TypeCorrect**, for any set of callers.
- **ResetPendingSafe: `Spec => []ResetPending`.** The inductive invariant
  is `TypeOK /\ ResetPending`: the flag is raised by a caller at
  `signal`, which then raises the event; the event is consumed only by the
  TPM task entering `tpm_reset_now`, whose last statement clears the flag.
  TypeOK is needed to know that a caller stepping from `idle` is not the
  caller at `signal`.
- **ReinstateSafe: `Spec => []ReinstatePending`.** The invariant is
  inductive by itself: the only step that disables commits (`TpmNotify`)
  leaves the TPM task inside `tpm_reset_now`; the step that leaves it
  (`TpmRelease`) schedules the hook; the hook raises `TPM_EVENT_COMMIT`;
  the only step that drops that event (`TpmWait`) starts another reset,
  and the only step that consumes it (`TpmCommit`) enables commits.

### UsbPmaProofs

Under `PmaAssumption`: at least one word of memory, byte values in
0..255 and a natural length bound.

- **TypeCorrect: `Spec => []TypeOK`.**
- **CopyToExactSafe: `Spec => []CopyToExact`.**
- **CopyRefinement: `Spec => CopyRefined`.** UsbPma implements PmaCopy.

These three results rest on one inductive invariant, `IInv`. CopyToExact
alone is not inductive, because it says nothing while the loops run. So
`IInv` is TypeOK and `off + n <= 2 * NWords`, plus two parts that follow
the loops:

- `WriteInv`, for the phases of `memcpy_to_usbram`:
  - bytes `off..off+s-2` of the memory already hold `src`;
  - every other byte is as in `pma0`;
  - `k`, `d` and `s` stand where `i` iterations put them (`LoopPos`);
  - `Lead` is 1 when the unaligned leading byte was copied.
- `ReadInv`, for the phases of `memcpy_from_usbram`:
  - the memory is the copied one;
  - `out` is the memory's bytes from `off` on;
  - its length is `Lead + 2 * i`.

`ReadInv` cannot use `s`, which is stale once the read starts.
`IInv` was checked with TLC on the MCUsbPma instance before it was proved.

The lemmas:

- Word arithmetic:
  - `WordBytes`, `WordSplit`: a word's low and high bytes;
  - `ByteAtStore`, `StoreWord`: which bytes a word store changes;
  - `WordsOfBytes`: a memory is the function of the words its bytes make.
- One lemma per statement, from `ToLeadInv` to `FromTrailInv`. Each one
  splits on the statement's branches.
- The refinement:
  - `InitRefined`: an initial state maps to an initial state;
  - `ToTrailRefined`: the trailing byte of the write is `Write`. Its
    resulting memory is rebuilt word by word from `ReadInv`'s bytes with
    `WordsOfBytes`;
  - `FromTrailRefined`: the trailing byte of the read is `Read`;
  - `OtherStutters`: every other statement leaves the abstract state
    unchanged.

The bounds are named, as `0..MaxWord` and `0..MaxByte`, and the proofs
expand them only inside the arithmetic lemmas. A literal `0..65535`
would be expanded by the provers into 65536 cases.

### What is only model-checked

- The liveness properties (TransferCompletes, WakeCompletes,
  ExecutionCompletes, ResetEnds, CommitsResume), because TLAPS does not reason about
  fairness and ENABLED here.
- The action property DataStageLength. It holds in the instance only
  because a GET_STATUS there asks for 2 bytes. With a packet size of 2 and
  a larger wLength, `ep0_tx` re-arms the 2-byte status packet and the host
  reads it again. That needs an assumption the proof would have to add.


## 6. Not modelled

- RESET and CTR in the same interrupt. The two are separate steps here.
- Endpoints other than EP0, and OUT data stages of control writes. None of
  the requests handled in `ep0_rx` has one.
- In UsbEp0, descriptor bytes are abstracted to (descriptor, offset,
  count); the PMA copy itself is modelled separately in UsbPma.
- In the TPM interface: the read-only registers (reads with no effect), command
  cancel (a no-op in the code), extension commands and the TPM2 library
  (the nvmem wipe and the commit events are modelled in TpmReset, by their
  outcome and their events). The early return of the register accesses
  while `reset_in_progress` is set is not composed with TpmFifo.
- A response of size 0 or larger than the FIFO (line 859): ExecuteCommand
  is outside this source, and the model assumes it returns a response that
  fits; otherwise the state would stay executing.
- The serial number. `usb_set_serial` rewrites the descriptor's characters
  and then its length in the console task, while `ep0_tx` may be streaming
  that descriptor to the host from the interrupt. UsbEp0 abstracts a
  descriptor to its kind, index and length, so a torn serial cannot be
  represented there. This race, and the unterminated `buf` of
  `command_serialno` for a serial of `USB_STRING_LEN` characters, are
  listed as hazards without a property.
- Races no property catches, listed as hazards without a property:
  - The stale `desc_left` of a descriptor shorter than a packet (line
    141) only changes the STATUS_OUT bit, and no host action reads
    `status_out`.
  - The torn read of `usb_is_suspended` (line 442): the model reads FSUSP
    and `usb_wake_done` in one step.
  - Two callers both passing the `reset_in_progress` test (line 670):
    ResetPending still holds, and the tpm_reset_result run has one caller.
  - The ESOF between lines 416 and 426 is outside WakeWithinTimeout by its
    statement; only the power_resume_stuck violation run shows it.
- The clock/idle code (register I/O); see `components` in PROJECT.json.
- `tablet_mode.c`, which is trivial.
