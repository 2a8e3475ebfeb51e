# Verification of the ath9k_htc target firmware

TLA+ models of the firmware that runs on the AR7010 (Magpie) and AR9271 (K2)
USB Wi-Fi devices, checked with TLC on small instances and, where it matters
most, proved with TLAPS for every size.

Paths below are relative to `src/`; *fw* stands for
`target_firmware/magpie_fw_dev/target`, *wlan* for `target_firmware/wlan`, and
*rom* for `sboot/magpie_1_1/sboot`, the boot ROM whose code the firmware calls
through tables of function pointers.

## 1. The system

The host driver talks to the device over USB. Messages from the host arrive
through a DMA engine (data pipes) or a register FIFO (command pipe), are handed
to HTC, and from HTC to a service: WMI commands, or frames for the transmit path
of the WLAN driver. Messages to the host go the other way.

The device runs one loop, `wlan_task` (*fw*`/init/init.c:353`), which polls the
watchdog, the clock, the USB interface (`HIF_isr_handler`), the WLAN interrupt
(`ath_intr`), the tasklets, the timers and the debug console in turn. Nothing is
preempted. Concurrency is between that loop, the host, the two DMA engines
(USB and MAC) and what happens on the air; each of them acts between two
handlers, and the engines also between two memory accesses of a handler. A
module makes a handler one action where the hardware cannot see its
intermediate states, and a sequence of actions where it can.

### Inventory

| Component | State | Operations | Talks to | Hard because |
|---|---|---|---|---|
| HTC (*fw*`/htc/htc.c`) | per endpoint: credits consumed, to return, threshold, pending reports; maps of endpoints that need a report; control buffers | set-up dialogue, receive, send, return buffers, send completion | HIF below, services above, the host's credit accounting | reports are triggered from four places and piggybacked on any message; control buffers run out |
| Transmit path (*wlan*`/if_owl.c`, `if_ath.c`) | transmit buffers, per station and identifier: software queue, block-ack window, pause, clean-up; hardware queue | receive a frame, schedule, aggregate, complete, retry, BAR, enable and disable aggregation, create and remove a station, drain | HTC (credits), WMI (commands), MAC | completions, commands and frames interleave; the queues are served only from completions |
| USB DMA queues (*rom*`/dma_engine`, `vdesc`, `hif/usb`) | hardware descriptors, queue with terminator, VBUF lists | put, get, reclaim a packet; completion handler | DMA engine; HTC | the engine reads what the firmware is writing |
| WLAN receive (*wlan*`/if_ath.c`) | descriptor ring, held and idle descriptors, receive buffers, frames waiting | handler, tasklet, completion, start, stop | MAC, HTC | the MAC follows a list that is being changed; buffers run out |
| WMI (*fw*`/wmi/wmi_svc.c`, commands and interrupts in *wlan*`/if_ath.c`) | reply and event pools, dispatch tables, whether interrupts are enabled | command, reply, event, completion, interrupt | HTC, WLAN driver | bounded pools, events dropped, both pools share one completion |
| Transmit status (*wlan*`/if_owl.c`) | two events under assembly, each with places that are reused | record a frame, send, clear | transmit path, WMI | flags left in a place, frames that fit in neither event |
| USB FIFOs (*fw*`/hif/usb_api_main_patch.c`, *rom*`/hif/usb`) | command under assembly, event under transmission, command buffers, queue of events | packet in, packet out, event queued | host, HTC | state kept across packets, error paths that leave early |
| USB control transfers (*rom*`/hif/usb/src/usb_api.c`, *fw*`/hif/usb_api_*_patch.c`) | request under way, descriptor tables, configuration, map of endpoints | setup, data and status stage, reset, suspend, resume | host | a request given up half-way, a reset or a change of speed between two packets |
| Download, boot and restarts (*rom*`/hif/usb`, `athos`, *fw*`/init`) | `download_enable`, the magic word that survives a restart | download, jump to `app_start`, watchdog, cold reboot, suspend | host | the jump races with the answer; statics of the ROM outlive a restart of the firmware |
| Tasklets, timers (*rom*`/cmnos`), main loop (*fw*`/init/init.c`) | two linked lists, a clock that wraps around | schedule, run, arm, disarm | WLAN interrupt, main loop | a function changes the list that is being walked |
| Buffer pools (*fw*`/buf_pool`, *rom*`/vbuf`) | free lists | allocate, free | everybody | stale links |
| Beacons (*wlan*`/if_ath.c`) | one beacon buffer for all interfaces | send beacon, beacon alert, drain of the CAB queue | MAC, host | buffer replaced while in use |
| Rate control (*wlan*`/ratectrl_11n_ln.c`) | per station: valid rates, error estimates (PER), highest rate in use, probe | rate update, find rates, charge an outcome | transmit path, WMI | frames complete after the rates they were sent with have changed; estimates must stay ordered |
| HAL (*wlan*`/ar5416_*.c`) | registers, descriptor words | set-up, status, interrupts | MAC | register protocols |

What makes each correct: HTC neither creates, destroys nor withholds credits;
the transmit path loses no buffer, keeps the block-ack window equal to the
frames that are out, and never leaves frames with nobody to send them; a DMA
queue is a FIFO that returns every descriptor and wakes the engine; the receive
ring never loses the MAC, and passes whole frames up in order; WMI answers every
command whose handler has a reply; a status event tells the truth about the frames it names; the FIFOs
keep messages apart; a control transfer answers the request that was made, of
the image and the speed that hold now; the firmware finds its endpoints mapped
after every way to start it; a timer fires once per arming, in order; a frame
is sent at rates its station can receive.

`PROJECT.json` lists every component with its status, and under `hazards` the
places in the code the properties are aimed at.

## 2. Plan

Order by importance, what composes what, and what is done:

1. **Htc** (done): model, safety and liveness, proofs of all safety properties
   (`HtcProofs`).
2. **Baw**, **TxAggr** (done): window arithmetic as operators of its own, then
   the transmit path on top; types, a buffer in one place at most and none lost,
   the exact window, `axq_tidq` as a set, a reason for every pause, and no frame
   left behind proved (`TxAggrProofs`). Left: fragments, and `WindowExact` for hosts
   that drain the queue between sessions.
3. **DmaDesc**, **DmaQueue**, **UpQueue**, **DnQueue** (done), with the abstract
   specifications **UpFifo** and **DnFifo** they implement; safety and
   refinements proved (`UpQueueProofs`, `DnQueueProofs`).
4. **RxRing** (done): the receive ring against the MAC; safety proved
   (`RxRingProofs`).
5. **Wmi** (done): commands, events and the status of frames with their buffer
   pools; safety proved (`WmiProofs`). Left: the beacon buffer.
6. **Cmnos** (done): main loop, tasklets and timers, with wrap-around.
7. **UsbFifo** (done): assembly of commands and sending of events by packets;
   safety proved (`UsbFifoProofs`).
8. **UsbCtrl** (done): control transfers in ROM and firmware, with the download
   over USB and all restarts; safety proved (`UsbCtrlProofs`).
9. **RateCtrl** (done), model-checked only.

## 3. Modules

### Htc, MCHtc, HtcProofs

`HTC_CONTEXT` is the record `htc`; the functions handlers call
(`SendMsg`, `CheckAndSendCreditReport`, `ReturnBuffers`, `AdjustCreditThreshold`)
are operators from contexts to contexts, in the code's order. Each handler is one
action: `Ready`, `ConnectService`, `ConnectRefused`, `ConfigPipe`,
`SetupComplete`, `RecvCtrlMsg`, `RecvServiceMsg`, `RecvRedistribution`,
`ServiceReturn`, `ServiceReturnList`, `ServiceSend`, `SendDone`. `host`, `held`
and `lost` say where the credits are outside HTC; `HostReadsCredits` is the host
reading a trailer. A message is abstracted to its endpoint, its flags and how
many reports its trailer has room for. The host is the one the firmware is
written for: one request at a time during set-up, a credit for every message.

### Baw, TxAggr, MCTxAggr, TxAggrInv, TxAggrProofs

`Baw` holds the arithmetic of sequence numbers and of the window's ring as
functions of their arguments (`BawWithin`, `AddToBaw`, `UpdateBaw`, ...), with
both moduli as constants. `TxAggr` is one access category: `sc.tid[t]` is
`ath_atx_tid` (software queue, window, pause, clean-up, reinitialization),
`sc.axq` the hardware queue as a sequence of chains, `sc.tidq` the identifiers
waiting for a turn. `RecvData`, `RecvMgt`, `EnableAggr`, `DisableAggr`,
`NodeCreate`, `NodeCleanup` are messages of the host, `HwDone` the hardware
finishing a chain with any set of its frames acknowledged, `TxComplete` the
tasklet, `DrainStart`, `DrainNext`, `DrainEnd` the drain command, whose loop over
the stopped queue is taken apart because it can be long. A frame is its
completion function, identifier, sequence number and retries. Rate and length
appear as a nondeterministic number of frames that fit in an aggregate.

The host is restricted where `QuietHost` is true: it enables aggregation when no
frame it sent without is in flight and the sequence numbers dropped before do not
fill the window, and removes a station when its frames have come back. Section 7
says what TLC shows outside these restrictions.

### DmaDesc, DmaQueue, UpQueue, DnQueue, UpFifo, DnFifo, MCUpQueue, UpQueueProofs, DnQueueProofs

`DmaDesc` is the descriptor memory and what the code does to it: linking,
giving to the hardware, closing the ring around the terminator, the exchange of
the first descriptor with the terminator (`_vdesc_swap_vdesc`), finding and
taking out a packet. `DmaQueue` adds the state of one queue, the engine, and the
steps of `zfDmaPutPacket`: everything before the copy of the first descriptor
into the terminator, the copy, the write of the ownership bit that makes it
visible, the write to `DMA_START`. `UpQueue` is the queue to the host
(`_HIFusb_send_buffer`, the handler's loop over finished VBUFs), `DnQueue` a
queue from the host (`HIF_config_pipe`, the handler's loop over received
packets, `_HIFusb_return_recv_buf`).

The engine is external, modelled from how the code uses it: it follows
descriptors while they belong to it, stops at one that does not, writes
ownership back on a whole packet when it is complete, fills in `lastAddr` and the
last-segment bit on receive, raises an interrupt that reading clears, and is
started again by `DMA_START`. `hpdnQ` and `mpdnQ` work like `dnQ`. The owner
"software, with error" is folded into "software". A VBUF is its chain of
descriptors, and what a buffer contained is forgotten when it is returned.

`UpFifo` promises that messages are sent in the order they were given, completed
after they were sent (`Safety`), and all completed in the end; `DnFifo` that
messages of the host are passed up once, whole, in order, and has no fairness.
`UpQueue` and `DnQueue` implement them under the mappings `ImplementsFifo`, the
fairness of `UpFifo` included.

### RxRing, RxRingProofs

`sc` holds `sc_rxdesc`, `sc_rxdesc_idle`, `sc_rxdesc_held`, `sc_rxlink` and the
number of free receive buffers; `desc` the descriptors, each with its link, its
done bit and its buffer's segment and length; `ready` the `ath_rx_buf`s with
`ATH_BUFSTATUS_DONE`, `up` the messages HTC has not completed. `loc` is the
place in the main loop with the locals of the handler. Every iteration of a loop
is an action, so that the MAC (`HwReceive`, `HwAdvance`) acts between any two:
`StartRecv`, `StartStep`, `StartEnd` are `ath_startrecv`; `AthIntr`, `ScanMore`,
`ScanTake`, `TakeDesc`, `ScanEnd` are the interrupt handler with
`ath_uapsd_processtriggers`; `RxTasklet` the tasklet; `SendComplete`,
`CompleteStep`, `CompleteEnd` are `ath_rx_complete`; `StopRecv` the stop command.

The MAC is external: it fills the descriptor `RXDP` names, marks it done, reads
its link and moves on, or stops when the link is zero and reports it; `RXE`
makes it read the link again. A frame it cannot place yet waits in its FIFO.
`sent` and `cut` exist for the properties only.

### UsbFifo, UsbFifoProofs

`out` and `in` are the statics of `usb_reg_out_patch` (EP4, commands) and
`usb_status_in_patch` (EP3, events); `cmdQueue` the list of command buffers,
`eventBufQ` the events that wait. `RegOut` and `StatusIn` are one call of each
handler, that is one packet, and `StatusInNone` the call that finds nothing to
send and disables the interrupt. `RegOut` includes what
`HTCMsgRecvHandler_patch` does with a complete command: pass it up, answer a wrong
endpoint by writing an event straight into EP3 (`zfGenWrongEpidEvent`), or jump
to the ROM on a suspend command. A message is its number, kind and length; it
ends with its short packet, so lengths that are a multiple of the packet size
are excluded on both sides (`UsbFifoAssumption`).

Two error paths of `usb_reg_out_patch` are modelled as far as the handler's own
state goes. `cmd_len` is a `uint16_t` (`LenMod`): after a command too long for its
buffer everything is counted to it and dropped, until the length wraps; then
packets are written again, behind the last one written and so behind the buffer,
and the next short packet passes up `cmd_len` bytes from the buffer's start, which
is the beginning of the command that was too long (`wrapped`). What lies
behind the buffer is not modelled. And `usbfifo_get_command_buf` does not test for
an empty list: it reads and writes a link through NULL. Such an access need not stop
the firmware, as `usbfifo_get_event_buf` (`HIF_usb.c:104-117`) shows, which
writes through NULL at every poll that finds no event. So the list may stay empty and
the packet be dropped, or the list becomes whatever that word holds (`Wild`), or
there is an exception, whose handler jumps to the boot ROM (`RegOutWild`). With a
`Wild` pointer in use the model ends: `up` is false then as well.

### UsbCtrl, UsbCtrlProofs

One call of the polling task is one step, `RomTask` or `FwTask`: it reads the
interrupt sources once and runs reset, suspend, setup, data and status handlers
in the order of the code. `usb.v` are the statics of `usb_api.c`, `usb.regs` the
controller's registers, `usb.magic` the word in RAM by which the boot code tells
a watchdog reset, a suspend and a cold start apart. `AppStart` is the jump to a
downloaded image with the patches it installs. The host is external: it makes
one request at a time, may give it up at any packet and make another, resets,
suspends and may come back at the other speed. A packet is the name of what it
holds.

Stages that the code does not finish stay unfinished in the model. The ROM's task
does not handle `CMD_END` (`usb_api.c:1964-1990`), so a status stage that the host
begins early is never completed: the host waits in `st = "status"` until it makes
another request or resets, or the device restarts (`GiveUp`). The default case of the ROM's IN stage stalls
(`usb_api.c:403-405`); an unknown vendor request with data for the host
(`vendorin`) leads there. A new SETUP replaces the interrupt sources that are
pending for the stage the host gave up, as the controller ends that stage;
section 7 says what happens if it kept them.

### Cmnos

The main loop as `pc`, the tasklet list and the timer list with their links, the
clock modulo `Range`. `Isr` schedules what `ath_intr` schedules; `TaskletStart`
and `TaskletEnd` bracket a function, so that the list between them is the one it
sees; `TimerFire` takes the first timer that is due, and until `TimerReturn` the
function may arm and disarm timers, its own too. `left` is what the clients asked
for: the ticks until each timer is due, negative when it is late.

### Wmi, WmiProofs

The two pools, the messages on their way to the host, the two status events
`tx_status` and the interrupt mask. `RecvCommand` is a command with the handler it
is dispatched to and its reply; `Interrupt` is `ath_intr` with the tasklets it
schedules, in one step, since the main loop runs them before it looks for the next
message: beacon alert, beacon miss, fatal error, and the transmit tasklet, which
clears the status events, completes frames and sends what it gathered;
`SendComplete` returns a buffer to its pool. A frame's fate (acknowledged alone
or in an aggregate, failed, drained) is chosen. The host waits for the reply to a command
before the next one and gives up a frame whose status was lost.

Every handler of the dispatch table sends one reply, but one: that of
`WMI_ACCESS_MEMORY_CMDID` (`dispatch_magpie_sys_cmds`, `if_ath.c:1718-1722`) is only
a failing assertion. The operation `memory` is that command. Depending on the build
the assertion loops for ever (`halted`: the firmware does nothing more), or prints
and goes on, and the command is `dropped` without an answer. `CommandsAnswered` is
about the operations of `Replying`.

### RateCtrl, MCRateCtrl

The K2 build (`ratectrl_11n_ln.c`) for one station. `rc` is `TX_RATE_CTRL`: the
valid rates in order, `per`, `rateMaxPhy`, the probe. `NewAssoc` is a rate update
of the host (`rcSibUpdate_11n`), `FindRate` chooses the series of a frame,
`TxComplete` charges its outcome, in the steps of `rcUpdate_ht` (`NewPer`,
`ProbeEnd`, `CountClean`, `StepDownMax`, `KeepMonotone`, `Decay`). Time is left
out: whether an interval has passed is chosen at each use. `Init` leaves
`probeRate` open, because `cmnos_allocram` does not clear what it allocates.
`MCRateCtrl` has eighteen rows of `ar5416_11ngRateTable`: CCK, OFDM, and HT with
one and two streams in both widths, where rows with and without the short guard
interval alternate as they do in the table (`ar5416Phy.c:84-91`, `:105-113`). The
walks of `KeepMonotone` stop at the first row of another phy, as the loops of the code
do, so `PerMonotone` claims an order for neighbouring rows of one phy, which is less than
the comment at `ratectrl_11n_ln.c:875` says (section 7). `FourRates` assumes at
least four valid rates: with fewer, `rcSibUpdate_11n` reads `validRateIndex[k-4]`
before its start (`ratectrl_11n_ln.c:416`).

## 4. Runs

| Run | Checks | Bounds, and why they are enough |
|---|---|---|
| `htc` | safety of Htc and `CreditsReported` | one service endpoint beside endpoint 0, two control buffers, two outstanding reports, rooms 0 and 1, so that buffers run out and a trailer may or may not fit; thresholds of none, half and all credits |
| `tx_session` | TxAggr with sessions, stations and management frames; `WindowAdvances` | window 3 in a ring of 4 with sequence numbers modulo 8, so that the two wrap at different points; four buffers, one retry, one BAR retry, aggregates of two: a window can be full, an aggregate can lose one frame and keep one, a retry can run out |
| `tx_drain` | safety with two identifiers and drains | two identifiers share the hardware queue, window 2 |
| `tx_bufs` | `TxBufAvailable`, violated | a host without the restrictions of `QuietHost` |
| `up_queue` | safety and refinement of UpQueue | VBUFs of one, two and three descriptors: the single-descriptor case, the shortest chain with a middle, and enough packets for two to be queued behind one being sent |
| `dn_queue` | safety, refinement and `PacketsReaped` of DnQueue | three buffers and messages of one or two: the engine runs out in the middle of a message, two messages can wait to be reaped |
| `rx_ring` | safety and liveness of RxRing | five descriptors, frames of one to three: the longest frame the ring can take without meeting the very long packet; four frames and a restart: the pool runs dry, descriptors go idle and come back, the ring is passed more than once |
| `usb_fifo` | commands and events whole, in order, in the end | packets of 2 in buffers of 4: commands of one and two packets and one too long; two buffers and three commands: a buffer is reused, or the list runs empty; lengths modulo 8, so that `cmd_len` wraps within three commands; wrong endpoints and a suspend between |
| `usb_ctrl` | right answers, mapped endpoints, ends of transfers, report of a watchdog reset | no bound on requests, resets or restarts; descriptors and downloads of two packets, so that every transfer has a first, a last and a place in between to be given up or ended early; one request of each kind, known or not |
| `cmnos` | `TimersInOrder`, `NothingLost` | three timers (before, between and behind), delays up to 2 and two ticks in a turn, so that timers are late; the clock wraps at 13, the smallest range that `ClockAssumption` admits |
| `wmi` | `StatusRight`, `CommandsAnswered` | two buffers in each pool, one place in each status event, three frames: both events fill and a third status is lost; events fill their pool; commands with a reply, without one, and the one that may halt the firmware |
| `rate` | `RatesValid`, `PerMonotone` | five kinds of station, three completions, one rate update between or before them; success and failure at the first, at a later and at the last rate of a series; rows of two phys alternate |

`Htc`, `TxAggr`, `UpQueue`, `DnQueue` and `RxRing` state their type invariant as
`TypeOK`. Those of `Htc`, `RxRing` and `TxAggr` are proved as theorems; the types of
the other two are proved as parts of the inductive invariants of `UpQueueProofs` and
`DnQueueProofs`. The type invariants of `UsbCtrl`, `UsbFifo`
and `Wmi`, and those of the DMA queues that the proofs use, are parts of the
inductive invariants in the proof modules.

Deadlock is checked where the system always has something to do: `up_queue`,
`dn_queue`, `usb_ctrl` and `cmnos`. The other systems may rest when the host sends
nothing, no frame comes, or a bound is reached; in `wmi` a failed assertion also
stops the firmware: the handler of `memory` is one, and `CommandsAnswered` shows that
the one on a reply's buffer never fails.

### Fairness

- *Htc*: HIF completes every message it was given (`SendDone`), and a service
  returns what it keeps (a data frame when it completes). The host need not do
  anything.
- *TxAggr*: the hardware finishes the chain it is sending, and the main loop
  comes round to the tasklet (infinitely often there is no completion left to
  handle and no drain under way). Nothing need be acknowledged.
- *UpQueue*, *DnQueue*: a handler, once entered, and a put, once begun, go on to
  their end; a pending interrupt is handled; the engine transmits, or fills,
  what it has been given.
- *RxRing*: handlers go on to their end; `wlan_task` polls the WLAN interrupt and
  the USB completions in every turn, so both are strongly fair: one is not
  starved by the other. No frame need come.
- *UsbFifo*: the main loop polls both endpoints for ever; the host sends the rest
  of a command it has begun and polls its interrupt endpoint.
- *UsbCtrl*: the loops of ROM and firmware call their task again and again, the
  controller carries out the stage the host waits for, and the host polls EP3.
  No reset, restart or new request need come.
- *Cmnos*: the loop goes on, a function returns, the clock ticks.
- *Wmi*: a command that has arrived is taken, messages are written to the FIFO, the
  host reads it, all while the firmware has not halted. Interrupts need not come, and
  cannot keep a command waiting.

### Mutants

Each property of a passing run has a mutant in `PROJECT.json`: a definition of
the model changed the way a plausible slip in the code would change it, kept
beside the definition and named after it with a suffix (`Enqueue_Again`). With
the mutant in place TLC finds the property violated. `SingleLast_Missing` is
worth a note: without the line of `desc.c` that it removes, everything works as
long as no second packet is queued.

### Exceptions inside properties

Some properties except behaviour that the code really has (section 7): `silenced`
and `torn` in UsbFifo, and `~up` in its `EventsDelivered`; `wrapped` in
`CommandsWhole`; `Unanswered` in UsbCtrl, and the status stage that the ROM leaves
waiting in `TransferEnds`; commands without a reply in `CommandsAnswered`; frames of
an aggregate in `StatusRight`; `taint` in `RatesValid`; and rows with another phy
between them in `PerMonotone`. Each exception is as narrow as the
runs allow, and its case is reached in the run.

## 5. Proofs

Every proof is for every value of the constants that satisfies the assumptions
named; the runs check them on their instances. None of the properties is
inductive, so each module proves one inductive invariant and reads the properties
off it.

**HtcProofs**, from `HtcAssumption`: every safety property of `htc`, and beyond
them `TypeOK` and `ThresholdReachable`. The invariant `HtcInv` says of the context
that

- its fields have their types, and the pool and the wire partition the control
  buffers;
- the marks of credit reports refer to endpoints;
- credits are balanced for each endpoint over the host, the wire, the services
  and HTC;
- no threshold is beyond the credits that can come back;
- `HTC_SEND_CREDIT_UPDATE_SOON` is set only while a control buffer is on the wire;
- no endpoint the host is short on has reached its threshold without being marked
  or promised, and during set-up the dialogue has its buffer.

The argument follows the code: a lemma for each operator on contexts
(`SendMsgInv`, `CheckAndSendInv`, `ReturnBuffersInv`, `SendCompleteInv`, ...) says
which part it preserves, where `CheckAndSendCreditReport` is what restores the
last one after `AddCredits` has disturbed it for one endpoint; a lemma for each
group of actions composes them.

**UsbCtrlProofs**, from `SizesAssumption`: `EndpointsReady`, `AnswersRight`, and
`NoReportAfterSuspend`. `AnswersRight` speaks of what the host has read; the
invariant has to say what it is going to read. `Transfer` relates the request the
host is in to the statics of the code: which packet is in the FIFO, how much of
the descriptor is left, how far a download has come; `AnswerLeft` says that an answer
under way has something left, and no more than its table; `SetupPending` and
`TokenServed` say which stage the controller waits for, `TablesOfSpeed`, `Mapped`
and `MagicWord` what a reset, a change of image and a restart leave behind. The
statics of the ROM that a restart of the firmware does not clear are why the last
three are needed in both images.

**UsbFifoProofs**, from `UsbFifoAssumption`: `CommandsWhole` and `EventsWhole`. The
command side of the invariant (`HostSending`, `InEp4`, `Receiving`, `PassedWhole`)
says that the buffer under assembly either holds a prefix of one command, the packets
in EP4 and with the host being the rest (`InStep`), or begins with a command that
was too long for it, whose length is beyond the buffer or has wrapped (`TooLong`);
whatever is passed up later is of a command at least as late. The event side (`EventQueue`, `HalfSent`,
`Delivery`, `ReceivedWhole`) says the same of the event under transmission, with
the packet in EP3 either taken or on its way, and lets go of an event only when it
is `torn`.

**WmiProofs**, from `PoolAssumption`: `StatusRight`, and that the assertion on the
buffer of a reply never fails, which is the safety half of `CommandsAnswered`. The
invariant counts the buffers of each pool against the messages on the wire that
will return to it, says that every entry of the two status events and of every
unread message names a frame of its own, and that its flags are the frame's fate
with the exception of section 4. The transmit tasklet handles a set of frames by
a fold; a set induction shows that each frame handled keeps the invariant.

**UpQueueProofs**, from `UpAssumption` and `DescAssumption`: `BuffersComeBack`,
`DescConservation`, and `Spec => Fifo!Safety`, the refinement but for its fairness.
Descriptors of different VBUFs are exchanged by every put, so that nothing can be
said of a packet by its descriptors. The invariant names them by the buffers they
carry (`Holder`): the packets of the VBUFs in the list are linked in that order up
to the terminator (`QueueLinked`), the one being put up to the step it is in
(`PutLinked`), the engine is at the place that `read` says (`EngineAt`), and idle
VBUFs are whole chains (`IdleWhole`). That walking a chain yields its segments
(`ChainTo`) is proved by set induction over its length.

**DnQueueProofs**, from `DnAssumption` and `NullAssumption`: `DescConservation`,
`EngineArmed`, and `Spec => ImplementsFifo` in full. Here the lengths of messages
are the host's choice, so the invariant says that there is a numbering `Q` of the
queue's places and a sequence `S` of the bounds of messages such that from the
head to the terminator lie the messages received, the one under reception and the
free buffers (`Ring`, `Received`, `Free`), with the engine where the bounds say
(`EngineAt`), the VBUFs above apart from the queue (`Apart`), every descriptor
accounted for (`Covered`), and the chain being put linked and given as its step
says (`PutOf`). A put appends a chain to the numbering, a reap drops the first
message from it, the engine adds a bound.

**RxRingProofs**, from `RxAssumption`: `BufferConservation`, `HwInRing`,
`WholeFramesInOrder` and `TypeOK`. `HwInRing` speaks only of the descriptors from
the MAC on; to keep it, one has to know those the MAC has left as well. The
invariant has three forms. Before the first start (`Fresh`) no descriptor has a
buffer. While `ath_startrecv` runs (`Building`) the first `k` descriptors of the
list have been handed in. Otherwise (`Running`) there are `z` and `w` such that the
first `z` descriptors are linked in order, all but the last carry a buffer, and
the first `w` of these are done (`Ring`); `z` falls behind the end of the list only
when a stop, or an `ath_rxdesc_init` while reception is off, has cut the chain. The done
descriptors hold the segments of successive frames (`Contents`), with the lengths
the handler has set (`Lengths`); the MAC stands at the last done descriptor or the
one after it (`MacOn`); and what the handler has looked at is the beginning of one
frame that the MAC has left (`Scanned`). That a descriptor is handed in only when the
MAC is past it is what `ar5416ProcRxDescFast_20` provides, and why the handler never
takes the last descriptor. `Balanced` counts the buffers: none is lost in the
first start, and while a descriptor is idle the pool is empty, so that a frame must
be on its way (`IdleHasFrame`) and its completion brings the descriptor back.

**TxAggrProofs**, from `TxAssumption` (the identifiers are finitely many) and
`BawAssumption`, with no restriction of the host but where one is named:
`TypeCorrect`, `BuffersOnce` and `TidqIsASet`. The invariants and the words the
lemmas are stated in have a module of their own, **TxAggrInv**. The invariant `IInv` is about the
record `sc` (`Good`): every chain of the hardware queue is a single frame or an
aggregate of frames of one identifier, and every frame of a software
queue belongs to its identifier (`States`); buffers free, and frames the host is
owed, are together no more than there are buffers, and no fewer frames are owed than
the queues hold (`BufferOnce`); and `axq_tidq` holds exactly the identifiers whose
`sched` is set, each once (`Linked`). A completion is a composition of operators, so
the argument is one too: `Keeps(s, v, d)` says that the step from `s` to `v`
leaves the types, `free + held` and `Linked` as they should be and adds at most
`d` to the buffers that are free or queued. Every operator of the model has one
lemma of this form, from `EmptyKeeps` to `CompleteKeeps`, and the lemmas of an
operator cite those of the operators it calls. In `CompAggr` the
frames retried, the frames freed and the BAR add up to the chain; in `CompCleanup`
the frames after `incomp` are forgotten, as the loop in the code does. That `txdone`
implies a chain at the head of the queue needs a second, shorter line of lemmas
(`SchedFills` to `CleanupFills`): what runs beside the hardware only adds chains.

`BuffersOnce` is the half of `BufferConservation` that holds whatever the host
does: nothing is freed twice. `TidqIsASet` is `TidqOnce` for a host that
creates no further station: `owl_tgt_tid_init` clears `sched` without a look at
`axq_tidq`.

The second part of the module proves what needs the meaning of the window:
`BuffersKept` (`BufferConservation`), `BufferAtHand` (`TxBufAvailable`),
`WindowMatches` (`WindowExact`) and `PausesEnd` (`PausedHasReason`). Their
hypotheses name the host and the sizes for which they are true:

- `QuietHost`, the restrictions of section 3. Section 7 says what happens without
  each of them, and the finding of section 6 is `TxBufAvailable` without it.
- `BawSize + NumBufs < SeqMax`: a session's sequence numbers outlast the window and
  the buffers together. In the firmware there are 4096 numbers, a window of 64 and
  `ATH_TXBUF + 1` buffers, at most 46.
- For the first two theorems, a host that drains does not remove stations as well;
  for the last two, no drain. A drain moves the tail of the window and leaves the
  bits, so that the window says too much as soon as the session goes on.

The four rest on one invariant, `SInv`, beside `IInv`. Every identifier is in order
with the hardware queue (`SessOk`, and with it `TidSess`):

- In that queue, the frames of a session have distinct numbers (`Separate`), and no
  frame sent without aggregation is before them (`InOrder`). `Flight` is the set of
  the numbers.
- While it aggregates, `InWindow`: the window holds a bit for each frame in flight
  and each waiting for a retry, and, without drains, no other (`Holds`); no frame is
  both; the frames of the software queue that were never sent are its last ones and
  have the last numbers before `seq_next`, in order and behind the window's tail
  (`Fresh`, `Ahead`); those that wait for a retry are distinct (`Once`).
- Otherwise `Ended`: the queue and the window are empty, and `incomp` counts the
  frames in flight, so that a clean-up ends with the last of them.
- A paused identifier has a clean-up or a BAR in flight (`Waits`).

The host is owed exactly the frames in the queues, and these and the free buffers
are all there are (`Even`); when the station is gone, no frame is held (`Gone`).
`WindowExact` alone is not inductive: that a retry finds its own slot and a new frame
does not land on a set one follows only from the order of the software queue, and
that a clean-up frees every buffer only from `incomp`. In the middle of
a completion the chain has left the hardware queue but its frames are still in the window;
`Owes(s, t, Y)` says that identifier `t` is in order when `Y` is added to what is in flight, and
the lemmas of the completion operators (`CompAggrSess`, `CompCleanupSess`,
`CompBarSess`, ...) lead from `Owes` back to `SessOk`. Below them are lemmas about
the window alone: what adding, updating and closing do to `Holds` (`AddHolds`,
`UpdateHolds`, `CloseHolds`), for one frame and folded over a chain
(`SendWindow`, `UpdateAllHolds`), on the arithmetic of the two rings (`RingSum`,
`RingNearer`, `SlotsApart`).

The third part proves `NoStuckOne`: with one identifier on the access category and
no drain, `NoStuckTid` holds, for the hosts and sizes above. With two
identifiers section 7 shows that it does not: the turn of a completion can go to an
identifier that has nothing to send. The invariant is `Brisk`, beside `IInv` and
`SInv`:

- `Prompt`: `sched` means that the identifier is in `axq_tidq`, and frames of an identifier
  that is not paused have it set. In the middle of an operator one
  identifier is without the second half (`AllBut`), and `Enqueue`, a pause, or an
  empty queue makes it whole again.
- `Idle`: with an empty hardware queue no frame waits.
- `Lead`, for an identifier that aggregates: when the window marks no frame, it has no
  slots either, and the numbers given out, less those of the software queue, are fewer
  than `BawSize`. This is what `Idle` needs and what is not obvious: a schedule sends nothing
  when the first frame lies outside the window, so somebody must have moved the
  window far enough. `ath_tx_update_baw` does, since its loop goes on to the tail when
  no bit is left (`UpdateLead`), and a host that enables aggregation again has
  to wait for it (`QuietTid`).

With `Lead`, and nothing in flight, the first frame of a queue always fits: a frame to
retry is in the window, and a new one follows its tail (`FirstFits`). So a schedule
that finds the identifier sends a chain (`SchedSends`, `ScheduleIdle`), and
`ath_tgt_handle_aggr` sends at once what finds the hardware queue empty
(`NoneWaits`).

Induction over the length of a chain or a fold is done in these modules by a
lemma about sets (`SetInduction`: a set of naturals with zero and successors is
all of them), which the provers can instantiate where they cannot instantiate an
operator.

Only model-checked: everything under fairness, which is out of the prover's reach
(`CreditsReported`, `WindowAdvances`, the fairness of `UpFifo`, `PacketsReaped`,
the liveness of RxRing, UsbFifo, UsbCtrl, Wmi and Cmnos), the operator `ENABLED`
it rests on; `WindowExact` of TxAggr in the run `tx_drain`, whose host
drains the queue; and all of Cmnos and RateCtrl, for
which no inductive invariant has been proved.

## 6. Findings

- `tx_bufs`: `ath_tgt_send_mgt` keeps the transmit buffer when the station of a
  management frame is gone. The host gets its credit back, and the data frame it
  then sends finds no buffer, which `ath_tx_buf_alloc` asserts cannot happen.

## 7. Behaviours outside the runs that TLC shows

No document of the repository says otherwise, or only a comment beside the code;
each was seen by lifting a restriction, or is one of the exceptions named in
section 4, unless it is marked *read*, which was seen in the code only.

HTC and transmit path:

- `HTCCheckAndSendCreditReport` does not clear the mark of a reused control buffer
  when it sends a report for no particular endpoint, so that its completion counts
  `PendingCreditReports` down twice (`htc.c:705`): the counter goes below zero and
  no longer limits the reports of the endpoint.
- A clean-up that ends with an aggregate does not look at `TID_REINITIALIZE`; the
  identifier of a station created again meanwhile drops every frame from then on.
- Two identifiers, sessions torn down: an identifier emptied by its clean-up stays
  in `axq_tidq` and uses the only turn of a completion. The identifier behind it
  waits with the hardware queue empty until something else is sent.
- A drain leaves the window's bits; if a session is torn down and set up again, the
  window runs over stale bits and stops.
- Frames sent before aggregation was enabled are counted by a later clean-up:
  `incomp` reaches zero early, and the loop over an aggregate ends with frames left
  over, which are lost.
- A station created again while its identifier is linked in `axq_tidq`: the
  identifier is linked twice.
- Sessions torn down again and again without a transmission push `seq_next` out of
  the window of `seq_start`.

Receive:

- One of the receive buffers is lost for good when the first message
  completes with no idle descriptor (`BufferConservation` allows for it, and shows
  there is never a second). A frame in the last descriptor of the list waits until
  another frame comes. Reception restarted while the handler had seen part of a
  frame leaves a length in the buffer, and the next frame in it is sent with the
  wrong length (`cut` in `WholeFramesInOrder`).

USB:

- The ROM leaves SET_INTERFACE, and SET_CONFIGURATION with an unknown value,
  neither done nor stalled, where the comments at `usb_api.c:813` and `:933` speak
  of a stall.
- A command longer than its buffer does not set `cmd_is_new` again: every later
  command is taken for the rest of it and dropped. When the `uint16_t` `cmd_len` has
  wrapped, packets are written behind the buffer, and the next short one passes up
  the beginning of the long command with a wrong length (`wrapped`).
- With no free command buffer, `usbfifo_get_command_buf` takes one through NULL; the
  list is then whatever was read there.
- The ROM never completes a status stage that the host begins before it has read
  all the data: the host has to give up or reset. In its IN stage a request
  the default case stalls writes BIT6, where every other stall writes BIT2.
- If a SETUP did not replace the pending interrupt sources of the stage before it,
  `AnswersRight` would fail: the pending IN of a descriptor given up sends its last
  packet and sets `ACT_DONE`, which the new GET_DESCRIPTOR does not clear, so that
  the new answer is ended after its first packet.
- A wrong endpoint's event is written into EP3 whatever is there: it may tear an
  event that is on its way (`torn`), and it disables the interrupt, after which
  events wait until another is queued (`silenced`).
- A SETUP that arrives before the task has seen the reset is answered from the
  tables of the old speed.

WMI and transmit status:

- `ath_tx_status_update_aggr` never resets the flags of a place: a failed frame of an
  aggregate may be reported with the ACK flag of the frame reported there before.
- Drained frames are recorded as sent; they are not reported only because every
  tasklet begins with `ath_tx_status_clear`.
- Statuses beyond two events, or without a buffer for the event, are lost (the
  FIXME at `if_owl.c:615`); the host has to give these frames up by itself.
- `WMI_ACCESS_MEMORY_CMDID` is dispatched to an assertion that fails, and is never
  answered; in the builds whose assertion loops, the firmware halts.
- The fatal event is lost if there is no event buffer, while the interrupts stay
  disabled until the host enables them.

Tasklets:

- *Read*: `cmnos_tasklet_disable`, which nothing calls, drops the rest of the list when it
  disables its head; a tasklet that schedules itself would be listed and marked
  disabled.

Rate control:

- A probe sent before a rate update that succeeds after it makes its rate
  `rateMaxPhy` although it is no longer valid (`taint`). There is then no next valid rate to
  probe, and a frame may be given the invalid rate, or the lowest one, until
  failures lower `rateMaxPhy`.
- The loops that keep the error estimates ordered stop at the first row of another
  phy, where the comment (`ratectrl_11n_ln.c:875`) speaks of an order within a phy.
  Rows of two phys alternate in the table, so the order is kept between neighbours
  only: a failure charged to 39 Mb (estimate 30) and a successful probe at 52 Mb
  (estimate 27) leave the higher rate of the same phy with the lower estimate, the row of
  43.3 Mb with the short guard interval being between them.
- *Read*: with fewer than four valid rates `rcSibUpdate_11n` reads before the start of
  `validRateIndex` (`FourRates`).
- *Read*: `rcRateFind_ht` compares a throughput scaled by 100 - PER with an unscaled one,
  so that its search stops at the first rate whose PER is below 100.

## 8. Not modelled

The components marked `not_modelled` or `partly` in `PROJECT.json`, with the
reason. In short:

- GMAC and PCI, their DMA library, and the download by HIF messages that goes with
  them: the firmware configures USB only.
- The hardware abstraction layer: it reads and writes registers and descriptor
  words, and what those mean to the other parts is in their modules. The headers,
  more than half of the lines of the tree, define registers, constants and types,
  many of them twice, for ROM and firmware.
- The beacon buffer (one for all interfaces; a beacon that arrives after its
  interface was removed meets the assertion that there is a buffer), `ath_detach_tgt`,
  after which the driver is not used again, and fragments.
- `cmnos_tasklet_disable`, which nothing calls; allocation without release, clocks,
  printing, EEPROM and flash access: sequential code with no state that another
  part waits for.

In the modelled parts: byte order, lengths (but for receive buffers and USB
packets), descriptor contents, time stamps, statistics, printing.
