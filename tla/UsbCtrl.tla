------------------------------ MODULE UsbCtrl ------------------------------
(***************************************************************************)
(* Control transfers of the USB device, in the boot ROM and in the         *)
(* firmware, and the restarts between the two: download, suspend, cold     *)
(* reboot and watchdog.                                                    *)
(*                                                                         *)
(* One call of the polling task (_usb_rom_task, _usb_fw_task) is one step: *)
(* it reads the interrupt sources once and runs its handlers in a fixed    *)
(* order.  What the task keeps between calls is in usb: the statics of     *)
(* usb_api.c, the registers of the controller and the magic word that      *)
(* survives a restart.  The host is external: one request at a time, given *)
(* up when it likes, with resets, suspends and changes of speed between.   *)
(* Data goes in packets of EP0MAXPACKETSIZE; a packet is the name of what  *)
(* it holds.                                                               *)
(***************************************************************************)
EXTENDS Naturals, Sequences, FiniteSets

CONSTANTS
    DownloadPackets,    \* packets of one download request
    StringPackets       \* packets of the longest descriptor, a string

ASSUME SizesAssumption == DownloadPackets \in Nat \ {0} /\ StringPackets \in Nat \ {0}

VARIABLES
    usb,      \* the device
    host,     \* the request of the host: its stage and the data it got
    ep3       \* EP3: what is in its FIFO, and whether the host has heard,
              \* while the ROM runs, of a reset by the watchdog

vars == <<usb, host, ep3>>

Speeds == {"high", "full"}

\* Requests with data for the host, with data from it, and without data.
\* "config" stands for the configuration, the other speed's and the device
\* qualifier, which are chosen together, "value" for the short answers that
\* never fail (status, configuration, flash), "plain" for set address and the
\* features, "vendor" and "vendorin" for vendor requests the device does not
\* know, the second with data for the host.
InRequests == {"device", "config", "string", "value", "getinterface",
               "dlcomp", "badget", "vendorin"}
OutRequests == {"download"}
PlainRequests == {"setconfig", "unsetconfig", "badconfig", "setinterface", "plain", "vendor"}
Requests == InRequests \cup OutRequests \cup PlainRequests
VendorRequests == {"download", "dlcomp", "vendor", "vendorin"}

\* Requests the device may leave without a word: neither done nor stalled.
Unanswered == {"badconfig", "setinterface", "vendor"}

RomEndpoints(v) == IF v = "high" THEN 1..6 ELSE 1..5

\* The statics of usb_api.c when the ROM starts.
Statics ==
    [tables   |-> "none",       \* u8ConfigDescriptorEX: of which speed, or none
                                \* while UsbChirpFinish is FALSE
     config   |-> 0,            \* u8UsbConfigValue
     cmd      |-> "void",       \* eUsbCxCommand
     left     |-> 0,            \* u16TxRxCounter, in packets
     ptr      |-> << >>,        \* pu8DescriptorEX: the packets from here on
     download |-> FALSE]        \* download_enable

\* The controller when its PHY is initialized (cFUSB200Init).
PhyInit ==
    [src0 |-> {}, src7 |-> {}, setup |-> "none", fifo |-> << >>, cx |-> "idle",
     configured |-> FALSE, mapped |-> {}]

(* Seeded fault: the event is armed after a suspend instead.               *)
UsbInit_Suspend(s) ==
    LET regs == IF s.magic = "cold" THEN PhyInit ELSE s.regs
    IN  [s EXCEPT !.image = "rom", !.v = Statics, !.regs = regs, !.ep3int = s.magic = "sus"]

\* bootentry, _usb_init: a restart, whose cause is in the magic word.  Only
\* a cold one touches the controller; the watchdog's is to be reported.
UsbInit(s) ==
    LET regs == IF s.magic = "cold" THEN PhyInit ELSE s.regs
    IN  [s EXCEPT !.image = "rom", !.v = Statics, !.regs = regs, !.ep3int = s.magic = "wdt"]

Idle(st) == [st |-> st, req |-> "none", got |-> << >>, out |-> 0]

Init ==
    /\ usb = UsbInit([image |-> "rom", magic |-> "cold", ep3int |-> FALSE,
                      speed |-> "high", v |-> Statics, regs |-> PhyInit])
    /\ host = Idle("off")
    /\ ep3 = [fifo |-> "empty", got |-> FALSE]

----------------------------------------------------------------------------
(* EP0: the handlers take the device and return it; act is                 *)
(* eUsbCxFinishAction, which the task consumes at its end.                 *)

Done(s) == [s EXCEPT !.regs.cx = "done"]
Stall(s) == [s EXCEPT !.regs.cx = "stall", !.regs.fifo = << >>]

\* vUsbEP0TxData: the FIFO is empty or is cleared, then a packet goes in.
EP0TxData(s) ==
    LET rest == s.v.left - 1
        t == [s EXCEPT !.regs.fifo = <<Head(s.v.ptr)>>, !.v.ptr = Tail(@), !.v.left = rest]
    IN  IF rest = 0 THEN Done([t EXCEPT !.v.cmd = "void"]) ELSE t

(* Seeded fault: the end of the data stage is missed when the last packet  *)
(* is full.                                                                *)
EP0RxData_NoEnd(s) ==
    IF s.v.left = DownloadPackets
    THEN [s EXCEPT !.v.left = @ - 1]
    ELSE [s EXCEPT !.v.left = @ - 1, !.v.cmd = "void"]

\* vUsbEP0RxData
EP0RxData(s) ==
    LET t == [s EXCEPT !.v.left = @ - 1]
    IN  IF t.v.left = 0 THEN Done([t EXCEPT !.v.cmd = "void"]) ELSE t

\* vUsb_ep0tx, vUsb_ep0rx: continue the data stage of a request begun.  A
\* packet asked for when there is no descriptor to send stalls EP0 (BIT6 of the
\* status register, by its comment; the other stalls of the code write BIT2).
Ep0Tx(s) == IF s.v.cmd = "get" THEN EP0TxData(s) ELSE [s EXCEPT !.regs.cx = "stall"]
Ep0Rx(s) == IF s.v.cmd = "set" THEN EP0RxData(s) ELSE s

\* A short answer in one packet.
Value(s, x) == Done([s EXCEPT !.regs.fifo = <<x>>])

\* The descriptor asked for, in packets.  The firmware's device descriptor
\* has its own signature (bGet_descriptor_patch).
Descriptor(s, r) ==
    CASE r = "device" -> <<<<"device", s.image>>>>
      [] r = "config" -> <<<<"config", s.v.tables>>>>
      [] r = "string" -> [i \in 1..StringPackets |-> <<"string", i>>]

\* bGet_descriptor: the first packet; the command stays for the others.
GetDescriptor(s, r) ==
    LET d == Descriptor(s, r)
        t == EP0TxData([s EXCEPT !.v.ptr = d, !.v.left = Len(d)])
    IN  IF t.v.left > 0 THEN [t EXCEPT !.v.cmd = "get"] ELSE t

\* vUsbFIFO_EPxCfg_HS and _FS: configuration 1 maps its endpoints.
EPxCfg(s) ==
    IF s.v.config = 1
    THEN [s EXCEPT !.regs.mapped = @ \cup RomEndpoints(s.speed)]
    ELSE s

\* vUSBFIFO_EP6Cfg_FS_patch
EP6Cfg(s) == [s EXCEPT !.regs.mapped = @ \cup {6}]

\* bSet_configuration, with a value of the table.
SetConfiguration(s) ==
    Done([EPxCfg([s EXCEPT !.v.config = 1]) EXCEPT !.regs.configured = TRUE])

\* bSet_configuration_patch
SetConfig(s) ==
    IF s.image = "fw" /\ s.speed = "full"
    THEN EP6Cfg(SetConfiguration(s))
    ELSE SetConfiguration(s)

\* bSet_configuration with a value outside the table; the firmware
\* ends the request whatever the handler returns (bStandardCommand_patch).
BadConfiguration(s) == IF s.image = "fw" THEN Done(s) ELSE s

\* bGet_interface, bSet_interface
GetInterface(s) ==
    IF s.regs.configured /\ s.v.config = 1
    THEN Value([s EXCEPT !.v.left = 1], <<"interface">>)
    ELSE Stall(s)
SetInterface(s) == IF s.regs.configured THEN Done(EPxCfg(s)) ELSE s

\* bGet_status, bGet_configuration; bSet_feature, bClear_feature, bSet_address
GetValue(s) == Value(s, <<"value">>)
SetFeature(s) == Done(s)

StandardCommand(s, r) ==
    CASE r \in {"device", "config", "string"} -> GetDescriptor(s, r)
      [] r = "value"        -> GetValue(s)
      [] r = "getinterface" -> GetInterface(s)
      [] r = "badget"       -> Stall(s)
      [] r = "setconfig"    -> SetConfig(s)
      [] r = "unsetconfig"  -> Done([s EXCEPT !.v.config = 0, !.regs.configured = FALSE])
      [] r = "badconfig"    -> BadConfiguration(s)
      [] r = "setinterface" -> SetInterface(s)
      [] r = "plain"        -> SetFeature(s)

\* The data of a download go to memory as they come; its completion is
\* answered and ends bootload.  What it does not know it leaves alone.
VendorCommand(s, r) ==
    CASE r \in {"vendor", "vendorin"} -> s
      [] r = "download" -> [s EXCEPT !.v.cmd = "set", !.v.left = DownloadPackets]
      [] r = "dlcomp"   -> Value([s EXCEPT !.v.download = TRUE], <<"complete">>)

\* vUsb_ep0setup: the descriptor tables are chosen by the speed of the bus,
\* once after a reset.
Ep0Setup(s) ==
    LET t == IF s.v.tables = "none" THEN [s EXCEPT !.v.tables = s.speed] ELSE s
    IN  IF s.regs.setup \in VendorRequests
        THEN VendorCommand(t, s.regs.setup)
        ELSE StandardCommand(t, s.regs.setup)

\* vUsb_ep0end: the host has begun the status stage.  Only the firmware's task
\* looks at the bit; the ROM's never sets CX_DONE for it.
Ep0End(s) == IF s.image = "fw" THEN Done([s EXCEPT !.v.cmd = "void"]) ELSE s

\* The handlers of EP0, in the order of the task.
Ep0(s) ==
    LET on(b) == b \in s.regs.src0
        tx == IF on("in") THEN Ep0Tx(s) ELSE s
        rx == IF on("out") THEN Ep0Rx(tx) ELSE tx
        su == IF on("setup") THEN Ep0Setup(rx) ELSE rx
        en == IF on("end") THEN Ep0End(su) ELSE su
    IN  [en EXCEPT !.regs.src0 = {}, !.regs.setup = "none"]

----------------------------------------------------------------------------
(* Group 7: reset, suspend, resume.                                        *)

(* Seeded fault: the descriptor tables stay those of the former speed.     *)
Reset_KeepsTables(s) == s

\* vUsb_rst
Reset(s) == [s EXCEPT !.v.tables = "none"]

\* _fw_usb_suspend_reboot, zfResetUSBFIFO_patch, zfTurnOffPower_patch: the
\* cause is recorded, the event disarmed, and the ROM started again.
SuspendReboot(s) == UsbInit([s EXCEPT !.magic = "sus", !.ep3int = FALSE])

BusEvents(s) ==
    LET r == IF "reset" \in s.regs.src7 THEN Reset(s) ELSE s
        t == [r EXCEPT !.regs.src7 = {}]
    IN  IF "suspend" \in s.regs.src7 /\ s.image = "fw" THEN SuspendReboot(t) ELSE t

\* The interrupt of EP3: enabled, and the FIFO can take a packet.
Ep3Asks == usb.ep3int /\ ep3.fifo = "empty"

\* The FIFO of EP3 reset: bit 4 of its control register.
Flushed == [ep3 EXCEPT !.fifo = "empty"]

\* zfGenWatchDogEvent
GenWatchDogEvent == IF Ep3Asks THEN [ep3 EXCEPT !.fifo = "watchdog"] ELSE ep3
Disarmed == IF Ep3Asks THEN [usb EXCEPT !.ep3int = FALSE] ELSE usb

Polls == usb.ep3int \/ usb.regs.src0 # {} \/ usb.regs.src7 # {}

\* bootload, _usb_rom_task
RomTask ==
    /\ usb.image = "rom" /\ ~usb.v.download
    /\ Polls
    /\ ep3' = GenWatchDogEvent
    /\ usb' = BusEvents(Ep0(Disarmed))
    /\ UNCHANGED host

\* What the host does about a request it is in when the device restarts.
GiveUp == IF host.st \in {"wait", "status"} THEN Idle("idle") ELSE host

\* _usb_fw_task: EP3 without an event to send is disarmed (the events of the
\* firmware are in UsbFifo).  A suspend flushes EP3 and restarts the ROM, and
\* what the host waits for is lost with it.
FwTask ==
    /\ usb.image = "fw"
    /\ Polls
    /\ usb' = BusEvents(Ep0(Disarmed))
    /\ host' = IF usb'.image = "rom" THEN GiveUp ELSE host
    /\ ep3' = IF usb'.image = "rom" THEN Flushed ELSE ep3

(* Seeded fault: the firmware does not complete the ROM's configuration.   *)
AppStart_NoEp6 ==
    /\ usb.image = "rom" /\ usb.v.download
    /\ usb' = [usb EXCEPT !.image = "fw", !.magic = "wdt", !.v.download = FALSE]
    /\ ep3' = [ep3 EXCEPT !.got = FALSE]
    /\ UNCHANGED host

\* bootload ends and app_start takes over: from now on a restart that nobody
\* announces is the watchdog's, and EP6 is mapped at full speed.
AppStart ==
    /\ usb.image = "rom" /\ usb.v.download
    /\ LET s == [usb EXCEPT !.image = "fw", !.magic = "wdt", !.v.download = FALSE]
       IN  usb' = IF s.speed = "full" THEN EP6Cfg(s) ELSE s
    /\ ep3' = [ep3 EXCEPT !.got = FALSE]
    /\ UNCHANGED host

\* The CPU restarts: by the watchdog, which leaves the magic word as it is,
\* or by cold_reboot and exception_reset, which clear it.
Restart(s) ==
    /\ usb.image = "fw"
    /\ usb' = UsbInit(s)
    /\ host' = IF s.magic = "cold" THEN Idle("off")
               ELSE GiveUp

\* An event of the firmware may wait in EP3 when the watchdog bites.
WatchdogReset ==
    /\ Restart(usb)
    /\ \E f \in {ep3.fifo, "event"} : ep3' = [fifo |-> f, got |-> FALSE]

ColdReboot ==
    /\ Restart([usb EXCEPT !.magic = "cold"])
    /\ ep3' = Flushed

----------------------------------------------------------------------------
(* The host and the controller.                                            *)

\* A reset of the bus: the controller drops what it was doing.  It may come
\* up at another speed, and without its map of endpoints.
HostReset ==
    /\ \E v \in Speeds :
         usb' = [usb EXCEPT !.speed = v, !.regs = [PhyInit EXCEPT !.src7 = {"reset"}]]
    /\ host' = Idle("idle")
    /\ UNCHANGED ep3

\* The bus is suspended, what the host waited for given up.
HostSuspend ==
    /\ host.st # "off"
    /\ usb' = [usb EXCEPT !.regs.src7 = @ \cup {"suspend"}]
    /\ host' = Idle("idle")
    /\ UNCHANGED ep3

\* A request begins; one that the host waited for is given up.  The host waits
\* after a reset until the device had the time to handle it, and while the bus
\* is suspended.  A SETUP replaces what was pending of the request given up: the
\* controller is taken to abort it (the code clears BIT7, "command abort", and
\* looks at the other bits as they are).
HostSetup(r) ==
    /\ host.st # "off"
    /\ usb.regs.src7 = {}
    /\ usb' = [usb EXCEPT !.regs.src0 = {"setup"}, !.regs.setup = r,
                          !.regs.fifo = << >>, !.regs.cx = "idle"]
    /\ host' = [st |-> "wait", req |-> r, got |-> << >>,
                out |-> IF r \in OutRequests THEN DownloadPackets ELSE 0]
    /\ UNCHANGED ep3

Between == host.st = "wait" /\ usb.regs.src0 = {}

\* A packet to the host; from an empty FIFO the device is asked for one.
HostIn ==
    /\ Between
    /\ host.req \in InRequests
    /\ usb.regs.cx # "stall"
    /\ \/ /\ usb.regs.fifo # << >>
          /\ host' = [host EXCEPT !.got = Append(@, Head(usb.regs.fifo))]
          /\ usb' = [usb EXCEPT !.regs.fifo = << >>]
       \/ /\ usb.regs.fifo = << >> /\ usb.regs.cx = "idle"
          /\ usb' = [usb EXCEPT !.regs.src0 = {"in"}]
          /\ UNCHANGED host
    /\ UNCHANGED ep3

HostOut ==
    /\ Between
    /\ host.out > 0
    /\ usb' = [usb EXCEPT !.regs.src0 = {"out"}]
    /\ host' = [host EXCEPT !.out = @ - 1]
    /\ UNCHANGED ep3

\* The host has enough of a long descriptor and begins the status stage, which
\* waits until the device completes it.
HostEnd ==
    /\ Between
    /\ host.req = "string" /\ host.got # << >> /\ usb.regs.cx = "idle"
    /\ usb' = [usb EXCEPT !.regs.src0 = {"end"}]
    /\ host' = [host EXCEPT !.st = "status"]
    /\ UNCHANGED ep3

\* The end of the status stage, after all the data or begun early.
HostStatus ==
    /\ usb.regs.src0 = {}
    /\ \/ host.st = "wait" /\ usb.regs.cx = "stall"
       \/ /\ host.st = "wait" /\ usb.regs.cx = "done"
          /\ usb.regs.fifo = << >> /\ host.out = 0
       \/ host.st = "status" /\ usb.regs.cx # "idle"
    /\ host' = Idle("idle")
    /\ usb' = [usb EXCEPT !.regs.cx = "idle"]
    /\ UNCHANGED ep3

HostReadEvent ==
    /\ ep3.fifo # "empty"
    /\ ep3' = [fifo |-> "empty", got |-> usb.image = "rom" /\ (ep3.got \/ ep3.fifo = "watchdog")]
    /\ UNCHANGED <<usb, host>>

Next ==
    \/ RomTask \/ FwTask \/ AppStart
    \/ WatchdogReset \/ ColdReboot
    \/ HostReset \/ HostSuspend
    \/ \E r \in Requests : HostSetup(r)
    \/ HostIn \/ HostOut \/ HostEnd \/ HostStatus
    \/ HostReadEvent

(* The loops call their task again and again; the controller carries out   *)
(* the transfer the host waits for.                                        *)
Fairness ==
    /\ WF_vars(RomTask \/ FwTask \/ AppStart)
    /\ WF_vars(HostIn \/ HostOut \/ HostStatus)
    /\ WF_vars(HostReadEvent)

Spec == Init /\ [][Next]_vars /\ Fairness
----------------------------------------------------------------------------
\* What the host should read, where it depends on more than the request.
Expected(r) ==
    CASE r = "device" -> <<<<"device", usb.image>>>>
      [] r = "config" -> <<<<"config", usb.speed>>>>
      [] r = "string" -> [i \in 1..StringPackets |-> <<"string", i>>]
      [] OTHER        -> host.got

(* The host reads the descriptor it asked for, from its first packet and   *)
(* to its last: that of the image that runs and of the speed of the bus,   *)
(* whatever was begun, given up, reset or restarted before (UsbChirpFinish *)
(* and eUsbCxCommand outlive the requests that set them).                  *)
AnswersRight ==
    host.st = "wait" =>
      LET e == Expected(host.req)
      IN  /\ host.got = SubSeq(e, 1, Len(host.got))
          /\ usb.regs.src0 = {} /\ usb.regs.cx = "done" /\ usb.regs.fifo = << >>
               => Len(host.got) = Len(e)

(* When the firmware runs on a configured device, every endpoint it uses   *)
(* is mapped to its FIFO: also when the ROM was configured, which knows no *)
(* EP6 at full speed, and after a change of speed.                         *)
EndpointsReady ==
    usb.image = "fw" /\ usb.regs.configured => usb.regs.mapped = 1..6

\* The host waits for an answer; or for the end of a status stage it began
\* early, which the ROM never completes.
Waiting ==
    \/ host.st = "wait" /\ host.req \notin Unanswered
    \/ host.st = "status" /\ usb.image = "fw"

(* A host does not wait for ever, unless it keeps giving up and beginning  *)
(* again: every request is done or stalled in the end, except those the    *)
(* device may leave without a word, those lost in a restart, and a         *)
(* descriptor the host of the ROM does not want to its end.                *)
TransferEnds ==
    <>[]Waiting => []<><<\E r \in Requests : HostSetup(r)>>_vars

(* A reset by the watchdog is reported on EP3, unless the host has started *)
(* the firmware again before it emptied EP3; and no report is left there   *)
(* when the device comes back from a suspend.                              *)
WatchdogReported ==
    /\ [](usb.image = "rom" /\ usb.magic = "sus" => ep3.fifo # "watchdog")
    /\ (usb.image = "rom" /\ usb.magic = "wdt") ~> (ep3.got \/ usb.image = "fw")
=============================================================================
