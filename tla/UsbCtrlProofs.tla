--------------------------- MODULE UsbCtrlProofs ---------------------------
(* Proofs about UsbCtrl for every length of the downloads and of the       *)
(* descriptors.                                                            *)
EXTENDS UsbCtrl, TLAPS

Images == {"rom", "fw"}
Magics == {"cold", "wdt", "sus"}
Source0 == {{}, {"setup"}, {"in"}, {"out"}, {"end"}}

Packets ==
    {<<"device", i>> : i \in Images} \cup {<<"config", v>> : v \in Speeds \cup {"none"}}
      \cup {<<"string", i>> : i \in 1..StringPackets}
      \cup {<<"value">>, <<"interface">>, <<"complete">>}

StaticsType ==
    [tables : Speeds \cup {"none"}, config : {0, 1}, cmd : {"void", "get", "set"},
     left : Nat, ptr : Seq(Packets), download : BOOLEAN]

RegsType ==
    [src0 : Source0, src7 : SUBSET {"reset", "suspend"}, setup : Requests \cup {"none"},
     fifo : Seq(Packets), cx : {"idle", "done", "stall"}, configured : BOOLEAN,
     mapped : SUBSET (1..6)]

Devices ==
    [image : Images, magic : Magics, ep3int : BOOLEAN, speed : Speeds,
     v : StaticsType, regs : RegsType]

Hosts ==
    [st : {"off", "idle", "wait", "status"}, req : Requests \cup {"none"}, got : Seq(Packets),
     out : 0..DownloadPackets]

Ep3s == [fifo : {"empty", "watchdog", "event"}, got : BOOLEAN]

(* The type invariant: what the C types promise and what the model adds to *)
(* them; the counter of the data stage never goes below zero, and at most  *)
(* one source of EP0 is pending.                                           *)
TypeOK ==
    /\ usb \in Devices
    /\ host \in Hosts
    /\ ep3 \in Ep3s

(* A setup packet is there when its interrupt is, and only then.           *)
SetupPending(s) == "setup" \in s.regs.src0 => s.regs.setup \in Requests

(* The descriptor tables are those of the speed of the bus, unless a reset *)
(* that may have changed it is still to be handled.                        *)
TablesOfSpeed(s) == "reset" \in s.regs.src7 \/ s.v.tables \in {"none", s.speed}

(* A configured device has the endpoints of the ROM at its speed, and      *)
(* those of the firmware once it runs.                                     *)
Mapped(s) ==
    s.regs.configured => /\ RomEndpoints(s.speed) \subseteq s.regs.mapped
                         /\ s.image = "fw" => 6 \in s.regs.mapped

(* The magic word: the firmware always leaves it at the watchdog's value;  *)
(* a ROM that comes from a suspend has no event to send.                   *)
MagicWord(s, e) ==
    /\ s.image = "fw" => s.magic = "wdt"
    /\ s.image = "rom" /\ s.magic = "sus" => ~s.ep3int /\ e.fifo # "watchdog"

(* While a descriptor is to be sent, also of a request given up, there are *)
(* packets of it at ptr.                                                   *)
AnswerLeft(s) == s.v.cmd = "get" => s.v.left > 0 /\ s.v.left <= Len(s.v.ptr)

(* A packet from the host finds a data stage, with a packet missing.       *)
TokenServed(s) == s.regs.src0 = {"out"} /\ s.v.cmd = "set" => s.v.left > 0

(* A descriptor of one packet is in the FIFO or at the host.               *)
OnePacket(s, h, d) ==
    /\ s.regs.cx = "done"
    /\ \/ h.got = << >> /\ s.regs.fifo = <<d>>
       \/ h.got = <<d>> /\ s.regs.fifo = << >>

(* A string is at the host up to a packet, then in the FIFO, then at ptr.  *)
StringStage(s, h) ==
    LET k == Len(h.got)
        n == k + Len(s.regs.fifo)
    IN  /\ s.v.left = Len(s.v.ptr)
        /\ n + s.v.left = StringPackets
        /\ Len(s.regs.fifo) <= 1
        /\ \A i \in 1..k : h.got[i] = <<"string", i>>
        /\ s.regs.fifo # << >> => s.regs.fifo[1] = <<"string", n>>
        /\ \A i \in 1..Len(s.v.ptr) : s.v.ptr[i] = <<"string", n + i>>
        /\ s.regs.cx = IF s.v.left = 0 THEN "done" ELSE "idle"
        /\ s.v.left > 0 => s.v.cmd = "get"
        /\ s.regs.src0 \in {{}, {"in"}}
        /\ s.regs.src0 = {"in"} => s.v.left > 0 /\ s.regs.fifo = << >>

(* What the device keeps for the request the host waits for.               *)
Transfer(s, h) ==
    h.st = "wait" =>
      /\ s.regs.src7 = {} /\ s.regs.src0 # {"end"}
      /\ h.req \in Requests
      /\ h.req \notin OutRequests => h.out = 0 /\ s.regs.src0 # {"out"}
      /\ s.regs.src0 = {"setup"} =>
           /\ s.regs.setup = h.req
           /\ h.got = << >> /\ s.regs.fifo = << >> /\ s.regs.cx = "idle"
           /\ h.req = "download" => h.out = DownloadPackets
      /\ s.regs.src0 # {"setup"} =>
           /\ s.image = "rom" /\ s.v.download => h.req = "dlcomp"
           /\ h.req \in InRequests \ {"string", "vendorin"} => s.regs.cx # "idle" /\ s.regs.src0 = {}
           /\ h.req = "device" => OnePacket(s, h, <<"device", s.image>>)
           /\ h.req = "config" => OnePacket(s, h, <<"config", s.speed>>)
           /\ h.req = "string" => StringStage(s, h)
           /\ h.req = "download" =>
                /\ s.regs.src0 \in {{}, {"out"}}
                /\ s.v.left = h.out + (IF s.regs.src0 = {"out"} THEN 1 ELSE 0)
                /\ s.v.left > 0 => s.v.cmd = "set"

IInv ==
    /\ TypeOK
    /\ SetupPending(usb)
    /\ TablesOfSpeed(usb)
    /\ Mapped(usb)
    /\ MagicWord(usb, ep3)
    /\ AnswerLeft(usb)
    /\ TokenServed(usb)
    /\ Transfer(usb, host)
----------------------------------------------------------------------------
(* The handlers of EP0, field by field.                                    *)

(* What no handler of EP0 changes.                                         *)
SameFrame(t, s) ==
    /\ t.image = s.image /\ t.magic = s.magic
    /\ t.ep3int = s.ep3int /\ t.speed = s.speed
    /\ t.regs.src0 = s.regs.src0 /\ t.regs.src7 = s.regs.src7
    /\ t.regs.setup = s.regs.setup

SameMap(t, s) ==
    /\ t.v.config = s.v.config
    /\ t.regs.configured = s.regs.configured
    /\ t.regs.mapped = s.regs.mapped

SameData(t, s) ==
    /\ t.v.cmd = s.v.cmd /\ t.v.left = s.v.left /\ t.v.ptr = s.v.ptr

(* The FIFO of EP0 holds no packet or one.                                 *)
LEMMA PacketSeqs ==
    ASSUME NEW x \in Packets
    PROVE  << >> \in Seq(Packets) /\ <<x>> \in Seq(Packets)
OBVIOUS

(* The answers of one packet are packets.                                  *)
LEMMA ShortAnswers ==
    <<"value">> \in Packets /\ <<"interface">> \in Packets /\ <<"complete">> \in Packets
BY Zenon DEF Packets

(* What Done changes: the status stage is acknowledged.                    *)
LEMMA DoneFields ==
    ASSUME NEW s \in Devices, NEW t, t = Done(s)
    PROVE  /\ t \in Devices /\ SameFrame(t, s) /\ SameMap(t, s) /\ SameData(t, s)
           /\ t.v = s.v
           /\ t.regs.cx = "done" /\ t.regs.fifo = s.regs.fifo
BY DEF Done, Devices, RegsType, SameFrame, SameMap, SameData

(* What Stall changes: the FIFO is empty and the host told so.             *)
LEMMA StallFields ==
    ASSUME NEW s \in Devices, NEW t, t = Stall(s)
    PROVE  /\ t \in Devices /\ SameFrame(t, s) /\ SameMap(t, s) /\ SameData(t, s)
           /\ t.v = s.v
           /\ t.regs.cx = "stall" /\ t.regs.fifo = << >>
<1> DEFINE f == << >>
<1>1. f \in Seq(Packets) /\ t = [s EXCEPT !.regs.cx = "stall", !.regs.fifo = f]
  BY DEF Stall
<1>2. f = << >>
  OBVIOUS
<1> HIDE DEF f
<1> DEFINE q == [s.regs EXCEPT !.cx = "stall", !.fifo = f]
<1>3. q \in RegsType /\ q.cx = "stall" /\ q.fifo = f /\ q.src0 = s.regs.src0 /\ q.src7 = s.regs.src7
      /\ q.setup = s.regs.setup /\ q.configured = s.regs.configured /\ q.mapped = s.regs.mapped
  BY <1>1 DEF Devices, RegsType
<1>4. t = [s EXCEPT !.regs = q]
  BY <1>1 DEF Devices, RegsType
<1> HIDE DEF q
<1> QED BY <1>2, <1>3, <1>4 DEF Devices, SameFrame, SameMap, SameData

(* What Value changes: one packet is in the FIFO and the transfer done.    *)
LEMMA ValueFields ==
    ASSUME NEW s \in Devices, NEW x \in Packets, NEW t, t = Value(s, x)
    PROVE  /\ t \in Devices /\ SameFrame(t, s) /\ SameMap(t, s) /\ SameData(t, s)
           /\ t.v = s.v
           /\ t.regs.cx = "done" /\ t.regs.fifo = <<x>>
<1> DEFINE f == <<x>>
           u == [s EXCEPT !.regs.fifo = f]
<1>1. f \in Seq(Packets)
  BY PacketSeqs
<1>2. t = Done(u) /\ f = <<x>>
  BY DEF Value
<1> HIDE DEF f
<1>3. u \in Devices /\ SameFrame(u, s) /\ SameMap(u, s) /\ SameData(u, s) /\ u.v = s.v
      /\ u.regs.fifo = f
  BY <1>1 DEF Devices, RegsType, SameFrame, SameMap, SameData
<1> HIDE DEF u
<1> QED BY <1>2, <1>3, DoneFields DEF SameFrame, SameMap, SameData

(* vUsbEP0TxData puts the next packet of the answer in the FIFO, and ends  *)
(* the data stage with the last one.                                       *)
LEMMA EP0TxDataFields ==
    ASSUME NEW s \in Devices, s.v.left > 0, s.v.left <= Len(s.v.ptr),
           NEW t, t = EP0TxData(s)
    PROVE  /\ t \in Devices /\ SameFrame(t, s) /\ SameMap(t, s)
           /\ t.v.tables = s.v.tables /\ t.v.download = s.v.download
           /\ t.v.left = s.v.left - 1 /\ t.v.ptr = Tail(s.v.ptr)
           /\ t.v.cmd = IF s.v.left = 1 THEN "void" ELSE s.v.cmd
           /\ t.regs.cx = IF s.v.left = 1 THEN "done" ELSE s.regs.cx
           /\ t.regs.fifo = <<s.v.ptr[1]>>
<1> DEFINE f == <<Head(s.v.ptr)>>
           u == [s EXCEPT !.regs.fifo = f, !.v.ptr = Tail(@), !.v.left = s.v.left - 1]
           w == [u EXCEPT !.v.cmd = "void"]
<1>1. s.v.left - 1 \in Nat /\ s.v.left \in Nat /\ Len(s.v.ptr) > 0
      /\ Head(s.v.ptr) = s.v.ptr[1] /\ s.v.ptr[1] \in Packets
      /\ Tail(s.v.ptr) \in Seq(Packets) /\ f \in Seq(Packets) /\ s.v \in StaticsType /\ s.regs \in RegsType
  BY DEF Devices, StaticsType
<1>2. u \in Devices /\ SameFrame(u, s) /\ SameMap(u, s)
      /\ u.v.tables = s.v.tables /\ u.v.download = s.v.download
      /\ u.v.left = s.v.left - 1 /\ u.v.ptr = Tail(s.v.ptr)
      /\ u.v.cmd = s.v.cmd /\ u.regs.cx = s.regs.cx /\ u.regs.fifo = f
  <2> HIDE DEF f
  <2> QED BY <1>1 DEF Devices, StaticsType, RegsType, SameFrame, SameMap
<1>. f = <<s.v.ptr[1]>>
  BY <1>1
<1>3. t = IF s.v.left - 1 = 0 THEN Done(w) ELSE u
  BY DEF EP0TxData
<1> HIDE DEF u, f
<1>4. w \in Devices /\ SameFrame(w, u) /\ SameMap(w, u)
      /\ w.v.tables = u.v.tables /\ w.v.download = u.v.download
      /\ w.v.left = u.v.left /\ w.v.ptr = u.v.ptr /\ w.v.cmd = "void" /\ w.regs = u.regs
  BY <1>2 DEF Devices, StaticsType, SameFrame, SameMap
<1> HIDE DEF w
<1>5. s.v.left \in Nat
  BY DEF Devices, StaticsType
<1> QED BY <1>2, <1>3, <1>4, <1>5, DoneFields DEF SameFrame, SameMap

(* vUsbEP0RxData takes one packet, and ends the data stage with the last.  *)
LEMMA EP0RxDataFields ==
    ASSUME NEW s \in Devices, s.v.left > 0, NEW t, t = EP0RxData(s)
    PROVE  /\ t \in Devices /\ SameFrame(t, s) /\ SameMap(t, s)
           /\ t.v.tables = s.v.tables /\ t.v.download = s.v.download
           /\ t.v.left = s.v.left - 1 /\ t.v.ptr = s.v.ptr
           /\ t.v.cmd = IF s.v.left = 1 THEN "void" ELSE s.v.cmd
           /\ t.regs.cx = IF s.v.left = 1 THEN "done" ELSE s.regs.cx
           /\ t.regs.fifo = s.regs.fifo
<1> DEFINE u == [s EXCEPT !.v.left = @ - 1]
           w == [u EXCEPT !.v.cmd = "void"]
<1>1. s.v.left - 1 \in Nat /\ s.v \in StaticsType /\ s.regs \in RegsType
  BY DEF Devices, StaticsType
<1>2. u \in Devices /\ SameFrame(u, s) /\ SameMap(u, s)
      /\ u.v.tables = s.v.tables /\ u.v.download = s.v.download
      /\ u.v.left = s.v.left - 1 /\ u.v.ptr = s.v.ptr
      /\ u.v.cmd = s.v.cmd /\ u.regs = s.regs
  BY <1>1 DEF Devices, StaticsType, SameFrame, SameMap
<1>3. t = IF u.v.left = 0 THEN Done(w) ELSE u
  BY DEF EP0RxData
<1> HIDE DEF u
<1>4. w \in Devices /\ SameFrame(w, u) /\ SameMap(w, u)
      /\ w.v.tables = u.v.tables /\ w.v.download = u.v.download
      /\ w.v.left = u.v.left /\ w.v.ptr = u.v.ptr /\ w.v.cmd = "void" /\ w.regs = u.regs
  BY <1>2 DEF Devices, StaticsType, SameFrame, SameMap
<1> HIDE DEF w
<1>5. s.v.left \in Nat
  BY DEF Devices, StaticsType
<1> QED BY <1>2, <1>3, <1>4, <1>5, DoneFields DEF SameFrame, SameMap

(* bGet_descriptor: the descriptor of one packet.                          *)
LEMMA GetOneFields ==
    ASSUME NEW s \in Devices, NEW r \in {"device", "config"}, NEW t, t = GetDescriptor(s, r)
    PROVE  /\ t \in Devices /\ SameFrame(t, s) /\ SameMap(t, s)
           /\ t.v.tables = s.v.tables /\ t.v.download = s.v.download
           /\ t.v.left = 0 /\ t.v.cmd = "void" /\ t.regs.cx = "done"
           /\ t.regs.fifo = Descriptor(s, r)
<1> DEFINE x == IF r = "device" THEN <<"device", s.image>> ELSE <<"config", s.v.tables>>
           d == <<x>>
           u == [s EXCEPT !.v.ptr = d, !.v.left = 1]
<1>1. x \in Packets
  BY DEF Devices, StaticsType, Packets
<1>2. Descriptor(s, r) = d /\ d = IF r = "device" THEN <<<<"device", s.image>>>>
                                            ELSE <<<<"config", s.v.tables>>>>
  BY DEF Descriptor
<1> HIDE DEF x
<1>3. d \in Seq(Packets) /\ Len(d) = 1 /\ d[1] = x /\ d = <<x>>
  BY <1>1
<1> HIDE DEF d
<1>4. u \in Devices /\ SameFrame(u, s) /\ SameMap(u, s)
      /\ u.v.tables = s.v.tables /\ u.v.download = s.v.download /\ u.v.cmd = s.v.cmd
      /\ u.v.ptr = d /\ u.v.left = 1 /\ u.regs = s.regs
  BY <1>3 DEF Devices, StaticsType, SameFrame, SameMap
<1> HIDE DEF u
<1> DEFINE w == EP0TxData(u)
<1>5. /\ w \in Devices /\ SameFrame(w, u) /\ SameMap(w, u)
      /\ w.v.tables = u.v.tables /\ w.v.download = u.v.download
      /\ w.v.left = 0 /\ w.v.cmd = "void" /\ w.regs.cx = "done"
      /\ w.regs.fifo = <<d[1]>>
  <2>1. u.v.left > 0 /\ u.v.left <= Len(u.v.ptr) /\ u.v.left = 1 /\ u.v.left - 1 = 0 /\ u.v.ptr[1] = d[1]
    BY <1>3, <1>4
  <2> QED BY <1>4, <2>1, EP0TxDataFields
<1>6. t = IF w.v.left > 0 THEN [w EXCEPT !.v.cmd = "get"] ELSE w
  BY <1>2, <1>3 DEF GetDescriptor, u
<1> HIDE DEF w
<1>7. t = w
  BY <1>5, <1>6
<1>8. t.regs.fifo = d
  BY <1>3, <1>5, <1>7
<1> QED BY <1>2, <1>4, <1>5, <1>7, <1>8 DEF SameFrame, SameMap

(* bGet_descriptor: the first packet of a string.                          *)
LEMMA GetStringFields ==
    ASSUME NEW s \in Devices, NEW t, t = GetDescriptor(s, "string")
    PROVE  /\ t \in Devices /\ SameFrame(t, s) /\ SameMap(t, s)
           /\ t.v.tables = s.v.tables /\ t.v.download = s.v.download
           /\ t.v.left = StringPackets - 1 /\ Len(t.v.ptr) = StringPackets - 1
           /\ \A i \in 1..Len(t.v.ptr) : t.v.ptr[i] = <<"string", 1 + i>>
           /\ t.regs.fifo = <<<<"string", 1>>>>
           /\ t.v.cmd = IF t.v.left > 0 THEN "get" ELSE "void"
           /\ t.regs.cx = IF t.v.left > 0 THEN s.regs.cx ELSE "done"
<1> DEFINE d == [i \in 1..StringPackets |-> <<"string", i>>]
           u == [s EXCEPT !.v.ptr = Descriptor(s, "string"), !.v.left = Len(Descriptor(s, "string"))]
           w == EP0TxData(u)
<1>1. \A i \in 1..StringPackets : <<"string", i>> \in Packets
  BY DEF Packets
<1>2. d \in Seq(Packets) /\ Len(d) = StringPackets /\ StringPackets \in Nat /\ StringPackets > 0
      /\ \A i \in 1..StringPackets : d[i] = <<"string", i>>
  BY <1>1, SizesAssumption
<1>3. Descriptor(s, "string") = d
  BY DEF Descriptor
<1>6. t = IF w.v.left > 0 THEN [w EXCEPT !.v.cmd = "get"] ELSE w
  BY Zenon DEF GetDescriptor
<1> HIDE DEF d, w
<1>4. u \in Devices /\ SameFrame(u, s) /\ SameMap(u, s)
      /\ u.v.tables = s.v.tables /\ u.v.download = s.v.download /\ u.v.cmd = s.v.cmd
      /\ u.v.ptr = d /\ u.v.left = StringPackets /\ u.regs = s.regs
  BY <1>2, <1>3 DEF Devices, StaticsType, SameFrame, SameMap
<1> HIDE DEF u
<1>5. /\ w \in Devices /\ SameFrame(w, u) /\ SameMap(w, u)
      /\ w.v.tables = u.v.tables /\ w.v.download = u.v.download
      /\ w.v.left = StringPackets - 1 /\ w.v.ptr = Tail(d)
      /\ w.v.cmd = (IF StringPackets = 1 THEN "void" ELSE s.v.cmd)
      /\ w.regs.cx = (IF StringPackets = 1 THEN "done" ELSE s.regs.cx)
      /\ w.regs.fifo = <<d[1]>>
  <2>1. u.v.left > 0 /\ u.v.left <= Len(u.v.ptr)
    BY <1>2, <1>4
  <2>2. /\ w \in Devices /\ SameFrame(w, u) /\ SameMap(w, u)
        /\ w.v.tables = u.v.tables /\ w.v.download = u.v.download
        /\ w.v.left = u.v.left - 1 /\ w.v.ptr = Tail(u.v.ptr)
        /\ w.v.cmd = (IF u.v.left = 1 THEN "void" ELSE u.v.cmd)
        /\ w.regs.cx = (IF u.v.left = 1 THEN "done" ELSE u.regs.cx)
        /\ w.regs.fifo = <<u.v.ptr[1]>>
    BY <1>4, <2>1, EP0TxDataFields DEF w
  <2> QED BY <1>4, <2>2
<1>7. Len(Tail(d)) = StringPackets - 1 /\ \A i \in 1..(StringPackets - 1) : Tail(d)[i] = <<"string", 1 + i>>
  BY <1>2
<1>8. d[1] = <<"string", 1>>
  BY <1>2
<1>9. w.v \in StaticsType
  BY <1>5 DEF Devices
<1>10. t \in Devices /\ SameFrame(t, w) /\ SameMap(t, w) /\ t.regs = w.regs
      /\ t.v.tables = w.v.tables /\ t.v.download = w.v.download /\ t.v.left = w.v.left
      /\ t.v.ptr = w.v.ptr /\ t.v.cmd = IF w.v.left > 0 THEN "get" ELSE w.v.cmd
  <2>1. CASE w.v.left > 0
    <3>1. t = [w EXCEPT !.v.cmd = "get"]
      BY <1>6, <2>1
    <3> QED BY <1>5, <1>9, <2>1, <3>1 DEF Devices, StaticsType, SameFrame, SameMap
  <2>2. CASE ~(w.v.left > 0)
    BY <1>5, <1>6, <2>2 DEF SameFrame, SameMap
  <2> QED BY <2>1, <2>2
<1>11. t.regs.fifo = <<<<"string", 1>>>>
  BY <1>5, <1>8, <1>10
<1>12. /\ t.v.left = StringPackets - 1 /\ Len(t.v.ptr) = StringPackets - 1
       /\ \A i \in 1..Len(t.v.ptr) : t.v.ptr[i] = <<"string", 1 + i>>
  BY <1>5, <1>7, <1>10
<1>13. SameFrame(t, s) /\ SameMap(t, s) /\ t.v.tables = s.v.tables /\ t.v.download = s.v.download
  BY <1>4, <1>5, <1>10 DEF SameFrame, SameMap
<1>14. /\ t.v.cmd = IF t.v.left > 0 THEN "get" ELSE "void"
       /\ t.regs.cx = IF t.v.left > 0 THEN s.regs.cx ELSE "done"
  BY <1>2, <1>5, <1>10
<1> QED BY <1>10, <1>11, <1>12, <1>13, <1>14

(* bSet_configuration and bSet_interface map endpoints.                    *)
LEMMA EPxCfgFields ==
    ASSUME NEW s \in Devices, NEW t, t = EPxCfg(s)
    PROVE  /\ t \in Devices /\ SameFrame(t, s) /\ t.v = s.v
           /\ t.regs.cx = s.regs.cx /\ t.regs.configured = s.regs.configured
           /\ t.regs.fifo = s.regs.fifo
           /\ t.regs.mapped = IF s.v.config = 1 THEN s.regs.mapped \cup RomEndpoints(s.speed)
                                                ELSE s.regs.mapped
<1>1. s.regs.mapped \cup RomEndpoints(s.speed) \in SUBSET (1..6)
  BY DEF Devices, RegsType, RomEndpoints
<1>2. CASE s.v.config = 1
  BY <1>1, <1>2 DEF EPxCfg, Devices, RegsType, SameFrame
<1>3. CASE s.v.config # 1
  BY <1>3 DEF EPxCfg, SameFrame
<1> QED BY <1>2, <1>3

(* The boot ROM maps its endpoints when the host configures it.            *)
LEMMA SetConfigurationFields ==
    ASSUME NEW s \in Devices, NEW t, t = SetConfiguration(s)
    PROVE  /\ t \in Devices /\ SameFrame(t, s) /\ SameData(t, s)
           /\ t.v.tables = s.v.tables /\ t.v.download = s.v.download
           /\ t.regs.cx = "done" /\ RomEndpoints(s.speed) \subseteq t.regs.mapped
<1> DEFINE u == [s EXCEPT !.v.config = 1]
           w == EPxCfg(u)
           x == [w EXCEPT !.regs.configured = TRUE]
<1>1. u \in Devices /\ SameFrame(u, s) /\ SameData(u, s) /\ u.v.config = 1
      /\ u.v.tables = s.v.tables /\ u.v.download = s.v.download
  BY DEF Devices, StaticsType, SameFrame, SameData
<1> HIDE DEF u
<1>2. w \in Devices /\ SameFrame(w, u) /\ w.v = u.v /\ RomEndpoints(u.speed) \subseteq w.regs.mapped
  BY <1>1, EPxCfgFields
<1> HIDE DEF w
<1>3. x \in Devices /\ SameFrame(x, w) /\ x.v = w.v /\ x.regs.mapped = w.regs.mapped
  BY <1>2 DEF Devices, RegsType, SameFrame
<1>4. t = Done(x)
  BY DEF SetConfiguration, u, w, x
<1> HIDE DEF x
<1>5. t \in Devices /\ SameFrame(t, x) /\ t.v = x.v /\ t.regs.cx = "done" /\ t.regs.mapped = x.regs.mapped
  BY <1>3, <1>4, DoneFields DEF SameMap
<1> QED BY <1>1, <1>2, <1>3, <1>5 DEF SameFrame, SameData

(* The firmware maps the endpoints when the host configures it.            *)
LEMMA SetConfigFields ==
    ASSUME NEW s \in Devices, NEW t, t = SetConfig(s)
    PROVE  /\ t \in Devices /\ SameFrame(t, s) /\ SameData(t, s)
           /\ t.v.tables = s.v.tables /\ t.v.download = s.v.download
           /\ t.regs.cx = "done" /\ Mapped(t)
<1> DEFINE u == SetConfiguration(s)
<1>1. /\ u \in Devices /\ SameFrame(u, s) /\ SameData(u, s)
      /\ u.v.tables = s.v.tables /\ u.v.download = s.v.download
      /\ u.regs.cx = "done" /\ RomEndpoints(s.speed) \subseteq u.regs.mapped
  BY SetConfigurationFields
<1> HIDE DEF u
<1>2. CASE s.image = "fw" /\ s.speed = "full"
  <2>1. t = [u EXCEPT !.regs.mapped = @ \cup {6}]
    BY <1>2 DEF SetConfig, EP6Cfg, u
  <2>2. u.regs \in RegsType /\ u.regs.mapped \cup {6} \in SUBSET (1..6)
    BY <1>1 DEF Devices, RegsType
  <2>3. t \in Devices /\ SameFrame(t, u) /\ SameData(t, u)
        /\ t.v.tables = u.v.tables /\ t.v.download = u.v.download
        /\ t.regs.cx = u.regs.cx /\ t.regs.mapped = u.regs.mapped \cup {6}
    BY <1>1, <2>1, <2>2, SMTT(60) DEF Devices, RegsType, SameFrame, SameData
  <2> QED BY <1>1, <2>3 DEF SameFrame, SameData, Mapped
<1>3. CASE ~(s.image = "fw" /\ s.speed = "full")
  <2>1. t = u
    BY <1>3 DEF SetConfig, u
  <2>2. s.image = "fw" => 6 \in RomEndpoints(s.speed)
    BY <1>3 DEF Devices, Speeds, RomEndpoints
  <2> QED BY <1>1, <2>1, <2>2 DEF SameFrame, Mapped
<1> QED BY <1>2, <1>3

(* What a request leaves behind when its setup packet has been handled.    *)
Outcome(t, s, r) ==
    /\ t \in Devices /\ SameFrame(t, s)
    /\ t.v.tables = s.v.tables
    /\ r # "dlcomp" => t.v.download = s.v.download
    /\ r \in InRequests \ {"string", "vendorin"} => t.regs.cx # "idle"
    /\ r = "device" => t.regs.cx = "done" /\ t.regs.fifo = <<<<"device", s.image>>>>
    /\ r = "config" => t.regs.cx = "done" /\ t.regs.fifo = <<<<"config", s.v.tables>>>>
    /\ r = "string" =>
         /\ t.v.left = StringPackets - 1 /\ Len(t.v.ptr) = StringPackets - 1
         /\ \A i \in 1..Len(t.v.ptr) : t.v.ptr[i] = <<"string", 1 + i>>
         /\ t.regs.fifo = <<<<"string", 1>>>>
         /\ t.v.cmd = IF t.v.left > 0 THEN "get" ELSE "void"
         /\ t.regs.cx = IF t.v.left > 0 THEN s.regs.cx ELSE "done"
    /\ r = "download" => t.v.cmd = "set" /\ t.v.left = DownloadPackets
    /\ AnswerLeft(t)

(* Every standard request ends in a stall, an answer of its own or an empty*)
(* data stage.                                                             *)
LEMMA StandardOutcome ==
    ASSUME NEW s \in Devices, Mapped(s), AnswerLeft(s), NEW r \in Requests \ VendorRequests,
           NEW t, t = StandardCommand(s, r)
    PROVE  Outcome(t, s, r) /\ Mapped(t)
<1> USE DEF Requests, InRequests, OutRequests, PlainRequests, VendorRequests
<1>1. CASE r \in {"device", "config"}
  <2>1. t = GetDescriptor(s, r)
    BY <1>1 DEF StandardCommand
  <2>2. /\ r = "device" => t.regs.fifo = <<<<"device", s.image>>>>
        /\ r = "config" => t.regs.fifo = <<<<"config", s.v.tables>>>>
    <3>1. t.regs.fifo = Descriptor(s, r)
      BY <1>1, <2>1, GetOneFields
    <3> QED BY <3>1 DEF Descriptor
  <2>3. /\ t \in Devices /\ SameFrame(t, s) /\ SameMap(t, s)
        /\ t.v.tables = s.v.tables /\ t.v.download = s.v.download
        /\ t.regs.cx = "done" /\ t.v.cmd = "void"
    BY <1>1, <2>1, GetOneFields
  <2> QED BY <1>1, <2>2, <2>3 DEF Outcome, Mapped, AnswerLeft, SameFrame, SameMap, SameData
<1>2. CASE r = "string"
  <2>1. t = GetDescriptor(s, "string")
    BY <1>2 DEF StandardCommand
  <2> QED BY <1>2, <2>1, GetStringFields DEF Outcome, Mapped, AnswerLeft, SameFrame, SameMap, SameData
<1>3. CASE r = "value"
  <2>1. t = Value(s, <<"value">>)
    BY <1>3 DEF StandardCommand, GetValue
  <2>2. /\ t \in Devices /\ SameFrame(t, s) /\ SameMap(t, s) /\ SameData(t, s)
        /\ t.v = s.v /\ t.regs.cx = "done"
    BY <2>1, ShortAnswers, ValueFields, SMTT(60)
  <2> QED BY <1>3, <2>2 DEF Outcome, Mapped, AnswerLeft, SameFrame, SameMap, SameData
<1>4. CASE r = "getinterface"
  <2>1. CASE s.regs.configured /\ s.v.config = 1
    <3> DEFINE u == [s EXCEPT !.v.left = 1]
    <3>1. u \in Devices /\ SameFrame(u, s) /\ SameMap(u, s) /\ u.v.tables = s.v.tables
          /\ u.v.download = s.v.download
          /\ u.v.cmd = s.v.cmd /\ u.v.ptr = s.v.ptr /\ u.v.left = 1
      BY DEF Devices, StaticsType, SameFrame, SameMap
    <3>4. AnswerLeft(u)
      BY <3>1 DEF AnswerLeft, Devices, StaticsType
    <3>2. t = Value(u, <<"interface">>)
      BY <1>4, <2>1 DEF StandardCommand, GetInterface
    <3> HIDE DEF u
    <3>3. /\ t \in Devices /\ SameFrame(t, u) /\ SameMap(t, u)
          /\ t.v = u.v /\ t.regs.cx = "done"
      BY <3>1, <3>2, ShortAnswers, ValueFields, SMTT(60)
    <3> QED BY <1>4, <3>1, <3>3, <3>4 DEF Outcome, Mapped, AnswerLeft, SameFrame, SameMap, SameData
  <2>2. CASE ~(s.regs.configured /\ s.v.config = 1)
    <3>1. t = Stall(s)
      BY <1>4, <2>2 DEF StandardCommand, GetInterface
    <3> QED BY <1>4, <3>1, StallFields DEF Outcome, Mapped, AnswerLeft, SameFrame, SameMap, SameData
  <2> QED BY <2>1, <2>2
<1>5. CASE r = "badget"
  <2>1. t = Stall(s)
    BY <1>5 DEF StandardCommand
  <2> QED BY <1>5, <2>1, StallFields DEF Outcome, Mapped, AnswerLeft, SameFrame, SameMap, SameData
<1>6. CASE r = "setconfig"
  <2>1. t = SetConfig(s)
    BY <1>6 DEF StandardCommand
  <2> QED BY <1>6, <2>1, SetConfigFields DEF Outcome, AnswerLeft, SameFrame, SameData
<1>7. CASE r = "unsetconfig"
  <2> DEFINE u == [s EXCEPT !.v.config = 0, !.regs.configured = FALSE]
  <2>1. u \in Devices /\ SameFrame(u, s) /\ u.v.tables = s.v.tables
        /\ u.v.download = s.v.download /\ u.regs.configured = FALSE /\ SameData(u, s)
    BY DEF Devices, StaticsType, RegsType, SameFrame, SameData
  <2>2. t = Done(u)
    BY <1>7 DEF StandardCommand
  <2> HIDE DEF u
  <2> QED BY <1>7, <2>1, <2>2, DoneFields DEF Outcome, Mapped, AnswerLeft, SameFrame, SameMap, SameData
<1>8. CASE r = "badconfig"
  <2>1. t = Done(s) \/ t = s
    BY <1>8 DEF StandardCommand, BadConfiguration
  <2> QED BY <1>8, <2>1, DoneFields DEF Outcome, Mapped, AnswerLeft, SameFrame, SameMap, SameData
<1>9. CASE r = "setinterface"
  <2> DEFINE u == EPxCfg(s)
  <2>1. /\ u \in Devices /\ SameFrame(u, s) /\ u.v = s.v
        /\ u.regs.configured = s.regs.configured
        /\ s.regs.mapped \subseteq u.regs.mapped
    BY EPxCfgFields
  <2>2. t = Done(u) \/ t = s
    BY <1>9 DEF StandardCommand, SetInterface
  <2> HIDE DEF u
  <2> QED BY <1>9, <2>1, <2>2, DoneFields DEF Outcome, Mapped, AnswerLeft, SameFrame, SameMap, SameData
<1>10. CASE r = "plain"
  <2>1. t = Done(s)
    BY <1>10 DEF StandardCommand, SetFeature
  <2> QED BY <1>10, <2>1, DoneFields DEF Outcome, Mapped, AnswerLeft, SameFrame, SameMap, SameData
<1> QED BY <1>1, <1>2, <1>3, <1>4, <1>5, <1>6, <1>7, <1>8, <1>9, <1>10

(* The same of the vendor requests of the boot ROM.                        *)
LEMMA VendorOutcome ==
    ASSUME NEW s \in Devices, Mapped(s), AnswerLeft(s), NEW r \in VendorRequests,
           NEW t, t = VendorCommand(s, r)
    PROVE  Outcome(t, s, r) /\ Mapped(t)
<1> USE DEF InRequests, VendorRequests
<1>1. CASE r \in {"vendor", "vendorin"}
  BY <1>1 DEF VendorCommand, Outcome, SameFrame
<1>2. CASE r = "download"
  <2>1. t = [s EXCEPT !.v.cmd = "set", !.v.left = DownloadPackets] /\ DownloadPackets \in Nat
    BY <1>2, SizesAssumption DEF VendorCommand
  <2> DEFINE q == [s.v EXCEPT !.cmd = "set", !.left = DownloadPackets]
  <2>2. q \in StaticsType /\ q.config = s.v.config /\ q.tables = s.v.tables
        /\ q.download = s.v.download /\ q.cmd = "set" /\ q.left = DownloadPackets
    BY <2>1 DEF Devices, StaticsType
  <2>3. t = [s EXCEPT !.v = q]
    BY <2>1 DEF Devices, StaticsType
  <2> HIDE DEF q
  <2>4. t \in Devices /\ SameFrame(t, s) /\ SameMap(t, s) /\ t.v.tables = s.v.tables
        /\ t.v.download = s.v.download /\ t.v.cmd = "set" /\ t.v.left = DownloadPackets
    BY <2>2, <2>3 DEF Devices, SameFrame, SameMap
  <2> QED BY <1>2, <2>4 DEF Outcome, Mapped, AnswerLeft, SameFrame, SameMap, SameData
<1>3. CASE r = "dlcomp"
  <2> DEFINE u == [s EXCEPT !.v.download = TRUE]
  <2>1. u \in Devices /\ SameFrame(u, s) /\ SameMap(u, s) /\ SameData(u, s)
        /\ u.v.tables = s.v.tables
    BY DEF Devices, StaticsType, SameFrame, SameMap, SameData
  <2>2. t = Value(u, <<"complete">>)
    BY <1>3 DEF VendorCommand
  <2> HIDE DEF u
  <2>3. /\ t \in Devices /\ SameFrame(t, u) /\ SameMap(t, u) /\ SameData(t, u)
        /\ t.v = u.v /\ t.regs.cx = "done"
    BY <2>1, <2>2, ShortAnswers, ValueFields, SMTT(60)
  <2> QED BY <1>3, <2>1, <2>3 DEF Outcome, Mapped, AnswerLeft, SameFrame, SameMap, SameData
<1> QED BY <1>1, <1>2, <1>3

(* The tables are chosen before the request is looked at.                  *)
LEMMA Ep0SetupFields ==
    ASSUME NEW s \in Devices, Mapped(s), TablesOfSpeed(s), AnswerLeft(s),
           NEW r \in Requests, r = s.regs.setup,
           NEW t, t = Ep0Setup(s)
    PROVE  \E u \in Devices :
             /\ SameFrame(u, s) /\ SameMap(u, s) /\ u.regs = s.regs
             /\ u.v.download = s.v.download
             /\ "reset" \in s.regs.src7 \/ u.v.tables = u.speed
             /\ Outcome(t, u, r) /\ Mapped(t)
<1> DEFINE u == IF s.v.tables = "none" THEN [s EXCEPT !.v.tables = s.speed] ELSE s
<1>1. /\ u \in Devices /\ SameFrame(u, s) /\ SameMap(u, s) /\ u.regs = s.regs
      /\ u.v.download = s.v.download /\ AnswerLeft(u)
      /\ "reset" \in s.regs.src7 \/ u.v.tables = u.speed
  <2>1. CASE s.v.tables = "none"
    <3>1. u = [s EXCEPT !.v.tables = s.speed]
      BY <2>1
    <3> HIDE DEF u
    <3> QED BY <3>1 DEF Devices, StaticsType, SameFrame, SameMap, AnswerLeft
  <2>2. CASE s.v.tables # "none"
    <3>1. u = s
      BY <2>2
    <3> HIDE DEF u
    <3> QED BY <3>1, <2>2 DEF SameFrame, SameMap, TablesOfSpeed
  <2> QED BY <2>1, <2>2
<1>2. t = IF r \in VendorRequests THEN VendorCommand(u, r) ELSE StandardCommand(u, r)
  BY Zenon DEF Ep0Setup
<1> HIDE DEF u
<1>3. Mapped(u) /\ AnswerLeft(u)
  BY <1>1 DEF Mapped, SameFrame, SameMap
<1>4. Outcome(t, u, r) /\ Mapped(t)
  <2>1. CASE r \in VendorRequests
    BY <1>1, <1>2, <1>3, <2>1, VendorOutcome
  <2>2. CASE r \notin VendorRequests
    BY <1>1, <1>2, <1>3, <2>2, StandardOutcome
  <2> QED BY <2>1, <2>2
<1> QED BY <1>1, <1>4

(* The task acknowledges what it has handled.                              *)
Acked(g) == [g EXCEPT !.regs.src0 = {}, !.regs.setup = "none"]

(* The end of the control endpoint's turn clears its sources.              *)
LEMMA AckedFields ==
    ASSUME NEW g \in Devices, NEW t, t = Acked(g)
    PROVE  /\ t \in Devices
           /\ t.image = g.image /\ t.magic = g.magic /\ t.ep3int = g.ep3int /\ t.speed = g.speed
           /\ t.v = g.v
           /\ t.regs.src0 = {} /\ t.regs.setup = "none" /\ t.regs.src7 = g.regs.src7
           /\ t.regs.fifo = g.regs.fifo /\ t.regs.cx = g.regs.cx
           /\ t.regs.configured = g.regs.configured /\ t.regs.mapped = g.regs.mapped
<1> DEFINE q == [g.regs EXCEPT !.src0 = {}, !.setup = "none"]
<1>1. {} \in Source0
  BY Zenon DEF Source0
<1>2. q \in RegsType /\ q.src0 = {} /\ q.setup = "none" /\ q.src7 = g.regs.src7
      /\ q.fifo = g.regs.fifo /\ q.cx = g.regs.cx
      /\ q.configured = g.regs.configured /\ q.mapped = g.regs.mapped
  BY <1>1 DEF Devices, RegsType
<1>3. t = [g EXCEPT !.regs = q]
  BY DEF Devices, RegsType, Acked
<1> HIDE DEF q
<1> QED BY <1>2, <1>3 DEF Devices

(* One source is pending at most, so one handler runs.                     *)
LEMMA Ep0Split ==
    ASSUME NEW s \in Devices, NEW t, t = Ep0(s)
    PROVE  /\ s.regs.src0 = {} => t = Acked(s)
           /\ s.regs.src0 = {"in"} => t = Acked(Ep0Tx(s))
           /\ s.regs.src0 = {"out"} => t = Acked(Ep0Rx(s))
           /\ s.regs.src0 = {"setup"} => t = Acked(Ep0Setup(s))
           /\ s.regs.src0 = {"end"} => t = Acked(Ep0End(s))
<1>1. CASE s.regs.src0 = {}
  BY <1>1 DEF Ep0, Acked
<1>2. CASE s.regs.src0 = {"in"}
  BY <1>2 DEF Ep0, Acked
<1>3. CASE s.regs.src0 = {"out"}
  BY <1>3 DEF Ep0, Acked
<1>4. CASE s.regs.src0 = {"setup"}
  BY <1>4 DEF Ep0, Acked
<1>5. CASE s.regs.src0 = {"end"}
  BY <1>5 DEF Ep0, Acked
<1>6. s.regs.src0 \in Source0
  BY DEF Devices, RegsType
<1> QED BY <1>1, <1>2, <1>3, <1>4, <1>5, <1>6 DEF Source0

(* What the handlers of EP0 keep, together.                                *)
EpFrame(t, s) ==
    /\ t.image = s.image /\ t.magic = s.magic
    /\ t.ep3int = s.ep3int /\ t.speed = s.speed
    /\ t.regs.src7 = s.regs.src7
    /\ t.regs.src0 = {}

(* The interrupt sources are different.                                    *)
LEMMA OtherSources ==
    /\ {"in"} # {} /\ {"in"} # {"out"} /\ {"in"} # {"setup"} /\ {"in"} # {"end"}
    /\ {"out"} # {} /\ {"out"} # {"setup"} /\ {"out"} # {"end"}
    /\ {"setup"} # {} /\ {"setup"} # {"end"} /\ {"end"} # {}
OBVIOUS

(* An IN token is served from the answer of the present transfer.          *)
LEMMA Ep0InKeeps ==
    ASSUME NEW s \in Devices, NEW h \in Hosts,
           TablesOfSpeed(s), Mapped(s), AnswerLeft(s), Transfer(s, h),
           ~(s.image = "rom" /\ s.v.download), s.regs.src0 = {"in"},
           NEW t, t = Ep0(s)
    PROVE  /\ t \in Devices /\ EpFrame(t, s) /\ TablesOfSpeed(t) /\ Mapped(t)
           /\ AnswerLeft(t) /\ Transfer(t, h)
<1> DEFINE g == Ep0Tx(s)
<1>1. t = Acked(g)
  BY Ep0Split
<1>2. s.regs \in RegsType /\ s.v \in StaticsType
  BY DEF Devices
<1>3. CASE s.v.cmd = "get"
  <2>1. /\ g \in Devices /\ SameFrame(g, s) /\ SameMap(g, s)
        /\ g.v.tables = s.v.tables /\ g.v.download = s.v.download
        /\ g.v.left = s.v.left - 1 /\ g.v.ptr = Tail(s.v.ptr)
        /\ g.v.cmd = (IF s.v.left = 1 THEN "void" ELSE s.v.cmd)
        /\ g.regs.cx = (IF s.v.left = 1 THEN "done" ELSE s.regs.cx)
        /\ g.regs.fifo = <<s.v.ptr[1]>>
    BY <1>3, EP0TxDataFields DEF AnswerLeft, Ep0Tx
  <2> HIDE DEF g
  <2>2. /\ t \in Devices /\ EpFrame(t, s) /\ SameMap(t, s)
        /\ t.v.tables = s.v.tables /\ t.v.download = s.v.download
        /\ t.v.left = s.v.left - 1 /\ t.v.ptr = Tail(s.v.ptr)
        /\ t.v.cmd = (IF s.v.left = 1 THEN "void" ELSE s.v.cmd)
        /\ t.regs.cx = (IF s.v.left = 1 THEN "done" ELSE s.regs.cx)
        /\ t.regs.fifo = <<s.v.ptr[1]>>
    BY <1>1, <2>1, AckedFields DEF EpFrame, SameFrame, SameMap
  <2>3. TablesOfSpeed(t) /\ Mapped(t)
    BY <2>2 DEF EpFrame, SameMap, TablesOfSpeed, Mapped
  <2>6. AnswerLeft(t)
    <3>1. s.v.left \in Nat /\ s.v.left > 0 /\ s.v.left <= Len(s.v.ptr) /\ s.v.ptr \in Seq(Packets)
      BY <1>2, <1>3 DEF AnswerLeft, StaticsType
    <3>2. Len(Tail(s.v.ptr)) = Len(s.v.ptr) - 1 /\ Len(s.v.ptr) \in Nat
      BY <3>1
    <3> QED BY <2>2, <3>1, <3>2 DEF AnswerLeft
  <2>4. ASSUME h.st = "wait", h.req = "string" PROVE StringStage(t, h)
    <3>1. StringStage(s, h)
      BY <2>4 DEF Transfer
    <3>2. s.regs.fifo = << >> /\ s.v.left > 0 /\ s.v.left = Len(s.v.ptr) /\ s.v.left \in Nat
          /\ s.v.ptr \in Seq(Packets) /\ Len(s.regs.fifo) = 0 /\ Len(h.got) \in Nat
      BY <3>1, <1>2 DEF StringStage, StaticsType, Hosts
    <3>3. Len(t.v.ptr) = s.v.left - 1 /\ \A i \in 1..Len(t.v.ptr) : t.v.ptr[i] = s.v.ptr[i + 1]
      BY <2>2, <3>2
    <3>4. Len(t.regs.fifo) = 1 /\ t.regs.fifo[1] = s.v.ptr[1] /\ t.regs.fifo # << >>
      BY <2>2
    <3>5. s.v.ptr[1] = <<"string", Len(h.got) + 1>>
          /\ \A i \in 1..(s.v.left - 1) : s.v.ptr[i + 1] = <<"string", Len(h.got) + 1 + i>>
      <4>1. \A i \in 1..s.v.left : s.v.ptr[i] = <<"string", Len(h.got) + i>>
        BY <3>1, <3>2 DEF StringStage
      <4>2. \A i \in 1..(s.v.left - 1) : i + 1 \in 1..s.v.left /\ Len(h.got) + (i + 1) = Len(h.got) + 1 + i
        BY <3>2
      <4>3. 1 \in 1..s.v.left
        BY <3>2
      <4> QED BY <4>1, <4>2, <4>3
    <3>6. Len(h.got) + 1 + (s.v.left - 1) = StringPackets
      <4>1. Len(h.got) + Len(s.regs.fifo) + s.v.left = StringPackets
        BY <3>1 DEF StringStage
      <4>2. Len(s.regs.fifo) = 0 /\ Len(h.got) \in Nat /\ s.v.left \in Nat
        BY <3>2
      <4> QED BY <4>1, <4>2
    <3>7. \A i \in 1..Len(h.got) : h.got[i] = <<"string", i>>
      BY <3>1 DEF StringStage
    <3>8. t.regs.cx = (IF t.v.left = 0 THEN "done" ELSE "idle") /\ (t.v.left > 0 => t.v.cmd = "get")
      BY <1>3, <2>2, <3>1, <3>2 DEF StringStage
    <3> DEFINE n == Len(h.got) + Len(t.regs.fifo)
    <3>9. n = Len(h.got) + 1
      BY <3>4
    <3>10. \A i \in 1..Len(t.v.ptr) : t.v.ptr[i] = <<"string", n + i>>
      BY <3>3, <3>5, <3>9
    <3>11. t.regs.fifo[1] = <<"string", n>>
      BY <3>4, <3>5, <3>9
    <3>12. t.v.left = Len(t.v.ptr) /\ n + t.v.left = StringPackets /\ t.regs.src0 = {}
      BY <2>2, <3>2, <3>3, <3>6, <3>9 DEF EpFrame
    <3>13. Len(t.regs.fifo) <= 1 /\ t.regs.src0 \in {{}, {"in"}} /\ t.regs.src0 # {"in"}
      BY <3>4, <3>12, OtherSources
    <3> QED BY <3>7, <3>8, <3>10, <3>11, <3>12, <3>13, Zenon DEF StringStage
  <2>5. Transfer(t, h)
    BY <2>2, <2>4 DEF Transfer, EpFrame, InRequests
  <2> QED BY <2>2, <2>3, <2>5, <2>6
<1>4. CASE s.v.cmd # "get"
  <2>1. g \in Devices /\ SameFrame(g, s) /\ SameMap(g, s) /\ g.v = s.v
    <3>1. g = [s EXCEPT !.regs.cx = "stall"]
      BY <1>4 DEF Ep0Tx
    <3> HIDE DEF g
    <3> QED BY <3>1 DEF Devices, RegsType, SameFrame, SameMap
  <2> HIDE DEF g
  <2>2. /\ t \in Devices /\ EpFrame(t, s) /\ SameMap(t, s) /\ t.v = s.v
    BY <1>1, <2>1, AckedFields DEF EpFrame, SameFrame, SameMap
  <2>3. TablesOfSpeed(t) /\ Mapped(t) /\ AnswerLeft(t)
    BY <1>4, <2>2 DEF EpFrame, SameMap, TablesOfSpeed, Mapped, AnswerLeft
  <2>4. ~(h.st = "wait" /\ h.req = "string")
    BY <1>4 DEF Transfer, StringStage
  <2>5. Transfer(t, h)
    BY <2>2, <2>4 DEF Transfer, EpFrame, InRequests
  <2> QED BY <2>2, <2>3, <2>5
<1> QED BY <1>3, <1>4

(* An OUT token is served by the present transfer.                         *)
LEMMA Ep0OutKeeps ==
    ASSUME NEW s \in Devices, NEW h \in Hosts,
           TablesOfSpeed(s), Mapped(s), AnswerLeft(s), TokenServed(s), Transfer(s, h),
           ~(s.image = "rom" /\ s.v.download), s.regs.src0 = {"out"},
           NEW t, t = Ep0(s)
    PROVE  /\ t \in Devices /\ EpFrame(t, s) /\ TablesOfSpeed(t) /\ Mapped(t)
           /\ AnswerLeft(t) /\ Transfer(t, h)
<1> DEFINE g == Ep0Rx(s)
<1>1. t = Acked(g)
  BY Ep0Split
<1>2. s.regs \in RegsType /\ s.v \in StaticsType
  BY DEF Devices
<1>3. h.st = "wait" => h.req \in OutRequests
  BY DEF Transfer
<1>4. CASE s.v.cmd = "set"
  <2>1. /\ g \in Devices /\ SameFrame(g, s) /\ SameMap(g, s)
        /\ g.v.tables = s.v.tables /\ g.v.download = s.v.download
        /\ g.v.left = s.v.left - 1
        /\ g.v.cmd = (IF s.v.left = 1 THEN "void" ELSE s.v.cmd)
    BY <1>4, EP0RxDataFields DEF TokenServed, Ep0Rx
  <2> HIDE DEF g
  <2>2. /\ t \in Devices /\ EpFrame(t, s) /\ SameMap(t, s)
        /\ t.v.tables = s.v.tables /\ t.v.download = s.v.download
        /\ t.v.left = s.v.left - 1
        /\ t.v.cmd = (IF s.v.left = 1 THEN "void" ELSE s.v.cmd)
    BY <1>1, <2>1, AckedFields DEF EpFrame, SameFrame, SameMap
  <2>3. TablesOfSpeed(t) /\ Mapped(t) /\ AnswerLeft(t)
    BY <1>4, <2>2 DEF EpFrame, SameMap, TablesOfSpeed, Mapped, AnswerLeft
  <2>4. s.v.left \in Nat /\ h.out \in Nat
    BY <1>2, SizesAssumption DEF StaticsType, Hosts
  <2>5. ASSUME h.st = "wait", h.req = "download" PROVE t.v.left = h.out /\ (t.v.left > 0 => t.v.cmd = "set")
    <3>1. s.v.left = h.out + 1
      BY <2>5, OtherSources DEF Transfer
    <3> QED BY <1>4, <2>2, <2>4, <3>1
  <2>6. Transfer(t, h)
    BY <1>3, <2>2, <2>4, <2>5 DEF Transfer, EpFrame, InRequests, OutRequests
  <2> QED BY <2>2, <2>3, <2>6
<1>5. CASE s.v.cmd # "set"
  <2>1. g = s
    BY <1>5 DEF Ep0Rx
  <2> HIDE DEF g
  <2>2. /\ t \in Devices /\ EpFrame(t, s) /\ SameMap(t, s) /\ t.v = s.v
    BY <1>1, <2>1, AckedFields DEF EpFrame, SameMap
  <2>3. TablesOfSpeed(t) /\ Mapped(t) /\ AnswerLeft(t)
    BY <2>2 DEF EpFrame, SameMap, TablesOfSpeed, Mapped, AnswerLeft
  <2>4. ~(h.st = "wait" /\ h.req = "download")
    <3>1. SUFFICES ASSUME h.st = "wait", h.req = "download" PROVE FALSE
      OBVIOUS
    <3>2. s.v.left = h.out + 1 /\ (s.v.left > 0 => s.v.cmd = "set")
      BY <3>1, OtherSources DEF Transfer
    <3>3. h.out \in Nat
      BY SizesAssumption DEF Hosts
    <3> QED BY <1>5, <3>2, <3>3
  <2>5. Transfer(t, h)
    BY <1>3, <2>4 DEF Transfer, OutRequests
  <2> QED BY <2>2, <2>3, <2>5
<1> QED BY <1>4, <1>5

(* A SETUP packet begins the transfer that the host has in mind.           *)
LEMMA Ep0SetupKeeps ==
    ASSUME NEW s \in Devices, NEW h \in Hosts,
           SetupPending(s), TablesOfSpeed(s), Mapped(s), AnswerLeft(s), Transfer(s, h),
           ~(s.image = "rom" /\ s.v.download), s.regs.src0 = {"setup"},
           NEW t, t = Ep0(s)
    PROVE  /\ t \in Devices /\ EpFrame(t, s) /\ TablesOfSpeed(t) /\ Mapped(t)
           /\ AnswerLeft(t) /\ Transfer(t, h)
<1> DEFINE g == Ep0Setup(s)
           r == s.regs.setup
<1>1. t = Acked(g)
  BY Ep0Split
<1>2. r \in Requests
  BY DEF SetupPending
<1>3. PICK u \in Devices :
             /\ SameFrame(u, s) /\ SameMap(u, s) /\ u.regs = s.regs
             /\ u.v.download = s.v.download
             /\ "reset" \in s.regs.src7 \/ u.v.tables = u.speed
             /\ Outcome(g, u, r) /\ Mapped(g)
  BY <1>2, Ep0SetupFields
<1> HIDE DEF g
<1>4. /\ t \in Devices /\ t.v = g.v /\ t.regs.src0 = {}
      /\ t.image = g.image /\ t.magic = g.magic /\ t.ep3int = g.ep3int /\ t.speed = g.speed
      /\ t.regs.src7 = g.regs.src7 /\ t.regs.fifo = g.regs.fifo /\ t.regs.cx = g.regs.cx
      /\ t.regs.configured = g.regs.configured /\ t.regs.mapped = g.regs.mapped
  BY <1>1, <1>3, AckedFields DEF Outcome
<1>5. EpFrame(t, s)
  BY <1>3, <1>4 DEF Outcome, EpFrame, SameFrame
<1>6. TablesOfSpeed(t) /\ Mapped(t) /\ AnswerLeft(t)
  BY <1>3, <1>4 DEF Outcome, SameFrame, TablesOfSpeed, Mapped, AnswerLeft
<1>7. ASSUME h.st = "wait" PROVE Transfer(t, h)
  <2>1. /\ h.req = r /\ h.got = << >> /\ s.regs.src7 = {} /\ s.regs.cx = "idle"
        /\ (h.req = "download" => h.out = DownloadPackets)
        /\ (h.req \notin OutRequests => h.out = 0)
    BY <1>7 DEF Transfer
  <2>2. u.v.tables = s.speed /\ u.image = s.image /\ u.regs.cx = "idle"
    BY <1>3, <2>1 DEF SameFrame
  <2>3. h.req = "device" => OnePacket(t, h, <<"device", t.image>>)
    <3> SUFFICES ASSUME h.req = "device" PROVE OnePacket(t, h, <<"device", t.image>>)
      OBVIOUS
    <3>1. g.regs.cx = "done" /\ g.regs.fifo = <<<<"device", u.image>>>> /\ u.image = t.image
      BY <1>3, <1>4, <2>1 DEF Outcome, SameFrame
    <3> QED BY <1>4, <2>1, <3>1 DEF OnePacket
  <2>4. h.req = "config" => OnePacket(t, h, <<"config", t.speed>>)
    <3> SUFFICES ASSUME h.req = "config" PROVE OnePacket(t, h, <<"config", t.speed>>)
      OBVIOUS
    <3>1. g.regs.cx = "done" /\ g.regs.fifo = <<<<"config", u.v.tables>>>> /\ u.v.tables = t.speed
      BY <1>3, <1>4, <2>1, <2>2 DEF Outcome, SameFrame
    <3> QED BY <1>4, <2>1, <3>1 DEF OnePacket
  <2>5. h.req = "string" => StringStage(t, h)
    <3> SUFFICES ASSUME h.req = "string" PROVE StringStage(t, h)
      OBVIOUS
    <3>1. /\ t.v.left = StringPackets - 1 /\ Len(t.v.ptr) = StringPackets - 1
          /\ \A i \in 1..Len(t.v.ptr) : t.v.ptr[i] = <<"string", 1 + i>>
          /\ t.regs.fifo = <<<<"string", 1>>>>
          /\ t.v.cmd = (IF t.v.left > 0 THEN "get" ELSE "void")
          /\ t.regs.cx = (IF t.v.left > 0 THEN "idle" ELSE "done")
      BY <1>3, <1>4, <2>1, <2>2 DEF Outcome
    <3>2. Len(h.got) = 0 /\ Len(t.regs.fifo) = 1 /\ t.regs.fifo[1] = <<"string", 1>>
      BY <2>1, <3>1
    <3> DEFINE n == Len(h.got) + Len(t.regs.fifo)
    <3>3. n = 1 /\ StringPackets \in Nat \ {0}
      BY <3>2, SizesAssumption
    <3>4. t.v.left = Len(t.v.ptr) /\ n + t.v.left = StringPackets /\ Len(t.regs.fifo) <= 1
          /\ t.regs.cx = (IF t.v.left = 0 THEN "done" ELSE "idle")
          /\ (t.v.left > 0 => t.v.cmd = "get")
      BY <3>1, <3>2, <3>3
    <3>5. \A i \in 1..Len(t.v.ptr) : t.v.ptr[i] = <<"string", n + i>>
      BY <3>1, <3>3
    <3>6. t.regs.fifo[1] = <<"string", n>>
      BY <3>2, <3>3
    <3>7. \A i \in 1..Len(h.got) : h.got[i] = <<"string", i>>
      BY <3>2
    <3>8. t.regs.src0 \in {{}, {"in"}} /\ t.regs.src0 # {"in"}
      BY <1>4, OtherSources
    <3> QED BY <3>4, <3>5, <3>6, <3>7, <3>8, Zenon DEF StringStage
  <2>6. h.req = "download" => t.v.left = h.out + 0 /\ t.v.cmd = "set"
    <3> SUFFICES ASSUME h.req = "download" PROVE t.v.left = h.out + 0 /\ t.v.cmd = "set"
      OBVIOUS
    <3>1. g.v.left = DownloadPackets /\ g.v.cmd = "set"
      BY <1>3, <2>1 DEF Outcome
    <3> QED BY <1>4, <2>1, <3>1, SizesAssumption
  <2>7. h.req \in InRequests \ {"string", "vendorin"} => t.regs.cx # "idle"
    BY <1>3, <1>4, <2>1 DEF Outcome
  <2>8. t.image = "rom" /\ t.v.download => h.req = "dlcomp"
    <3>1. t.image = s.image
      BY <1>5 DEF EpFrame
    <3>2. h.req # "dlcomp" => t.v.download = s.v.download
      BY <1>3, <1>4, <2>1 DEF Outcome
    <3> QED BY <3>1, <3>2, Zenon
  <2> QED BY <1>2, <1>4, <1>5, <2>1, <2>3, <2>4, <2>5, <2>6, <2>7, <2>8, OtherSources
          DEF Transfer, EpFrame
<1>8. Transfer(t, h)
  BY <1>7 DEF Transfer
<1> QED BY <1>4, <1>5, <1>6, <1>8

(* The end of a command ends the transfer.                                 *)
LEMMA Ep0EndKeeps ==
    ASSUME NEW s \in Devices, NEW h \in Hosts,
           TablesOfSpeed(s), Mapped(s), AnswerLeft(s), Transfer(s, h), s.regs.src0 = {"end"},
           NEW t, t = Ep0(s)
    PROVE  /\ t \in Devices /\ EpFrame(t, s) /\ TablesOfSpeed(t) /\ Mapped(t)
           /\ AnswerLeft(t) /\ Transfer(t, h)
<1> DEFINE g == Ep0End(s)
<1>1. t = Acked(g)
  BY Ep0Split
<1>2. g \in Devices /\ SameFrame(g, s) /\ SameMap(g, s) /\ g.v.tables = s.v.tables
      /\ AnswerLeft(g)
  <2> DEFINE u == [s EXCEPT !.v.cmd = "void"]
  <2>1. u \in Devices /\ SameFrame(u, s) /\ SameMap(u, s) /\ u.v.tables = s.v.tables
        /\ u.v.cmd = "void"
    BY DEF Devices, StaticsType, SameFrame, SameMap
  <2>2. g = Done(u) \/ g = s
    BY DEF Ep0End
  <2> HIDE DEF u, g
  <2> QED BY <2>1, <2>2, DoneFields DEF SameFrame, SameMap, SameData, AnswerLeft
<1> HIDE DEF g
<1>3. t \in Devices /\ EpFrame(t, s) /\ SameMap(t, s) /\ t.v.tables = s.v.tables
      /\ AnswerLeft(t)
  BY <1>1, <1>2, AckedFields DEF EpFrame, SameFrame, SameMap, AnswerLeft
<1>4. Transfer(t, h)
  BY DEF Transfer
<1> QED BY <1>3, <1>4 DEF EpFrame, SameMap, TablesOfSpeed, Mapped

(* Without a source nothing is done.                                       *)
LEMMA Ep0NoneKeeps ==
    ASSUME NEW s \in Devices, NEW h \in Hosts,
           TablesOfSpeed(s), Mapped(s), AnswerLeft(s), Transfer(s, h), s.regs.src0 = {},
           NEW t, t = Ep0(s)
    PROVE  /\ t \in Devices /\ EpFrame(t, s) /\ TablesOfSpeed(t) /\ Mapped(t)
           /\ AnswerLeft(t) /\ Transfer(t, h)
<1>1. t = Acked(s)
  BY Ep0Split
<1>2. /\ t \in Devices /\ EpFrame(t, s) /\ SameMap(t, s) /\ t.v = s.v
      /\ t.regs.cx = s.regs.cx /\ t.regs.fifo = s.regs.fifo
  BY <1>1, AckedFields DEF EpFrame, SameMap
<1>3. TablesOfSpeed(t) /\ Mapped(t) /\ AnswerLeft(t)
  BY <1>2 DEF EpFrame, SameMap, TablesOfSpeed, Mapped, AnswerLeft
<1>4. Transfer(t, h)
  <2>1. h.req = "string" /\ StringStage(s, h) => StringStage(t, h)
    BY <1>2, Zenon DEF EpFrame, StringStage
  <2>2. \A d : OnePacket(s, h, d) => OnePacket(t, h, d)
    BY <1>2, Zenon DEF OnePacket
  <2> QED BY <1>2, <2>1, <2>2, OtherSources DEF EpFrame, Transfer
<1> QED BY <1>2, <1>3, <1>4

(* One round of the handlers of EP0.                                       *)
LEMMA Ep0Keeps ==
    ASSUME NEW s \in Devices, NEW h \in Hosts,
           SetupPending(s), TablesOfSpeed(s), Mapped(s), AnswerLeft(s), TokenServed(s), Transfer(s, h),
           ~(s.image = "rom" /\ s.v.download),
           NEW t, t = Ep0(s)
    PROVE  /\ t \in Devices /\ EpFrame(t, s) /\ TablesOfSpeed(t) /\ Mapped(t)
           /\ AnswerLeft(t) /\ Transfer(t, h)
<1>1. s.regs.src0 \in Source0
  BY DEF Devices, RegsType
<1> QED BY <1>1, Ep0InKeeps, Ep0OutKeeps, Ep0SetupKeeps, Ep0EndKeeps, Ep0NoneKeeps DEF Source0

----------------------------------------------------------------------------
(* The steps.                                                              *)

(* Two facts on lengths.                                                   *)
LEMMA OneOrNone == ASSUME NEW l \in Nat, l # 0, l <= 1 PROVE l = 1
OBVIOUS

(* A summand of naturals is at most the sum.                               *)
LEMMA PartAtMost ==
    ASSUME NEW a \in Nat, NEW b \in Nat, NEW c \in Nat, NEW n, a + b + c = n
    PROVE  a <= n
OBVIOUS

(* The registers after the initialisation of the USB block.                *)
LEMMA PhyInitFields ==
    PhyInit \in RegsType /\ PhyInit.src0 = {} /\ PhyInit.configured = FALSE
<1>1. {} \in Source0
  BY Zenon DEF Source0
<1> QED BY <1>1 DEF PhyInit, RegsType

(* A restart keeps the controller or initializes it; the statics are new.  *)
LEMMA UsbInitFields ==
    ASSUME NEW s \in Devices, NEW t, t = UsbInit(s)
    PROVE  /\ t \in Devices /\ t.image = "rom" /\ t.magic = s.magic /\ t.speed = s.speed
           /\ t.v = Statics /\ (t.ep3int <=> s.magic = "wdt")
           /\ t.regs = IF s.magic = "cold" THEN PhyInit ELSE s.regs
<1> DEFINE q == IF s.magic = "cold" THEN PhyInit ELSE s.regs
           b == (s.magic = "wdt")
<1>1. Statics \in StaticsType
  BY DEF Statics, StaticsType
<1>2. PhyInit \in RegsType
  BY PhyInitFields
<1>3. q \in RegsType /\ b \in BOOLEAN /\ "rom" \in Images
  BY <1>2 DEF Devices, Images
<1>4. t = [s EXCEPT !.image = "rom", !.v = Statics, !.regs = q, !.ep3int = b]
  BY DEF UsbInit
<1> HIDE DEF q, b
<1>5. t \in Devices /\ t.image = "rom" /\ t.magic = s.magic /\ t.speed = s.speed
      /\ t.v = Statics /\ t.ep3int = b /\ t.regs = q
  BY <1>1, <1>3, <1>4 DEF Devices
<1> QED BY <1>5, Zenon DEF q, b

(* The conjuncts about the device alone hold after a restart.              *)
LEMMA UsbInitKeeps ==
    ASSUME NEW s \in Devices, SetupPending(s), Mapped(s), NEW t, t = UsbInit(s)
    PROVE  SetupPending(t) /\ TablesOfSpeed(t) /\ Mapped(t) /\ AnswerLeft(t) /\ TokenServed(t)
<1>1. /\ t.image = "rom" /\ t.speed = s.speed /\ t.v = Statics
      /\ t.regs = PhyInit \/ t.regs = s.regs
  BY UsbInitFields
<1>2. TablesOfSpeed(t) /\ AnswerLeft(t) /\ TokenServed(t)
  BY <1>1 DEF TablesOfSpeed, AnswerLeft, TokenServed, Statics
<1>3. SetupPending(t)
  BY <1>1 DEF SetupPending, PhyInit
<1>4. Mapped(t)
  BY <1>1 DEF Mapped, PhyInit
<1> QED BY <1>2, <1>3, <1>4

(* vUsb_rst and the suspend, after the handlers of EP0.                    *)
LEMMA BusEventsKeeps ==
    ASSUME NEW s \in Devices, NEW h \in Hosts, s.regs.src0 = {},
           TablesOfSpeed(s), Mapped(s), AnswerLeft(s), Transfer(s, h), NEW t, t = BusEvents(s)
    PROVE  /\ t \in Devices
           /\ SetupPending(t) /\ TablesOfSpeed(t) /\ Mapped(t) /\ AnswerLeft(t) /\ TokenServed(t)
           /\ \/ /\ t.image = s.image /\ t.magic = s.magic /\ t.ep3int = s.ep3int
                 /\ Transfer(t, h)
              \/ /\ s.image = "fw" /\ h.st # "wait"
                 /\ t.image = "rom" /\ t.magic = "sus" /\ t.ep3int = FALSE
<1> DEFINE r == IF "reset" \in s.regs.src7 THEN Reset(s) ELSE s
           w == [r EXCEPT !.regs.src7 = {}]
           x == [w EXCEPT !.magic = "sus", !.ep3int = FALSE]
<1>1. /\ r \in Devices /\ r.image = s.image /\ r.magic = s.magic /\ r.ep3int = s.ep3int
      /\ r.speed = s.speed /\ r.regs = s.regs /\ r.v.tables \in {"none", r.speed}
      /\ AnswerLeft(r)
      /\ s.regs.src7 = {} => r = s
  <2>1. CASE "reset" \in s.regs.src7
    <3>1. r = [s EXCEPT !.v.tables = "none"]
      BY <2>1 DEF Reset
    <3> HIDE DEF r
    <3> QED BY <2>1, <3>1 DEF Devices, StaticsType, AnswerLeft
  <2>2. CASE "reset" \notin s.regs.src7
    BY <2>2 DEF TablesOfSpeed
  <2> QED BY <2>1, <2>2
<1>2. t = IF "suspend" \in s.regs.src7 /\ s.image = "fw" THEN UsbInit(x) ELSE w
  BY Zenon DEF BusEvents, SuspendReboot
<1> HIDE DEF r
<1>3. /\ w \in Devices /\ w.image = s.image /\ w.magic = s.magic /\ w.ep3int = s.ep3int
      /\ w.speed = s.speed /\ w.v = r.v /\ w.regs.src0 = {} /\ w.regs.src7 = {}
      /\ w.regs.fifo = s.regs.fifo /\ w.regs.cx = s.regs.cx
      /\ w.regs.configured = s.regs.configured /\ w.regs.mapped = s.regs.mapped
  BY <1>1 DEF Devices, RegsType
<1>4. SetupPending(w) /\ TablesOfSpeed(w) /\ Mapped(w) /\ AnswerLeft(w) /\ TokenServed(w)
  BY <1>1, <1>3, OtherSources DEF SetupPending, TablesOfSpeed, Mapped, AnswerLeft, TokenServed
<1> HIDE DEF w
<1>5. x \in Devices /\ x.magic = "sus" /\ x.image = w.image /\ x.speed = w.speed /\ x.v = w.v
      /\ x.regs = w.regs
  BY <1>3 DEF Devices, Magics
<1>6. SetupPending(x) /\ Mapped(x)
  BY <1>4, <1>5 DEF SetupPending, Mapped
<1> HIDE DEF x
<1>7. CASE "suspend" \in s.regs.src7 /\ s.image = "fw"
  <2>1. t = UsbInit(x)
    BY <1>2, <1>7
  <2>2. SetupPending(t) /\ TablesOfSpeed(t) /\ Mapped(t) /\ AnswerLeft(t) /\ TokenServed(t)
    BY <1>5, <1>6, <2>1, UsbInitKeeps
  <2>3. t \in Devices /\ t.image = "rom" /\ t.magic = "sus" /\ ~t.ep3int
    BY <1>5, <2>1, UsbInitFields
  <2>4. t.ep3int = FALSE
    BY <2>3, Zenon DEF Devices
  <2>5. h.st # "wait"
    BY <1>7 DEF Transfer
  <2> QED BY <1>7, <2>2, <2>3, <2>4, <2>5
<1>8. CASE ~("suspend" \in s.regs.src7 /\ s.image = "fw")
  <2>1. t = w
    BY <1>2, <1>8
  <2>2. ASSUME h.st = "wait" PROVE Transfer(w, h)
    <3>1. s.regs.src7 = {} /\ w.v = s.v
      BY <1>1, <1>3, <2>2 DEF Transfer
    <3>2. h.req = "string" /\ StringStage(s, h) => StringStage(w, h)
      BY <1>3, <3>1, Zenon DEF StringStage
    <3>3. \A d : OnePacket(s, h, d) => OnePacket(w, h, d)
      BY <1>3, Zenon DEF OnePacket
    <3> QED BY <1>3, <3>1, <3>2, <3>3, OtherSources DEF Transfer
  <2>3. Transfer(w, h)
    BY <2>2 DEF Transfer
  <2> QED BY <1>3, <1>4, <2>1, <2>3
<1> QED BY <1>7, <1>8

(* A call of the task, from EP3 to the events of the bus.                  *)
LEMMA TaskKeeps ==
    ASSUME IInv, ~(usb.image = "rom" /\ usb.v.download), usb' = BusEvents(Ep0(Disarmed))
    PROVE  /\ usb' \in Devices
           /\ SetupPending(usb') /\ TablesOfSpeed(usb') /\ Mapped(usb') /\ AnswerLeft(usb')
      /\ TokenServed(usb')
           /\ \/ /\ usb'.image = usb.image /\ usb'.magic = usb.magic
                 /\ usb'.ep3int = (usb.ep3int /\ ~Ep3Asks)
                 /\ Transfer(usb', host)
              \/ /\ usb.image = "fw" /\ host.st # "wait"
                 /\ usb'.image = "rom" /\ usb'.magic = "sus" /\ usb'.ep3int = FALSE
<1> DEFINE s == Disarmed
           t == Ep0(s)
<1>1. usb \in Devices /\ host \in Hosts
  BY DEF IInv, TypeOK
<1>6. usb' = BusEvents(t)
  BY Zenon
<1>2. /\ s \in Devices /\ s.image = usb.image /\ s.magic = usb.magic /\ s.speed = usb.speed
      /\ s.v = usb.v /\ s.regs = usb.regs
      /\ s.ep3int = (usb.ep3int /\ ~Ep3Asks)
  <2>1. CASE Ep3Asks
    <3>1. s = [usb EXCEPT !.ep3int = FALSE]
      BY <2>1 DEF Disarmed
    <3> HIDE DEF s
    <3>2. s \in Devices /\ s.image = usb.image /\ s.magic = usb.magic /\ s.speed = usb.speed
          /\ s.v = usb.v /\ s.regs = usb.regs /\ s.ep3int = FALSE
      BY <1>1, <3>1 DEF Devices
    <3> QED BY <2>1, <3>2, Zenon
  <2>2. CASE ~Ep3Asks
    <3>1. s = usb
      BY <2>2 DEF Disarmed
    <3> HIDE DEF s
    <3>2. usb.ep3int \in BOOLEAN
      BY <1>1 DEF Devices
    <3> QED BY <1>1, <2>2, <3>1, <3>2, Zenon
  <2> QED BY <2>1, <2>2
<1> HIDE DEF s
<1>3. SetupPending(s) /\ TablesOfSpeed(s) /\ Mapped(s) /\ AnswerLeft(s) /\ TokenServed(s)
  BY <1>2 DEF IInv, SetupPending, TablesOfSpeed, Mapped, AnswerLeft, TokenServed
<1>4. Transfer(s, host)
  <2>1. StringStage(usb, host) => StringStage(s, host)
    BY <1>2, Zenon DEF StringStage
  <2>2. \A d : OnePacket(usb, host, d) => OnePacket(s, host, d)
    BY <1>2, Zenon DEF OnePacket
  <2>3. Transfer(usb, host)
    BY DEF IInv
  <2> QED BY <1>2, <2>1, <2>2, <2>3, Zenon DEF Transfer
<1>5. /\ t \in Devices /\ EpFrame(t, s) /\ TablesOfSpeed(t) /\ Mapped(t)
      /\ AnswerLeft(t) /\ Transfer(t, host)
  <2>1. ~(s.image = "rom" /\ s.v.download)
    BY <1>2, Zenon
  <2> QED BY <1>1, <1>2, <1>3, <1>4, <2>1, Ep0Keeps
<1> HIDE DEF t
<1>7. t.regs.src0 = {} /\ t.image = usb.image /\ t.magic = usb.magic /\ t.ep3int = s.ep3int
  BY <1>2, <1>5 DEF EpFrame
<1>8. /\ usb' \in Devices
      /\ SetupPending(usb') /\ TablesOfSpeed(usb') /\ Mapped(usb') /\ AnswerLeft(usb')
      /\ TokenServed(usb')
      /\ \/ /\ usb'.image = t.image /\ usb'.magic = t.magic /\ usb'.ep3int = t.ep3int
            /\ Transfer(usb', host)
         \/ /\ t.image = "fw" /\ host.st # "wait"
            /\ usb'.image = "rom" /\ usb'.magic = "sus" /\ usb'.ep3int = FALSE
  BY <1>1, <1>5, <1>6, <1>7, BusEventsKeeps
<1> QED BY <1>2, <1>7, <1>8, Zenon

(* The device as the power comes up.                                       *)
LEMMA InitIInv == Init => IInv
<1> SUFFICES ASSUME Init PROVE IInv
  OBVIOUS
<1> DEFINE s == [image |-> "rom", magic |-> "cold", ep3int |-> FALSE,
                 speed |-> "high", v |-> Statics, regs |-> PhyInit]
<1>1. usb = UsbInit(s) /\ host = Idle("off") /\ ep3 = [fifo |-> "empty", got |-> FALSE]
  BY DEF Init
<1>2. Statics \in StaticsType
  BY DEF Statics, StaticsType
<1>3. PhyInit \in RegsType
  BY PhyInitFields
<1>4. s \in Devices /\ SetupPending(s) /\ Mapped(s)
  <2>1. s \in Devices
    BY <1>2, <1>3 DEF Devices, Images, Magics, Speeds
  <2> QED BY <2>1 DEF SetupPending, Mapped, PhyInit
<1> HIDE DEF s
<1>5. usb \in Devices /\ usb.image = "rom" /\ usb.magic = "cold"
  <2>1. s.magic = "cold"
    BY DEF s
  <2> QED BY <1>1, <1>4, <2>1, UsbInitFields
<1>6. SetupPending(usb) /\ TablesOfSpeed(usb) /\ Mapped(usb) /\ AnswerLeft(usb) /\ TokenServed(usb)
  BY <1>1, <1>4, UsbInitKeeps
<1>7. host \in Hosts /\ Transfer(usb, host)
  <2>1. host \in Hosts
    BY <1>1, SizesAssumption DEF Idle, Hosts
  <2> QED BY <1>1, <2>1 DEF Idle, Transfer
<1>8. ep3 \in Ep3s /\ MagicWord(usb, ep3)
  BY <1>1, <1>5 DEF Ep3s, MagicWord
<1> QED BY <1>5, <1>6, <1>7, <1>8 DEF IInv, TypeOK

(* The invariant of the next state, from its parts.                        *)
LEMMA NextIInv ==
    ASSUME usb' \in Devices, host' \in Hosts, ep3' \in Ep3s,
           SetupPending(usb'), TablesOfSpeed(usb'), Mapped(usb'), AnswerLeft(usb'), TokenServed(usb'),
           MagicWord(usb', ep3'), Transfer(usb', host')
    PROVE  IInv'
BY DEF IInv, TypeOK

(* A host that waits for nothing.                                          *)
LEMMA IdleHost ==
    ASSUME NEW st \in {"off", "idle"}, NEW s
    PROVE  Idle(st) \in Hosts /\ Transfer(s, Idle(st))
<1>1. Idle(st) \in Hosts
  BY SizesAssumption DEF Idle, Hosts
<1> QED BY <1>1 DEF Idle, Transfer

(* A turn of the boot ROM's USB task keeps the invariant.                  *)
LEMMA RomTaskKeeps == IInv /\ RomTask => IInv'
<1> SUFFICES ASSUME IInv, RomTask PROVE IInv'
  OBVIOUS
<1>1. usb.image = "rom" /\ ~usb.v.download /\ usb' = BusEvents(Ep0(Disarmed))
      /\ ep3' = GenWatchDogEvent /\ host' = host
  BY DEF RomTask
<1>2. /\ usb' \in Devices
      /\ SetupPending(usb') /\ TablesOfSpeed(usb') /\ Mapped(usb') /\ AnswerLeft(usb')
      /\ TokenServed(usb')
      /\ usb'.image = usb.image /\ usb'.magic = usb.magic
      /\ usb'.ep3int = (usb.ep3int /\ ~Ep3Asks)
      /\ Transfer(usb', host)
  BY <1>1, TaskKeeps
<1>3. ep3 \in Ep3s /\ host \in Hosts /\ MagicWord(usb, ep3)
  BY DEF IInv, TypeOK
<1>4. ep3' \in Ep3s /\ (~Ep3Asks => ep3' = ep3)
  <2>1. CASE Ep3Asks
    <3>1. ep3' = [ep3 EXCEPT !.fifo = "watchdog"]
      BY <1>1, <2>1 DEF GenWatchDogEvent
    <3> QED BY <1>3, <2>1, <3>1 DEF Ep3s
  <2>2. CASE ~Ep3Asks
    BY <1>1, <1>3, <2>2 DEF GenWatchDogEvent
  <2> QED BY <2>1, <2>2
<1>5. MagicWord(usb', ep3')
  <2>1. usb.magic = "sus" => ~Ep3Asks /\ ~usb'.ep3int /\ ep3.fifo # "watchdog"
    BY <1>1, <1>2, <1>3, Zenon DEF MagicWord, Ep3Asks
  <2>2. usb'.image = "rom" /\ usb'.magic = usb.magic
    BY <1>1, <1>2
  <2> QED BY <1>4, <2>1, <2>2 DEF MagicWord
<1> QED BY <1>1, <1>2, <1>3, <1>4, <1>5, NextIInv

(* A turn of the firmware's USB task keeps the invariant.                  *)
LEMMA FwTaskKeeps == IInv /\ FwTask => IInv'
<1> SUFFICES ASSUME IInv, FwTask PROVE IInv'
  OBVIOUS
<1>1. usb.image = "fw" /\ usb' = BusEvents(Ep0(Disarmed))
      /\ host' = (IF usb'.image = "rom" THEN GiveUp ELSE host)
      /\ ep3' = IF usb'.image = "rom" THEN Flushed ELSE ep3
  BY DEF FwTask
<1>2. /\ usb' \in Devices
      /\ SetupPending(usb') /\ TablesOfSpeed(usb') /\ Mapped(usb') /\ AnswerLeft(usb')
      /\ TokenServed(usb')
      /\ \/ /\ usb'.image = usb.image /\ usb'.magic = usb.magic
            /\ Transfer(usb', host)
         \/ /\ host.st # "wait"
            /\ usb'.image = "rom" /\ usb'.magic = "sus" /\ usb'.ep3int = FALSE
  BY <1>1, TaskKeeps
<1>3. ep3 \in Ep3s /\ host \in Hosts /\ MagicWord(usb, ep3)
  BY DEF IInv, TypeOK
<1>4. Flushed \in Ep3s /\ Flushed.fifo = "empty"
  BY <1>3 DEF Flushed, Ep3s
<1>5. CASE usb'.image = "rom"
  <2>1. host.st # "wait" /\ usb'.magic = "sus" /\ ~usb'.ep3int
    BY <1>1, <1>2, <1>5
  <2>2. ep3' = Flushed /\ (host' = host \/ host' = Idle("idle"))
    BY <1>1, <1>5 DEF GiveUp
  <2>3. MagicWord(usb', ep3')
    BY <1>4, <1>5, <2>1, <2>2 DEF MagicWord
  <2>4. host' \in Hosts /\ Transfer(usb', host')
    BY <1>3, <2>1, <2>2, IdleHost DEF Transfer
  <2> QED BY <1>2, <1>3, <1>4, <2>2, <2>3, <2>4, NextIInv
<1>6. CASE usb'.image # "rom"
  <2>1. usb'.image = usb.image /\ usb'.magic = usb.magic /\ Transfer(usb', host)
    BY <1>2, <1>6
  <2>2. ep3' = ep3 /\ host' = host
    BY <1>1, <1>6
  <2>3. MagicWord(usb', ep3')
    BY <1>1, <1>3, <1>6, <2>1 DEF MagicWord
  <2> QED BY <1>2, <1>3, <2>1, <2>2, <2>3, NextIInv
<1> QED BY <1>5, <1>6

(* The firmware takes over from the boot ROM.                              *)
LEMMA AppStartKeeps == IInv /\ AppStart => IInv'
<1> SUFFICES ASSUME IInv, AppStart PROVE IInv'
  OBVIOUS
<1> DEFINE s == [usb EXCEPT !.image = "fw", !.magic = "wdt", !.v.download = FALSE]
<1>1. usb.image = "rom" /\ usb.v.download
      /\ usb' = (IF s.speed = "full" THEN [s EXCEPT !.regs.mapped = @ \cup {6}] ELSE s)
      /\ ep3' = [ep3 EXCEPT !.got = FALSE] /\ host' = host
  BY DEF AppStart, EP6Cfg
<1>2. /\ usb \in Devices /\ ep3 \in Ep3s /\ host \in Hosts
      /\ usb.v \in StaticsType /\ usb.regs \in RegsType
      /\ SetupPending(usb) /\ TablesOfSpeed(usb) /\ Mapped(usb) /\ AnswerLeft(usb) /\ TokenServed(usb)
      /\ Transfer(usb, host)
  BY DEF IInv, TypeOK, Devices
<1>3. /\ s \in Devices /\ s.image = "fw" /\ s.magic = "wdt" /\ s.speed = usb.speed
      /\ s.ep3int = usb.ep3int /\ s.regs = usb.regs
      /\ s.v.tables = usb.v.tables /\ s.v.config = usb.v.config /\ s.v.cmd = usb.v.cmd
      /\ s.v.left = usb.v.left /\ s.v.ptr = usb.v.ptr
  BY <1>2 DEF Devices, StaticsType, Images, Magics
<1> HIDE DEF s
<1>4. /\ usb' \in Devices /\ usb'.image = "fw" /\ usb'.magic = "wdt" /\ usb'.speed = usb.speed
      /\ usb'.v = s.v
      /\ usb'.regs.src0 = usb.regs.src0 /\ usb'.regs.src7 = usb.regs.src7
      /\ usb'.regs.setup = usb.regs.setup /\ usb'.regs.fifo = usb.regs.fifo
      /\ usb'.regs.cx = usb.regs.cx /\ usb'.regs.configured = usb.regs.configured
      /\ usb'.regs.mapped = IF usb.speed = "full" THEN usb.regs.mapped \cup {6}
                                                  ELSE usb.regs.mapped
  <2>1. CASE s.speed = "full"
    <3>1. usb' = [s EXCEPT !.regs.mapped = @ \cup {6}] /\ s.regs \in RegsType
          /\ s.regs.mapped \cup {6} \in SUBSET (1..6)
      BY <1>1, <1>3, <2>1 DEF Devices, RegsType
    <3> QED BY <1>3, <2>1, <3>1 DEF Devices, RegsType
  <2>2. CASE s.speed # "full"
    BY <1>1, <1>3, <2>2
  <2> QED BY <2>1, <2>2
<1>5. SetupPending(usb') /\ TablesOfSpeed(usb') /\ AnswerLeft(usb') /\ TokenServed(usb')
  BY <1>2, <1>3, <1>4 DEF SetupPending, TablesOfSpeed, AnswerLeft, TokenServed
<1>6. Mapped(usb')
  <2>1. usb.speed = "high" \/ usb.speed = "full"
    BY <1>2 DEF Devices, Speeds
  <2> QED BY <1>2, <1>4, <2>1 DEF Mapped, RomEndpoints
<1>7. ep3' \in Ep3s /\ MagicWord(usb', ep3')
  BY <1>1, <1>2, <1>4 DEF Ep3s, MagicWord
<1>8. Transfer(usb', host)
  <2>1. ASSUME host.st = "wait", usb.regs.src0 # {"setup"} PROVE host.req = "dlcomp"
    BY <1>1, <1>2, <2>1, Zenon DEF Transfer
  <2>2. "dlcomp" \in InRequests \ {"string"}
    BY DEF InRequests
  <2>3. usb'.image # "rom"
    BY <1>4
  <2> QED BY <1>2, <1>4, <2>1, <2>2, <2>3 DEF Transfer
<1> QED BY <1>1, <1>2, <1>4, <1>5, <1>6, <1>7, <1>8, NextIInv

(* The watchdog resets the chip.                                           *)
LEMMA WatchdogResetKeeps == IInv /\ WatchdogReset => IInv'
<1> SUFFICES ASSUME IInv, WatchdogReset PROVE IInv'
  OBVIOUS
<1>1. usb.image = "fw" /\ usb' = UsbInit(usb)
      /\ host' = (IF usb.magic = "cold" THEN Idle("off") ELSE GiveUp)
  BY DEF WatchdogReset, Restart
<1>2. PICK f \in {ep3.fifo, "event"} : ep3' = [fifo |-> f, got |-> FALSE]
  BY DEF WatchdogReset
<1>3. /\ usb \in Devices /\ ep3 \in Ep3s /\ host \in Hosts
      /\ SetupPending(usb) /\ Mapped(usb) /\ MagicWord(usb, ep3)
  BY DEF IInv, TypeOK
<1>4. ep3' \in Ep3s
  BY <1>2, <1>3 DEF Ep3s
<1>5. usb' \in Devices /\ usb'.image = "rom" /\ usb'.magic = "wdt"
  BY <1>1, <1>3, UsbInitFields DEF MagicWord
<1>6. SetupPending(usb') /\ TablesOfSpeed(usb') /\ Mapped(usb') /\ AnswerLeft(usb')
      /\ TokenServed(usb')
  BY <1>1, <1>3, UsbInitKeeps
<1>7. MagicWord(usb', ep3')
  BY <1>5 DEF MagicWord
<1>8. host' \in Hosts /\ Transfer(usb', host')
  <2>1. Idle("idle") \in Hosts /\ Transfer(usb', Idle("idle"))
        /\ Idle("off") \in Hosts /\ Transfer(usb', Idle("off"))
    BY IdleHost
  <2>2. CASE host' = host /\ host.st # "wait"
    BY <1>3, <2>2 DEF Transfer
  <2> QED BY <1>1, <2>1, <2>2 DEF GiveUp
<1> QED BY <1>4, <1>5, <1>6, <1>7, <1>8, NextIInv

(* The firmware reboots after a suspend.                                   *)
LEMMA ColdRebootKeeps == IInv /\ ColdReboot => IInv'
<1> SUFFICES ASSUME IInv, ColdReboot PROVE IInv'
  OBVIOUS
<1> DEFINE s == [usb EXCEPT !.magic = "cold"]
<1>1. usb \in Devices /\ ep3 \in Ep3s /\ SetupPending(usb) /\ Mapped(usb)
  BY DEF IInv, TypeOK
<1>2. s \in Devices /\ s.magic = "cold" /\ s.image = usb.image /\ s.speed = usb.speed
      /\ s.v = usb.v /\ s.regs = usb.regs
  BY <1>1 DEF Devices, Magics
<1>3. usb' = UsbInit(s) /\ ep3' = Flushed
      /\ host' = (IF s.magic = "cold" THEN Idle("off") ELSE GiveUp)
  BY Zenon DEF ColdReboot, Restart
<1> HIDE DEF s
<1>4. SetupPending(s) /\ Mapped(s)
  BY <1>1, <1>2 DEF SetupPending, Mapped
<1>5. usb' \in Devices /\ usb'.image = "rom" /\ usb'.magic = "cold"
  BY <1>2, <1>3, UsbInitFields
<1>6. SetupPending(usb') /\ TablesOfSpeed(usb') /\ Mapped(usb') /\ AnswerLeft(usb')
      /\ TokenServed(usb')
  BY <1>2, <1>3, <1>4, UsbInitKeeps
<1>7. ep3' \in Ep3s /\ MagicWord(usb', ep3')
  BY <1>1, <1>3, <1>5 DEF Flushed, Ep3s, MagicWord
<1>8. host' \in Hosts /\ Transfer(usb', host')
  BY <1>2, <1>3, IdleHost
<1> QED BY <1>5, <1>6, <1>7, <1>8, NextIInv

(* What the host does to the controller leaves the device's memory and its *)
(* map of endpoints alone.                                                 *)
HostFrame(t, s) ==
    /\ t.image = s.image /\ t.magic = s.magic /\ t.ep3int = s.ep3int /\ t.speed = s.speed
    /\ t.v = s.v
    /\ t.regs.configured = s.regs.configured /\ t.regs.mapped = s.regs.mapped

(* What the host does changes neither the endpoints nor the magic word.    *)
LEMMA HostFrameKeeps ==
    ASSUME NEW s, NEW t, NEW e, HostFrame(t, s), Mapped(s), MagicWord(s, e)
    PROVE  Mapped(t) /\ MagicWord(t, e)
<1>1. Mapped(t)
  BY DEF HostFrame, Mapped
<1>2. MagicWord(t, e)
  BY Zenon DEF HostFrame, MagicWord
<1> QED BY <1>1, <1>2

(* A bus reset keeps the invariant.                                        *)
LEMMA HostResetKeeps == IInv /\ HostReset => IInv'
<1> SUFFICES ASSUME IInv, HostReset PROVE IInv'
  OBVIOUS
<1> DEFINE q == [PhyInit EXCEPT !.src7 = {"reset"}]
<1>1. PICK v \in Speeds : usb' = [usb EXCEPT !.speed = v, !.regs = q]
  BY Zenon DEF HostReset
<1>2. host' = Idle("idle") /\ ep3' = ep3
  BY DEF HostReset
<1>3. usb \in Devices /\ ep3 \in Ep3s /\ MagicWord(usb, ep3) /\ AnswerLeft(usb)
  BY DEF IInv, TypeOK
<1>4. q \in RegsType /\ q.src0 = {} /\ q.src7 = {"reset"} /\ q.configured = FALSE
  <2> DEFINE p == PhyInit
             z == {"reset"}
  <2>1. p \in RegsType /\ p.src0 = {} /\ p.configured = FALSE
    BY PhyInitFields
  <2>2. z \in SUBSET {"reset", "suspend"}
    OBVIOUS
  <2> HIDE DEF p, z
  <2>3. q = [p EXCEPT !.src7 = z]
    BY DEF p, z, q
  <2>4. q \in RegsType /\ q.src0 = p.src0 /\ q.src7 = z /\ q.configured = p.configured
    BY <2>1, <2>2, <2>3 DEF RegsType
  <2> QED BY <2>1, <2>4 DEF z
<1> HIDE DEF q
<1>5. usb' \in Devices /\ usb'.image = usb.image /\ usb'.magic = usb.magic
      /\ usb'.ep3int = usb.ep3int /\ usb'.regs = q /\ usb'.v = usb.v
  BY <1>1, <1>3, <1>4 DEF Devices
<1>6. SetupPending(usb') /\ TablesOfSpeed(usb') /\ Mapped(usb') /\ AnswerLeft(usb')
      /\ TokenServed(usb')
  BY <1>3, <1>4, <1>5, OtherSources DEF SetupPending, TablesOfSpeed, Mapped, AnswerLeft, TokenServed
<1>7. MagicWord(usb', ep3')
  BY <1>2, <1>3, <1>5, Zenon DEF MagicWord
<1>8. host' \in Hosts /\ Transfer(usb', host')
  BY <1>2, IdleHost
<1> QED BY <1>2, <1>3, <1>5, <1>6, <1>7, <1>8, NextIInv

(* A suspend keeps the invariant.                                          *)
LEMMA HostSuspendKeeps == IInv /\ HostSuspend => IInv'
<1> SUFFICES ASSUME IInv, HostSuspend PROVE IInv'
  OBVIOUS
<1>1. usb' = [usb EXCEPT !.regs.src7 = @ \cup {"suspend"}] /\ host' = Idle("idle") /\ ep3' = ep3
  BY DEF HostSuspend
<1>2. /\ usb \in Devices /\ ep3 \in Ep3s /\ usb.regs \in RegsType
      /\ SetupPending(usb) /\ TablesOfSpeed(usb) /\ Mapped(usb) /\ AnswerLeft(usb) /\ TokenServed(usb)
      /\ MagicWord(usb, ep3)
  BY DEF IInv, TypeOK, Devices
<1>3. usb.regs.src7 \cup {"suspend"} \in SUBSET {"reset", "suspend"}
  BY <1>2 DEF RegsType
<1>4. /\ usb' \in Devices /\ HostFrame(usb', usb) /\ usb'.regs.src0 = usb.regs.src0
      /\ usb'.regs.setup = usb.regs.setup /\ usb'.regs.src7 = usb.regs.src7 \cup {"suspend"}
  BY <1>1, <1>2, <1>3 DEF Devices, RegsType, HostFrame
<1>5. SetupPending(usb') /\ TablesOfSpeed(usb') /\ AnswerLeft(usb') /\ TokenServed(usb')
  BY <1>2, <1>4 DEF HostFrame, SetupPending, TablesOfSpeed, AnswerLeft, TokenServed
<1>6. Mapped(usb') /\ MagicWord(usb', ep3')
  BY <1>1, <1>2, <1>4, HostFrameKeeps
<1>7. host' \in Hosts /\ Transfer(usb', host')
  BY <1>1, IdleHost
<1> QED BY <1>1, <1>2, <1>4, <1>5, <1>6, <1>7, NextIInv

(* A new request of the host keeps the invariant, whatever the device was  *)
(* doing.                                                                  *)
LEMMA HostSetupKeeps ==
    ASSUME NEW r \in Requests, IInv, HostSetup(r)
    PROVE  IInv'
<1> DEFINE f == << >>
           q == [usb.regs EXCEPT !.src0 = {"setup"}, !.setup = r, !.fifo = f, !.cx = "idle"]
<1>1. /\ usb.regs.src7 = {} /\ ep3' = ep3
      /\ usb' = [usb EXCEPT !.regs.src0 = {"setup"}, !.regs.setup = r,
                            !.regs.fifo = f, !.regs.cx = "idle"]
      /\ host' = [st |-> "wait", req |-> r, got |-> << >>,
                  out |-> IF r \in OutRequests THEN DownloadPackets ELSE 0]
  BY DEF HostSetup
<1>2. /\ usb \in Devices /\ ep3 \in Ep3s /\ usb.regs \in RegsType
      /\ TablesOfSpeed(usb) /\ Mapped(usb) /\ AnswerLeft(usb) /\ MagicWord(usb, ep3)
  BY DEF IInv, TypeOK, Devices
<1>3. f \in Seq(Packets) /\ {"setup"} \in Source0 /\ f = << >>
  <2>1. {"setup"} \in Source0
    BY Zenon DEF Source0
  <2> QED BY <2>1
<1> HIDE DEF f
<1>4. /\ q \in RegsType /\ q.src0 = {"setup"} /\ q.setup = r /\ q.fifo = f /\ q.cx = "idle"
      /\ q.src7 = usb.regs.src7 /\ q.configured = usb.regs.configured /\ q.mapped = usb.regs.mapped
  <2>1. r \in Requests \cup {"none"}
    OBVIOUS
  <2>2. f \in Seq(Packets) /\ {"setup"} \in Source0
    BY <1>3
  <2> QED BY <1>2, <2>1, <2>2 DEF RegsType
<1>5. usb' = [usb EXCEPT !.regs = q]
  BY <1>1, <1>2 DEF Devices, RegsType
<1> HIDE DEF q
<1>6. usb' \in Devices /\ HostFrame(usb', usb) /\ usb'.regs = q
  BY <1>2, <1>4, <1>5 DEF Devices, HostFrame
<1>7. Mapped(usb') /\ MagicWord(usb', ep3')
  BY <1>1, <1>2, <1>6, HostFrameKeeps
<1>8. SetupPending(usb') /\ TablesOfSpeed(usb') /\ AnswerLeft(usb') /\ TokenServed(usb')
  BY <1>2, <1>4, <1>6, OtherSources DEF HostFrame, SetupPending, TablesOfSpeed, AnswerLeft, TokenServed
<1>9. /\ host' \in Hosts /\ host'.st = "wait" /\ host'.req = r /\ host'.got = << >>
      /\ (r \notin OutRequests => host'.out = 0)
      /\ (r = "download" => host'.out = DownloadPackets)
  <2> DEFINE o == IF r \in OutRequests THEN DownloadPackets ELSE 0
  <2>1. o \in 0..DownloadPackets /\ << >> \in Seq(Packets)
        /\ (r \notin OutRequests => o = 0) /\ (r = "download" => o = DownloadPackets)
    BY SizesAssumption DEF OutRequests
  <2>2. host' = [st |-> "wait", req |-> r, got |-> << >>, out |-> o]
    BY <1>1
  <2> HIDE DEF o
  <2> QED BY <2>1, <2>2 DEF Hosts
<1>10. Transfer(usb', host')
  BY <1>1, <1>3, <1>4, <1>6, <1>9, OtherSources DEF Transfer
<1> QED BY <1>1, <1>2, <1>6, <1>7, <1>8, <1>9, <1>10, NextIInv

(* The status stage keeps the invariant.                                   *)
LEMMA HostStatusKeeps == IInv /\ HostStatus => IInv'
<1> SUFFICES ASSUME IInv, HostStatus PROVE IInv'
  OBVIOUS
<1>1. usb.regs.src0 = {} /\ usb' = [usb EXCEPT !.regs.cx = "idle"] /\ host' = Idle("idle") /\ ep3' = ep3
  BY DEF HostStatus, Between
<1>2. /\ usb \in Devices /\ ep3 \in Ep3s /\ usb.regs \in RegsType
      /\ SetupPending(usb) /\ TablesOfSpeed(usb) /\ Mapped(usb) /\ AnswerLeft(usb) /\ TokenServed(usb)
      /\ MagicWord(usb, ep3)
  BY DEF IInv, TypeOK, Devices
<1>3. /\ usb' \in Devices /\ HostFrame(usb', usb) /\ usb'.regs.src0 = usb.regs.src0
      /\ usb'.regs.setup = usb.regs.setup /\ usb'.regs.src7 = usb.regs.src7
  BY <1>1, <1>2 DEF Devices, RegsType, HostFrame
<1>4. SetupPending(usb') /\ TablesOfSpeed(usb') /\ AnswerLeft(usb') /\ TokenServed(usb')
  BY <1>2, <1>3 DEF HostFrame, SetupPending, TablesOfSpeed, AnswerLeft, TokenServed
<1>5. Mapped(usb') /\ MagicWord(usb', ep3')
  BY <1>1, <1>2, <1>3, HostFrameKeeps
<1>6. host' \in Hosts /\ Transfer(usb', host')
  BY <1>1, IdleHost
<1> QED BY <1>1, <1>2, <1>3, <1>4, <1>5, <1>6, NextIInv

(* The host's end of a transfer keeps the invariant.                       *)
LEMMA HostEndKeeps == IInv /\ HostEnd => IInv'
<1> SUFFICES ASSUME IInv, HostEnd PROVE IInv'
  OBVIOUS
<1>1. usb' = [usb EXCEPT !.regs.src0 = {"end"}] /\ ep3' = ep3
      /\ host' = [host EXCEPT !.st = "status"]
  BY DEF HostEnd, Between
<1>2. /\ usb \in Devices /\ ep3 \in Ep3s /\ host \in Hosts /\ usb.regs \in RegsType
      /\ TablesOfSpeed(usb) /\ Mapped(usb) /\ AnswerLeft(usb) /\ MagicWord(usb, ep3)
  BY DEF IInv, TypeOK, Devices
<1>3. {"end"} \in Source0
  BY Zenon DEF Source0
<1>4. /\ usb' \in Devices /\ HostFrame(usb', usb) /\ usb'.regs.src0 = {"end"}
      /\ usb'.regs.src7 = usb.regs.src7
  BY <1>1, <1>2, <1>3 DEF Devices, RegsType, HostFrame
<1>5. SetupPending(usb') /\ TablesOfSpeed(usb') /\ AnswerLeft(usb') /\ TokenServed(usb')
  BY <1>2, <1>4, OtherSources DEF HostFrame, SetupPending, TablesOfSpeed, AnswerLeft, TokenServed
<1>6. Mapped(usb') /\ MagicWord(usb', ep3')
  BY <1>1, <1>2, <1>4, HostFrameKeeps
<1>7. host' \in Hosts /\ Transfer(usb', host')
  BY <1>1, <1>2 DEF Hosts, Transfer
<1> QED BY <1>1, <1>2, <1>4, <1>5, <1>6, <1>7, NextIInv

(* A packet of a data stage to the device keeps the invariant.             *)
LEMMA HostOutKeeps == IInv /\ HostOut => IInv'
<1> SUFFICES ASSUME IInv, HostOut PROVE IInv'
  OBVIOUS
<1>1. /\ host.st = "wait" /\ usb.regs.src0 = {} /\ host.out > 0 /\ ep3' = ep3
      /\ usb' = [usb EXCEPT !.regs.src0 = {"out"}] /\ host' = [host EXCEPT !.out = @ - 1]
  BY DEF HostOut, Between
<1>2. /\ usb \in Devices /\ ep3 \in Ep3s /\ host \in Hosts /\ usb.regs \in RegsType
      /\ usb.v \in StaticsType
      /\ TablesOfSpeed(usb) /\ Mapped(usb) /\ AnswerLeft(usb) /\ MagicWord(usb, ep3) /\ Transfer(usb, host)
  BY DEF IInv, TypeOK, Devices
<1>3. {"out"} \in Source0
  BY Zenon DEF Source0
<1>4. /\ usb' \in Devices /\ HostFrame(usb', usb) /\ usb'.regs.src0 = {"out"}
      /\ usb'.regs.src7 = usb.regs.src7
  BY <1>1, <1>2, <1>3 DEF Devices, RegsType, HostFrame
<1>5. host.req = "download"
  BY <1>1, <1>2 DEF Transfer, OutRequests
<1>6. usb.v.left = host.out /\ usb.v.left > 0 /\ usb.v.cmd = "set" /\ usb.regs.src7 = {}
      /\ ~(usb.image = "rom" /\ usb.v.download)
  <2>1. host.out \in Nat
    BY <1>2, SizesAssumption DEF Hosts
  <2>2. usb.v.left = host.out /\ usb.regs.src7 = {}
    BY <1>1, <1>2, <1>5, <2>1, OtherSources DEF Transfer
  <2>3. usb.v.left > 0 /\ usb.v.cmd = "set"
    BY <1>1, <1>2, <1>5, <2>2, OtherSources DEF Transfer
  <2>4. ~(usb.image = "rom" /\ usb.v.download)
    <3>1. host.req # "dlcomp" /\ usb.regs.src0 # {"setup"}
      BY <1>1, <1>5, OtherSources
    <3> QED BY <1>1, <1>2, <3>1, Zenon DEF Transfer
  <2> QED BY <2>2, <2>3, <2>4
<1>7. SetupPending(usb') /\ TablesOfSpeed(usb') /\ AnswerLeft(usb') /\ TokenServed(usb')
  BY <1>2, <1>4, <1>6, OtherSources DEF HostFrame, SetupPending, TablesOfSpeed, AnswerLeft, TokenServed
<1>8. Mapped(usb') /\ MagicWord(usb', ep3')
  BY <1>1, <1>2, <1>4, HostFrameKeeps
<1>9. /\ host' \in Hosts /\ host'.st = "wait" /\ host'.req = "download" /\ host'.out = host.out - 1
  <2>1. host.out - 1 \in 0..DownloadPackets
    BY <1>1, <1>2, SizesAssumption DEF Hosts
  <2> QED BY <1>1, <1>2, <1>5, <2>1 DEF Hosts
<1>10. Transfer(usb', host')
  <2>1. usb'.v.left = host'.out + 1 /\ usb'.v.cmd = "set"
    BY <1>2, <1>4, <1>6, <1>9, SizesAssumption DEF HostFrame, Hosts
  <2>2. ~(usb'.image = "rom" /\ usb'.v.download)
    BY <1>4, <1>6, Zenon DEF HostFrame
  <2>3. usb'.regs.src7 = {}
    BY <1>4, <1>6
  <2> QED BY <1>4, <1>9, <2>1, <2>2, <2>3, OtherSources DEF Transfer, InRequests, OutRequests, Requests
<1> QED BY <1>1, <1>2, <1>4, <1>7, <1>8, <1>9, <1>10, NextIInv

(* The device is asked for the next packet of a string, or for the answer  *)
(* to a vendor request that it does not know.                              *)
LEMMA HostAsksKeeps ==
    ASSUME IInv, Between, host.req \in InRequests, usb.regs.fifo = << >>, usb.regs.cx = "idle",
           usb' = [usb EXCEPT !.regs.src0 = {"in"}], host' = host, ep3' = ep3
    PROVE  IInv'
<1>1. host.st = "wait" /\ usb.regs.src0 = {}
  BY DEF Between
<1>2. /\ usb \in Devices /\ ep3 \in Ep3s /\ host \in Hosts /\ usb.regs \in RegsType
      /\ usb.v \in StaticsType
      /\ TablesOfSpeed(usb) /\ Mapped(usb) /\ AnswerLeft(usb) /\ MagicWord(usb, ep3) /\ Transfer(usb, host)
  BY DEF IInv, TypeOK, Devices
<1>3. {"in"} \in Source0
  BY Zenon DEF Source0
<1>4. /\ usb' \in Devices /\ HostFrame(usb', usb) /\ usb'.regs.src0 = {"in"}
      /\ usb'.regs.src7 = usb.regs.src7
      /\ usb'.regs.fifo = usb.regs.fifo /\ usb'.regs.cx = usb.regs.cx
  BY <1>2, <1>3 DEF Devices, RegsType, HostFrame
<1>5. host.req \in {"string", "vendorin"}
  BY <1>1, <1>2, OtherSources DEF Transfer
<1>8. SetupPending(usb') /\ TablesOfSpeed(usb') /\ AnswerLeft(usb') /\ TokenServed(usb')
  BY <1>2, <1>4, OtherSources DEF HostFrame, SetupPending, TablesOfSpeed, AnswerLeft, TokenServed
<1>9. Mapped(usb') /\ MagicWord(usb', ep3')
  BY <1>2, <1>4, HostFrameKeeps
<1>10. ASSUME host.req = "string" PROVE StringStage(usb', host)
  <2>1. StringStage(usb, host)
    BY <1>1, <1>2, <1>10, OtherSources DEF Transfer
  <2>2. usb.v.left > 0
    <3>1. usb.v.left # 0
      BY <2>1 DEF StringStage
    <3> QED BY <1>2, <3>1 DEF StaticsType
  <2>3. usb'.regs.src0 \in {{}, {"in"}} /\ usb'.v = usb.v
    BY <1>4 DEF HostFrame
  <2> QED BY <1>4, <2>1, <2>2, <2>3, Zenon DEF StringStage
<1>11. Transfer(usb', host')
  <2>1. ~(usb'.image = "rom" /\ usb'.v.download)
    <3>1. host.req # "dlcomp" /\ usb.regs.src0 # {"setup"}
      BY <1>1, <1>5, OtherSources
    <3>2. ~(usb.image = "rom" /\ usb.v.download)
      BY <1>1, <1>2, <3>1, Zenon DEF Transfer
    <3> QED BY <1>4, <3>2, Zenon DEF HostFrame
  <2>2. usb'.regs.src7 = {} /\ host.out = 0
    BY <1>1, <1>2, <1>4, <1>5 DEF Transfer, OutRequests
  <2> QED BY <1>1, <1>4, <1>5, <1>10, <2>1, <2>2, OtherSources
          DEF Transfer, InRequests, OutRequests, Requests
<1> QED BY <1>2, <1>4, <1>8, <1>9, <1>11, NextIInv

(* The host takes the packet in the FIFO.                                  *)
HostTakes ==
    /\ Between
    /\ usb.regs.fifo # << >>
    /\ host' = [host EXCEPT !.got = Append(@, Head(usb.regs.fifo))]
    /\ usb' = [usb EXCEPT !.regs.fifo = << >>]
    /\ ep3' = ep3

(* A packet read by the host keeps the invariant.                          *)
LEMMA HostTakesKeeps == IInv /\ HostTakes => IInv'
<1> SUFFICES ASSUME IInv, HostTakes PROVE IInv'
  OBVIOUS
<1>0. ep3' = ep3 /\ usb.regs.fifo # << >>
  BY DEF HostTakes
<1>1. host.st = "wait" /\ usb.regs.src0 = {}
  BY DEF HostTakes, Between
<1>2. /\ usb \in Devices /\ ep3 \in Ep3s /\ host \in Hosts /\ usb.regs \in RegsType
      /\ usb.v \in StaticsType
      /\ SetupPending(usb) /\ TablesOfSpeed(usb) /\ Mapped(usb) /\ AnswerLeft(usb) /\ TokenServed(usb)
      /\ MagicWord(usb, ep3) /\ Transfer(usb, host)
  BY DEF IInv, TypeOK, Devices
<1>3. /\ usb' \in Devices /\ HostFrame(usb', usb) /\ usb'.regs.src0 = {}
      /\ usb'.regs.src7 = usb.regs.src7 /\ usb'.regs.setup = usb.regs.setup
      /\ usb'.regs.fifo = << >> /\ usb'.regs.cx = usb.regs.cx
  <2> DEFINE f == << >>
  <2>1. f \in Seq(Packets) /\ usb' = [usb EXCEPT !.regs.fifo = f]
    BY DEF HostTakes
  <2>2. f = << >>
    OBVIOUS
  <2> HIDE DEF f
  <2>3. /\ usb' \in Devices /\ HostFrame(usb', usb) /\ usb'.regs.src0 = usb.regs.src0
        /\ usb'.regs.src7 = usb.regs.src7 /\ usb'.regs.setup = usb.regs.setup
        /\ usb'.regs.fifo = f /\ usb'.regs.cx = usb.regs.cx
    BY <1>2, <2>1 DEF Devices, RegsType, HostFrame
  <2> QED BY <1>1, <2>2, <2>3
<1> DEFINE x == usb.regs.fifo[1]
           g == Append(host.got, x)
<1>4. x \in Packets /\ Head(usb.regs.fifo) = x /\ host.got \in Seq(Packets)
      /\ Len(usb.regs.fifo) \in Nat \ {0}
  BY <1>2 DEF HostTakes, RegsType, Hosts
<1> HIDE DEF x
<1>5. g \in Seq(Packets) /\ Len(g) = Len(host.got) + 1 /\ g[Len(g)] = x
      /\ \A i \in 1..Len(host.got) : g[i] = host.got[i]
  BY <1>4
<1>6. host' = [host EXCEPT !.got = g]
  BY <1>4 DEF HostTakes
<1> HIDE DEF g
<1>7. host' \in Hosts /\ host'.st = "wait" /\ host'.req = host.req /\ host'.out = host.out
      /\ host'.got = g
  BY <1>1, <1>2, <1>5, <1>6 DEF Hosts
<1>8. SetupPending(usb') /\ TablesOfSpeed(usb') /\ AnswerLeft(usb') /\ TokenServed(usb')
  BY <1>2, <1>3, OtherSources DEF HostFrame, SetupPending, TablesOfSpeed, AnswerLeft, TokenServed
<1>9. Mapped(usb') /\ MagicWord(usb', ep3')
  BY <1>0, <1>2, <1>3, HostFrameKeeps
<1>10. ASSUME NEW d, OnePacket(usb, host, d) PROVE OnePacket(usb', host', d)
  <2>1. host.got = << >> /\ usb.regs.fifo = <<d>> /\ usb.regs.cx = "done"
    BY <1>0, <1>10 DEF OnePacket
  <2>2. x = d
    BY <2>1 DEF x
  <2>3. g = <<d>>
    BY <2>1, <2>2 DEF g
  <2> QED BY <1>3, <1>7, <2>1, <2>3 DEF OnePacket
<1>11. ASSUME StringStage(usb, host) PROVE StringStage(usb', host')
  <2> DEFINE k == Len(host.got)
  <2>1. Len(usb.regs.fifo) = 1 /\ k \in Nat /\ usb.v.left \in Nat
    <3>1. Len(usb.regs.fifo) <= 1
      BY <1>11 DEF StringStage
    <3>2. Len(usb.regs.fifo) \in Nat \ {0} /\ k \in Nat
      BY <1>4
    <3>3. usb.v.left \in Nat
      BY <1>2 DEF StaticsType
    <3>4. Len(usb.regs.fifo) = 1
      BY <3>1, <3>2, OneOrNone
    <3> QED BY <3>2, <3>3, <3>4
  <2>2. Len(usb'.regs.fifo) = 0 /\ usb'.v = usb.v
    BY <1>3 DEF HostFrame
  <2>3. Len(host'.got) + Len(usb'.regs.fifo) = k + Len(usb.regs.fifo) /\ Len(host'.got) = k + 1
    <3>1. Len(host'.got) = k + 1
      BY <1>5, <1>7
    <3> HIDE DEF k
    <3>2. Len(usb.regs.fifo) = 1 /\ Len(usb'.regs.fifo) = 0 /\ k \in Nat
      BY <2>1, <2>2
    <3> QED BY <3>1, <3>2
  <2>4. x = <<"string", k + 1>>
    BY <1>11, <2>1 DEF StringStage, x
  <2>5. \A i \in 1..Len(host'.got) : host'.got[i] = <<"string", i>>
    <3> SUFFICES ASSUME NEW i \in 1..(k + 1) PROVE g[i] = <<"string", i>>
      BY <1>7, <2>3
    <3>1. CASE i = k + 1
      BY <1>5, <2>4, <3>1
    <3>2. CASE i \in 1..k
      BY <1>5, <1>11, <3>2 DEF StringStage
    <3> QED BY <2>1, <3>1, <3>2
  <2>6. Len(usb'.regs.fifo) <= 1 /\ usb'.regs.src0 \in {{}, {"in"}} /\ usb'.regs.src0 # {"in"}
    <3>1. Len(usb'.regs.fifo) <= 1
      BY <2>2
    <3> QED BY <1>3, <3>1, OtherSources
  <2> QED BY <1>3, <1>11, <2>2, <2>3, <2>5, <2>6, ZenonT(60) DEF StringStage
<1>12. Transfer(usb', host')
  <2>1. usb'.v = usb.v /\ usb'.image = usb.image /\ usb'.speed = usb.speed
    BY <1>3 DEF HostFrame
  <2>2. usb.regs.src0 # {"setup"} /\ usb.regs.src0 # {"out"}
    BY <1>1, OtherSources
  <2> QED BY <1>1, <1>2, <1>3, <1>7, <1>10, <1>11, <2>1, <2>2, OtherSources DEF Transfer
<1> QED BY <1>0, <1>2, <1>3, <1>7, <1>8, <1>9, <1>12, NextIInv

(* An IN token keeps the invariant.                                        *)
LEMMA HostInKeeps == IInv /\ HostIn => IInv'
<1> SUFFICES ASSUME IInv, HostIn PROVE IInv'
  OBVIOUS
<1>1. Between /\ host.req \in InRequests /\ ep3' = ep3
  BY DEF HostIn
<1>2. CASE HostTakes
  BY <1>2, HostTakesKeeps
<1>3. CASE usb.regs.fifo = << >> /\ usb.regs.cx = "idle"
           /\ usb' = [usb EXCEPT !.regs.src0 = {"in"}] /\ host' = host
  BY <1>1, <1>3, HostAsksKeeps
<1>4. HostTakes \/ (usb.regs.fifo = << >> /\ usb.regs.cx = "idle"
                     /\ usb' = [usb EXCEPT !.regs.src0 = {"in"}] /\ host' = host)
  BY Zenon DEF HostIn, HostTakes
<1> QED BY <1>2, <1>3, <1>4

(* The host's reading of an event keeps the invariant.                     *)
LEMMA HostReadEventKeeps == IInv /\ HostReadEvent => IInv'
<1> SUFFICES ASSUME IInv, HostReadEvent PROVE IInv'
  OBVIOUS
<1> DEFINE b == usb.image = "rom" /\ (ep3.got \/ ep3.fifo = "watchdog")
<1>1. usb' = usb /\ host' = host /\ ep3' = [fifo |-> "empty", got |-> b]
  BY DEF HostReadEvent
<1>2. b \in BOOLEAN
  BY Zenon
<1> HIDE DEF b
<1>3. ep3' \in Ep3s /\ ep3'.fifo = "empty"
  BY <1>1, <1>2 DEF Ep3s
<1>4. MagicWord(usb', ep3')
  BY <1>1, <1>3 DEF IInv, MagicWord
<1> QED BY <1>1, <1>3, <1>4 DEF IInv, TypeOK

(* Nothing happens.                                                        *)
LEMMA StutterKeeps == IInv /\ UNCHANGED vars => IInv'
<1> SUFFICES ASSUME IInv, usb' = usb, host' = host, ep3' = ep3 PROVE IInv'
  BY DEF vars
<1> QED BY DEF IInv, TypeOK

(* Every step keeps the invariant.                                         *)
LEMMA StepIInv == IInv /\ [Next]_vars => IInv'
<1> SUFFICES ASSUME IInv, [Next]_vars PROVE IInv'
  OBVIOUS
<1>1. CASE RomTask \/ FwTask \/ AppStart
  BY <1>1, RomTaskKeeps, FwTaskKeeps, AppStartKeeps
<1>2. CASE WatchdogReset \/ ColdReboot
  BY <1>2, WatchdogResetKeeps, ColdRebootKeeps
<1>3. CASE HostReset \/ HostSuspend
  BY <1>3, HostResetKeeps, HostSuspendKeeps
<1>4. CASE \E r \in Requests : HostSetup(r)
  BY <1>4, HostSetupKeeps
<1>5. CASE HostIn \/ HostOut \/ HostEnd \/ HostStatus
  BY <1>5, HostInKeeps, HostOutKeeps, HostEndKeeps, HostStatusKeeps
<1>6. CASE HostReadEvent
  BY <1>6, HostReadEventKeeps
<1>7. CASE UNCHANGED vars
  BY <1>7, StutterKeeps
<1> QED BY <1>1, <1>2, <1>3, <1>4, <1>5, <1>6, <1>7 DEF Next

(* The invariant holds in every reachable state: the transfer the device is*)
(* in is the one the host is in, with the part of the answer that is left, *)
(* through resets, suspends, watchdog restarts and the change from the boot*)
(* ROM to the firmware.                                                    *)
THEOREM Invariance == Spec => []IInv
BY InitIInv, StepIInv, PTL DEF Spec

----------------------------------------------------------------------------
(* What follows from the invariant.                                        *)

(* Every endpoint of a configured firmware is mapped.                      *)
THEOREM EndpointsReadyAlways == Spec => []EndpointsReady
<1>1. IInv => EndpointsReady
  <2> SUFFICES ASSUME IInv, usb.image = "fw", usb.regs.configured PROVE usb.regs.mapped = 1..6
    BY DEF EndpointsReady
  <2>1. usb.regs.mapped \in SUBSET (1..6)
    BY DEF IInv, TypeOK, Devices, RegsType
  <2>2. RomEndpoints(usb.speed) \subseteq usb.regs.mapped /\ 6 \in usb.regs.mapped
    BY DEF IInv, Mapped
  <2>3. 1..5 \subseteq RomEndpoints(usb.speed)
    BY DEF RomEndpoints
  <2> QED BY <2>1, <2>2, <2>3
<1> QED BY <1>1, Invariance, PTL

(* The host reads the right descriptor, from its first packet to its last. *)
THEOREM AnswersRightAlways == Spec => []AnswersRight
<1>1. IInv => AnswersRight
  <2> SUFFICES ASSUME IInv, host.st = "wait"
               PROVE  LET e == Expected(host.req)
                      IN  /\ host.got = SubSeq(e, 1, Len(host.got))
                          /\ usb.regs.src0 = {} /\ usb.regs.cx = "done" /\ usb.regs.fifo = << >>
                               => Len(host.got) = Len(e)
    BY DEF AnswersRight
  <2> DEFINE e == Expected(host.req)
             g == host.got
  <2>1. Transfer(usb, host) /\ g \in Seq(Packets) /\ Len(g) \in Nat
    BY DEF IInv, TypeOK, Hosts
  <2>2. CASE host.req \notin {"device", "config", "string"}
    <3>1. e = g
      BY <2>2 DEF Expected
    <3> HIDE DEF e, g
    <3>2. g = SubSeq(g, 1, Len(g))
      BY <2>1
    <3> QED BY <3>1, <3>2 DEF e, g
  <2>3. CASE host.req \in {"device", "config", "string"} /\ usb.regs.src0 = {"setup"}
    <3>1. g = << >>
      BY <2>1, <2>3 DEF Transfer
    <3>2. << >> = SubSeq(e, 1, 0)
      OBVIOUS
    <3> QED BY <2>3, <3>1, <3>2, OtherSources
  <2> DEFINE d == IF host.req = "device" THEN <<"device", usb.image>> ELSE <<"config", usb.speed>>
  <2>4. CASE host.req \in {"device", "config"} /\ usb.regs.src0 # {"setup"}
    <3>1. OnePacket(usb, host, d)
      BY <2>1, <2>4 DEF Transfer
    <3>2. e = <<d>>
      BY <2>4 DEF Expected
    <3> HIDE DEF e, d
    <3>3. CASE g = << >> /\ usb.regs.fifo = <<d>>
      <4>1. << >> = SubSeq(e, 1, 0) /\ <<d>> # << >>
        OBVIOUS
      <4> QED BY <3>3, <4>1 DEF e
    <3>4. CASE g = <<d>> /\ usb.regs.fifo = << >>
      <4>1. <<d>> = SubSeq(<<d>>, 1, 1) /\ Len(<<d>>) = 1
        OBVIOUS
      <4> QED BY <3>2, <3>4, <4>1 DEF e
    <3> QED BY <3>1, <3>3, <3>4 DEF OnePacket
  <2>5. CASE host.req = "string" /\ usb.regs.src0 # {"setup"}
    <3>1. StringStage(usb, host)
      BY <2>1, <2>5 DEF Transfer
    <3>2. e = [i \in 1..StringPackets |-> <<"string", i>>]
      BY <2>5 DEF Expected
    <3>3. StringPackets \in Nat /\ Len(e) = StringPackets
          /\ \A i \in 1..StringPackets : e[i] = <<"string", i>>
      BY <3>2, SizesAssumption
    <3>4. usb.v.left \in Nat /\ Len(usb.regs.fifo) \in Nat
      BY DEF IInv, TypeOK, Devices, StaticsType, RegsType
    <3>5. Len(g) + Len(usb.regs.fifo) + usb.v.left = StringPackets
          /\ \A i \in 1..Len(g) : g[i] = <<"string", i>>
      BY <3>1 DEF StringStage
    <3>6. Len(g) <= StringPackets
      BY <2>1, <3>4, <3>5, PartAtMost
    <3>7. ASSUME usb.regs.cx = "done", usb.regs.fifo = << >> PROVE Len(g) = StringPackets
      <4>1. usb.v.left = 0
        BY <3>1, <3>7 DEF StringStage
      <4>2. Len(usb.regs.fifo) = 0
        BY <3>7
      <4> HIDE DEF g
      <4> QED BY <2>1, <3>5, <4>1, <4>2
    <3> HIDE DEF e, g
    <3>8. g = SubSeq(e, 1, Len(g))
      <4>1. \A i \in 1..Len(g) : g[i] = e[i]
        <5> DEFINE k == Len(g)
        <5>1. k \in Nat /\ k <= StringPackets
          BY <2>1, <3>6
        <5> HIDE DEF k
        <5>2. 1..k \subseteq 1..StringPackets
          BY <3>3, <5>1
        <5> QED BY <3>3, <3>5, <5>2 DEF k
      <4>2. e \in Seq(Packets)
        <5>1. \A i \in 1..StringPackets : <<"string", i>> \in Packets
          BY DEF Packets
        <5> QED BY <3>2, <3>3, <5>1
      <4> QED BY <2>1, <3>3, <3>6, <4>1, <4>2
    <3> QED BY <3>3, <3>7, <3>8 DEF e, g
  <2> QED BY <2>2, <2>3, <2>4, <2>5
<1> QED BY <1>1, Invariance, PTL

(* The safety half of WatchdogReported: no report of the watchdog is left  *)
(* in EP3 when the device comes back from a suspend.                       *)
NoReportAfterSuspend == usb.image = "rom" /\ usb.magic = "sus" => ep3.fifo # "watchdog"

(* In the boot ROM after a suspend, which the magic word tells from a      *)
(* watchdog restart, no watchdog report is in the FIFO of endpoint 3.      *)
THEOREM NoReportAlways == Spec => []NoReportAfterSuspend
<1>1. IInv => NoReportAfterSuspend
  BY DEF IInv, MagicWord, NoReportAfterSuspend
<1> QED BY <1>1, Invariance, PTL
=============================================================================
