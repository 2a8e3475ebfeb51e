--------------------------- MODULE UsbFifoProofs ---------------------------
(* Proofs about UsbFifo for every packet size, buffer size, number of      *)
(* buffers and set of lengths.                                             *)
EXTENDS UsbFifo, FiniteSetTheorems, TLAPS

Commands == [kind : Kinds, len : CmdLens]
Packets == [of : Nat, at : Nat, len : Nat]
Packet(n, len, i) == [of |-> n, at |-> i, len |-> PacketLen(len, i)]
Slots == (1..NumBufs) \cup {Wild}
OutType ==
    [new : BOOLEAN, len : Nat, buf : 0..NumBufs, data : Seq(Packets), wrapped : BOOLEAN]
PassedType == [data : Seq(Packets), len : Nat, wrapped : BOOLEAN]

(* The type invariant.                                                     *)
TypeOK ==
    /\ up \in BOOLEAN /\ setup \in BOOLEAN
    /\ cmdQueue \in Seq(Slots)
    /\ out \in OutType
    /\ eventBufQ \in Seq([n : Nat, len : Nat])
    /\ in \in [new : BOOLEAN, len : Nat, of : Nat]
    /\ ep3Int \in BOOLEAN
    /\ ep4 \in Seq(Packets) /\ ep3 \in Seq(Packets)
    /\ hostOut \in Seq(Packets) /\ hostIn \in Seq(Packets)
    /\ sent \in Seq(Commands)
    /\ passed \in Seq(PassedType)
    /\ queued \in Seq(EvtLens)
    /\ received \in Seq(Seq(Packets))
    /\ silenced \in BOOLEAN /\ torn \in BOOLEAN

----------------------------------------------------------------------------
(* Commands.                                                               *)

PacketsOf(n) == NumPackets(sent[n].len)

(* What the host has still to send of its last command: its end.           *)
HostSending ==
    hostOut # << >> =>
      LET n == Len(sent)
      IN  /\ n > 0
          /\ Len(hostOut) <= PacketsOf(n)
          /\ \A i \in 1..Len(hostOut) :
               hostOut[i] = Packet(n, sent[n].len, PacketsOf(n) - Len(hostOut) + i)

(* The packet in EP4 is the one before these, or the last of the command   *)
(* before.                                                                 *)
InEp4 ==
    /\ Len(ep4) <= 1
    /\ ep4 # << >> =>
         LET p == ep4[1]
         IN  /\ p.of \in 1..Len(sent) /\ p.at \in 1..PacketsOf(p.of)
             /\ p = Packet(p.of, sent[p.of].len, p.at)
             /\ \/ p.of = Len(sent) /\ Len(hostOut) = PacketsOf(p.of) - p.at
                \/ /\ p.at = PacketsOf(p.of) /\ p.of = Len(sent) - 1
                   /\ Len(hostOut) = PacketsOf(Len(sent))

(* The packet that usb_reg_out_patch sees next: its command and its place. *)
NextOf == IF ep4 # << >> THEN ep4[1].of
          ELSE IF hostOut # << >> THEN Len(sent) ELSE Len(sent) + 1
NextAt == IF ep4 # << >> THEN ep4[1].at
          ELSE IF hostOut # << >> THEN PacketsOf(Len(sent)) - Len(hostOut) + 1 ELSE 1

(* The statics of usb_reg_out_patch hold a command up to its packet k.     *)
InStep(o, n, k) ==
    /\ o.wrapped = FALSE /\ o.len = (k - 1) * MaxPkt /\ o.len <= BufSize
    /\ n <= Len(sent) /\ Len(o.data) = k - 1
    /\ \A i \in 1..Len(o.data) : o.data[i] = Packet(n, sent[n].len, i)

(* Or they hold the beginning of a command that is too long, and what was  *)
(* counted since goes beyond the buffer or has wrapped.                    *)
TooLong(o, n) ==
    /\ o.len > BufSize \/ o.wrapped
    /\ o.data # << >> /\ o.data[1].of \in 1..Len(sent) /\ o.data[1].of <= n
    /\ sent[o.data[1].of].len > BufSize
    /\ \A i \in DOMAIN passed : passed[i].data[1].of < o.data[1].of

(* A command begins with its first packet, unless there is no buffer.      *)
Receiving ==
    /\ \A i \in DOMAIN passed : passed[i].data[1].of < NextOf
    /\ out.new /\ FirstBuf \notin {NoBuf, Wild} => NextAt = 1
    /\ ~out.new => out.buf # NoBuf /\ (InStep(out, NextOf, NextAt) \/ TooLong(out, NextOf))

(* CommandsWhole, and that what was passed up exists.                      *)
PassedOne(m) ==
    LET n == m.data[1].of
    IN  /\ m.data # << >> /\ n \in 1..Len(sent)
        /\ IF m.wrapped THEN sent[n].len > BufSize
           ELSE m.data = Message(n, sent[n].len) /\ m.len = sent[n].len
PassedWhole ==
    /\ \A i \in DOMAIN passed : PassedOne(passed[i])
    /\ \A i, j \in DOMAIN passed : i < j => passed[i].data[1].of < passed[j].data[1].of

CommandInv == HostSending /\ InEp4 /\ Receiving /\ PassedWhole

----------------------------------------------------------------------------
(* Events.                                                                 *)

(* The transfers up to the i-th that are events of the queue.              *)
EventsOf(r, i) == {j \in 1..i : r[j] # <<WrongEpid>>}
EventsUpTo(i) == EventsOf(received, i)

(* Events taken from the queue.                                            *)
Taken == Len(queued) - Len(eventBufQ)

(* The queue holds the last events, in their order.                        *)
EventQueue ==
    /\ Len(eventBufQ) <= Len(queued)
    /\ \A i \in 1..Len(eventBufQ) : eventBufQ[i] = [n |-> Taken + i, len |-> queued[Taken + i]]

(* The event that is half sent is the last one taken.                      *)
HalfSent ==
    ~in.new => /\ Taken > 0 /\ in.of = Taken
               /\ in.len > 0 /\ in.len % MaxPkt # 0
               /\ in.len % MaxPkt = queued[Taken] % MaxPkt
               /\ NumPackets(in.len) < NumPackets(queued[Taken])

(* Between two events nothing is on its way, or the event of a wrong       *)
(* endpoint.                                                               *)
AtRest ==
    /\ in.new /\ hostIn = << >>
    /\ ep3 = << >> \/ ep3 = <<WrongEpid>>
    /\ Cardinality(EventsUpTo(Len(received))) = Taken

(* Otherwise the last event taken is: at the host up to a packet, and one  *)
(* packet in EP3.                                                          *)
OnItsWay ==
    LET n == Taken
        k == Len(hostIn) + Len(ep3)
    IN  /\ n > 0
        /\ Cardinality(EventsUpTo(Len(received))) = n - 1
        /\ Len(ep3) <= 1
        /\ k <= NumPackets(queued[n])
        /\ \A i \in 1..Len(hostIn) : hostIn[i] = Packet(n, queued[n], i)
        /\ ep3 # << >> => ep3[1] = Packet(n, queued[n], k)
        /\ in.new => ep3 # << >> /\ k = NumPackets(queued[n])
        /\ ~in.new => k = NumPackets(queued[n]) - NumPackets(in.len)

Delivery == AtRest \/ OnItsWay

(* EventsWhole, and that what was received exists.                         *)
ReceivedWhole ==
    \A i \in DOMAIN received :
      \/ received[i] = <<WrongEpid>>
      \/ /\ Cardinality(EventsUpTo(i)) \in 1..Len(queued)
         /\ received[i] = Message(Cardinality(EventsUpTo(i)), queued[Cardinality(EventsUpTo(i))])

EventInv == EventQueue /\ HalfSent /\ (torn \/ (Delivery /\ ReceivedWhole))

IInv == TypeOK /\ CommandInv /\ EventInv
----------------------------------------------------------------------------
(* Arithmetic of packets.                                                  *)

(* The sizes of packets, buffers and messages.                             *)
LEMMA Sizes ==
    /\ MaxPkt \in Nat /\ MaxPkt > 1 /\ BufSize \in Nat /\ NumBufs \in Nat /\ NumBufs > 0
    /\ MaxPkt <= BufSize /\ LenMod \in Nat \ {0} /\ BufSize + MaxPkt < LenMod
    /\ \A l \in CmdLens \cup EvtLens : l \in Nat /\ l % MaxPkt # 0
BY UsbFifoAssumption

(* The head and the tail of a sequence.                                    *)
LEMMA HeadTail ==
    ASSUME NEW S, NEW s \in Seq(S), s # << >>
    PROVE  /\ Len(s) \in Nat /\ Len(s) >= 1 /\ Head(s) = s[1] /\ s[1] \in S
           /\ Tail(s) \in Seq(S) /\ Len(Tail(s)) = Len(s) - 1
           /\ \A i \in 1..(Len(s) - 1) : Tail(s)[i] = s[i + 1]
OBVIOUS

(* Concatenation with one element.                                         *)
LEMMA ConcatOne ==
    ASSUME NEW S, NEW s \in Seq(S), NEW x \in S
    PROVE  s \o <<x>> = Append(s, x)
OBVIOUS

(* Quotient and remainder of a length.                                     *)
LEMMA DivMod ==
    ASSUME NEW l \in Int, NEW m \in Int, m > 0
    PROVE  l = (l \div m) * m + (l % m) /\ l % m \in 0..(m - 1) /\ l \div m \in Int
BY SMT

(* A length put together of packets and a rest has them as its quotient and*)
(* remainder.                                                              *)
LEMMA DivModOf ==
    ASSUME NEW q \in Nat, NEW m \in Nat \ {0}, NEW r \in Nat, r < m
    PROVE  (q * m + r) % m = r /\ (q * m + r) \div m = q
BY SMT

(* A length without its first full packet.                                 *)
LEMMA DivModShift ==
    ASSUME NEW l \in Nat, NEW m \in Nat \ {0}, l >= m
    PROVE  (l - m) % m = l % m /\ (l - m) \div m = l \div m - 1
<1> DEFINE q == l \div m
           r == l % m
           p == q - 1
<1>1. m > 0 /\ m \in Int /\ l \in Int
  OBVIOUS
<1>2. l = q * m + r /\ q \in Int /\ r \in 0..(m - 1)
  BY <1>1, DivMod
<1> HIDE DEF q, r
<1>3. q > 0
  BY <1>1, <1>2
<1>4. p \in Nat /\ r \in Nat /\ r < m /\ p * m + r = l - m
  BY <1>1, <1>2, <1>3
<1> HIDE DEF p
<1>5. (p * m + r) % m = r /\ (p * m + r) \div m = p
  BY <1>4, DivModOf
<1> QED BY <1>4, <1>5 DEF q, r, p

(* Every message has a packet; its last packet, and only that, is not full. *)
LEMMA PacketFacts ==
    ASSUME NEW l \in Nat, NEW n \in Nat
    PROVE  /\ NumPackets(l) \in Nat /\ NumPackets(l) >= 1
           /\ \A i \in 1..NumPackets(l) :
                /\ Packet(n, l, i) \in Packets
                /\ Packet(n, l, i).of = n /\ Packet(n, l, i).at = i
                /\ Packet(n, l, i).len < MaxPkt <=> i = NumPackets(l)
                /\ i < NumPackets(l) => Packet(n, l, i).len = MaxPkt
<1>1. l \div MaxPkt \in Nat /\ l % MaxPkt \in 0..(MaxPkt - 1)
  <2>1. MaxPkt \in Int /\ MaxPkt > 0 /\ l \in Int
    BY Sizes
  <2>2. l = (l \div MaxPkt) * MaxPkt + (l % MaxPkt) /\ l % MaxPkt \in 0..(MaxPkt - 1) /\ l \div MaxPkt \in Int
    BY <2>1, DivMod
  <2> DEFINE q == l \div MaxPkt
             r == l % MaxPkt
  <2>3. l = q * MaxPkt + r /\ r \in 0..(MaxPkt - 1) /\ q \in Int
    BY <2>2
  <2> HIDE DEF q, r
  <2>4. q >= 0
    BY <2>1, <2>3
  <2> QED BY <2>3, <2>4 DEF q, r
<1>2. NumPackets(l) \in Nat /\ NumPackets(l) >= 1
  BY <1>1 DEF NumPackets
<1>3. ASSUME NEW i \in 1..NumPackets(l)
      PROVE  /\ PacketLen(l, i) \in Nat
             /\ PacketLen(l, i) < MaxPkt <=> i = NumPackets(l)
             /\ i < NumPackets(l) => PacketLen(l, i) = MaxPkt
  <2> DEFINE r == l % MaxPkt
  <2>1. r \in Nat /\ r < MaxPkt /\ MaxPkt \in Nat
    BY <1>1, Sizes
  <2>2. PacketLen(l, i) = IF i < NumPackets(l) THEN MaxPkt ELSE r
    BY DEF PacketLen
  <2> HIDE DEF r
  <2> QED BY <1>2, <2>1, <2>2
<1>4. ASSUME NEW i \in 1..NumPackets(l)
      PROVE  /\ Packet(n, l, i) \in Packets
             /\ Packet(n, l, i).of = n /\ Packet(n, l, i).at = i
             /\ Packet(n, l, i).len = PacketLen(l, i)
  BY <1>2, <1>3, <1>4 DEF Packet, Packets
<1> QED BY <1>2, <1>3, <1>4

(* The packets of a message.                                               *)
LEMMA MessageFacts ==
    ASSUME NEW l \in Nat, NEW n \in Nat
    PROVE  /\ Message(n, l) \in Seq(Packets)
           /\ Len(Message(n, l)) = NumPackets(l)
           /\ Message(n, l) # << >>
           /\ \A i \in 1..NumPackets(l) : Message(n, l)[i] = Packet(n, l, i)
<1> DEFINE k == NumPackets(l)
           f == [i \in 1..k |-> Packet(n, l, i)]
<1>1. k \in Nat /\ k >= 1 /\ \A i \in 1..k : Packet(n, l, i) \in Packets
  BY PacketFacts
<1>2. Message(n, l) = f
  BY DEF Message, Packet
<1> HIDE DEF k
<1>3. f \in Seq(Packets) /\ Len(f) = k /\ f # << >> /\ \A i \in 1..k : f[i] = Packet(n, l, i)
  BY <1>1
<1> QED BY <1>2, <1>3 DEF k

(* A sequence with all the packets of a message is the message.            *)
LEMMA WholeMessage ==
    ASSUME NEW l \in Nat, NEW n \in Nat, NEW s \in Seq(Packets), Len(s) = NumPackets(l),
           \A i \in 1..Len(s) : s[i] = Packet(n, l, i)
    PROVE  s = Message(n, l)
<1>1. Message(n, l) = [i \in 1..NumPackets(l) |-> Packet(n, l, i)]
  BY DEF Message, Packet
<1>2. NumPackets(l) \in Nat
  BY PacketFacts
<1> QED BY <1>1, <1>2
----------------------------------------------------------------------------
(* Commands: the steps of the host move no packet past the next one.       *)

cmdVars == <<sent, hostOut, ep4, out, cmdQueue, passed>>

(* What leaves the variables of the commands alone keeps their invariant.  *)
LEMMA CommandSame == CommandInv /\ UNCHANGED cmdVars => CommandInv'
<1> SUFFICES ASSUME CommandInv, UNCHANGED cmdVars
             PROVE  CommandInv'
  OBVIOUS
<1>1. sent' = sent /\ hostOut' = hostOut /\ ep4' = ep4 /\ out' = out /\ cmdQueue' = cmdQueue
      /\ passed' = passed
  BY DEF cmdVars
<1>2. HostSending' /\ InEp4'
  BY <1>1 DEF CommandInv, HostSending, InEp4, PacketsOf
<1>3. NextOf' = NextOf /\ NextAt' = NextAt /\ FirstBuf' = FirstBuf
  BY <1>1 DEF NextOf, NextAt, PacketsOf, FirstBuf
<1>4. Receiving'
  BY <1>1, <1>3 DEF CommandInv, Receiving, InStep, TooLong
<1>5. PassedWhole'
  BY <1>1 DEF CommandInv, PassedWhole, PassedOne
<1> QED BY <1>2, <1>4, <1>5 DEF CommandInv

(* The lengths of the commands the host has begun.                         *)
LEMMA SentLens ==
    ASSUME TypeOK
    PROVE  /\ Len(sent) \in Nat /\ Len(hostOut) \in Nat
           /\ \A n \in 1..Len(sent) :
                /\ sent[n] \in Commands /\ sent[n].len \in Nat
                /\ PacketsOf(n) \in Nat /\ PacketsOf(n) >= 1
<1>1. Len(sent) \in Nat /\ Len(hostOut) \in Nat /\ \A n \in 1..Len(sent) : sent[n] \in Commands
  BY DEF TypeOK
<1>2. \A n \in 1..Len(sent) : sent[n].len \in Nat
  BY <1>1, Sizes DEF Commands
<1> QED BY <1>1, <1>2, PacketFacts DEF PacketsOf

(* When sent grows and the cursor stays, what was received so far stays.   *)
LEMMA CursorSame ==
    ASSUME Receiving, PassedWhole, NextOf' = NextOf, NextAt' = NextAt,
           out' = out, cmdQueue' = cmdQueue, passed' = passed,
           Len(sent) \in Nat, Len(sent') \in Nat, Len(sent) <= Len(sent'),
           NextOf \in Nat, NextOf > 0,
           \A n \in 1..Len(sent) : sent'[n] = sent[n]
    PROVE  Receiving' /\ PassedWhole'
<1>0. \A n \in 1..Len(sent) : n \in 1..Len(sent') /\ sent'[n] = sent[n]
  OBVIOUS
<1>1. PassedWhole'
  <2>1. ASSUME NEW i \in DOMAIN passed
        PROVE  PassedOne(passed[i])'
    <3> DEFINE n == passed[i].data[1].of
    <3>1. PassedOne(passed[i])
      BY DEF PassedWhole
    <3>2. n \in 1..Len(sent') /\ sent'[n] = sent[n]
      BY <1>0, <3>1 DEF PassedOne
    <3> QED BY <3>1, <3>2 DEF PassedOne
  <2> QED BY <2>1 DEF PassedWhole
<1>2. NextOf <= Len(sent) => sent'[NextOf] = sent[NextOf] /\ NextOf <= Len(sent')
  OBVIOUS
<1>3. InStep(out, NextOf, NextAt) => InStep(out, NextOf, NextAt)'
  BY <1>2 DEF InStep
<1>4. TooLong(out, NextOf) => TooLong(out, NextOf)'
  BY <1>0 DEF TooLong
<1>5. FirstBuf' = FirstBuf
  BY DEF FirstBuf
<1>6. Receiving'
  BY <1>3, <1>4, <1>5 DEF Receiving
<1> QED BY <1>1, <1>6

(* A new command of the host.                                              *)
LEMMA HostCommandKeeps ==
    ASSUME TypeOK, CommandInv, NEW kind \in Kinds, NEW len \in CmdLens, HostCommand(kind, len)
    PROVE  TypeOK' /\ CommandInv'
<1> DEFINE c == [kind |-> kind, len |-> len]
           n == Len(sent)
           N == NumPackets(len)
<1>1. /\ up /\ hostOut = << >> /\ sent' = Append(sent, c) /\ hostOut' = Message(n + 1, len)
      /\ up' = up /\ setup' = setup /\ cmdQueue' = cmdQueue /\ out' = out /\ ep4' = ep4
      /\ passed' = passed /\ eventBufQ' = eventBufQ /\ in' = in /\ ep3' = ep3 /\ ep3Int' = ep3Int
      /\ hostIn' = hostIn /\ queued' = queued /\ received' = received /\ silenced' = silenced
      /\ torn' = torn
  <2>1. sent' = Append(sent, c) /\ hostOut' = Message(Len(sent'), len)
    BY DEF HostCommand
  <2>2. Len(sent') = n + 1
    BY <2>1 DEF TypeOK
  <2> QED BY <2>1, <2>2 DEF HostCommand, outVars, inVars
<1>2. c \in Commands /\ len \in Nat
  BY Sizes DEF Commands
<1> HIDE DEF c
<1>3. n \in Nat /\ sent' \in Seq(Commands) /\ Len(sent') = n + 1 /\ sent'[n + 1] = c
      /\ \A i \in 1..n : sent'[i] = sent[i]
  BY <1>1, <1>2 DEF TypeOK
<1>4. N \in Nat /\ N >= 1 /\ hostOut' \in Seq(Packets) /\ Len(hostOut') = N /\ hostOut' # << >>
      /\ \A i \in 1..N : hostOut'[i] = Packet(n + 1, len, i)
  <2>1. n + 1 \in Nat
    BY <1>3
  <2>2. N \in Nat /\ N >= 1
    BY <1>2, <2>1, PacketFacts
  <2> QED BY <1>1, <1>2, <2>1, <2>2, MessageFacts
<1>5. TypeOK'
  BY <1>1, <1>3, <1>4 DEF TypeOK
<1>6. NumPackets(sent'[n + 1].len) = N /\ sent'[n + 1].len = len
      /\ \A i \in 1..n : NumPackets(sent'[i].len) = PacketsOf(i)
  BY <1>3 DEF PacketsOf, c
<1>7. HostSending'
  <2> HIDE DEF N
  <2>1. \A i \in 1..N : hostOut'[i] = Packet(n + 1, len, N - N + i)
    BY <1>4
  <2>2. N <= N
    BY <1>4
  <2> QED BY <1>3, <1>4, <1>6, <2>1, <2>2 DEF HostSending, PacketsOf
<1>8. InEp4'
  <2>1. ASSUME ep4 # << >>
        PROVE  LET p == ep4[1]
               IN  /\ p.of \in 1..Len(sent') /\ p.at \in 1..NumPackets(sent'[p.of].len)
                   /\ p = Packet(p.of, sent'[p.of].len, p.at)
                   /\ p.at = NumPackets(sent'[p.of].len) /\ p.of = Len(sent') - 1
                   /\ Len(hostOut') = NumPackets(sent'[Len(sent')].len)
    <3> DEFINE p == ep4[1]
    <3>1. /\ p.of \in 1..n /\ p.at \in 1..PacketsOf(p.of)
          /\ p = Packet(p.of, sent[p.of].len, p.at)
          /\ \/ p.of = n /\ Len(hostOut) = PacketsOf(p.of) - p.at
             \/ /\ p.at = PacketsOf(p.of) /\ p.of = n - 1
                /\ Len(hostOut) = PacketsOf(n)
      BY <2>1 DEF CommandInv, InEp4
    <3> HIDE DEF p
    <3>2. Len(hostOut) = 0
      BY <1>1
    <3>3. PacketsOf(p.of) \in Nat /\ (n > 0 => PacketsOf(n) >= 1)
      BY <1>3, <3>1, SentLens
    <3>4. p.of = n /\ p.at = PacketsOf(p.of)
      BY <1>3, <3>1, <3>2, <3>3
    <3>5. n \in 1..n /\ n = (n + 1) - 1 /\ n \in 1..(n + 1)
      BY <1>3, <3>1
    <3>6. NumPackets(sent'[p.of].len) = PacketsOf(p.of) /\ sent'[p.of] = sent[p.of]
      BY <1>3, <1>6, <3>1
    <3>7. Len(hostOut') = NumPackets(sent'[Len(sent')].len)
      BY <1>3, <1>4, <1>6
    <3> QED BY <1>3, <3>1, <3>4, <3>5, <3>6, <3>7 DEF p
  <2> QED BY <1>1, <2>1 DEF CommandInv, InEp4, PacketsOf
<1>9. NextOf' = NextOf /\ NextAt' = NextAt
  <2>1. CASE ep4 # << >>
    BY <1>1, <2>1 DEF NextOf, NextAt
  <2>2. CASE ep4 = << >>
    <3>1. NextOf = n + 1 /\ NextAt = 1
      BY <1>1, <2>2 DEF NextOf, NextAt
    <3>2. NextOf' = n + 1 /\ NextAt' = N - N + 1
      BY <1>1, <1>3, <1>4, <1>6, <2>2 DEF NextOf, NextAt, PacketsOf
    <3> QED BY <1>4, <3>1, <3>2
  <2> QED BY <2>1, <2>2
<1>10. NextOf \in Nat /\ NextOf > 0
  <2>1. CASE ep4 # << >>
    <3>1. ep4[1].of \in 1..n
      BY <2>1 DEF CommandInv, InEp4
    <3> QED BY <2>1, <3>1, <1>3 DEF NextOf
  <2>2. CASE ep4 = << >>
    BY <1>1, <1>3, <2>2 DEF NextOf
  <2> QED BY <2>1, <2>2
<1>11. Receiving' /\ PassedWhole'
  <2>1. n + 1 \in Nat /\ n <= n + 1
    BY <1>3
  <2> QED BY <1>1, <1>3, <1>9, <1>10, <2>1, CursorSame DEF CommandInv, TypeOK
<1> QED BY <1>5, <1>7, <1>8, <1>11 DEF CommandInv

(* The frame of a step that only the commands' path takes.                 *)
eventVars == <<queued, eventBufQ, in, ep3, hostIn, received, torn>>

(* The host sends the next packet of its command.                          *)
LEMMA HostPacketKeeps ==
    ASSUME TypeOK, CommandInv, HostPacket
    PROVE  TypeOK' /\ CommandInv'
<1> DEFINE n == Len(sent)
           N == PacketsOf(n)
           x == hostOut[1]
           k == Len(hostOut)
<1>1. /\ hostOut # << >> /\ ep4 = << >> /\ ep4' = <<Head(hostOut)>> /\ hostOut' = Tail(hostOut)
      /\ UNCHANGED <<up, setup, cmdQueue, out, passed, eventBufQ, in, ep3, ep3Int, hostIn,
                     sent, queued, received, silenced, torn>>
  BY DEF HostPacket, inVars
<1>2. /\ k \in Nat /\ k > 0 /\ hostOut \in Seq(Packets) /\ Head(hostOut) = x /\ x \in Packets
      /\ Tail(hostOut) \in Seq(Packets) /\ Len(Tail(hostOut)) = k - 1
      /\ \A i \in 1..(k - 1) : Tail(hostOut)[i] = hostOut[i + 1]
  BY <1>1 DEF TypeOK
<1>3. ep4' \in Seq(Packets) /\ Len(ep4') = 1 /\ ep4'[1] = x /\ ep4' # << >>
  BY <1>1, <1>2
<1>4. TypeOK'
  BY <1>1, <1>2, <1>3 DEF TypeOK
<1>5. /\ n \in Nat /\ n > 0 /\ N \in Nat /\ N >= 1 /\ k <= N /\ sent[n].len \in Nat
      /\ \A i \in 1..k : hostOut[i] = Packet(n, sent[n].len, N - k + i)
  <2>1. n > 0 /\ k <= N /\ \A i \in 1..k : hostOut[i] = Packet(n, sent[n].len, N - k + i)
    BY <1>1 DEF CommandInv, HostSending
  <2>2. n \in Nat
    BY SentLens
  <2>3. n \in 1..n
    BY <2>1, <2>2
  <2> QED BY <2>1, <2>2, <2>3, SentLens
<1>6. x = Packet(n, sent[n].len, N - k + 1) /\ x.of = n /\ x.at = N - k + 1 /\ N - k + 1 \in 1..N
  <2> HIDE DEF k, N, n
  <2>1. x = Packet(n, sent[n].len, N - k + 1) /\ N - k + 1 \in 1..N
    BY <1>2, <1>5
  <2>2. N = NumPackets(sent[n].len)
    BY DEF N, PacketsOf
  <2> QED BY <1>5, <2>1, <2>2, PacketFacts, SMTT(60)
<1>7. hostOut' \in Seq(Packets) /\ Len(hostOut') = k - 1
      /\ \A i \in 1..(k - 1) : hostOut'[i] = Packet(n, sent[n].len, N - (k - 1) + i)
  <2>1. \A i \in 1..(k - 1) : i + 1 \in 1..k /\ N - k + (i + 1) = N - (k - 1) + i
    BY <1>2, <1>5
  <2>2. \A i \in 1..(k - 1) : Tail(hostOut)[i] = Packet(n, sent[n].len, N - k + (i + 1))
    BY <1>2, <1>5, <2>1
  <2> QED BY <1>1, <1>2, <2>1, <2>2
<1> HIDE DEF k, x
<1>8. HostSending'
  <2>1. k - 1 <= N
    BY <1>2, <1>5
  <2> QED BY <1>1, <1>5, <1>7, <2>1 DEF HostSending, PacketsOf
<1>9. InEp4'
  <2>1. k - 1 = N - (N - k + 1) /\ n \in 1..n
    BY <1>2, <1>5
  <2>2. Len(ep4') <= 1
    BY <1>3
  <2>3. /\ x.of \in 1..n /\ x.at \in 1..N /\ x = Packet(x.of, sent[x.of].len, x.at)
        /\ x.of = n /\ Len(hostOut') = PacketsOf(x.of) - x.at
    BY <1>6, <1>7, <2>1
  <2> QED BY <1>1, <1>3, <2>2, <2>3 DEF InEp4, PacketsOf
<1>10. NextOf' = NextOf /\ NextAt' = NextAt /\ NextOf = n
  BY <1>1, <1>3, <1>6 DEF NextOf, NextAt, k
<1>11. Receiving' /\ PassedWhole'
  <2>1. n <= n /\ sent' = sent /\ NextOf \in Nat /\ NextOf > 0
    BY <1>1, <1>5, <1>10
  <2> QED BY <1>1, <1>5, <1>10, <2>1, CursorSame DEF CommandInv, TypeOK
<1> QED BY <1>4, <1>8, <1>9, <1>11 DEF CommandInv

(* After the packet in EP4 comes the next of its command, or the first of  *)
(* the next command.                                                       *)
LEMMA Advance ==
    ASSUME TypeOK, HostSending, InEp4, ep4 # << >>, ep4' = << >>, sent' = sent, hostOut' = hostOut
    PROVE  /\ ep4[1] \in Packets /\ Head(ep4) = ep4[1]
           /\ NextOf = ep4[1].of /\ NextAt = ep4[1].at
           /\ ep4[1].of \in 1..Len(sent) /\ ep4[1].at \in 1..PacketsOf(ep4[1].of)
           /\ ep4[1] = Packet(ep4[1].of, sent[ep4[1].of].len, ep4[1].at)
           /\ IsLast(ep4[1]) <=> ep4[1].at = PacketsOf(ep4[1].of)
           /\ ~IsLast(ep4[1]) => NextOf' = ep4[1].of /\ NextAt' = ep4[1].at + 1
           /\ IsLast(ep4[1]) => NextOf' = ep4[1].of + 1 /\ NextAt' = 1
<1> DEFINE p == ep4[1]
           n == Len(sent)
           k == Len(hostOut)
           N == PacketsOf(p.of)
           M == PacketsOf(n)
<1>1. ep4 \in Seq(Packets) /\ Len(ep4) = 1 /\ p \in Packets /\ Head(ep4) = p
  <2>1. ep4 \in Seq(Packets) /\ Len(ep4) <= 1
    BY DEF TypeOK, InEp4
  <2>2. Len(ep4) \in Nat /\ Len(ep4) >= 1 /\ p \in Packets /\ Head(ep4) = p
    BY <2>1, HeadTail
  <2> DEFINE c == Len(ep4)
  <2>3. c \in Nat /\ c <= 1 /\ c >= 1
    BY <2>1, <2>2
  <2> HIDE DEF c
  <2>4. c = 1
    BY <2>3
  <2> QED BY <2>1, <2>2, <2>4 DEF c
<1>2. NextOf = p.of /\ NextAt = p.at
  BY DEF NextOf, NextAt
<1>3. /\ p.of \in 1..n /\ p.at \in 1..N /\ p = Packet(p.of, sent[p.of].len, p.at)
      /\ \/ p.of = n /\ k = N - p.at
         \/ p.at = N /\ p.of = n - 1 /\ k = M
  BY DEF InEp4
<1>4. n \in Nat /\ k \in Nat /\ n \in 1..n /\ M \in Nat /\ M >= 1 /\ N \in Nat
      /\ sent[p.of].len \in Nat /\ (k = 0 <=> hostOut = << >>)
  <2>1. n \in Nat /\ k \in Nat
    BY SentLens
  <2>2. n \in 1..n
    BY <1>3, <2>1
  <2>3. k = 0 <=> hostOut = << >>
    BY DEF TypeOK
  <2> QED BY <1>3, <2>1, <2>2, <2>3, SentLens
<1>5. IsLast(p) <=> p.at = N
  <2>1. N = NumPackets(sent[p.of].len) /\ p.of \in Nat
    BY <1>3 DEF PacketsOf
  <2> DEFINE l == sent[p.of].len
             a == p.at
             o == p.of
  <2> HIDE DEF l, N, a, o
  <2>2. l \in Nat /\ o \in Nat /\ N = NumPackets(l) /\ a \in 1..N
    BY <1>3, <1>4, <2>1 DEF l, a, o
  <2>3. Packet(o, l, a).len < MaxPkt <=> a = N
    BY <2>2, PacketFacts
  <2> QED BY <1>3, <2>3 DEF IsLast, l, a, o
<1>6. /\ hostOut # << >> => NextOf' = n /\ NextAt' = M - k + 1
      /\ hostOut = << >> => NextOf' = n + 1 /\ NextAt' = 1
  BY DEF NextOf, NextAt, PacketsOf
<1> HIDE DEF p, n, k, N, M
<1>7. p.of = n => N = M
  BY DEF N, M
<1>8. ~IsLast(p) => NextOf' = p.of /\ NextAt' = p.at + 1
  BY <1>3, <1>4, <1>5, <1>6, <1>7
<1>9. IsLast(p) => NextOf' = p.of + 1 /\ NextAt' = 1
  BY <1>3, <1>4, <1>5, <1>6, <1>7
<1> QED BY <1>1, <1>2, <1>3, <1>5, <1>8, <1>9 DEF p, N, n

(* A message's first packets are no longer than it; all are as long.       *)
LEMMA PacketTotals ==
    ASSUME NEW l \in Nat, NEW a \in 1..NumPackets(l)
    PROVE  /\ PacketLen(l, a) \in Nat /\ PacketLen(l, a) <= MaxPkt
           /\ (a - 1) * MaxPkt + PacketLen(l, a) <= l
           /\ a = NumPackets(l) => (a - 1) * MaxPkt + PacketLen(l, a) = l
           /\ a # NumPackets(l) => PacketLen(l, a) = MaxPkt
<1> DEFINE q == l \div MaxPkt
           r == l % MaxPkt
<1>1. MaxPkt \in Nat /\ MaxPkt > 1
  BY Sizes
<1>2. l = q * MaxPkt + r /\ r \in 0..(MaxPkt - 1) /\ q \in Int
  BY <1>1, DivMod
<1>3. NumPackets(l) = q + 1 /\ PacketLen(l, a) = IF a < q + 1 THEN MaxPkt ELSE r
  BY DEF NumPackets, PacketLen
<1> HIDE DEF q, r
<1>4. a \in Int /\ a >= 1 /\ a <= q + 1
  BY <1>2, <1>3
<1>5. CASE a = q + 1
  <2>1. PacketLen(l, a) = r /\ a - 1 = q
    BY <1>2, <1>3, <1>5
  <2> QED BY <1>1, <1>2, <1>3, <1>5, <2>1
<1>6. CASE a # q + 1
  <2>1. PacketLen(l, a) = MaxPkt /\ a <= q
    BY <1>2, <1>3, <1>4, <1>6
  <2>2. q - a \in Nat /\ (q - a) * MaxPkt \in Nat
    BY <1>1, <1>2, <1>4, <2>1
  <2>3. q * MaxPkt = a * MaxPkt + (q - a) * MaxPkt /\ (a - 1) * MaxPkt + MaxPkt = a * MaxPkt
    BY <1>1, <1>2, <1>4
  <2>4. (a - 1) * MaxPkt \in Int /\ a * MaxPkt \in Int /\ q * MaxPkt \in Int
    BY <1>1, <1>2, <1>4
  <2> QED BY <1>1, <1>2, <1>3, <1>6, <2>1, <2>2, <2>3, <2>4
<1> QED BY <1>5, <1>6

(* A sum below the modulus is its own remainder.                           *)
LEMMA ModSmall ==
    ASSUME NEW x \in Nat, NEW m \in Nat \ {0}, x < m
    PROVE  x % m = x
BY SMT

(* The statics while a command is being received, or too long a one.       *)
TakesWild == out.new /\ FirstBuf = Wild

(* The first packet of a command takes a buffer, if there is one.          *)
LEMMA BegunFacts ==
    ASSUME TypeOK, Receiving, ~TakesWild
    PROVE  /\ Begun \in OutType
           /\ QueueBegun \subseteq Seq(Slots)
           /\ Begun.buf = NoBuf => /\ Begun.new = TRUE
                                   /\ \A q \in QueueBegun : q = << >> \/ q = <<Wild>>
           /\ Begun.buf # NoBuf => Begun.new = FALSE
<1> DEFINE e == << >>
<1>1. e \in Seq(Packets)
  OBVIOUS
<1> HIDE DEF e
<1>2. out \in OutType /\ cmdQueue \in Seq(Slots)
  BY DEF TypeOK
<1>3. CASE ~out.new
  <2>1. Begun = out /\ QueueBegun = {cmdQueue} /\ out.new = FALSE
    BY <1>2, <1>3 DEF Begun, QueueBegun, OutType
  <2>2. out.buf # NoBuf
    BY <1>3 DEF Receiving
  <2> QED BY <1>2, <2>1, <2>2
<1>4. CASE out.new /\ cmdQueue = << >>
  <2>1. Begun = [new |-> TRUE, len |-> 0, buf |-> NoBuf, data |-> e, wrapped |-> FALSE]
        /\ QueueBegun = {<< >>, <<Wild>>}
    BY <1>4 DEF Begun, QueueBegun, FirstBuf, e
  <2>2. << >> \in Seq(Slots) /\ <<Wild>> \in Seq(Slots)
    BY DEF Slots
  <2>3. Begun \in OutType /\ Begun.buf = NoBuf /\ Begun.new = TRUE
    BY <1>1, <2>1, Sizes DEF NoBuf, OutType
  <2> QED BY <2>1, <2>2, <2>3
<1>5. CASE out.new /\ cmdQueue # << >>
  <2>1. Head(cmdQueue) \in Slots /\ Tail(cmdQueue) \in Seq(Slots)
    BY <1>2, <1>5, HeadTail
  <2> DEFINE h == Head(cmdQueue)
  <2>2. FirstBuf = h /\ QueueBegun = {Tail(cmdQueue)}
    BY <1>5 DEF QueueBegun, FirstBuf
  <2> HIDE DEF h
  <2>3. h \in 1..NumBufs /\ h # NoBuf
    BY <1>5, <2>1, <2>2 DEF h, NoBuf, Slots, TakesWild
  <2>4. Begun = [new |-> h = NoBuf, len |-> 0, buf |-> h, data |-> e, wrapped |-> FALSE]
    BY <1>5, <2>2 DEF Begun, e
  <2>5. Begun = [new |-> FALSE, len |-> 0, buf |-> h, data |-> e, wrapped |-> FALSE]
    BY <2>3, <2>4
  <2>6. Begun \in OutType /\ Begun.buf = h /\ Begun.new = FALSE
    BY <1>1, <2>3, <2>5, Sizes DEF OutType
  <2> QED BY <2>1, <2>2, <2>3, <2>6
<1> QED BY <1>3, <1>4, <1>5

(* The statics are those of a command in step with the packet in EP4, or   *)
(* of a command that was too long.                                         *)
LEMMA BegunAt ==
    ASSUME TypeOK, CommandInv, ep4 # << >>, NEW p, p = ep4[1], ~TakesWild, Begun.buf # NoBuf
    PROVE  InStep(Begun, p.of, p.at) \/ TooLong(Begun, p.of)
<1>1. NextOf = p.of /\ NextAt = p.at
  BY DEF NextOf, NextAt
<1>2. CASE ~out.new
  <2>1. Begun = out
    BY <1>2 DEF Begun
  <2> QED BY <1>1, <1>2, <2>1 DEF CommandInv, Receiving
<1>3. CASE out.new
  <2>1. Begun.len = 0 /\ Begun.data = << >> /\ Begun.wrapped = FALSE /\ Begun.buf = FirstBuf
    BY <1>3 DEF Begun
  <2>2. p.at = 1
    BY <1>1, <1>3, <2>1 DEF CommandInv, Receiving, TakesWild
  <2>3. p.of \in 1..Len(sent)
    BY DEF CommandInv, InEp4
  <2>4. Len(Begun.data) = 0 /\ p.of <= Len(sent)
    BY <2>1, <2>3, SentLens
  <2>5. 0 = (1 - 1) * MaxPkt /\ 0 <= BufSize
    BY Sizes
  <2>6. \A i \in 1..Len(Begun.data) : FALSE
    BY <2>4
  <2> QED BY <2>1, <2>2, <2>4, <2>5, <2>6 DEF InStep
<1> QED BY <1>2, <1>3

(* A packet counted, and a packet written.                                 *)
LEMMA CountedFacts ==
    ASSUME Begun \in OutType, NEW p \in Packets
    PROVE  /\ Counted(p) \in OutType
           /\ Counted(p).new = Begun.new /\ Counted(p).buf = Begun.buf
           /\ Counted(p).data = Begun.data
           /\ Counted(p).len = (Begun.len + p.len) % LenMod
           /\ Counted(p).wrapped = (Begun.wrapped \/ Begun.len + p.len >= LenMod)
           /\ Begun.len \in Nat /\ Begun.data \in Seq(Packets) /\ Begun.wrapped \in BOOLEAN
           /\ p.len \in Nat
<1> DEFINE S == Seq(Packets)
           b == Begun
           x == (b.len + p.len) % LenMod
           w == (b.wrapped \/ b.len + p.len >= LenMod)
<1>1. b \in [new : BOOLEAN, len : Nat, buf : 0..NumBufs, data : S, wrapped : BOOLEAN]
  BY DEF OutType
<1>2. p.len \in Nat
  BY DEF Packets
<1>3. Counted(p) = [[b EXCEPT !.len = x] EXCEPT !.wrapped = w]
  BY DEF Counted
<1>4. b.len \in Nat /\ b.data \in S /\ b.wrapped \in BOOLEAN
  <2> HIDE DEF S, b
  <2> QED BY <1>1
<1>5. x \in Nat
  <2> DEFINE s == b.len + p.len
  <2>1. s \in Int /\ LenMod \in Int /\ LenMod > 0
    BY <1>2, <1>4, Sizes
  <2> HIDE DEF s
  <2>2. s % LenMod \in 0..(LenMod - 1)
    BY <2>1, DivMod
  <2> QED BY <2>1, <2>2 DEF s
<1>6. w \in BOOLEAN
  OBVIOUS
<1> DEFINE c == [[b EXCEPT !.len = x] EXCEPT !.wrapped = w]
<1>7. /\ c \in [new : BOOLEAN, len : Nat, buf : 0..NumBufs, data : S, wrapped : BOOLEAN]
      /\ c.new = b.new /\ c.buf = b.buf /\ c.data = b.data /\ c.len = x /\ c.wrapped = w
  <2> HIDE DEF S, b, x, w
  <2> QED BY <1>1, <1>5, <1>6
<1> HIDE DEF c
<1>8. Counted(p) = c
  BY <1>3 DEF c
<1> HIDE DEF x, w
<1>9. Counted(p).len = x /\ Counted(p).wrapped = w
  BY <1>7, <1>8
<1> QED BY <1>2, <1>4, <1>7, <1>8, <1>9 DEF OutType, x, w, b

(* The record with a packet, and the record that is begun anew after it.   *)
Anew(o) == [o EXCEPT !.new = TRUE]
LEMMA WithFacts ==
    ASSUME Begun \in OutType, NEW p \in Packets
    PROVE  /\ WithPacket(p) \in OutType
           /\ WithPacket(p).new = Begun.new /\ WithPacket(p).buf = Begun.buf
           /\ WithPacket(p).len = Counted(p).len /\ WithPacket(p).wrapped = Counted(p).wrapped
           /\ WithPacket(p).data = Append(Begun.data, p)
           /\ WithPacket(p).data \in Seq(Packets) /\ WithPacket(p).len \in Nat
           /\ WithPacket(p).wrapped \in BOOLEAN
           /\ Anew(WithPacket(p)) \in OutType /\ Anew(WithPacket(p)).new = TRUE
<1> DEFINE S == Seq(Packets)
           c == Counted(p)
           d == Append(c.data, p)
           o == [c EXCEPT !.data = d]
           a == [o EXCEPT !.new = TRUE]
<1>1. c \in [new : BOOLEAN, len : Nat, buf : 0..NumBufs, data : S, wrapped : BOOLEAN]
      /\ c.data = Begun.data /\ c.data \in S /\ c.new = Begun.new /\ c.buf = Begun.buf
  BY CountedFacts DEF OutType
<1> HIDE DEF c
<1>2. d \in S
  BY <1>1
<1>3. WithPacket(p) = o
  BY DEF WithPacket, c
<1>4. Anew(WithPacket(p)) = a
  BY <1>3 DEF Anew
<1> HIDE DEF d, S
<1>5. /\ o \in [new : BOOLEAN, len : Nat, buf : 0..NumBufs, data : S, wrapped : BOOLEAN]
      /\ o.new = c.new /\ o.buf = c.buf /\ o.len = c.len /\ o.wrapped = c.wrapped /\ o.data = d
      /\ o.len \in Nat /\ o.wrapped \in BOOLEAN
  BY <1>1, <1>2
<1> HIDE DEF o
<1>6. a \in [new : BOOLEAN, len : Nat, buf : 0..NumBufs, data : S, wrapped : BOOLEAN]
      /\ a.new = TRUE
  BY <1>5
<1> HIDE DEF a
<1>7. d = Append(Begun.data, p)
  BY <1>1 DEF d
<1> QED BY <1>1, <1>2, <1>3, <1>4, <1>5, <1>6, <1>7 DEF OutType, S, c

(* A command in step fits in the buffer with the next packet, and is       *)
(* counted right, or it is too long from now on.                           *)
LEMMA CountedAt ==
    ASSUME TypeOK, CommandInv, ep4 # << >>, NEW p \in Packets, p = ep4[1], ~TakesWild,
           Begun.buf # NoBuf
    PROVE  \/ /\ InStep(Begun, p.of, p.at) /\ Counted(p).wrapped = FALSE
              /\ Counted(p).len = (p.at - 1) * MaxPkt + p.len
              /\ Counted(p).len <= BufSize
           \/ TooLong(Counted(p), p.of)
<1> DEFINE n == p.of
           l == sent[n].len
           a == p.at
           b == Begun
           s == b.len + p.len
           c == Counted(p)
<1>1. b \in OutType
  BY BegunFacts DEF CommandInv
<1>2. /\ c.data = b.data /\ c.len = s % LenMod
      /\ c.wrapped = (b.wrapped \/ s >= LenMod) /\ b.len \in Nat /\ p.len \in Nat
      /\ b.data \in Seq(Packets) /\ b.wrapped \in BOOLEAN
  BY <1>1, CountedFacts
<1>3. InStep(b, n, a) \/ TooLong(b, n)
  BY BegunAt
<1>4. /\ n \in 1..Len(sent) /\ a \in 1..NumPackets(l) /\ p = Packet(n, l, a)
      /\ \A i \in DOMAIN passed : passed[i].data[1].of < n
  BY DEF CommandInv, InEp4, PacketsOf, Receiving, NextOf
<1>5. l \in Nat
  BY <1>4, SentLens
<1>6. p.len = PacketLen(l, a) /\ p.len <= MaxPkt /\ (a - 1) * MaxPkt + p.len <= l
  <2>1. p.len = PacketLen(l, a)
    BY <1>4 DEF Packet
  <2> HIDE DEF l, a
  <2> QED BY <1>4, <1>5, <2>1, PacketTotals
<1> HIDE DEF l, a, b, s, n, c
<1>7. s \in Nat /\ LenMod \in Nat \ {0} /\ BufSize + MaxPkt < LenMod /\ MaxPkt <= BufSize
      /\ BufSize \in Nat /\ MaxPkt \in Nat
  BY <1>2, Sizes DEF s
<1>8. s < LenMod => c.len = s
  BY <1>2, <1>7, ModSmall
<1>9. CASE InStep(b, n, a)
  <2>1. b.wrapped = FALSE /\ b.len = (a - 1) * MaxPkt /\ b.len <= BufSize /\ n <= Len(sent)
        /\ Len(b.data) = a - 1 /\ \A i \in 1..Len(b.data) : b.data[i] = Packet(n, l, i)
    BY <1>9 DEF InStep, l
  <2>2. s < LenMod
    <3>1. b.len <= BufSize
      BY <2>1
    <3> QED BY <1>2, <1>6, <1>7, <3>1 DEF s
  <2>3. c.len = s /\ c.wrapped = FALSE /\ s = (a - 1) * MaxPkt + p.len
    <3>1. ~(s >= LenMod)
      BY <1>7, <2>2
    <3>2. c.wrapped = FALSE
      BY <1>2, <2>1, <3>1, Zenon
    <3> QED BY <1>8, <2>1, <2>2, <3>2, Zenon DEF s
  <2>4. CASE s <= BufSize
    BY <1>9, <2>3, <2>4 DEF n, a, b, c
  <2>5. CASE ~(s <= BufSize)
    <3>1. s > BufSize /\ l > BufSize
      BY <1>5, <1>6, <1>7, <2>3, <2>5
    <3>2. a # 1
      <4>1. a = 1 => s = p.len
        BY <1>2, <1>7, <2>3
      <4> QED BY <1>2, <1>6, <1>7, <3>1, <4>1
    <3>3. NumPackets(l) \in Nat
      BY <1>5, <1>4, PacketFacts
    <3>4. Len(b.data) >= 1
      BY <1>4, <2>1, <3>2, <3>3
    <3>5. b.data # << >> /\ b.data[1] = Packet(n, l, 1)
      BY <1>2, <2>1, <3>4
    <3>6. b.data[1].of = n
      BY <3>5 DEF Packet
    <3>7. n \in 1..Len(sent) /\ n <= n
      BY <1>4, SentLens
    <3> QED BY <1>2, <1>4, <2>3, <3>1, <3>5, <3>6, <3>7 DEF TooLong, l, n, c
  <2> QED BY <2>4, <2>5
<1>10. CASE TooLong(b, n)
  <2>1. b.len > BufSize \/ b.wrapped
    BY <1>10 DEF TooLong
  <2>2. c.len > BufSize \/ c.wrapped
    <3>1. CASE b.wrapped \/ s >= LenMod
      BY <1>2, <3>1, Zenon
    <3>2. CASE ~b.wrapped /\ ~(s >= LenMod)
      <4>1. b.len > BufSize /\ s < LenMod /\ s > BufSize
        BY <1>2, <1>7, <2>1, <3>2 DEF s
      <4> QED BY <1>8, <4>1, Zenon
    <3> QED BY <3>1, <3>2, Zenon
  <2> QED BY <1>2, <1>10, <2>2 DEF TooLong, n, c
<1> QED BY <1>3, <1>9, <1>10 DEF n, a, b, c

(* What the type invariant says of what usb_reg_out_patch changes.         *)
OutOK == out \in OutType /\ cmdQueue \in Seq(Slots) /\ passed \in Seq(PassedType)

(* The three ends of usb_reg_out_patch: dropped, collected, passed up.     *)
Dropped(p) ==
    /\ Drops(p)
    /\ out' = IF Begun.buf = NoBuf THEN Begun ELSE Counted(p)
    /\ cmdQueue' \in QueueBegun /\ passed' = passed
Kept(p) ==
    /\ ~Drops(p) /\ ~IsLast(p)
    /\ out' = WithPacket(p)
    /\ cmdQueue' \in QueueBegun /\ passed' = passed
PassedUp(p) ==
    /\ ~Drops(p) /\ IsLast(p)
    /\ out' = Anew(WithPacket(p))
    /\ passed' = Append(passed, [data |-> WithPacket(p).data, len |-> WithPacket(p).len,
                                 wrapped |-> WithPacket(p).wrapped])
    /\ \E q \in QueueBegun : cmdQueue' = q \/ cmdQueue' = <<WithPacket(p).buf>> \o q
EmptiesEp4 == ep4 # << >> /\ ep4' = << >> /\ sent' = sent /\ hostOut' = hostOut

(* What leaves the passed commands alone leaves them whole.                *)
LEMMA PassedSame ==
    ASSUME PassedWhole, sent' = sent, passed' = passed
    PROVE  PassedWhole'
BY DEF PassedWhole, PassedOne

(* The next packet is not of an earlier command.                           *)
LEMMA NextLater ==
    ASSUME TypeOK, CommandInv, NEW p, p = ep4[1], EmptiesEp4
    PROVE  /\ p.of \in 1..Len(sent) /\ p.of \in Nat /\ NextOf' \in Nat
           /\ NextOf' >= p.of
           /\ (\A i \in DOMAIN passed : passed[i].data[1].of < p.of)
           /\ (\A i \in DOMAIN passed : passed[i].data[1].of \in Nat)
           /\ (\A i \in DOMAIN passed : passed[i].data[1].of < NextOf')
<1>1. p.of \in 1..Len(sent) /\ (NextOf' = p.of \/ NextOf' = p.of + 1) /\ NextOf = p.of
  BY Advance DEF CommandInv, EmptiesEp4
<1>2. Len(sent) \in Nat
  BY SentLens
<1>3. \A i \in DOMAIN passed : passed[i].data[1].of < p.of
  BY <1>1 DEF CommandInv, Receiving
<1>4. \A i \in DOMAIN passed : passed[i].data[1].of \in 1..Len(sent)
  BY DEF CommandInv, PassedWhole, PassedOne
<1> DEFINE n == p.of
           m == Len(sent)
<1> HIDE DEF n, m
<1>5. m \in Nat /\ n \in 1..m /\ (NextOf' = n \/ NextOf' = n + 1)
  BY <1>1, <1>2 DEF n, m
<1>6. n \in Nat /\ NextOf' \in Nat /\ NextOf' >= n
  BY <1>5
<1>7. ASSUME NEW i \in DOMAIN passed
      PROVE  passed[i].data[1].of \in Nat /\ passed[i].data[1].of < NextOf'
  <2> DEFINE x == passed[i].data[1].of
  <2>1. x \in 1..m /\ x < n
    BY <1>3, <1>4 DEF n, m
  <2> HIDE DEF x
  <2>2. x \in Nat /\ x < NextOf'
    BY <1>5, <1>6, <2>1
  <2> QED BY <2>2 DEF x
<1> QED BY <1>1, <1>3, <1>6, <1>7 DEF n

(* Too long a command stays one, whatever is counted or written.           *)
LEMMA TooLongLater ==
    ASSUME NEW o, NEW n \in Nat, NEW m \in Nat, m >= n, TooLong(o, n), Len(sent) \in Nat
    PROVE  TooLong(o, m)
<1> DEFINE x == o.data[1].of
<1>1. x \in 1..Len(sent) /\ x <= n
  BY DEF TooLong
<1> HIDE DEF x
<1>2. x <= m
  BY <1>1
<1> QED BY <1>2 DEF TooLong, x

(* A packet without a buffer, or beyond it, is dropped.                    *)
LEMMA DroppedKeeps ==
    ASSUME TypeOK, CommandInv, NEW p \in Packets, p = ep4[1], EmptiesEp4, ~TakesWild, Dropped(p)
    PROVE  OutOK' /\ Receiving' /\ PassedWhole'
<1>1. Receiving /\ ep4 # << >> /\ sent' = sent /\ passed' = passed
  BY DEF CommandInv, EmptiesEp4, Dropped
<1>2. /\ Begun \in OutType /\ QueueBegun \subseteq Seq(Slots)
      /\ Begun.buf = NoBuf => Begun.new = TRUE /\ \A q \in QueueBegun : q = << >> \/ q = <<Wild>>
      /\ Begun.buf # NoBuf => Begun.new = FALSE
  BY <1>1, BegunFacts
<1>3. PassedWhole'
  BY PassedSame DEF CommandInv, Dropped, EmptiesEp4
<1>4. passed' \in Seq(PassedType) /\ cmdQueue' \in QueueBegun /\ cmdQueue' \in Seq(Slots)
  BY <1>2 DEF TypeOK, Dropped
<1>5. \A i \in DOMAIN passed' : passed'[i].data[1].of < NextOf'
  BY <1>1, NextLater
<1>6. CASE Begun.buf = NoBuf
  <2>1. out' = Begun
    BY <1>6 DEF Dropped
  <2>2. out' \in OutType /\ out'.new = TRUE /\ (cmdQueue' = << >> \/ cmdQueue' = <<Wild>>)
    BY <1>2, <1>4, <1>6, <2>1
  <2>3. FirstBuf' \in {NoBuf, Wild}
    BY <2>2 DEF FirstBuf
  <2>4. Receiving'
    BY <1>5, <2>2, <2>3 DEF Receiving
  <2> QED BY <1>3, <1>4, <2>2, <2>4 DEF OutOK
<1>7. CASE Begun.buf # NoBuf
  <2>1. out' = Counted(p) /\ Counted(p).len > BufSize
    BY <1>7 DEF Dropped, Drops
  <2>2. Counted(p) \in OutType /\ Counted(p).new = FALSE /\ Counted(p).buf # NoBuf
        /\ Counted(p).len \in Nat
    <3>1. Counted(p) \in OutType /\ Counted(p).new = FALSE /\ Counted(p).buf # NoBuf
      BY <1>2, <1>7, CountedFacts
    <3> QED BY <3>1 DEF OutType
  <2>3. TooLong(Counted(p), p.of)
    <3>1. ~(Counted(p).len <= BufSize)
      BY <2>1, <2>2, Sizes
    <3> QED BY <1>1, <1>7, <3>1, CountedAt
  <2>4. TooLong(Counted(p), NextOf')
    <3>1. NextOf' \in Nat /\ p.of \in Nat /\ NextOf' >= p.of /\ Len(sent) \in Nat
      BY NextLater, SentLens
    <3> QED BY <2>3, <3>1, TooLongLater
  <2>5. TooLong(out, NextOf)'
    BY <1>1, <2>1, <2>4 DEF TooLong
  <2>6. Receiving'
    BY <1>5, <2>1, <2>2, <2>5 DEF Receiving
  <2> QED BY <1>3, <1>4, <2>1, <2>2, <2>6 DEF OutOK
<1> QED BY <1>6, <1>7

(* A full packet is kept and the command goes on.                          *)
LEMMA KeptKeeps ==
    ASSUME TypeOK, CommandInv, NEW p \in Packets, p = ep4[1], EmptiesEp4, ~TakesWild, Kept(p)
    PROVE  OutOK' /\ Receiving' /\ PassedWhole'
<1> DEFINE w == WithPacket(p)
           b == Begun
<1>1. Receiving /\ ep4 # << >> /\ sent' = sent /\ passed' = passed /\ out' = w
      /\ ~Drops(p) /\ ~IsLast(p)
  BY DEF CommandInv, EmptiesEp4, Kept
<1>2. b.buf # NoBuf /\ b \in OutType /\ b.new = FALSE /\ QueueBegun \subseteq Seq(Slots)
  BY <1>1, BegunFacts DEF Drops
<1>3. PassedWhole'
  BY PassedSame DEF CommandInv, Kept, EmptiesEp4
<1>4. passed' \in Seq(PassedType) /\ cmdQueue' \in Seq(Slots)
  BY <1>2 DEF TypeOK, Kept
<1>5. /\ w \in OutType /\ w.new = FALSE /\ w.buf # NoBuf
      /\ w.len = Counted(p).len /\ w.wrapped = Counted(p).wrapped /\ w.data = Append(b.data, p)
  BY <1>2, WithFacts
<1>6. /\ p.of \in 1..Len(sent) /\ p.at \in 1..PacketsOf(p.of) /\ p.at # PacketsOf(p.of)
      /\ p = Packet(p.of, sent[p.of].len, p.at)
      /\ NextOf' = p.of /\ NextAt' = p.at + 1
  BY <1>1, Advance DEF CommandInv, EmptiesEp4
<1>7. Counted(p).data = b.data /\ b.data \in Seq(Packets)
  BY <1>2, CountedFacts
<1>8. ASSUME TooLong(Counted(p), p.of)
      PROVE  TooLong(out, NextOf)'
  <2> DEFINE d == b.data
  <2>1. d # << >> /\ d \in Seq(Packets)
    BY <1>7, <1>8 DEF TooLong
  <2> HIDE DEF d
  <2>2. Append(d, p) # << >> /\ Append(d, p)[1] = d[1]
    BY <2>1
  <2>3. w.data # << >> /\ w.data[1] = Counted(p).data[1]
    BY <1>5, <1>7, <2>2 DEF d
  <2> HIDE DEF w, b
  <2>4. TooLong(w, p.of)
    BY <1>5, <1>8, <2>3 DEF TooLong
  <2>5. TooLong(w, NextOf')
    BY <1>6, <2>4
  <2> QED BY <1>1, <2>5 DEF TooLong
<1>9. ASSUME InStep(b, p.of, p.at) /\ Counted(p).wrapped = FALSE,
             Counted(p).len = (p.at - 1) * MaxPkt + p.len,
             Counted(p).len <= BufSize
      PROVE  InStep(out, NextOf, NextAt)'
  <2> DEFINE n == p.of
             l == sent[n].len
             a == p.at
             d == b.data
  <2>1. /\ n \in 1..Len(sent) /\ a \in 1..NumPackets(l) /\ a # NumPackets(l)
        /\ p = Packet(n, l, a) /\ l \in Nat /\ Len(sent) \in Nat
    BY <1>6, SentLens DEF PacketsOf
  <2>2. p.len = PacketLen(l, a)
    BY <2>1 DEF Packet
  <2>3. /\ n <= Len(sent) /\ Len(d) = a - 1 /\ d \in Seq(Packets)
        /\ \A i \in 1..Len(d) : d[i] = Packet(n, l, i)
    BY <1>7, <1>9 DEF InStep
  <2> HIDE DEF n, l, a, d
  <2>4. p.len = MaxPkt /\ a \in Nat /\ a >= 1
    <3>1. NumPackets(l) \in Nat
      BY <2>1, PacketFacts
    <3> QED BY <2>1, <2>2, <3>1, PacketTotals
  <2>5. /\ Len(Append(d, p)) = a
        /\ \A i \in 1..a : Append(d, p)[i] = Packet(n, l, i)
    <3>1. Len(Append(d, p)) = a /\ Append(d, p)[a] = p
      BY <2>3, <2>4
    <3>2. \A i \in 1..a : i # a => Append(d, p)[i] = d[i] /\ i \in 1..Len(d)
      BY <2>3, <2>4
    <3> QED BY <2>1, <2>3, <3>1, <3>2
  <2>6. (a - 1) * MaxPkt + MaxPkt = ((a + 1) - 1) * MaxPkt /\ a = (a + 1) - 1
    BY <2>4, Sizes
  <2>7. w.len = ((a + 1) - 1) * MaxPkt /\ w.len <= BufSize /\ w.wrapped = FALSE
    BY <1>5, <1>9, <2>4, <2>6 DEF a
  <2>8. Len(w.data) = (a + 1) - 1 /\ \A i \in 1..Len(w.data) : w.data[i] = Packet(n, l, i)
    BY <1>5, <2>5, <2>6 DEF d
  <2> HIDE DEF w
  <2>9. InStep(w, n, a + 1)
    BY <2>3, <2>7, <2>8 DEF InStep, l
  <2>10. InStep(out, NextOf, NextAt)'
    BY <1>1, <1>6, <2>9 DEF InStep, n, a
  <2> QED BY <2>10
<1>10. InStep(out, NextOf, NextAt)' \/ TooLong(out, NextOf)'
  <2>1. \/ /\ InStep(b, p.of, p.at) /\ Counted(p).wrapped = FALSE
           /\ Counted(p).len = (p.at - 1) * MaxPkt + p.len
           /\ Counted(p).len <= BufSize
        \/ TooLong(Counted(p), p.of)
    BY <1>1, <1>2, CountedAt
  <2> QED BY <1>8, <1>9, <2>1
<1>11. \A i \in DOMAIN passed' : passed'[i].data[1].of < NextOf'
  BY <1>1, NextLater
<1>12. Receiving'
  BY <1>1, <1>5, <1>10, <1>11 DEF Receiving
<1> QED BY <1>1, <1>3, <1>4, <1>5, <1>12 DEF OutOK

(* A short packet ends the command, which is passed up: whole, or with a   *)
(* wrapped length after too long a command.                                *)
LEMMA PassedUpOne ==
    ASSUME TypeOK, CommandInv, NEW p \in Packets, p = ep4[1], EmptiesEp4, ~TakesWild, PassedUp(p)
    PROVE  /\ PassedOne(WithPacket(p)) /\ WithPacket(p).data[1].of \in Nat
           /\ WithPacket(p).data[1].of <= p.of
           /\ \A i \in DOMAIN passed : passed[i].data[1].of < WithPacket(p).data[1].of
<1> DEFINE w == WithPacket(p)
           b == Begun
           n == p.of
           l == sent[n].len
           a == p.at
           d == b.data
<1>1. Receiving /\ ep4 # << >> /\ ~Drops(p) /\ IsLast(p)
  BY DEF CommandInv, EmptiesEp4, PassedUp
<1>2. b.buf # NoBuf /\ b \in OutType
  BY <1>1, BegunFacts DEF Drops
<1>3. /\ w.len = Counted(p).len /\ w.wrapped = Counted(p).wrapped /\ w.data = Append(d, p)
      /\ d \in Seq(Packets) /\ Counted(p).data = d /\ Counted(p).len \in Nat
      /\ Counted(p).wrapped \in BOOLEAN
  <2>1. Counted(p) \in OutType /\ Counted(p).data = d /\ d \in Seq(Packets)
    BY <1>2, CountedFacts
  <2> QED BY <1>2, <2>1, WithFacts DEF OutType
<1>4. /\ n \in 1..Len(sent) /\ a = NumPackets(l) /\ a \in 1..NumPackets(l)
      /\ p = Packet(n, l, a)
  BY <1>1, Advance DEF CommandInv, EmptiesEp4, PacketsOf
<1>5. l \in Nat /\ Len(sent) \in Nat /\ n \in Nat /\ a \in Nat /\ a >= 1
  <2>1. l \in Nat /\ Len(sent) \in Nat
    BY <1>4, SentLens
  <2>2. NumPackets(l) \in Nat
    BY <2>1, PacketFacts
  <2> HIDE DEF n, a, l
  <2> QED BY <1>4, <2>1, <2>2
<1>6. \A i \in DOMAIN passed : passed[i].data[1].of < n
  BY NextLater
<1>7. CASE TooLong(Counted(p), n)
  <2>1. d # << >>
    BY <1>3, <1>7 DEF TooLong
  <2> HIDE DEF d
  <2>2. Append(d, p) # << >> /\ Append(d, p)[1] = d[1]
    BY <1>3, <2>1
  <2>3. w.data # << >> /\ w.data[1] = Counted(p).data[1]
    BY <1>3, <2>2
  <2>4. w.wrapped = TRUE
    <3>1. ~(Counted(p).len > BufSize)
      BY <1>1, <1>3, Sizes DEF Drops
    <3> QED BY <1>3, <1>7, <3>1 DEF TooLong
  <2> HIDE DEF w, n
  <2>5. w.data[1].of \in 1..Len(sent) /\ w.data[1].of <= n /\ sent[w.data[1].of].len > BufSize
        /\ \A i \in DOMAIN passed : passed[i].data[1].of < w.data[1].of
    BY <1>7, <2>3 DEF TooLong
  <2>6. w.data[1].of \in Nat
    BY <1>5, <2>5
  <2> QED BY <2>3, <2>4, <2>5, <2>6 DEF PassedOne, w, n
<1>8. CASE /\ InStep(b, n, a) /\ Counted(p).wrapped = FALSE
           /\ Counted(p).len = (a - 1) * MaxPkt + p.len
           /\ Counted(p).len <= BufSize
  <2>1. Len(d) = a - 1 /\ \A i \in 1..Len(d) : d[i] = Packet(n, l, i)
    BY <1>8 DEF InStep
  <2>2. p.len = PacketLen(l, a)
    BY <1>4 DEF Packet
  <2> HIDE DEF n, l, a, d
  <2>3. (a - 1) * MaxPkt + p.len = l
    BY <1>4, <1>5, <2>2, PacketTotals
  <2>4. Len(Append(d, p)) = a /\ Append(d, p) \in Seq(Packets)
        /\ \A i \in 1..a : Append(d, p)[i] = Packet(n, l, i)
    <3>1. Len(Append(d, p)) = a /\ Append(d, p)[a] = p /\ Append(d, p) \in Seq(Packets)
      BY <1>3, <1>5, <2>1
    <3>2. \A i \in 1..a : i # a => Append(d, p)[i] = d[i] /\ i \in 1..Len(d)
      BY <1>3, <1>5, <2>1
    <3> QED BY <1>4, <2>1, <3>1, <3>2
  <2>5. w.data = Message(n, l)
    <3>1. Append(d, p) = Message(n, l)
      BY <1>4, <1>5, <2>4, WholeMessage
    <3> QED BY <1>3, <3>1
  <2>6. Message(n, l) # << >> /\ Message(n, l)[1] = Packet(n, l, 1)
    BY <1>4, <1>5, MessageFacts
  <2>7. w.data # << >> /\ w.data[1].of = n /\ w.len = l /\ w.wrapped = FALSE
    BY <1>3, <1>8, <2>3, <2>5, <2>6 DEF Packet, a
  <2> HIDE DEF w
  <2>8. n <= n
    BY <1>5
  <2>9. PassedOne(w)
    BY <1>4, <2>5, <2>7 DEF PassedOne, l
  <2>10. \A i \in DOMAIN passed : passed[i].data[1].of < w.data[1].of
    BY <1>6, <2>7
  <2> QED BY <1>5, <2>7, <2>8, <2>9, <2>10 DEF w, n
<1> QED BY <1>1, <1>2, <1>7, <1>8, CountedAt

(* A short packet ends the command, which is passed up.                    *)
LEMMA PassedUpKeeps ==
    ASSUME TypeOK, CommandInv, NEW p \in Packets, p = ep4[1], EmptiesEp4, ~TakesWild, PassedUp(p)
    PROVE  OutOK' /\ Receiving' /\ PassedWhole'
<1> DEFINE w == WithPacket(p)
           m == [data |-> w.data, len |-> w.len, wrapped |-> w.wrapped]
           h == w.data[1].of
<1>1. /\ Receiving /\ ep4 # << >> /\ ~Drops(p) /\ IsLast(p) /\ sent' = sent
      /\ out' = Anew(w) /\ passed' = Append(passed, m)
  BY DEF CommandInv, EmptiesEp4, PassedUp
<1>2. Begun.buf # NoBuf /\ Begun \in OutType /\ QueueBegun \subseteq Seq(Slots)
  BY <1>1, BegunFacts DEF Drops
<1>3. /\ w.buf = Begun.buf /\ w.data \in Seq(Packets) /\ w.len \in Nat /\ w.wrapped \in BOOLEAN
      /\ Anew(w) \in OutType /\ Anew(w).new = TRUE
  BY <1>2, WithFacts
<1>4. PassedOne(w) /\ h \in Nat /\ h <= p.of /\ \A i \in DOMAIN passed : passed[i].data[1].of < h
  BY PassedUpOne
<1>5. NextOf' = p.of + 1 /\ NextAt' = 1
  BY <1>1, Advance DEF CommandInv, EmptiesEp4
<1>6. p.of \in Nat /\ (\A i \in DOMAIN passed : passed[i].data[1].of < p.of)
      /\ \A i \in DOMAIN passed : passed[i].data[1].of \in Nat
  BY NextLater
<1>7. cmdQueue' \in Seq(Slots)
  <2> DEFINE f == w.buf
  <2>1. f \in Slots
    BY <1>2, <1>3 DEF OutType, NoBuf, Slots
  <2>2. PICK q \in QueueBegun : cmdQueue' = q \/ cmdQueue' = <<f>> \o q
    BY DEF PassedUp
  <2>3. q \in Seq(Slots)
    BY <1>2, <2>2
  <2> HIDE DEF f
  <2>4. <<f>> \o q \in Seq(Slots)
    BY <2>1, <2>3
  <2> QED BY <2>2, <2>3, <2>4
<1> HIDE DEF w, h
<1>8. m \in PassedType /\ m.data = w.data /\ m.len = w.len /\ m.wrapped = w.wrapped
  BY <1>3 DEF PassedType
<1>9. PassedOne(m) /\ m.data[1].of = h
  BY <1>4, <1>8 DEF PassedOne, h
<1> HIDE DEF m
<1> DEFINE k == Len(passed)
<1>10. k \in Nat /\ passed' \in Seq(PassedType) /\ Len(passed') = k + 1 /\ passed'[k + 1] = m
       /\ DOMAIN passed = 1..k /\ DOMAIN passed' = 1..(k + 1)
       /\ \A i \in 1..k : passed'[i] = passed[i]
  <2>1. passed \in Seq(PassedType)
    BY DEF TypeOK
  <2> QED BY <1>1, <1>8, <2>1
<1> HIDE DEF k
<1>11. \A i \in 1..(k + 1) : i \in 1..k \/ i = k + 1
  BY <1>10
<1>12. PassedWhole'
  <2>1. ASSUME NEW i \in DOMAIN passed'
        PROVE  PassedOne(passed'[i])
    <3>1. CASE i = k + 1
      BY <1>9, <1>10, <3>1
    <3>2. CASE i \in 1..k
      BY <1>10, <3>2 DEF CommandInv, PassedWhole
    <3> QED BY <1>10, <1>11, <3>1, <3>2
  <2>2. ASSUME NEW i \in DOMAIN passed', NEW j \in DOMAIN passed', i < j
        PROVE  passed'[i].data[1].of < passed'[j].data[1].of
    <3>1. i \in 1..k
      BY <1>10, <2>2
    <3>2. CASE j = k + 1
      BY <1>4, <1>9, <1>10, <3>1, <3>2
    <3>3. CASE j \in 1..k
      BY <1>10, <2>2, <3>1, <3>3 DEF CommandInv, PassedWhole
    <3> QED BY <1>10, <1>11, <3>2, <3>3
  <2> QED BY <1>1, <2>1, <2>2 DEF PassedWhole, PassedOne
<1>13. Receiving'
  <2>1. ASSUME NEW i \in DOMAIN passed'
        PROVE  passed'[i].data[1].of < p.of + 1
    <3>1. CASE i = k + 1
      <4>1. h < p.of + 1
        BY <1>4, <1>6
      <4> QED BY <1>9, <1>10, <3>1, <4>1
    <3>2. CASE i \in 1..k
      <4> DEFINE o == passed[i].data[1].of
                 n == p.of
      <4>1. o \in Nat /\ o < n /\ n \in Nat
        BY <1>6, <1>10, <3>2
      <4> HIDE DEF o, n
      <4>2. o < n + 1
        BY <4>1
      <4> QED BY <1>10, <3>2, <4>2 DEF o, n
    <3> QED BY <1>10, <1>11, <3>1, <3>2
  <2> QED BY <1>1, <1>3, <1>5, <2>1 DEF Receiving
<1> QED BY <1>1, <1>3, <1>7, <1>10, <1>12, <1>13 DEF OutOK
----------------------------------------------------------------------------
(* Events.                                                                 *)

(* What is in EP3 is as long as its only packet.                           *)
LEMMA TotalOfOne ==
    ASSUME NEW p, p.len \in Nat
    PROVE  TotalLen(<<p>>) = p.len
<1> DEFINE q == <<p>>
           D == DOMAIN q
           F(f) == [s \in SUBSET D |-> IF s = {} THEN 0 ELSE f[s \ {Max(s)}] + q[Max(s)].len]
           iter == CHOOSE f : f = F(f)
           g == [s \in SUBSET D |-> IF s = {} THEN 0 ELSE p.len]
<1>1. TotalLen(q) = iter[D]
  BY DEF TotalLen, FoldLeft, MapThenFoldSet
<1>2. D = {1} /\ q[1] = p
  OBVIOUS
<1> HIDE DEF q, D
<1>3. \A s \in SUBSET D : s = {} \/ s = {1}
  BY <1>2
<1>4. Max({1}) = 1
  BY DEF Max
<1>5. g = F(g)
  <2>1. ASSUME NEW s \in SUBSET D, s # {}
        PROVE  g[s \ {Max(s)}] + q[Max(s)].len = p.len
    <3>1. s = {1} /\ Max(s) = 1 /\ s \ {Max(s)} = {}
      BY <1>3, <1>4, <2>1
    <3>2. g[{}] = 0
      OBVIOUS
    <3> QED BY <1>2, <3>1, <3>2
  <2> HIDE DEF g
  <2>2. g = [s \in SUBSET D |-> IF s = {} THEN 0 ELSE g[s \ {Max(s)}] + q[Max(s)].len]
    <3>1. \A s \in SUBSET D : (IF s = {} THEN 0 ELSE g[s \ {Max(s)}] + q[Max(s)].len)
                              = (IF s = {} THEN 0 ELSE p.len)
      BY <2>1
    <3> QED BY <3>1, Zenon DEF g
  <2> QED BY <2>2
<1> HIDE DEF g, F
<1>6. iter = F(iter)
  BY <1>5
<1> HIDE DEF iter
<1>7. iter[{}] = 0
  BY <1>6 DEF F
<1>8. iter[{1}] = iter[{1} \ {Max({1})}] + q[Max({1})].len
  <2>1. {1} \in SUBSET D
    BY <1>2
  <2>2. iter[{1}] = F(iter)[{1}]
    BY <1>6
  <2> QED BY <2>1, <2>2 DEF F
<1>9. {1} \ {1} = {}
  OBVIOUS
<1> QED BY <1>1, <1>2, <1>4, <1>7, <1>8, <1>9 DEF q

(* usb_status_in_patch sends a full packet while more than one is left.    *)
LEMMA NextPacket ==
    ASSUME NEW l \in Nat, l % MaxPkt # 0
    PROVE  /\ l > 0
           /\ l > MaxPkt <=> NumPackets(l) > 1
           /\ ~(l > MaxPkt) => l % MaxPkt = l /\ NumPackets(l) = 1
           /\ l > MaxPkt => /\ l - MaxPkt \in Nat /\ l - MaxPkt > 0
                            /\ (l - MaxPkt) % MaxPkt = l % MaxPkt
                            /\ NumPackets(l - MaxPkt) = NumPackets(l) - 1
<1> DEFINE m == MaxPkt
           q == l \div m
           r == l % m
<1>1. m \in Nat /\ m > 1 /\ m \in Nat \ {0} /\ m \in Int /\ m > 0 /\ l \in Int
  BY Sizes
<1>2. l = q * m + r /\ q \in Int /\ r \in 0..(m - 1) /\ r # 0
  BY <1>1, DivMod
<1>3. NumPackets(l) = q + 1
  BY DEF NumPackets
<1> HIDE DEF q, r, m
<1>4. l > m <=> q > 0
  BY <1>1, <1>2
<1>5. q >= 0 /\ (q = 0 => r = l) /\ l > 0
  BY <1>1, <1>2
<1>6. ASSUME l > m
      PROVE  l - m \in Nat /\ l - m > 0 /\ (l - m) % m = r /\ (l - m) \div m = q - 1
  <2>1. l >= m /\ l - m \in Nat /\ l - m > 0
    BY <1>1, <1>6
  <2>2. (l - m) % m = l % m /\ (l - m) \div m = l \div m - 1
    BY <1>1, <2>1, DivModShift
  <2> QED BY <2>1, <2>2 DEF q, r
<1>7. l > m => NumPackets(l - m) = (q - 1) + 1
  BY <1>6 DEF NumPackets, m
<1>8. r = l % MaxPkt
  BY DEF r, m
<1> QED BY <1>1, <1>2, <1>3, <1>4, <1>5, <1>6, <1>7, <1>8 DEF m

(* What the queue and its history are for the rest of the proof.           *)
LEMMA EventLens ==
    ASSUME TypeOK, EventQueue
    PROVE  /\ Len(queued) \in Nat /\ Len(eventBufQ) \in Nat /\ Taken \in Nat
           /\ Taken <= Len(queued) /\ Taken + Len(eventBufQ) = Len(queued)
           /\ \A n \in 1..Len(queued) :
                /\ queued[n] \in EvtLens /\ queued[n] \in Nat /\ queued[n] % MaxPkt # 0
                /\ NumPackets(queued[n]) \in Nat /\ NumPackets(queued[n]) >= 1
<1>1. Len(queued) \in Nat /\ Len(eventBufQ) \in Nat /\ \A n \in 1..Len(queued) : queued[n] \in EvtLens
  BY DEF TypeOK
<1>2. Len(eventBufQ) <= Len(queued)
  BY DEF EventQueue
<1>3. \A n \in 1..Len(queued) : queued[n] \in Nat /\ queued[n] % MaxPkt # 0
  BY <1>1, Sizes
<1>4. \A n \in 1..Len(queued) : NumPackets(queued[n]) \in Nat /\ NumPackets(queued[n]) >= 1
  BY <1>3, PacketFacts
<1>5. Taken \in Nat /\ Taken <= Len(queued) /\ Taken + Len(eventBufQ) = Len(queued)
  BY <1>1, <1>2 DEF Taken
<1> QED BY <1>1, <1>3, <1>4, <1>5

(* What leaves the variables of the events alone keeps their invariant.    *)
LEMMA EventSame ==
    ASSUME EventInv, UNCHANGED eventVars
    PROVE  EventInv'
<1>1. UNCHANGED <<queued, eventBufQ, in, ep3, hostIn, received, torn>> /\ Taken' = Taken
  BY DEF eventVars, Taken
<1>2. \A i : EventsUpTo(i)' = EventsUpTo(i)
  BY <1>1 DEF EventsUpTo
<1>3. EventQueue' /\ HalfSent'
  BY <1>1 DEF EventInv, EventQueue, HalfSent
<1>4. (AtRest => AtRest') /\ (OnItsWay => OnItsWay')
  BY <1>1, <1>2 DEF AtRest, OnItsWay
<1>5. ReceivedWhole => ReceivedWhole'
  BY <1>1, <1>2 DEF ReceivedWhole
<1> QED BY <1>1, <1>3, <1>4, <1>5 DEF EventInv, Delivery

(* zfGenWrongEpidEvent tears a transfer, or finds nothing on its way.      *)
LEMMA WrongEpidKeeps ==
    ASSUME TypeOK, EventInv, GenWrongEpidEvent, UNCHANGED <<in, hostIn, received>>
    PROVE  EventInv' /\ ep3' \in Seq(Packets)
<1>1. EventQueue' /\ HalfSent' /\ Taken' = Taken
  BY DEF EventInv, GenWrongEpidEvent, EventQueue, HalfSent, Taken
<1>2. WrongEpid \in Packets
  BY DEF WrongEpid, Packets
<1> DEFINE w == WrongEpid
<1> HIDE DEF w
<1>3. ep3' = Append(ep3, w) /\ ep3 \in Seq(Packets) /\ w \in Packets
  BY <1>2 DEF GenWrongEpidEvent, TypeOK, w
<1>4. ep3' \in Seq(Packets)
  BY <1>3
<1>5. ASSUME ~torn'
      PROVE  Delivery' /\ ReceivedWhole'
  <2>1. ~torn /\ ep3 = << >> /\ hostIn = << >> /\ in.new
    BY <1>5, Zenon DEF GenWrongEpidEvent
  <2>2. Delivery /\ ReceivedWhole
    BY <2>1 DEF EventInv
  <2>3. AtRest
    BY <2>1, <2>2 DEF Delivery, OnItsWay
  <2>4. ep3' = <<w>>
    BY <1>3, <2>1
  <2>5. AtRest'
    BY <1>1, <2>1, <2>3, <2>4 DEF AtRest, EventsUpTo, w
  <2>6. ReceivedWhole'
    BY <2>2 DEF ReceivedWhole, EventsUpTo, GenWrongEpidEvent
  <2> QED BY <2>5, <2>6 DEF Delivery
<1> QED BY <1>1, <1>4, <1>5 DEF EventInv

(* An event that joins the queue changes nothing of those before it.       *)
LEMMA EventGrow ==
    ASSUME TypeOK, EventInv, Taken' = Taken, Len(queued') \in Nat, Len(queued) <= Len(queued'),
           \A n \in 1..Len(queued) : queued'[n] = queued[n],
           UNCHANGED <<in, ep3, hostIn, received, torn>>
    PROVE  HalfSent' /\ (torn \/ (Delivery /\ ReceivedWhole))'
<1>1. Taken \in Nat /\ Taken <= Len(queued) /\ Len(queued) \in Nat
  BY EventLens DEF EventInv
<1>2. Taken > 0 => queued'[Taken] = queued[Taken]
  <2>1. Taken > 0 => Taken \in 1..Len(queued)
    BY <1>1
  <2> QED BY <2>1
<1>3. HalfSent'
  BY <1>2 DEF EventInv, HalfSent
<1>4. ASSUME ~torn
      PROVE  Delivery' /\ ReceivedWhole'
  <2>1. Delivery /\ ReceivedWhole
    BY <1>4 DEF EventInv
  <2>2. \A i : EventsUpTo(i)' = EventsUpTo(i)
    BY DEF EventsUpTo
  <2>3. AtRest => AtRest'
    BY <2>2 DEF AtRest
  <2>4. OnItsWay => OnItsWay'
    BY <1>2, <2>2 DEF OnItsWay
  <2>5. ASSUME NEW i \in DOMAIN received
        PROVE  \/ received[i] = <<WrongEpid>>
               \/ /\ Cardinality(EventsUpTo(i)) \in 1..Len(queued')
                  /\ received[i] = Message(Cardinality(EventsUpTo(i)), queued'[Cardinality(EventsUpTo(i))])
    <3> DEFINE c == Cardinality(EventsUpTo(i))
    <3>1. received[i] = <<WrongEpid>> \/ (c \in 1..Len(queued) /\ received[i] = Message(c, queued[c]))
      BY <2>1 DEF ReceivedWhole
    <3> HIDE DEF c
    <3>2. c \in 1..Len(queued) => c \in 1..Len(queued') /\ queued'[c] = queued[c]
      BY <1>1
    <3> QED BY <3>1, <3>2 DEF c
  <2>6. ReceivedWhole'
    BY <2>5 DEF ReceivedWhole, EventsUpTo
  <2> QED BY <2>1, <2>3, <2>4, <2>6 DEF Delivery
<1> QED BY <1>3, <1>4

(* send_buffer_via_fifo: the event joins the queue.                        *)
LEMMA QueueKeeps ==
    ASSUME TypeOK, EventInv, NEW evs \in {<< >>} \cup {<<l>> : l \in EvtLens}, Queue(evs),
           UNCHANGED <<in, ep3, hostIn, received, torn>>
    PROVE  /\ EventInv'
           /\ queued' \in Seq(EvtLens) /\ eventBufQ' \in Seq([n : Nat, len : Nat])
           /\ ep3Int' \in BOOLEAN /\ silenced' \in BOOLEAN
<1> DEFINE R == [n : Nat, len : Nat]
<1>1. queued \in Seq(EvtLens) /\ eventBufQ \in Seq(R) /\ ep3Int \in BOOLEAN /\ silenced \in BOOLEAN
  BY DEF TypeOK
<1>2. ep3Int' \in BOOLEAN /\ silenced' \in BOOLEAN
  BY <1>1, Zenon DEF Queue
<1>3. Len(queued) \in Nat /\ Len(eventBufQ) \in Nat /\ Taken + Len(eventBufQ) = Len(queued)
      /\ Taken \in Nat /\ EventQueue
  BY EventLens DEF EventInv
<1>4. CASE evs = << >>
  <2>1. queued' = queued
    BY <1>1, <1>4 DEF Queue
  <2>2. [i \in DOMAIN evs |-> [n |-> Len(queued'), len |-> evs[i]]] = << >>
    BY <1>4
  <2>3. eventBufQ' = eventBufQ \o << >>
    BY <2>2 DEF Queue
  <2>4. eventBufQ' = eventBufQ
    BY <1>1, <2>3
  <2>5. EventInv'
    BY <2>1, <2>4, EventSame DEF eventVars
  <2> QED BY <1>1, <1>2, <2>1, <2>4, <2>5
<1>5. ASSUME NEW l \in EvtLens, evs = <<l>>
      PROVE  /\ EventInv'
             /\ queued' \in Seq(EvtLens) /\ eventBufQ' \in Seq(R)
  <2> DEFINE q == Len(queued)
             b == Len(eventBufQ)
             r == [n |-> q + 1, len |-> l]
  <2>1. queued' = Append(queued, l)
    BY <1>1, <1>5 DEF Queue
  <2>2. queued' \in Seq(EvtLens) /\ Len(queued') = q + 1 /\ queued'[q + 1] = l
        /\ \A n \in 1..q : queued'[n] = queued[n]
    BY <1>1, <1>5, <2>1
  <2>3. [i \in DOMAIN evs |-> [n |-> Len(queued'), len |-> evs[i]]] = <<r>>
    <3>1. DOMAIN evs = 1..1 /\ evs[1] = l
      BY <1>5
    <3>2. \A i \in 1..1 : [n |-> Len(queued'), len |-> evs[i]] = r
      BY <2>2, <3>1
    <3> HIDE DEF r
    <3> QED BY <3>1, <3>2
  <2>4. r \in R /\ l \in Nat
    BY <1>3, Sizes
  <2> HIDE DEF r, R
  <2>5. eventBufQ' = Append(eventBufQ, r)
    <3>1. eventBufQ' = eventBufQ \o <<r>>
      BY <2>3 DEF Queue
    <3> QED BY <1>1, <2>4, <3>1
  <2>6. eventBufQ' \in Seq(R) /\ Len(eventBufQ') = b + 1 /\ eventBufQ'[b + 1] = r
        /\ \A i \in 1..b : eventBufQ'[i] = eventBufQ[i]
    BY <1>1, <2>4, <2>5
  <2> HIDE DEF q, b
  <2>7. q \in Nat /\ b \in Nat /\ Taken + b = q /\ Taken \in Nat
    BY <1>3 DEF q, b
  <2>8. Taken' = Taken
    <3>1. Taken' = (q + 1) - (b + 1)
      BY <2>2, <2>6 DEF Taken
    <3> QED BY <2>7, <3>1
  <2>9. EventQueue'
    <3>1. ASSUME NEW i \in 1..(b + 1)
          PROVE  eventBufQ'[i] = [n |-> Taken + i, len |-> queued'[Taken + i]]
      <4>1. CASE i \in 1..b
        <5>1. eventBufQ[i] = [n |-> Taken + i, len |-> queued[Taken + i]]
          BY <1>3, <4>1 DEF EventQueue, b
        <5>2. Taken + i \in 1..q
          BY <2>7, <4>1
        <5> QED BY <2>2, <2>6, <4>1, <5>1, <5>2 DEF q
      <4>2. CASE i = b + 1
        <5>1. Taken + i = q + 1
          BY <2>7, <4>2
        <5> QED BY <2>2, <2>6, <4>2, <5>1 DEF r
      <4> QED BY <2>7, <4>1, <4>2
    <3>2. b + 1 <= q + 1
      BY <2>7
    <3> QED BY <2>2, <2>6, <2>8, <3>1, <3>2 DEF EventQueue
  <2>10. HalfSent' /\ (torn \/ (Delivery /\ ReceivedWhole))'
    <3>1. q <= q + 1 /\ q + 1 \in Nat
      BY <2>7
    <3> QED BY <2>2, <2>8, <3>1, EventGrow DEF q
  <2> QED BY <2>2, <2>6, <2>9, <2>10 DEF EventInv
<1> QED BY <1>2, <1>4, <1>5

(* One more transfer: one more event, or none if it is a wrong endpoint's. *)
LEMMA OneMore ==
    ASSUME TypeOK, NEW d, received' = Append(received, d), d \in Seq(Packets)
    PROVE  /\ received' \in Seq(Seq(Packets)) /\ Len(received) \in Nat
           /\ DOMAIN received = 1..Len(received)
           /\ DOMAIN received' = 1..(Len(received) + 1)
           /\ Len(received') = Len(received) + 1
           /\ received'[Len(received) + 1] = d
           /\ \A i \in 1..Len(received) : received'[i] = received[i] /\ EventsUpTo(i)' = EventsUpTo(i)
           /\ d = <<WrongEpid>> => EventsOf(received', Len(received) + 1) = EventsUpTo(Len(received))
           /\ d # <<WrongEpid>> => Cardinality(EventsOf(received', Len(received) + 1))
                                    = Cardinality(EventsUpTo(Len(received))) + 1
<1> DEFINE k == Len(received)
           w == <<WrongEpid>>
           U == {j \in 1..k : received[j] # w}
           V == {j \in 1..(k + 1) : received'[j] # w}
<1>1. received \in Seq(Seq(Packets)) /\ k \in Nat
  BY DEF TypeOK
<1> HIDE DEF w
<1>2. received' \in Seq(Seq(Packets)) /\ Len(received') = k + 1 /\ received'[k + 1] = d
      /\ DOMAIN received = 1..k /\ DOMAIN received' = 1..(k + 1)
      /\ \A i \in 1..k : received'[i] = received[i]
  BY <1>1
<1> HIDE DEF k
<1>3. ASSUME NEW i \in 1..k
      PROVE  EventsUpTo(i)' = EventsUpTo(i)
  <2>1. \A j \in 1..i : received'[j] = received[j]
    BY <1>1, <1>2
  <2> QED BY <2>1 DEF EventsUpTo, EventsOf
<1>4. EventsUpTo(k) = U /\ EventsOf(received', k + 1) = V
  BY DEF EventsUpTo, EventsOf, w, k
<1>5. \A j \in 1..(k + 1) : j \in 1..k \/ j = k + 1
  BY <1>1
<1>6. d = w => V = U
  BY <1>1, <1>2, <1>5
<1>7. d # w => V = U \cup {k + 1}
  BY <1>1, <1>2, <1>5
<1>8. IsFiniteSet(U) /\ k + 1 \notin U
  <2>1. IsFiniteSet(1..k)
    BY <1>1, FS_Interval
  <2>2. U \in SUBSET (1..k)
    OBVIOUS
  <2>3. IsFiniteSet(U)
    BY <2>1, <2>2, FS_Subset
  <2> QED BY <1>1, <2>3
<1> HIDE DEF U, V
<1>9. d # w => Cardinality(V) = Cardinality(U) + 1
  BY <1>7, <1>8, FS_AddElement
<1> QED BY <1>1, <1>2, <1>3, <1>4, <1>6, <1>9 DEF k, w

(* The transfers of the host stay whole when it receives one that is.      *)
LEMMA ReceivedOneMore ==
    ASSUME TypeOK, ReceivedWhole, NEW d \in Seq(Packets), received' = Append(received, d),
           queued' = queued,
           \/ d = <<WrongEpid>>
           \/ LET c == Cardinality(EventsUpTo(Len(received))) + 1
              IN  c \in 1..Len(queued) /\ d # <<WrongEpid>> /\ d = Message(c, queued[c])
    PROVE  ReceivedWhole'
<1> DEFINE k == Len(received)
           w == <<WrongEpid>>
<1>1. /\ k \in Nat /\ DOMAIN received = 1..k /\ DOMAIN received' = 1..(k + 1) /\ received'[k + 1] = d
      /\ \A i \in 1..k : received'[i] = received[i] /\ EventsUpTo(i)' = EventsUpTo(i)
      /\ d # w => Cardinality(EventsOf(received', k + 1)) = Cardinality(EventsUpTo(k)) + 1
  BY OneMore
<1> HIDE DEF k, w
<1>2. ASSUME NEW i \in DOMAIN received'
      PROVE  \/ received'[i] = w
             \/ /\ Cardinality(EventsOf(received', i)) \in 1..Len(queued)
                /\ received'[i] = Message(Cardinality(EventsOf(received', i)),
                                          queued[Cardinality(EventsOf(received', i))])
  <2>1. CASE i \in 1..k
    <3>1. EventsOf(received', i) = EventsUpTo(i)
      BY <1>1, <2>1 DEF EventsUpTo
    <3> QED BY <1>1, <2>1, <3>1 DEF ReceivedWhole, w
  <2>2. CASE i = k + 1
    BY <1>1, <2>2 DEF w, k
  <2>3. i \in 1..k \/ i = k + 1
    BY <1>1
  <2> QED BY <2>1, <2>2, <2>3
<1> QED BY <1>2 DEF ReceivedWhole, EventsUpTo, w

(* The host's reading keeps the types.                                     *)
LEMMA HostReadType ==
    ASSUME TypeOK, HostRead
    PROVE  TypeOK'
<1>1. /\ ep3' = << >>
      /\ UNCHANGED <<up, setup, cmdQueue, out, ep4, passed, eventBufQ, in, ep3Int, hostOut, sent,
                     queued, silenced, torn>>
  BY DEF HostRead, outVars
<1>2. hostIn \in Seq(Packets) /\ ep3 \in Seq(Packets) /\ received \in Seq(Seq(Packets))
  BY DEF TypeOK
<1>3. hostIn \o ep3 \in Seq(Packets)
  BY <1>2
<1> DEFINE x == hostIn \o ep3
<1> HIDE DEF x
<1>4. Append(received, x) \in Seq(Seq(Packets))
  BY <1>2, <1>3 DEF x
<1>5. /\ received' = Append(received, x) \/ received' = received
      /\ hostIn' = << >> \/ hostIn' = x
  BY DEF HostRead, x
<1>6. hostIn' \in Seq(Packets) /\ received' \in Seq(Seq(Packets)) /\ ep3' \in Seq(Packets)
  <2>1. x \in Seq(Packets) /\ << >> \in Seq(Packets)
    BY <1>3 DEF x
  <2> QED BY <1>1, <1>2, <1>4, <1>5, <2>1, Zenon
<1> QED BY <1>1, <1>6 DEF TypeOK

(* The host reads the packet in the FIFO of endpoint 3.                    *)
LEMMA HostReadKeeps ==
    ASSUME TypeOK, EventInv, HostRead
    PROVE  EventInv'
<1>1. /\ ep3 # << >> /\ ep3' = << >> /\ UNCHANGED <<eventBufQ, in, queued, torn>>
  BY DEF HostRead
<1>2. EventQueue' /\ HalfSent' /\ Taken' = Taken
  BY <1>1 DEF EventInv, EventQueue, HalfSent, Taken
<1>3. hostIn \in Seq(Packets) /\ ep3 \in Seq(Packets) /\ ep3[1] \in Packets /\ Len(ep3) >= 1
      /\ Len(ep3) \in Nat
  <2>1. hostIn \in Seq(Packets) /\ ep3 \in Seq(Packets)
    BY DEF TypeOK
  <2> QED BY <1>1, <2>1, HeadTail
<1>4. SUFFICES ASSUME ~torn
               PROVE  Delivery' /\ ReceivedWhole'
  BY <1>1, <1>2 DEF EventInv
<1>5. ReceivedWhole /\ (AtRest \/ OnItsWay) /\ EventQueue /\ HalfSent
  BY <1>4 DEF EventInv, Delivery
<1>6. CASE AtRest
  <2> DEFINE d == <<WrongEpid>>
  <2>1. in.new /\ hostIn = << >> /\ ep3 = d /\ Cardinality(EventsUpTo(Len(received))) = Taken
    BY <1>1, <1>6 DEF AtRest
  <2>2. TotalLen(ep3) < MaxPkt
    <3>1. WrongEpid.len = 1
      BY DEF WrongEpid
    <3>2. TotalLen(d) = WrongEpid.len
      BY <3>1, TotalOfOne
    <3> QED BY <2>1, <3>1, <3>2, Sizes
  <2>3. hostIn \o ep3 = ep3
    BY <1>3, <2>1
  <2>4. received' = Append(received, d) /\ hostIn' = << >>
    BY <2>1, <2>2, <2>3 DEF HostRead
  <2>5. d \in Seq(Packets)
    BY <1>3, <2>1
  <2>6. ReceivedWhole'
    BY <1>1, <1>5, <2>4, <2>5, ReceivedOneMore
  <2>7. EventsOf(received', Len(received) + 1) = EventsUpTo(Len(received)) /\ Len(received') = Len(received) + 1
    BY <2>4, <2>5, OneMore
  <2>8. Cardinality(EventsOf(received', Len(received'))) = Taken
    BY <2>1, <2>7
  <2>9. AtRest'
    BY <1>1, <1>2, <2>1, <2>4, <2>8 DEF AtRest, EventsUpTo
  <2> QED BY <2>6, <2>9 DEF Delivery
<1>7. CASE OnItsWay
  <2> DEFINE n == Taken
             l == queued[n]
             N == NumPackets(l)
             h == Len(hostIn)
             p == ep3[1]
             c == Cardinality(EventsUpTo(Len(received)))
  <2>1. /\ n > 0 /\ c = n - 1 /\ Len(ep3) <= 1 /\ h + Len(ep3) <= N
        /\ \A i \in 1..h : hostIn[i] = Packet(n, l, i)
        /\ p = Packet(n, l, h + Len(ep3))
        /\ in.new => h + Len(ep3) = N
        /\ ~in.new => h + Len(ep3) = N - NumPackets(in.len)
    BY <1>1, <1>7 DEF OnItsWay
  <2>2. h \in Nat /\ n \in Nat /\ n \in 1..Len(queued) /\ l \in Nat /\ N \in Nat /\ N >= 1
    <3>1. n \in Nat /\ n \in 1..Len(queued) /\ h \in Nat
      BY <1>3, <1>5, <2>1, EventLens
    <3> QED BY <1>5, <3>1, EventLens
  <2>3. Len(ep3) = 1
    <3> DEFINE z == Len(ep3)
    <3>1. z \in Nat /\ z <= 1 /\ z >= 1
      BY <1>3, <2>1
    <3> HIDE DEF z
    <3>2. z = 1
      BY <3>1
    <3> QED BY <3>2 DEF z
  <2>4. ep3 = <<p>>
    BY <1>3, <2>3
  <2>5. /\ h + 1 <= N /\ p = Packet(n, l, h + 1)
        /\ in.new => h + 1 = N
        /\ ~in.new => h + 1 = N - NumPackets(in.len)
    BY <2>1, <2>3
  <2>6. TotalLen(ep3) = p.len /\ p.len \in Nat
    <3>1. p.len \in Nat
      BY <1>3 DEF Packets
    <3> QED BY <2>4, <3>1, TotalOfOne
  <2>7. hostIn \o ep3 = Append(hostIn, p)
    <3>1. hostIn \o <<p>> = Append(hostIn, p)
      BY <1>3, ConcatOne
    <3> QED BY <2>4, <3>1, Zenon
  <2> DEFINE d == Append(hostIn, p)
  <2>8. d \in Seq(Packets) /\ Len(d) = h + 1 /\ (\A i \in 1..(h + 1) : d[i] = Packet(n, l, i))
    <3>1. d \in Seq(Packets) /\ Len(d) = h + 1 /\ d[h + 1] = p /\ \A i \in 1..h : d[i] = hostIn[i]
      BY <1>3
    <3> HIDE DEF h, d
    <3>2. \A i \in 1..(h + 1) : i = h + 1 \/ i \in 1..h
      BY <2>2
    <3> QED BY <2>1, <2>5, <3>1, <3>2
  <2> HIDE DEF d, h, N, l, n, c, p
  <2>9. p.len < MaxPkt <=> h + 1 = N
    <3>1. h + 1 \in 1..N
      BY <2>2, <2>5
    <3> QED BY <2>2, <2>5, <3>1, PacketFacts, SMTT(60) DEF N
  <2>10. CASE h + 1 = N
    <3>1. received' = Append(received, d) /\ hostIn' = << >>
      BY <2>6, <2>7, <2>9, <2>10 DEF HostRead, d
    <3>2. d = Message(n, l)
      BY <2>2, <2>8, <2>10, WholeMessage DEF N
    <3>3. d # <<WrongEpid>>
      <4>1. d[1] = Packet(n, l, 1)
        BY <2>2, <2>8
      <4>2. d[1].of = n
        BY <4>1 DEF Packet
      <4>3. <<WrongEpid>>[1].of = 0
        BY DEF WrongEpid
      <4> QED BY <2>1, <2>2, <4>2, <4>3
    <3>4. c + 1 = n
      BY <2>1, <2>2
    <3>5. ReceivedWhole'
      BY <1>1, <1>5, <2>2, <2>8, <3>1, <3>2, <3>3, <3>4, ReceivedOneMore DEF c, l
    <3>6. Cardinality(EventsOf(received', Len(received) + 1)) = c + 1 /\ Len(received') = Len(received) + 1
      BY <2>8, <3>1, <3>3, OneMore DEF c
    <3>7. in.new
      <4>1. HalfSent /\ ~in.new => NumPackets(in.len) \in Nat /\ NumPackets(in.len) >= 1
        BY PacketFacts DEF TypeOK
      <4> QED BY <1>5, <2>2, <2>5, <2>10, <4>1
    <3>8. Cardinality(EventsOf(received', Len(received'))) = Taken
      BY <3>4, <3>6 DEF n
    <3>9. AtRest'
      BY <1>1, <1>2, <3>1, <3>7, <3>8 DEF AtRest, EventsUpTo
    <3> QED BY <3>5, <3>9 DEF Delivery
  <2>11. CASE h + 1 # N
    <3>1. ~(p.len < MaxPkt)
      BY <2>9, <2>11
    <3>2. received' = received /\ hostIn' = d
      BY <2>6, <2>7, <3>1 DEF HostRead, d
    <3>3. ~in.new
      BY <2>5, <2>11
    <3>4. ReceivedWhole'
      BY <1>1, <1>5, <3>2 DEF ReceivedWhole, EventsUpTo
    <3>5. Len(hostIn') = h + 1 /\ Len(ep3') = 0 /\ h + 1 + 0 = h + 1
      BY <1>1, <2>2, <2>8, <3>2
    <3>6. c' = n - 1
      BY <2>1, <3>2 DEF c, EventsUpTo
    <3>7. OnItsWay'
      BY <1>1, <1>2, <2>1, <2>2, <2>5, <2>8, <3>2, <3>3, <3>5, <3>6 DEF OnItsWay, n, l, N, c
    <3> QED BY <3>4, <3>7 DEF Delivery
  <2> QED BY <2>10, <2>11
<1> QED BY <1>5, <1>6, <1>7

(* usb_status_in_patch sends the next packet of the event that is on its   *)
(* way: the first of the queue when none is.                               *)
PacketIn(e) == [of |-> e.of, at |-> Sent(e) + 1, len |-> IF e.len > MaxPkt THEN MaxPkt ELSE e.len]

InType == [new : BOOLEAN, len : Nat, of : Nat]

(* e is what is left of the n-th event.                                    *)
LeftOf(e, n) ==
    /\ e \in InType /\ e.new = FALSE /\ e.of = n /\ e.len > 0
    /\ e.len % MaxPkt # 0 /\ e.len % MaxPkt = queued[n] % MaxPkt
    /\ NumPackets(e.len) <= NumPackets(queued[n])

(* The next packet of the event being sent, and what is left of the event  *)
(* after it.                                                               *)
LEMMA PacketInFacts ==
    ASSUME NEW e, NEW n \in Nat, LeftOf(e, n), queued[n] \in Nat, queued[n] % MaxPkt # 0
    PROVE  /\ NumPackets(e.len) \in Nat /\ NumPackets(e.len) >= 1
           /\ NumPackets(queued[n]) \in Nat /\ Sent(e) \in Nat
           /\ Sent(e) = NumPackets(queued[n]) - NumPackets(e.len)
           /\ PacketIn(e) = Packet(n, queued[n], Sent(e) + 1) /\ PacketIn(e) \in Packets
           /\ AfterPacket(e) \in InType
           /\ AfterPacket(e).new = TRUE => NumPackets(e.len) = 1
           /\ AfterPacket(e).new = FALSE =>
                 /\ LeftOf(AfterPacket(e), n)
                 /\ NumPackets(AfterPacket(e).len) = NumPackets(e.len) - 1
<1> DEFINE l == e.len
           k == NumPackets(l)
           q == queued[n]
           N == NumPackets(q)
<1>1. /\ e \in InType /\ e.new = FALSE /\ e.of = n /\ l \in Nat /\ l > 0 /\ l % MaxPkt # 0
      /\ l % MaxPkt = q % MaxPkt /\ k <= N
  BY DEF LeftOf, InType
<1>2. k \in Nat /\ k >= 1 /\ N \in Nat
  BY <1>1, PacketFacts
<1>3. Sent(e) = N - k /\ Sent(e) \in Nat
  <2>1. Sent(e) = N - k
    BY <1>1 DEF Sent
  <2> HIDE DEF N, k
  <2> QED BY <1>1, <1>2, <2>1
<1>4. /\ l > MaxPkt <=> k > 1
      /\ ~(l > MaxPkt) => l % MaxPkt = l /\ k = 1
      /\ l > MaxPkt => /\ l - MaxPkt \in Nat /\ l - MaxPkt > 0
                       /\ (l - MaxPkt) % MaxPkt = l % MaxPkt
                       /\ NumPackets(l - MaxPkt) = k - 1
  BY <1>1, NextPacket
<1>5. PacketLen(q, Sent(e) + 1) = IF l > MaxPkt THEN MaxPkt ELSE l
  <2>1. PacketLen(q, Sent(e) + 1) = IF (N - k) + 1 < N THEN MaxPkt ELSE l % MaxPkt
    BY <1>1, <1>3 DEF PacketLen
  <2> HIDE DEF N, k, l
  <2>2. (N - k) + 1 < N <=> k > 1
    BY <1>2
  <2> QED BY <1>4, <2>1, <2>2
<1>6. PacketIn(e) = Packet(n, q, Sent(e) + 1) /\ PacketIn(e) \in Packets
  <2>1. PacketIn(e) = Packet(n, q, Sent(e) + 1)
    BY <1>1, <1>5 DEF PacketIn, Packet
  <2>2. (IF l > MaxPkt THEN MaxPkt ELSE l) \in Nat
    BY <1>1, Sizes
  <2>3. PacketIn(e) \in Packets
    BY <1>1, <1>3, <2>2 DEF PacketIn, Packets
  <2> QED BY <2>1, <2>3
<1>7. CASE l > MaxPkt
  <2> DEFINE a == [e EXCEPT !.len = @ - MaxPkt]
  <2>1. AfterPacket(e) = a
    BY <1>7 DEF AfterPacket
  <2>2. a \in InType /\ a.new = FALSE /\ a.of = n /\ a.len = l - MaxPkt
    BY <1>1, <1>4, <1>7 DEF InType
  <2> HIDE DEF a
  <2>3. k - 1 <= N
    <3> HIDE DEF k, N
    <3> QED BY <1>1, <1>2
  <2>4. LeftOf(a, n)
    BY <1>1, <1>4, <1>7, <2>2, <2>3 DEF LeftOf
  <2> QED BY <1>2, <1>3, <1>4, <1>6, <1>7, <2>1, <2>2, <2>4
<1>8. CASE ~(l > MaxPkt)
  <2> DEFINE a == [e EXCEPT !.new = TRUE]
  <2>1. AfterPacket(e) = a
    BY <1>8 DEF AfterPacket
  <2>2. a \in InType /\ a.new = TRUE
    BY <1>1 DEF InType
  <2> HIDE DEF a
  <2> QED BY <1>2, <1>3, <1>4, <1>6, <1>8, <2>1, <2>2
<1> QED BY <1>7, <1>8

(* The event it works on is the n-th, which is then the last one taken.    *)
LEMMA CurrentFacts ==
    ASSUME TypeOK, EventInv, StatusIn
    PROVE  /\ Taken' \in 1..Len(queued) /\ queued' = queued
           /\ queued[Taken'] \in Nat /\ queued[Taken'] % MaxPkt # 0
           /\ LeftOf(Current, Taken')
           /\ EventQueue'
           /\ eventBufQ' \in Seq([n : Nat, len : Nat])
           /\ in.new => Current.len = queued[Taken'] /\ Taken' = Taken + 1
           /\ ~in.new => Current = in /\ Taken' = Taken
<1> DEFINE R == [n : Nat, len : Nat]
           q == Len(queued)
           b == Len(eventBufQ)
<1>1. queued' = queued /\ eventBufQ' = (IF in.new THEN Tail(eventBufQ) ELSE eventBufQ)
      /\ (~in.new \/ eventBufQ # << >>)
  BY DEF StatusIn
<1>2. eventBufQ \in Seq(R) /\ in \in InType
  BY DEF TypeOK, InType
<1>3. EventQueue /\ HalfSent
  BY DEF EventInv
<1>4. q \in Nat /\ b \in Nat /\ Taken \in Nat /\ Taken <= q /\ Taken + b = q
      /\ \A n \in 1..q : queued[n] \in Nat /\ queued[n] % MaxPkt # 0
                          /\ NumPackets(queued[n]) \in Nat
  BY <1>3, EventLens
<1>5. CASE ~in.new
  <2>1. eventBufQ' = eventBufQ /\ Current = in
    BY <1>1, <1>5 DEF Current
  <2>2. Taken' = Taken /\ EventQueue'
    BY <1>1, <1>3, <2>1 DEF Taken, EventQueue
  <2>3. Taken > 0 /\ in.of = Taken /\ in.len > 0 /\ in.len % MaxPkt # 0
        /\ in.len % MaxPkt = queued[Taken] % MaxPkt /\ NumPackets(in.len) < NumPackets(queued[Taken])
    BY <1>3, <1>5 DEF HalfSent
  <2>4. Taken \in 1..q
    BY <1>4, <2>3
  <2>5. NumPackets(in.len) <= NumPackets(queued[Taken])
    <3>1. NumPackets(in.len) \in Nat
      BY <1>2, PacketFacts DEF InType
    <3> QED BY <1>4, <2>3, <2>4, <3>1
  <2>6. in.new = FALSE
    BY <1>2, <1>5 DEF InType
  <2>7. LeftOf(in, Taken)
    BY <1>2, <2>3, <2>5, <2>6 DEF LeftOf
  <2> QED BY <1>1, <1>2, <1>4, <1>5, <2>1, <2>2, <2>4, <2>7
<1>6. CASE in.new
  <2>1. eventBufQ' = Tail(eventBufQ) /\ eventBufQ # << >>
        /\ Current = [new |-> FALSE, len |-> Head(eventBufQ).len, of |-> Head(eventBufQ).n]
    BY <1>1, <1>6 DEF Current
  <2> HIDE DEF R
  <2>2. /\ b >= 1 /\ Head(eventBufQ) = eventBufQ[1] /\ Tail(eventBufQ) \in Seq(R)
        /\ Len(Tail(eventBufQ)) = b - 1
        /\ \A i \in 1..(b - 1) : Tail(eventBufQ)[i] = eventBufQ[i + 1]
    <3>1. eventBufQ \in Seq(R) /\ eventBufQ # << >>
      BY <1>2, <2>1
    <3> QED BY <3>1, HeadTail, Zenon
  <2>3. \A i \in 1..b : eventBufQ[i] = [n |-> Taken + i, len |-> queued[Taken + i]]
    BY <1>3 DEF EventQueue
  <2>4. Taken' = q - (b - 1)
    <3>1. Taken' = Len(queued') - Len(eventBufQ')
      BY DEF Taken
    <3>2. Len(eventBufQ') = b - 1 /\ Len(queued') = q
      BY <1>1, <2>1, <2>2, Zenon
    <3> QED BY <3>1, <3>2, Zenon
  <2> HIDE DEF q, b
  <2>5. Taken' = Taken + 1 /\ Taken' \in 1..q /\ 1 \in 1..b
    <3>1. q \in Nat /\ b \in Nat /\ Taken \in Nat /\ Taken + b = q /\ b >= 1
      BY <1>4, <2>2, Zenon
    <3> QED BY <2>4, <3>1
  <2>6. eventBufQ[1] = [n |-> Taken', len |-> queued[Taken']]
    BY <2>3, <2>5
  <2>7. queued[Taken'] \in Nat /\ queued[Taken'] % MaxPkt # 0 /\ NumPackets(queued[Taken']) \in Nat
    BY <1>4, <2>5
  <2>8. Current = [new |-> FALSE, len |-> queued[Taken'], of |-> Taken']
    <3>1. Head(eventBufQ) = [n |-> Taken', len |-> queued[Taken']]
      BY <2>2, <2>6, Zenon
    <3>2. Head(eventBufQ).n = Taken' /\ Head(eventBufQ).len = queued[Taken']
      BY <3>1
    <3> QED BY <2>1, <3>2, Zenon
  <2>9. LeftOf(Current, Taken') /\ Current.len = queued[Taken']
    <3> DEFINE t == Taken'
               m == queued[t]
               c == [new |-> FALSE, len |-> m, of |-> t]
    <3>1. t \in Nat /\ m \in Nat /\ m % MaxPkt # 0 /\ NumPackets(m) \in Nat
      BY <1>4, <2>5, <2>7
    <3>2. m > 0 /\ NumPackets(m) <= NumPackets(m)
      BY <3>1, NextPacket
    <3> HIDE DEF t, m
    <3>3. c \in InType /\ c.new = FALSE /\ c.len = m /\ c.of = t
      BY <3>1 DEF InType
    <3> HIDE DEF c
    <3>4. m = queued[t]
      BY DEF m
    <3>5. LeftOf(c, t)
      BY <3>1, <3>2, <3>3, <3>4 DEF LeftOf
    <3>6. Current = c
      BY <2>8 DEF c, m, t
    <3> QED BY <3>3, <3>5, <3>6 DEF t, m
  <2>10. EventQueue'
    <3>1. ASSUME NEW i \in 1..(b - 1)
          PROVE  Tail(eventBufQ)[i] = [n |-> Taken' + i, len |-> queued[Taken' + i]]
      <4>1. i + 1 \in 1..b /\ Taken + (i + 1) = Taken' + i
        BY <1>4, <2>5
      <4> QED BY <2>2, <2>3, <4>1
    <3>2. b - 1 <= q
      BY <1>4
    <3> QED BY <1>1, <2>1, <2>2, <3>1, <3>2 DEF EventQueue, q
  <2> QED BY <1>1, <1>6, <2>1, <2>2, <2>5, <2>7, <2>9, <2>10 DEF q, R
<1> QED BY <1>5, <1>6

(* vUsb_Status_In writes the next packet of an event.                      *)
LEMMA StatusInKeeps ==
    ASSUME TypeOK, EventInv, StatusIn
    PROVE  TypeOK' /\ EventInv'
<1> DEFINE t == Taken'
           q == queued[t]
           N == NumPackets(q)
           e == Current
           k == NumPackets(e.len)
           p == PacketIn(e)
<1>1. /\ ep3 = << >> /\ ep3' = <<p>> /\ in' = AfterPacket(e)
      /\ UNCHANGED <<up, setup, cmdQueue, out, ep4, passed, ep3Int, hostOut, hostIn, sent, received,
                     queued, silenced, torn>>
  BY DEF StatusIn, PacketIn, outVars, hostVars
<1>2. /\ t \in 1..Len(queued) /\ q \in Nat /\ q % MaxPkt # 0 /\ LeftOf(e, t)
      /\ EventQueue' /\ eventBufQ' \in Seq([n : Nat, len : Nat])
      /\ in.new => e.len = q /\ t = Taken + 1
      /\ ~in.new => e = in /\ t = Taken
  BY CurrentFacts
<1>3. t \in Nat /\ t > 0
  BY <1>2
<1>4. /\ k \in Nat /\ k >= 1 /\ N \in Nat /\ Sent(e) = N - k /\ Sent(e) \in Nat
      /\ p = Packet(t, q, Sent(e) + 1) /\ p \in Packets
      /\ in' \in InType
      /\ in'.new = TRUE => k = 1
      /\ in'.new = FALSE => LeftOf(in', t) /\ NumPackets(in'.len) = k - 1
  BY <1>1, <1>2, <1>3, PacketInFacts
<1>5. ep3' \in Seq(Packets) /\ Len(ep3') = 1 /\ ep3'[1] = p /\ ep3' # << >>
  BY <1>1, <1>4
<1>6. in' \in [new : BOOLEAN, len : Nat, of : Nat]
  BY <1>4 DEF InType
<1>7. TypeOK'
  BY <1>1, <1>2, <1>5, <1>6 DEF TypeOK
<1>8. k <= N
  BY <1>2 DEF LeftOf
<1> HIDE DEF k, N, p, e, q, t
<1>9. ASSUME ~in'.new
      PROVE  LeftOf(in', t) /\ NumPackets(in'.len) = k - 1
  BY <1>4, <1>9 DEF InType
<1>10. HalfSent'
  <2>1. SUFFICES ASSUME ~in'.new
                 PROVE  /\ t > 0 /\ in'.of = t /\ in'.len > 0 /\ in'.len % MaxPkt # 0
                        /\ in'.len % MaxPkt = q % MaxPkt /\ NumPackets(in'.len) < N
    BY <1>1 DEF HalfSent, t, q, N
  <2>2. LeftOf(in', t) /\ NumPackets(in'.len) = k - 1
    BY <1>9, <2>1
  <2>3. NumPackets(in'.len) < N
    BY <1>4, <1>8, <2>2
  <2> QED BY <1>3, <2>2, <2>3 DEF LeftOf, q
<1>11. ASSUME ~torn
       PROVE  Delivery' /\ ReceivedWhole'
  <2>1. ReceivedWhole /\ (AtRest \/ OnItsWay)
    BY <1>11 DEF EventInv, Delivery
  <2>2. ReceivedWhole'
    BY <1>1, <2>1 DEF ReceivedWhole, EventsUpTo
  <2> DEFINE h == Len(hostIn)
             c == Cardinality(EventsUpTo(Len(received)))
  <2>3. /\ c = t - 1 /\ h = N - k /\ hostIn \in Seq(Packets)
        /\ \A i \in 1..h : hostIn[i] = Packet(t, q, i)
    <3>0. hostIn \in Seq(Packets)
      BY DEF TypeOK
    <3>1. CASE in.new
      <4>1. AtRest
        BY <1>1, <2>1, <3>1 DEF OnItsWay
      <4>2. h = 0 /\ c = Taken
        BY <4>1 DEF AtRest
      <4>3. k = N /\ t = Taken + 1
        BY <1>2, <3>1 DEF k, N, e
      <4>4. Taken \in Nat
        BY EventLens DEF EventInv
      <4>5. N - k = 0 /\ c = t - 1
        BY <1>4, <4>2, <4>3, <4>4
      <4> HIDE DEF h, c
      <4>6. \A i \in 1..h : FALSE
        BY <4>2
      <4> QED BY <3>0, <4>2, <4>5, <4>6
    <3>2. CASE ~in.new
      <4>1. e = in /\ t = Taken
        BY <1>2, <3>2
      <4>2. OnItsWay
        BY <2>1, <3>2 DEF AtRest
      <4>3. Len(ep3) = 0 /\ h \in Nat
        BY <1>1, <3>0
      <4>4. /\ c = t - 1 /\ h + Len(ep3) = N - k
            /\ \A i \in 1..h : hostIn[i] = Packet(t, q, i)
        BY <3>2, <4>1, <4>2 DEF OnItsWay, N, k, q
      <4> HIDE DEF h, c
      <4>5. h = N - k
        BY <4>3, <4>4
      <4> QED BY <3>0, <4>4, <4>5
    <3> QED BY <3>1, <3>2
  <2>4. OnItsWay'
    <3> DEFINE g == h + 1
    <3>1. h \in Nat
      BY <2>3
    <3> HIDE DEF h
    <3>2. g = N - k + 1 /\ g <= N /\ g = Sent(e) + 1
      BY <1>4, <2>3, <3>1
    <3>3. in'.new => g = N
      <4>1. in'.new => k = 1
        BY <1>4 DEF InType
      <4> QED BY <1>4, <3>2, <4>1
    <3>4. ~in'.new => g = N - NumPackets(in'.len)
      BY <1>4, <1>9, <3>2
    <3>5. Len(hostIn') + Len(ep3') = g
      BY <1>1, <1>5 DEF h
    <3>6. ep3'[1] = Packet(t, q, g)
      BY <1>4, <1>5, <3>2
    <3>7. Cardinality(EventsUpTo(Len(received)))' = t - 1
      BY <1>1, <2>3 DEF EventsUpTo
    <3>8. \A i \in 1..Len(hostIn') : hostIn'[i] = Packet(t, q, i)
      BY <1>1, <2>3 DEF h
    <3>9. Len(ep3') <= 1
      BY <1>5
    <3> HIDE DEF g
    <3> QED BY <1>1, <1>3, <1>5, <3>2, <3>3, <3>4, <3>5, <3>6, <3>7, <3>8, <3>9 DEF OnItsWay, t, q, N
  <2> QED BY <2>2, <2>4 DEF Delivery
<1> QED BY <1>1, <1>2, <1>7, <1>10, <1>11 DEF EventInv
----------------------------------------------------------------------------
(* usb_reg_out_patch as one of its ends, and what it does to events.       *)
regOutFrame == <<up, setup, eventBufQ, ep3, ep3Int, queued, silenced, torn>>
LEMMA RegOutEnds ==
    ASSUME TypeOK, CommandInv, RegOut
    PROVE  /\ EmptiesEp4 /\ ep4[1] \in Packets
           /\ UNCHANGED <<in, hostIn, received>>
           /\ \/ /\ UNCHANGED <<setup, cmdQueue, out, passed, eventBufQ, ep3, ep3Int, queued,
                                silenced, torn>>
                 /\ up' = FALSE /\ out.new /\ FirstBuf \in {NoBuf, Wild}
              \/ /\ ~TakesWild
                 /\ Dropped(ep4[1]) \/ Kept(ep4[1])
                 /\ UNCHANGED regOutFrame
              \/ ~TakesWild /\ PassedUp(ep4[1]) /\ \E c : RecvCommand(c)
<1> DEFINE p == ep4[1]
<1>1. ep4 # << >> /\ ep4' = << >> /\ UNCHANGED <<in, hostIn, received, sent, hostOut>>
  BY DEF RegOut, hostVars
<1>2. EmptiesEp4
  BY <1>1 DEF EmptiesEp4
<1>3. p \in Packets /\ Head(ep4) = p
  BY <1>1, Advance DEF CommandInv
<1>4. RegOutWild \/ (~TakesWild /\ (RegOutDrop(p) \/ RegOutKeep(p) \/ RegOutPass(p)))
  BY <1>3, Zenon DEF RegOut, TakesWild
<1>5. CASE RegOutWild
  BY <1>1, <1>2, <1>3, <1>5 DEF RegOutWild
<1>6. CASE ~TakesWild /\ RegOutDrop(p)
  <2>1. Dropped(p) /\ UNCHANGED regOutFrame
    BY <1>6 DEF RegOutDrop, Dropped, regOutFrame
  <2> QED BY <1>1, <1>2, <1>3, <1>6, <2>1, Zenon
<1>7. CASE ~TakesWild /\ RegOutKeep(p)
  <2>1. Kept(p) /\ UNCHANGED regOutFrame
    BY <1>7 DEF RegOutKeep, Kept, regOutFrame
  <2> QED BY <1>1, <1>2, <1>3, <1>7, <2>1, Zenon
<1>8. CASE ~TakesWild /\ RegOutPass(p)
  <2> DEFINE o == WithPacket(p)
             c == [kind |-> sent[Head(o.data).of].kind, len |-> o.len]
  <2>1. /\ ~Drops(p) /\ IsLast(p) /\ RecvCommand(c)
        /\ passed' = Append(passed, [data |-> o.data, len |-> o.len, wrapped |-> o.wrapped])
        /\ \E q \in QueueBegun : cmdQueue' = Returned(q, c, o.buf)
        /\ out' = [o EXCEPT !.new = TRUE]
    BY <1>8, Zenon DEF RegOutPass
  <2>2. \E q \in QueueBegun : cmdQueue' = q \/ cmdQueue' = <<o.buf>> \o q
    <3> HIDE DEF o, c
    <3> QED BY <2>1 DEF Returned
  <2>3. PassedUp(p) /\ \E x : RecvCommand(x)
    BY <2>1, <2>2, Zenon DEF PassedUp, Anew
  <2> QED BY <1>1, <1>2, <1>3, <1>8, <2>3, Zenon
<1> QED BY <1>4, <1>5, <1>6, <1>7, <1>8

(* vUsb_Reg_Out reads the packet in the FIFO of endpoint 4.                *)
LEMMA RegOutKeeps ==
    ASSUME TypeOK, CommandInv, EventInv, RegOut
    PROVE  TypeOK' /\ CommandInv' /\ EventInv'
<1> DEFINE p == ep4[1]
<1>1. EmptiesEp4 /\ p \in Packets /\ UNCHANGED <<in, hostIn, received>>
  BY RegOutEnds
<1>2. HostSending' /\ InEp4' /\ ep4' \in Seq(Packets)
      /\ UNCHANGED <<hostOut, sent, in, hostIn, received>>
  <2>1. ep4' = << >> /\ Len(ep4') = 0 /\ hostOut' = hostOut /\ sent' = sent
    BY <1>1 DEF EmptiesEp4
  <2>2. HostSending'
    BY <2>1 DEF CommandInv, HostSending, PacketsOf
  <2>3. InEp4'
    BY <2>1 DEF InEp4
  <2> QED BY <1>1, <2>1, <2>2, <2>3
<1>3. OutOK' /\ Receiving' /\ PassedWhole'
  <2>1. CASE UNCHANGED <<setup, cmdQueue, out, passed, eventBufQ, ep3, ep3Int, queued, silenced, torn>>
             /\ out.new /\ FirstBuf \in {NoBuf, Wild}
    <3>1. out' = out /\ cmdQueue' = cmdQueue /\ passed' = passed /\ sent' = sent /\ FirstBuf' = FirstBuf
      BY <1>2, <2>1 DEF FirstBuf
    <3>2. OutOK'
      BY <3>1 DEF TypeOK, OutOK
    <3>3. Receiving'
      <4>1. \A i \in DOMAIN passed' : passed'[i].data[1].of < NextOf'
        BY <1>1, <3>1, NextLater
      <4> QED BY <2>1, <3>1, <4>1 DEF Receiving
    <3> QED BY <3>1, <3>2, <3>3, PassedSame DEF CommandInv
  <2>2. CASE ~TakesWild /\ (Dropped(p) \/ Kept(p) \/ PassedUp(p))
    BY <1>1, <2>2, DroppedKeeps, KeptKeeps, PassedUpKeeps
  <2> QED BY <2>1, <2>2, RegOutEnds
<1>4. CommandInv'
  BY <1>2, <1>3 DEF CommandInv
<1> DEFINE ok == /\ up' \in BOOLEAN /\ setup' \in BOOLEAN /\ ep3' \in Seq(Packets)
                 /\ eventBufQ' \in Seq([n : Nat, len : Nat]) /\ ep3Int' \in BOOLEAN
                 /\ queued' \in Seq(EvtLens) /\ silenced' \in BOOLEAN /\ torn' \in BOOLEAN
<1>5. EventInv' /\ ok
  <2>0. /\ up \in BOOLEAN /\ setup \in BOOLEAN /\ ep3 \in Seq(Packets)
        /\ eventBufQ \in Seq([n : Nat, len : Nat]) /\ ep3Int \in BOOLEAN
        /\ queued \in Seq(EvtLens) /\ silenced \in BOOLEAN /\ torn \in BOOLEAN
    BY DEF TypeOK
  <2>1. CASE UNCHANGED <<setup, eventBufQ, ep3, ep3Int, queued, silenced, torn>>
             /\ up' \in BOOLEAN
    BY <1>1, <2>0, <2>1, EventSame DEF eventVars
  <2>2. ASSUME NEW c, RecvCommand(c)
        PROVE  EventInv' /\ ok
    <3>1. CASE c.kind = "suspend" /\ up' = FALSE
                /\ UNCHANGED <<setup, eventBufQ, ep3Int, ep3, queued, silenced, torn>>
      BY <1>1, <2>0, <3>1, EventSame DEF eventVars
    <3>2. CASE GenWrongEpidEvent /\ UNCHANGED <<up, setup>>
      <4>1. EventInv' /\ ep3' \in Seq(Packets)
        BY <1>1, <3>2, WrongEpidKeeps
      <4>2. ep3Int' \in BOOLEAN /\ torn' \in BOOLEAN /\ silenced' \in BOOLEAN
            /\ eventBufQ' = eventBufQ /\ queued' = queued
        BY <3>2, Zenon DEF GenWrongEpidEvent
      <4> QED BY <2>0, <3>2, <4>1, <4>2
    <3>3. CASE /\ setup' = (setup \/ c.kind = "setup")
               /\ \E evs \in {<< >>} \cup {<<l>> : l \in EvtLens} : Queue(evs)
               /\ UNCHANGED <<up, ep3, torn>>
      <4>0. setup' \in BOOLEAN
        BY <3>3, Zenon
      <4>1. PICK evs \in {<< >>} \cup {<<l>> : l \in EvtLens} : Queue(evs)
        BY <3>3
      <4>2. /\ EventInv' /\ queued' \in Seq(EvtLens) /\ eventBufQ' \in Seq([n : Nat, len : Nat])
            /\ ep3Int' \in BOOLEAN /\ silenced' \in BOOLEAN
        BY <1>1, <3>3, <4>1, QueueKeeps
      <4> QED BY <2>0, <3>3, <4>0, <4>2, Zenon
    <3> QED BY <2>2, <3>1, <3>2, <3>3, Zenon DEF RecvCommand
  <2>3. \/ UNCHANGED <<setup, eventBufQ, ep3, ep3Int, queued, silenced, torn>> /\ up' \in BOOLEAN
        \/ \E c : RecvCommand(c)
    BY <2>0, RegOutEnds DEF regOutFrame
  <2> QED BY <2>1, <2>2, <2>3, Zenon
<1>6. TypeOK'
  BY <1>2, <1>3, <1>5 DEF TypeOK, OutOK, OutType
<1> QED BY <1>4, <1>5, <1>6

(* usb_status_in_patch without an event; an event of the target's own.     *)
LEMMA StatusInNoneKeeps ==
    ASSUME TypeOK, EventInv, StatusInNone
    PROVE  TypeOK' /\ EventInv'
<1>1. ep3Int' = FALSE
      /\ UNCHANGED <<up, setup, cmdQueue, out, ep4, passed, eventBufQ, in, ep3, hostOut, hostIn,
                     sent, received, queued, silenced, torn>>
  BY DEF StatusInNone, outVars, inVars, hostVars
<1> QED BY <1>1, EventSame DEF TypeOK, eventVars

(* A new event is queued behind the others.                                *)
LEMMA SendEventKeeps ==
    ASSUME TypeOK, EventInv, NEW len \in EvtLens, SendEvent(len)
    PROVE  TypeOK' /\ EventInv'
<1>1. Queue(<<len>>)
      /\ UNCHANGED <<up, setup, cmdQueue, out, ep4, passed, in, ep3, hostOut, hostIn,
                     sent, received, torn>>
  BY DEF SendEvent, outVars, inVars, hostVars
<1>2. <<len>> \in {<< >>} \cup {<<l>> : l \in EvtLens}
  OBVIOUS
<1>3. /\ EventInv' /\ queued' \in Seq(EvtLens) /\ eventBufQ' \in Seq([n : Nat, len : Nat])
      /\ ep3Int' \in BOOLEAN /\ silenced' \in BOOLEAN
  BY <1>1, <1>2, QueueKeeps
<1> QED BY <1>1, <1>3 DEF TypeOK
----------------------------------------------------------------------------
(* The FIFOs start empty, with every command buffer free.                  *)
LEMMA InitIInv == Init => IInv
<1> SUFFICES ASSUME Init PROVE IInv
  OBVIOUS
<1> DEFINE e == << >>
<1>1. /\ e \in Seq(Packets) /\ e \in Seq(Commands) /\ e \in Seq(Seq(Packets)) /\ e \in Seq(EvtLens) /\ e \in Seq(PassedType)
      /\ e \in Seq([n : Nat, len : Nat]) /\ Len(e) = 0 /\ DOMAIN e = {}
  OBVIOUS
<1>2. cmdQueue \in Seq(Slots)
  <2>1. cmdQueue = [i \in 1..NumBufs |-> i] /\ NumBufs \in Nat
    BY Sizes DEF Init
  <2>2. \A i \in 1..NumBufs : i \in Slots
    BY DEF Slots
  <2> QED BY <2>1, <2>2
<1>3. /\ ep4 = e /\ ep3 = e /\ hostOut = e /\ hostIn = e /\ sent = e /\ passed = e /\ queued = e
      /\ received = e /\ eventBufQ = e /\ up = TRUE /\ setup = FALSE /\ ep3Int = FALSE
      /\ silenced = FALSE /\ torn = FALSE
      /\ out = [new |-> TRUE, len |-> 0, buf |-> NoBuf, data |-> e, wrapped |-> FALSE]
      /\ in = [new |-> TRUE, len |-> 0, of |-> 0]
  BY DEF Init
<1>4. HostSending /\ InEp4
  BY <1>1, <1>3 DEF HostSending, InEp4
<1>5. NextOf = 1 /\ NextAt = 1
  BY <1>1, <1>3 DEF NextOf, NextAt
<1> HIDE DEF e
<1>6. out \in OutType /\ out.new = TRUE
  BY <1>1, <1>3, Sizes DEF NoBuf, OutType
<1>7. in \in [new : BOOLEAN, len : Nat, of : Nat] /\ in.new = TRUE
  BY <1>3
<1>8. TypeOK
  BY <1>1, <1>2, <1>3, <1>6, <1>7 DEF TypeOK
<1>9. PassedWhole /\ ReceivedWhole
  BY <1>1, <1>3 DEF PassedWhole, ReceivedWhole
<1>10. Receiving
  BY <1>1, <1>3, <1>5, <1>6 DEF Receiving
<1>11. Taken = 0
  BY <1>1, <1>3 DEF Taken
<1>12. EventQueue /\ HalfSent
  BY <1>1, <1>3, <1>7 DEF EventQueue, HalfSent
<1>13. AtRest
  <2>1. EventsUpTo(0) = {}
    BY DEF EventsUpTo, EventsOf
  <2> QED BY <1>1, <1>3, <1>7, <1>11, <2>1, FS_EmptySet DEF AtRest, e
<1> QED BY <1>4, <1>8, <1>9, <1>10, <1>12, <1>13 DEF IInv, CommandInv, EventInv, Delivery

(* Every step of the host, the interrupt task and WMI keeps the invariant. *)
LEMMA StepIInv == IInv /\ [Next]_vars => IInv'
<1> SUFFICES ASSUME IInv, [Next]_vars
             PROVE  IInv'
  OBVIOUS
<1>0. TypeOK /\ CommandInv /\ EventInv
  BY DEF IInv
<1>1. ASSUME NEW k \in Kinds, NEW l \in CmdLens, HostCommand(k, l)
      PROVE  IInv'
  <2>1. UNCHANGED eventVars
    BY <1>1 DEF HostCommand, eventVars, inVars
  <2> QED BY <1>0, <1>1, <2>1, HostCommandKeeps, EventSame DEF IInv
<1>2. CASE HostPacket
  <2>1. UNCHANGED eventVars
    BY <1>2 DEF HostPacket, eventVars, inVars
  <2> QED BY <1>0, <1>2, <2>1, HostPacketKeeps, EventSame DEF IInv
<1>3. CASE HostRead
  <2>1. UNCHANGED cmdVars
    BY <1>3 DEF HostRead, cmdVars, outVars
  <2> QED BY <1>0, <1>3, <2>1, HostReadType, HostReadKeeps, CommandSame DEF IInv
<1>4. ASSUME NEW l \in EvtLens, SendEvent(l)
      PROVE  IInv'
  <2>1. UNCHANGED cmdVars
    BY <1>4 DEF SendEvent, cmdVars, outVars, hostVars
  <2> QED BY <1>0, <1>4, <2>1, SendEventKeeps, CommandSame DEF IInv
<1>5. CASE RegOut
  BY <1>0, <1>5, RegOutKeeps DEF IInv
<1>6. CASE StatusInNone
  <2>1. UNCHANGED cmdVars
    BY <1>6 DEF StatusInNone, cmdVars, outVars, hostVars
  <2> QED BY <1>0, <1>6, <2>1, StatusInNoneKeeps, CommandSame DEF IInv
<1>7. CASE StatusIn
  <2>1. UNCHANGED cmdVars
    BY <1>7 DEF StatusIn, cmdVars, outVars, hostVars
  <2> QED BY <1>0, <1>7, <2>1, StatusInKeeps, CommandSame DEF IInv
<1>8. CASE UNCHANGED vars
  <2>1. UNCHANGED <<up, setup, cmdQueue, out, ep4, passed, eventBufQ, in, ep3, ep3Int, hostOut, hostIn,
                    sent, received, queued, silenced, torn>>
    BY <1>8 DEF vars, outVars, inVars, hostVars
  <2>2. TypeOK'
    BY <1>0, <2>1 DEF TypeOK
  <2>3. CommandInv' /\ EventInv'
    BY <1>0, <2>1, CommandSame, EventSame DEF cmdVars, eventVars
  <2> QED BY <2>2, <2>3 DEF IInv
<1> QED BY <1>1, <1>2, <1>3, <1>4, <1>5, <1>6, <1>7, <1>8 DEF Next

(* The inductive invariant holds in every state of the two FIFO paths.     *)
THEOREM Invariance == Spec => []IInv
BY InitIInv, StepIInv, PTL DEF Spec

(* usb_reg_out_patch passes up whole commands in their order, however many *)
(* packets they have and whatever was dropped before them.                 *)
THEOREM CommandsWholeAlways == Spec => []CommandsWhole
<1>1. IInv => CommandsWhole
  <2> SUFFICES ASSUME IInv PROVE CommandsWhole
    OBVIOUS
  <2>1. PassedWhole /\ passed \in Seq(PassedType)
    BY DEF IInv, CommandInv, TypeOK
  <2>2. ASSUME NEW i \in DOMAIN passed
        PROVE  Head(passed[i].data) = passed[i].data[1]
    <3>1. passed[i].data \in Seq(Packets) /\ passed[i].data # << >>
      <4>1. passed[i] \in PassedType
        BY <2>1
      <4> QED BY <2>1, <4>1 DEF PassedWhole, PassedOne, PassedType
    <3> QED BY <3>1, HeadTail
  <2> QED BY <2>1, <2>2 DEF CommandsWhole, PassedWhole, PassedOne
<1> QED BY <1>1, Invariance, PTL

(* What the host receives on EP3 is one event of the queue, whole and in   *)
(* order, or a wrong endpoint's, unless zfGenWrongEpidEvent tore one.      *)
THEOREM EventsWholeAlways == Spec => []EventsWhole
<1>1. IInv => EventsWhole
  BY DEF IInv, EventInv, EventsWhole, ReceivedWhole, EventsUpTo, EventsOf
<1> QED BY <1>1, Invariance, PTL
=============================================================================
