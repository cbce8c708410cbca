------------------------------ MODULE Ieee8023 ------------------------------
(***************************************************************************)
(* The 802.3 stack between the Ethernet driver and TCP/IP: ieee8023_net.c, *)
(* ieee8023_mac.c and ieee8023_framer.c, with what gmac-drv.c does to the  *)
(* packet buffer.  All of it runs in the main loop, but a packet is on its *)
(* way for long: tcpip_input() may send packets before it returns, and the *)
(* sent callback of a frame comes in a later poll, after other frames have *)
(* gone through the one packet buffer.                                     *)
(*                                                                         *)
(* The transmit ring and the interrupt are module GmacDriver; here the     *)
(* driver takes a frame or refuses it, and the wire carries frames.  TCP/IP*)
(* is external: it asks for output at any time an outputfunc is set.       *)
(***************************************************************************)
EXTENDS PacketBuf, FiniteSets

CONSTANTS
  Neighbours,  (* link addresses of other stations                         *)
  Groups,      (* multicast link addresses 33:33:...                       *)
  NearGroups,  (* link addresses 33:... that are not 33:33:...             *)
  UipSizes,    (* cells of uip_buf: the configurations considered          *)
  PoolSize,    (* GMAC_DRV_TX_PENDING_MAX_QUEUE_LEN                        *)
  Lengths,     (* bound: cells of the packets TCP/IP sends                 *)
  MaxFrames,   (* bound: packets TCP/IP sends                              *)
  MaxRx        (* bound: frames that arrive                                *)

Self  == "self"                     (* linkaddr6_node_addr                 *)
Other == "other"                    (* a station that is not a neighbour   *)

ASSUME NetAssumption ==
  /\ UipSizes \subseteq 1 .. BufSize
  /\ PoolSize \in Nat \ {0} /\ MaxFrames \in Nat /\ MaxRx \in Nat
  /\ {Null, Self, Other} \cap (Neighbours \cup Groups \cup NearGroups) = {}
  /\ Neighbours \cap (Groups \cup NearGroups) = {} /\ Groups \cap NearGroups = {}

VARIABLES
  uipSize,     (* UIP_CONF_BUFFER_SIZE, in cells                           *)
  packetbuf,   (* the packet buffer                                        *)
  uip,         (* the packet in uip_buf; empty when uip_len is 0           *)
  outputfunc,  (* tcpip_set_outputfunc was given output, not NULL          *)
  tcpip,       (* tcpip_process runs                                       *)
  linkIf,      (* link_if                                                  *)
  thread,      (* where the poll handler is; "input" inside tcpip_input(), *)
               (* "overrun" once uip_buf was written past its end          *)
  ethernet,    (* life of the driver process                               *)
  arrivals,    (* complete frames in the receive ring                      *)
  arrived,     (* how many frames have arrived                             *)
  pending,     (* gmac_drv_tx_pending_list: frames with the stored address *)
  next,        (* the next packet TCP/IP sends                             *)
  carried,     (* frames the wire has carried                              *)
  reported,    (* status the sent callback gave for every packet           *)
  asked,       (* history: packet and destination TCP/IP asked for         *)
  given,       (* history: what the driver was given to transmit           *)
  told         (* history: the receiver the sent callback spoke of         *)

stackVars == <<uip, outputfunc, tcpip, linkIf>>
drvVars   == <<ethernet, arrivals, arrived, pending, carried>>
history   == <<asked, given, told>>
netVars   == <<uipSize, packetbuf, stackVars, thread, drvVars, next, reported, history>>

Frames  == 1 .. MaxFrames
Errors  == {"MAC_TX_ERR", "MAC_TX_ERR_FATAL"}
Targets == Neighbours \cup Groups     (* a group stands for localdest NULL *)

Header(dst, src, proto) == <<"hdr", dst, src, proto>>
Cells(kind, n, len) == [i \in 1 .. len |-> <<kind, n, i>>]

(* What can arrive as the n-th frame: runts, and frames for this node, for *)
(* a group and (the receiver is promiscuous) for others, of any protocol,  *)
(* that fit the buffer (PACKETBUF_SIZE is ETHERNET_MAX_FRAME_LEN).          *)
Stations == {Self, Other} \cup Groups \cup NearGroups
Headers ==
  {Header(dst, src, proto) : dst \in Stations, src \in Neighbours,
                             proto \in {"IPv6", "ARP"}}
Arriving(n, header, len) == <<header>> \o Cells("rx", n, len)
Arrivals(n) ==
  {<<>>} \cup {Arriving(n, header, len) : header \in Headers, len \in 1 .. BufSize - 1}

(* The receiver the upper layers know a destination by.                    *)
Named(dst) == IF dst \in Groups THEN Null ELSE dst

NetInit ==
  /\ uipSize \in UipSizes
  /\ packetbuf = Fresh /\ uip = <<>>
  /\ outputfunc = FALSE /\ tcpip = FALSE /\ linkIf = "NULL"
  /\ thread = "idle" /\ ethernet = "down"
  /\ arrivals = <<>> /\ arrived = 0
  /\ pending = <<>> /\ next = 1 /\ carried = {}
  /\ reported = [f \in Frames |-> "none"]
  /\ asked = [f \in Frames |-> [packet |-> <<>>, to |-> Null]]
  /\ given = [f \in Frames |-> <<>>]
  /\ told  = [f \in Frames |-> "nobody"]

-----------------------------------------------------------------------------
(* Down: output(), send_packet(), create(), gmac_driver_tx().              *)

(* output(): the packet in uip_buf is copied and its addresses are set.    *)
OutputBuf(packet, dst) ==
  [SetDatalen(CopyFrom(packetbuf, packet), Len(packet))
     EXCEPT !.sender = Self, !.receiver = dst, !.proto = "IPv6"]

(* create(): the header from the addresses; then, in any case, a multicast *)
(* receiver is reverted to the null address.                               *)
RevertNot(b) == b
Revert(b) == [b EXCEPT !.receiver = Named(@)]
WriteHeader(b) == HdrAlloc(b, Header(b.receiver, b.sender, b.proto))
CreateReverted(b) == WriteHeader(Revert(b))
Create(b) == Revert(WriteHeader(b))

(* packet_sent() and uip_ds6_link_neighbor_callback(), which asks the      *)
(* packet buffer for the receiver.                                         *)
PacketSent(f, b, status) ==
  /\ reported' = [reported EXCEPT ![f] = status]
  /\ told' = [told EXCEPT ![f] = b.receiver]

FramerFails(b) ==
  /\ ~CanHdrAlloc(b)
  /\ packetbuf' = Revert(b)
  /\ PacketSent(next, Revert(b), "MAC_TX_ERR_FATAL")
  /\ UNCHANGED <<pending, given>>

(* gmac_driver_tx: the element takes the receiver with it ...              *)
DriverTakes(b) ==
  LET c == Create(b) IN
  /\ CanHdrAlloc(b)
  /\ Len(pending) < PoolSize
  /\ packetbuf' = c
  /\ pending' = Append(pending, [frame |-> next, addr |-> c.receiver])
  /\ given' = [given EXCEPT ![next] = Frame(c)]
  /\ UNCHANGED <<reported, told>>

(* ... or there is no block for it, or no descriptor for the frame.        *)
DriverRefuses(b) ==
  LET c == Create(b) IN
  /\ CanHdrAlloc(b)
  /\ packetbuf' = c
  /\ PacketSent(next, c, IF Len(pending) < PoolSize THEN "MAC_TX_ERR" ELSE "MAC_TX_ERR_FATAL")
  /\ UNCHANGED <<pending, given>>

(* TCP/IP has a packet in uip_buf, calls outputfunc and empties uip_buf.   *)
Output ==
  /\ thread \in {"idle", "input"} /\ outputfunc /\ next <= MaxFrames
  /\ \E len \in Lengths \cap 1 .. uipSize, dst \in Targets :
       LET packet == Cells("tx", next, len)
           b == OutputBuf(packet, dst)
       IN /\ asked' = [asked EXCEPT ![next] = [packet |-> packet, to |-> dst]]
          /\ FramerFails(b) \/ DriverTakes(b) \/ DriverRefuses(b)
  /\ next' = next + 1
  /\ uip' = <<>>
  /\ UNCHANGED <<outputfunc, tcpip, linkIf, thread, ethernet, arrivals, arrived, carried>>

-----------------------------------------------------------------------------
(* Up: the receive half of gmac_driver_pollhandler, packet_input(),        *)
(* parse() and input().                                                    *)

PollRx ==
  /\ ethernet = "up" /\ thread = "idle" /\ arrivals # <<>>
  /\ thread' = "rx"
  /\ UNCHANGED <<packetbuf, stackVars, drvVars, next, reported, history>>

(* The header parse() finds at packetbuf_hdrptr().                         *)
HeaderOf(b) == b.mem[b.hdrptr]
Dst(b)   == HeaderOf(b)[2]
Proto(b) == HeaderOf(b)[4]

(* Both tests for 33:33 look at the first byte twice.                      *)
Starts33(dst) == dst \in Groups \cup NearGroups
ForUs(b) == Dst(b) = Self \/ Starts33(Dst(b))
Parsable(b) == b.buflen >= 1 /\ ForUs(b) /\ Proto(b) = "IPv6"

SetSender(b) == [b EXCEPT !.sender = HeaderOf(b)[3]]
SetReceiver(b) == [b EXCEPT !.receiver = IF Starts33(Dst(b)) THEN Null ELSE Self]

(* The buffer as parse() leaves it, at each of its returns.                *)
ParseKeepsHeader(b) == IF Parsable(b) THEN SetReceiver(SetSender(b)) ELSE b
Parse(b) ==
  CASE b.buflen < 1 -> b
    [] b.buflen >= 1 /\ ~ForUs(b) -> SetSender(b)
    [] b.buflen >= 1 /\ ForUs(b) /\ ~Parsable(b) -> SetReceiver(SetSender(b))
    [] Parsable(b) -> HdrReduce(SetReceiver(SetSender(b)))

(* gmac_dev_read into the cleared buffer.                                  *)
ReadBuf(frame) == SetDatalen(Fill(Clear(packetbuf), frame), Len(frame))

(* packet_input() filters on the receiver once more, sets link_if, and     *)
(* input() drops the packet if uip_buf is in use.                          *)
Accepted(b) == Parsable(b) /\ Parse(b).receiver \in {Self, Null} /\ uip = <<>>

Deliver(b) ==
  /\ Accepted(b) /\ Parse(b).buflen <= uipSize
  /\ linkIf' = "8023"
  /\ uip' = Data(Parse(b))
  /\ thread' = "input"

(* input() copies a longer packet all the same, over what lies behind      *)
(* uip_buf.  What the program does from then on is not modelled.           *)
Overrun(b) ==
  /\ Accepted(b) /\ Parse(b).buflen > uipSize
  /\ linkIf' = "8023"
  /\ thread' = "overrun"
  /\ UNCHANGED uip

Discard(b) ==
  /\ ~Parsable(b) \/ uip # <<>>
  /\ UNCHANGED <<linkIf, uip, thread>>

ReadFrame ==
  /\ thread = "rx" /\ arrivals # <<>>
  /\ LET b == ReadBuf(Head(arrivals)) IN
     /\ packetbuf' = Parse(b)
     /\ Deliver(b) \/ Overrun(b) \/ Discard(b)
  /\ arrivals' = Tail(arrivals)
  /\ UNCHANGED <<outputfunc, tcpip, ethernet, arrived, pending, carried, next,
                 reported, history>>

(* tcpip_input() returns with uip_buf empty.                               *)
InputDone ==
  /\ thread = "input"
  /\ uip' = <<>> /\ linkIf' = "NULL" /\ thread' = "rx"
  /\ UNCHANGED <<packetbuf, outputfunc, tcpip, drvVars, next, reported, history>>

(* The last turn of the loop clears the buffer and finds no frame.         *)
PollRxDone ==
  /\ thread = "rx" /\ arrivals = <<>>
  /\ packetbuf' = Clear(packetbuf)
  /\ thread' = "tx"
  /\ UNCHANGED <<stackVars, drvVars, next, reported, history>>

-----------------------------------------------------------------------------
(* The transmit half of the poll handler.                                  *)

Acked == pending # <<>> /\ Head(pending).frame \in carried

PollTx ==
  /\ ethernet = "up" /\ thread = "idle" /\ Acked
  /\ thread' = "tx"
  /\ UNCHANGED <<packetbuf, stackVars, drvVars, next, reported, history>>

(* The sent callback of the oldest frame, with the packet buffer as it is. *)
Report ==
  /\ thread = "tx" /\ Acked
  /\ PacketSent(Head(pending).frame, packetbuf, "MAC_TX_OK")
  /\ pending' = Tail(pending)
  /\ UNCHANGED <<packetbuf, stackVars, thread, ethernet, arrivals, arrived, carried,
                 next, asked, given>>

PollTxDone ==
  /\ thread = "tx"
  /\ thread' = "idle"
  /\ UNCHANGED <<packetbuf, stackVars, drvVars, next, reported, history>>

-----------------------------------------------------------------------------
(* The interface goes up and down.                                         *)

(* gmac_driver_init: lists and rings start afresh.                         *)
DriverInit ==
  /\ ethernet = "down" /\ thread = "idle"
  /\ ethernet' = "boot" /\ pending' = <<>> /\ arrivals' = <<>>
  /\ UNCHANGED <<packetbuf, stackVars, thread, arrived, carried, next, reported, history>>

(* The process flushes the receive ring through the packet buffer ...      *)
FlushFrame ==
  /\ ethernet = "boot" /\ arrivals # <<>>
  /\ packetbuf' = Fill(packetbuf, Head(arrivals))
  /\ arrivals' = Tail(arrivals)
  /\ UNCHANGED <<stackVars, thread, ethernet, arrived, pending, carried, next,
                 reported, history>>

(* ... and announces the interface: connect_event(1).                      *)
ConnectUp ==
  /\ ethernet = "boot" /\ arrivals = <<>>
  /\ ethernet' = "up"
  /\ tcpip' = TRUE /\ outputfunc' = TRUE
  /\ UNCHANGED <<packetbuf, uip, linkIf, thread, arrivals, arrived, pending, carried,
                 next, reported, history>>

(* process_exit() is called if the process is NOT running.                 *)
StopStackIfRunning == IF tcpip THEN FALSE ELSE tcpip
StopStack == IF ~tcpip THEN FALSE ELSE tcpip
OutputKept == outputfunc
OutputRemoved == FALSE

(* The driver process exits: connect_event(0).                             *)
ConnectDown ==
  /\ ethernet = "up" /\ thread = "idle"
  /\ ethernet' = "down"
  /\ outputfunc' = OutputRemoved /\ tcpip' = StopStack
  /\ UNCHANGED <<packetbuf, uip, linkIf, thread, arrivals, arrived, pending, carried,
                 next, reported, history>>

-----------------------------------------------------------------------------
(* The controller and the wire.                                            *)

Carry ==
  /\ \E i \in DOMAIN pending :
       /\ pending[i].frame \notin carried
       /\ \A j \in 1 .. i - 1 : pending[j].frame \in carried
       /\ carried' = carried \cup {pending[i].frame}
  /\ UNCHANGED <<packetbuf, stackVars, thread, ethernet, arrivals, arrived, pending,
                 next, reported, history>>

Arrive ==
  /\ ethernet # "down" /\ arrived < MaxRx
  /\ \E frame \in Arrivals(arrived + 1) : arrivals' = Append(arrivals, frame)
  /\ arrived' = arrived + 1
  /\ UNCHANGED <<packetbuf, stackVars, thread, ethernet, pending, carried, next,
                 reported, history>>

NetNext ==
  /\ UNCHANGED uipSize
  /\ \/ Output \/ PollRx \/ ReadFrame \/ InputDone \/ PollRxDone
     \/ PollTx \/ Report \/ PollTxDone
     \/ DriverInit \/ FlushFrame \/ ConnectUp \/ ConnectDown
     \/ Carry \/ Arrive

NetSpec == NetInit /\ [][NetNext]_netVars

-----------------------------------------------------------------------------
(* Properties.                                                             *)

Cell == {Blank} \cup {Header(d, s, p) : d \in Stations \cup Neighbours,
                        s \in {Self} \cup Neighbours, p \in {"IPv6", "ARP"}}
        \cup ({"tx", "rx"} \X Nat \X Nat)

(* Type invariant.                                                         *)
NetTypeOK ==
  /\ uipSize \in UipSizes
  /\ packetbuf.mem \in [0 .. HdrSize + BufSize - 1 -> Cell]
  /\ packetbuf.hdrptr \in HdrSize - 1 .. HdrSize
  /\ packetbuf.bufptr \in 0 .. 1
  /\ packetbuf.buflen \in 0 .. BufSize
  /\ {packetbuf.sender, packetbuf.receiver} \subseteq {Null, Self} \cup Targets
  /\ uip \in Seq(Cell)
  /\ {outputfunc, tcpip} \subseteq BOOLEAN
  /\ linkIf \in {"NULL", "8023"}
  /\ thread \in {"idle", "rx", "input", "tx", "overrun"}
  /\ ethernet \in {"down", "boot", "up"}
  /\ arrivals \in Seq(Seq(Cell)) /\ arrived \in 0 .. MaxRx
  /\ pending \in Seq([frame : Frames, addr : {Null} \cup Neighbours])
  /\ next \in 1 .. MaxFrames + 1
  /\ carried \subseteq Frames
  /\ reported \in [Frames -> {"none", "MAC_TX_OK"} \cup Errors]

(* A frame given to the driver is the packet TCP/IP asked to send, behind  *)
(* a header with the destination it asked for (the 33:33 address where the *)
(* packet is for a group), whatever went through the buffer before.        *)
FramesAsAsked ==
  \A f \in Frames : given[f] # <<>> =>
    given[f] = <<Header(asked[f].to, Self, "IPv6")>> \o asked[f].packet

(* The driver stores the receiver that TCP/IP knows the destination by,    *)
(* and a packet that is refused is reported, at once, for that receiver.   *)
ReceiverPrepared ==
  /\ \A i \in DOMAIN pending :
       pending[i].addr = Named(asked[pending[i].frame].to)
  /\ \A f \in Frames : reported[f] \in Errors => told[f] = Named(asked[f].to)

(* What the comments of create() and gmac_driver_tx() prepare for: every   *)
(* report, at once or later, is for the receiver the packet was sent to.   *)
ReportsNameReceiver ==
  \A f \in Frames : reported[f] # "none" => told[f] = Named(asked[f].to)

(* Of the frames that leave the receive ring of a running interface, TCP/IP*)
(* gets the IPv6 frames for this node and for addresses 33:... that fit    *)
(* uip_buf, and no others: unchanged, without their header, in the order   *)
(* they came, although each is read into the buffer that also carries what *)
(* tcpip_input() sends before the next one is read.                        *)
Delivered ==
  ethernet = "up" /\ arrivals # <<>> /\ arrivals' = Tail(arrivals) =>
    LET frame == Head(arrivals)
        wanted == /\ frame # <<>> /\ frame[1][2] \in {Self} \cup Groups \cup NearGroups
                  /\ frame[1][4] = "IPv6"
    IN  IF wanted /\ Len(frame) - 1 <= uipSize
        THEN thread' = "input" /\ uip' = Tail(frame)
        ELSE thread' # "input" /\ uip' = uip
DeliversExactly == [][Delivered]_netVars

(* What the comment of parse() says: the receiver is made the null address *)
(* if it is an IPv6 multicast address (33:33:...), so a packet handed to   *)
(* TCP/IP for the null address came for a group.                           *)
Converted ==
  thread = "rx" /\ thread' = "input" /\ packetbuf'.receiver = Null =>
    Head(arrivals)[1][2] \in Groups
OnlyGroupsConverted == [][Converted]_netVars

(* A packet fails for good only if it does not fit the buffer together with*)
(* its header, or if the driver has no block for it: never for lack of room*)
(* that a header put in front of an earlier packet, or cut off one, took.  *)
Turned ==
  \A f \in Frames :
    reported[f] = "none" /\ reported'[f] = "MAC_TX_ERR_FATAL" =>
      Len(asked'[f].packet) = BufSize \/ Len(pending) >= PoolSize
RefusedForCause == [][Turned]_netVars

(* Together, stack and driver are the service TCP/IP uses: each packet is  *)
(* refused at once or accepted, accepted ones are reported once, in order, *)
(* after the wire carried them, and nothing is sent while the interface is *)
(* down although gmac_driver_tx does not test for it.                      *)
IpService == INSTANCE TxService WITH
  up <- ethernet = "up",
  queue <- [i \in DOMAIN pending |-> pending[i].frame]
IpServiceSpec == IpService!Spec
=============================================================================
