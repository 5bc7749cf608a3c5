---------------------------- MODULE UdpExchange ----------------------------
(***************************************************************************)
(* The exchanges of the start-up over UDP: the address of the NTP server   *)
(* and that of the broker from DNS, the time from NTP. Each restarts the   *)
(* interface (TCPIP_Down_Up), builds a request in ordinary RAM, sends it   *)
(* from a socket of its own, waits for one answer or 10 seconds, and       *)
(* closes the socket. A failed exchange ends the program.                  *)
(*                                                                         *)
(* lwip_sendto passes a reference to the request. etharp_query copies it   *)
(* into the heap of lwIP, which the MPU keeps out of the data cache, when  *)
(* the next hop is not resolved yet; otherwise the DMA reads the request   *)
(* in its place, below the data cache. One next hop stands for the server  *)
(* and for the gateway.                                                    *)
(*                                                                         *)
(* Outside: neighbours ask for the board's hardware address when they      *)
(* like; the network loses, delays and duplicates; a server answers the    *)
(* question that it finds in the datagram.                                 *)
(***************************************************************************)
EXTENDS Naturals, FiniteSets

CONSTANTS
  MaxExchanges,    \* exchanges of the start-up
  MaxPending       \* ARP_MAXPENDING, in ticks of etharp_tmr

ASSUME ExchangeAssumption == MaxExchanges \in Nat \ {0} /\ MaxPending \in Nat \ {0}

VARIABLES
  pc,              \* where UDP_Request and its caller are
  n,               \* the exchange, which also stands for its local port
  dirty, below,    \* the request is only in the cache; what lies in memory below
  arp, ctime,      \* the next hop's entry: its state and its age
  queued,          \* the copy of the datagram that waits on that entry
  asked,           \* an ARP request is under way
  greeted,         \* the next hop made itself known before it was asked for
  toServer,        \* datagrams under way: the port and the question
  toBoard,         \* answers under way
  received,        \* the socket's mailbox
  result           \* what the exchanges took from their answers

vars == <<pc, n, dirty, below, arp, ctime, queued, asked, greeted, toServer, toBoard,
          received, result>>

cache   == <<dirty, below>>
entry   == <<arp, ctime, queued>>
network == <<toServer, toBoard>>

Exchange == 1..MaxExchanges

None == 0            \* no datagram; a question that no exchange asked; no answer

(* The kinds of record an answer of DNS ends in *)
Ending == {"A", "other"}
-----------------------------------------------------------------------------
(* Main_Thread *)

(* without the two calls, on a board with another data cache *)
SkipDownUp ==
  /\ pc = "start" /\ pc' = "build"
  /\ greeted' = FALSE
  /\ UNCHANGED <<n, cache, entry, asked, network, received, result>>

(* TCPIP_Down_Up: netif_set_down empties the table of ARP, with what is queued *)
DownUp ==
  /\ pc = "start" /\ pc' = "build"
  /\ arp' = "empty" /\ queued' = None /\ ctime' = 0
  /\ greeted' = FALSE
  /\ UNCHANGED <<n, cache, asked, network, received, result>>

(* The request is written: into the cache. Memory holds what was there      *)
(* before, which may be an older request at the same address.               *)
Build ==
  /\ pc = "build" /\ pc' = "send"
  /\ dirty' = TRUE /\ below' \in 0 .. n - 1
  /\ UNCHANGED <<n, entry, asked, greeted, network, received, result>>

(* The cache may write the request back at any time *)
Evict ==
  /\ pc = "send" /\ dirty /\ dirty' = FALSE
  /\ UNCHANGED <<pc, n, below, entry, asked, greeted, network, received, result>>

InMemory == IF dirty THEN below ELSE n

(* etharp_query: a stable entry sends at once, otherwise a copy waits *)
SendTo ==
  /\ pc = "send" /\ pc' = "receive"
  /\ IF arp = "stable"
     THEN /\ toServer' = toServer \cup {[port |-> n, about |-> InMemory]}
          /\ UNCHANGED <<entry, asked>>
     ELSE /\ queued' = n
          /\ arp' = "pending"
          /\ IF arp = "empty" THEN asked' = TRUE /\ ctime' = 0
                              ELSE UNCHANGED <<asked, ctime>>
          /\ UNCHANGED toServer
  /\ UNCHANGED <<n, cache, greeted, toBoard, received, result>>

Answer(a) ==
  result' = [result EXCEPT ![n] = [about |-> a.about, ending |-> a.ending]]

RecvFrom ==
  /\ pc = "receive" /\ pc' = "close"
  /\ \E a \in received : Answer(a)
  /\ UNCHANGED <<n, cache, entry, asked, greeted, network, received>>

(* a socket without SO_RCVTIMEO *)
NoTimeout == FALSE /\ UNCHANGED vars

(* SO_RCVTIMEO: 10 seconds without an answer *)
RecvTimeout ==
  /\ pc = "receive" /\ received = {}
  /\ pc' = "failed"
  /\ UNCHANGED <<n, cache, entry, asked, greeted, network, received, result>>

(* close, and the next exchange or the end of the start-up *)
Close ==
  /\ pc = "close"
  /\ received' = {}
  /\ IF n = MaxExchanges THEN pc' = "done" /\ UNCHANGED n
                         ELSE pc' = "start" /\ n' = n + 1
  /\ UNCHANGED <<cache, entry, asked, greeted, network, result>>
-----------------------------------------------------------------------------
(* tcpip_thread *)

(* An ARP packet for us makes the sender's entry, or updates it;            *)
(* etharp_update_arp_entry sends what waits on it.                          *)
Resolve ==
  /\ arp' = "stable" /\ ctime' = 0 /\ queued' = None
  /\ greeted' = (greeted \/ arp = "empty")
  /\ toServer' = IF queued = None THEN toServer
                 ELSE toServer \cup {[port |-> queued, about |-> queued]}

(* the answer to a request of ours, of this exchange or of an older one *)
ArpReply ==
  /\ asked /\ asked' = FALSE
  /\ Resolve
  /\ UNCHANGED <<pc, n, cache, toBoard, received, result>>

(* an ARP request for our address *)
ArpRequested ==
  /\ Resolve
  /\ UNCHANGED <<pc, n, cache, asked, toBoard, received, result>>

(* etharp_tmr: a pending entry asks again, and is given up in the end *)
ArpTimer ==
  /\ arp = "pending"
  /\ ctime' = ctime + 1
  /\ IF ctime + 1 >= MaxPending
     THEN arp' = "empty" /\ queued' = None /\ UNCHANGED asked
     ELSE asked' = TRUE /\ UNCHANGED <<arp, queued>>
  /\ UNCHANGED <<pc, n, cache, greeted, network, received, result>>

Open == pc \in {"receive", "close"}

(* udp_input without a look at the port *)
DeliverAnywhere(a) ==
  /\ a \in toBoard
  /\ received' = IF Open THEN received \cup {a} ELSE received
  /\ toBoard' = toBoard \ {a}
  /\ UNCHANGED <<pc, n, cache, entry, asked, greeted, toServer, result>>

(* udp_input: to the socket of that port, if it is still open *)
Deliver(a) ==
  /\ a \in toBoard
  /\ received' = IF Open /\ a.port = n THEN received \cup {a} ELSE received
  /\ toBoard' = toBoard \ {a}
  /\ UNCHANGED <<pc, n, cache, entry, asked, greeted, toServer, result>>
-----------------------------------------------------------------------------
(* The servers and the network *)

(* A datagram that asks nothing gets no answer. It may still arrive again.  *)
Serve(d) ==
  /\ d \in toServer
  /\ toServer' \in {toServer, toServer \ {d}}
  /\ IF d.about = None THEN UNCHANGED toBoard
     ELSE \E e \in Ending :
            toBoard' = toBoard \cup {[port |-> d.port, about |-> d.about, ending |-> e]}
  /\ UNCHANGED <<pc, n, cache, entry, asked, greeted, received, result>>

Lose ==
  /\ \/ asked /\ asked' = FALSE /\ UNCHANGED network
     \/ \E d \in toServer : toServer' = toServer \ {d} /\ UNCHANGED <<asked, toBoard>>
     \/ \E a \in toBoard : toBoard' = toBoard \ {a} /\ UNCHANGED <<asked, toServer>>
  /\ UNCHANGED <<pc, n, cache, entry, greeted, received, result>>
-----------------------------------------------------------------------------
Init ==
  /\ pc = "start" /\ n = 1
  /\ dirty = FALSE /\ below = 0
  /\ arp \in {"empty", "stable"} /\ ctime = 0 /\ queued = None /\ asked = FALSE
  /\ greeted = FALSE
  /\ toServer = {} /\ toBoard = {} /\ received = {}
  /\ result = [e \in Exchange |-> [about |-> None, ending |-> "A"]]

Main  == DownUp \/ Build \/ SendTo \/ RecvFrom \/ RecvTimeout \/ Close
Tcpip == ArpReply \/ ArpRequested \/ ArpTimer \/ \E a \in toBoard : Deliver(a)

Next == Main \/ Evict \/ Tcpip \/ (\E d \in toServer : Serve(d)) \/ Lose

(* Main_Thread goes on, and a read comes back after its timeout; the timer  *)
(* of ARP ticks.                                                            *)
Spec == Init /\ [][Next]_vars /\ WF_vars(Main) /\ WF_vars(ArpTimer)
-----------------------------------------------------------------------------
Question == [port : Exchange, about : 0..MaxExchanges]
Reply    == [port : Exchange, about : Exchange, ending : Ending]

TypeOK ==
  /\ pc \in {"start", "build", "send", "receive", "close", "done", "failed"}
  /\ n \in Exchange
  /\ dirty \in BOOLEAN /\ below \in 0..MaxExchanges
  /\ arp \in {"empty", "pending", "stable"} /\ ctime \in 0..MaxPending
  /\ queued \in 0..MaxExchanges
  /\ asked \in BOOLEAN /\ greeted \in BOOLEAN
  /\ toServer \subseteq Question /\ toBoard \subseteq Reply /\ received \subseteq Reply
  /\ result \in [Exchange -> [about : 0..MaxExchanges, ending : Ending]]

(* Unless an ARP packet of the next hop came between the restart of the     *)
(* interface and the send, the request goes out from the uncached heap: it  *)
(* is what the workaround of TCPIP_Down_Up brings about.                    *)
RequestsIntact == [][~greeted => \A d \in toServer' \ toServer : d.about = d.port]_vars

(* An exchange never takes the answer to another exchange's request for its *)
(* own, however late it comes, unless the request that was sent was that    *)
(* older one.                                                               *)
AnswersMatch ==
  [][~greeted => \A e \in Exchange : result'[e] # result[e] => result'[e].about = e]_vars

(* A next hop that never answers is given up, with what waits on it.        *)
PendingEnds  == arp = "pending" ~> arp # "pending"

(* The start-up ends, one way or the other.                                 *)
ExchangesEnd == <>(pc \in {"done", "failed"})
-----------------------------------------------------------------------------
(* After TCPIP_Down_Up the next socket works (tcpip_setup.c: "este último   *)
(* no funcionará a menos que se añadan las dos siguientes líneas"): what it *)
(* sends is what was written.                                               *)
SocketsWork == \A d \in toServer : d.about = d.port

(* The address is "la última dirección IP de la respuesta DNS"              *)
(* (dns_client.c), not the last four bytes of something else.               *)
AddressFromRecord == \A e \in Exchange : result[e].about = e => result[e].ending = "A"
=============================================================================
