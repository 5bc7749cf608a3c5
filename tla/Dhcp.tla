-------------------------------- MODULE Dhcp --------------------------------
(***************************************************************************)
(* The network configuration: DHCP_Request, which Main_Thread polls until  *)
(* the interface has an address, and the DHCP client of lwIP, which runs   *)
(* in tcpip_thread on messages and timers for as long as the program does. *)
(*                                                                         *)
(* Main_Thread calls dhcp_start and dhcp_stop without the core lock: its   *)
(* steps are single ones here, and a whole handler of tcpip_thread, which  *)
(* has the higher priority, fits between any two of them.                  *)
(*                                                                         *)
(* Outside: any answer to any request that was ever sent may arrive, late, *)
(* again, or never; another host may use the address that is checked. The  *)
(* server gives its identity and the time of the lease, not T1 or T2. A    *)
(* retransmission timer runs out at any time while it is set. LWIP_RAND    *)
(* gives an identifier that was not used before.                           *)
(***************************************************************************)
EXTENDS Naturals

CONSTANTS
  Attempts,      \* DHCP_ATTEMPTS
  Addresses,     \* addresses the server may offer
  Leases,        \* lease times it may give, in seconds
  MaxTries,      \* where dhcp->tries stops counting
  TickLimit,     \* the largest count of ticks, 0xffff
  Word,          \* a lease is an integer below it, u32_t
  MaxXid         \* bound: transaction identifiers

ASSUME DhcpAssumption ==
  /\ Attempts \in Nat /\ MaxXid \in Nat \ {0}
  /\ MaxTries \in Nat /\ MaxTries > 5
  /\ TickLimit \in Nat \ {0} /\ Word \in Nat /\ Word > 120 * TickLimit
  /\ Leases \subseteq 0..Word - 1
  /\ "none" \notin Addresses /\ "static" \notin Addresses

VARIABLES
  pc,            \* where DHCP_Request is
  count,         \* its polls so far
  gateway,       \* what Netif_Info stored, named by the address it belongs to
  client,        \* struct dhcp
  address,       \* netif.ip_addr
  xid,           \* the last identifier dhcp_create_msg took
  requests,      \* messages sent that a server may answer
  renewing       \* a renewal was asked for since the last bind

vars == <<pc, count, gateway, client, address, xid, requests, renewing>>
main == <<pc, count, gateway>>

State == {"OFF", "SELECTING", "REQUESTING", "CHECKING", "BOUND", "RENEWING", "REBINDING",
          "BACKING_OFF"}

(* memset in dhcp_start *)
Cleared == [state |-> "OFF", tries |-> 0, armed |-> FALSE, xid |-> 0, offered |-> "none",
            lease |-> 0, used |-> 0, t0 |-> 0, t2 |-> 0, renew |-> 0, rebind |-> 0,
            pcb |-> FALSE]

(* dhcp_set_state *)
SetState(c, s) ==
  IF s = c.state THEN c ELSE [c EXCEPT !.state = s, !.tries = 0, !.armed = FALSE]

(* the end of each function that sends: a try, and the timer *)
Account(c) == [c EXCEPT !.tries = IF @ < MaxTries THEN @ + 1 ELSE @, !.armed = TRUE]

(* dhcp_supplied_address *)
Supplied(c) == c.state \in {"BOUND", "RENEWING", "REBINDING"}

(* from seconds to ticks of dhcp_coarse_tmr: at least one, and at most as   *)
(* many as 16 bits count                                                    *)
Ticks(seconds) ==
  LET n == ((seconds + 30) % Word) \div 60 IN
  IF n = 0 THEN 1 ELSE IF n > TickLimit THEN TickLimit ELSE n

(* dhcp_handle_ack, where the server gives no T2 *)
Rebinding(lease) == ((lease * 7) % Word) \div 8

(* The lease 0xffffffff has no end: dhcp_bind leaves the count of the last  *)
(* lease's end as it is.                                                    *)
LeaseEnd(c) == IF c.lease = Word - 1 THEN c.t0 ELSE Ticks(c.lease)
-----------------------------------------------------------------------------
(* The messages *)

(* dhcp_create_msg takes a new identifier for a first try *)
FreshXid(c) == IF c.tries = 0 THEN xid + 1 ELSE xid

Ask(type, c, a) == requests \cup {[type |-> type, xid |-> c.xid, address |-> a]}

(* dhcp_discover up to the send *)
Discovering(c, id) == [SetState(c, "SELECTING") EXCEPT !.offered = "none", !.xid = id]

DiscoverFrom(c, id) ==
  /\ id <= MaxXid /\ xid' = id
  /\ client' = Account(Discovering(c, id))
  /\ requests' = Ask("DISCOVER", client', "none")

Discover(c) == DiscoverFrom(c, FreshXid(SetState(c, "SELECTING")))

(* dhcp_select without the count of tries *)
SelectForEver(c) ==
  /\ client' = [SetState(c, "REQUESTING") EXCEPT !.armed = TRUE]
  /\ requests' = Ask("REQUEST", c, c.offered)

Select(c) ==
  /\ client' = Account(SetState(c, "REQUESTING"))
  /\ requests' = Ask("REQUEST", c, c.offered)

(* dhcp_check: an ARP request for the offered address *)
Check(c) == client' = Account(SetState(c, "CHECKING"))

(* without the reset of the time used *)
BoundStale(c) ==
  [SetState(c, "BOUND") EXCEPT
     !.t0 = LeaseEnd(c), !.t2 = Ticks(Rebinding(c.lease)),
     !.renew = Ticks(c.lease \div 2), !.rebind = Ticks(Rebinding(c.lease))]

Bound(c) ==
  [SetState(c, "BOUND") EXCEPT
     !.used = 0, !.t0 = LeaseEnd(c), !.t2 = Ticks(Rebinding(c.lease)),
     !.renew = Ticks(c.lease \div 2), !.rebind = Ticks(Rebinding(c.lease))]

Bind(c) ==
  /\ client' = Bound(c)
  /\ address' = c.offered
  /\ renewing' = FALSE

(* dhcp_release_and_stop and dhcp_start, one after the other *)
Restart ==
  /\ DiscoverFrom([Cleared EXCEPT !.pcb = TRUE],
                  (IF Supplied(client) THEN FreshXid(client) ELSE xid) + 1)
  /\ address' = "none"
-----------------------------------------------------------------------------
(* tcpip_thread: dhcp_recv *)

Awaited(m) == client.pcb /\ m.xid = client.xid

Offer(m) ==
  /\ m.type = "DISCOVER" /\ Awaited(m) /\ client.state = "SELECTING"
  /\ \E a \in Addresses : Select([client EXCEPT !.armed = FALSE, !.offered = a])
  /\ UNCHANGED <<main, address, xid, renewing>>

Granted(m) == \E s \in Leases : Bind([client EXCEPT !.lease = s, !.offered = m.address])

Ack(m) ==
  /\ m.type = "REQUEST" /\ Awaited(m)
  /\ \/ /\ client.state = "REQUESTING"
        /\ \E s \in Leases : Check([client EXCEPT !.lease = s, !.offered = m.address])
        /\ UNCHANGED <<address, renewing>>
     \/ /\ client.state \in {"RENEWING", "REBINDING"}
        /\ Granted(m)
  /\ UNCHANGED <<main, xid, requests>>

(* dhcp_handle_nak that leaves the address on the interface *)
NakKeeps(m) ==
  /\ m.type = "REQUEST" /\ Awaited(m)
  /\ client.state \in {"REQUESTING", "RENEWING", "REBINDING"}
  /\ Discover(SetState(client, "BACKING_OFF"))
  /\ UNCHANGED <<main, address, renewing>>

Nak(m) ==
  /\ m.type = "REQUEST" /\ Awaited(m)
  /\ client.state \in {"REQUESTING", "RENEWING", "REBINDING"}
  /\ Discover(SetState(client, "BACKING_OFF"))
  /\ address' = "none"
  /\ UNCHANGED <<main, renewing>>

(* dhcp_arp_reply, dhcp_decline *)
Decline ==
  /\ client.state = "CHECKING"
  /\ xid < MaxXid /\ xid' = xid + 1
  /\ client' = Account([SetState(client, "BACKING_OFF") EXCEPT !.xid = xid + 1])
  /\ UNCHANGED <<main, address, requests, renewing>>

(* dhcp_fine_tmr, dhcp_timeout *)
FineTimer ==
  LET c == [client EXCEPT !.armed = FALSE] IN
  /\ client.armed
  /\ CASE c.state \in {"BACKING_OFF", "SELECTING"} -> Discover(c) /\ UNCHANGED <<address, renewing>>
       [] c.state = "REQUESTING" /\ c.tries <= 5 -> Select(c) /\ UNCHANGED <<address, xid, renewing>>
       [] c.state = "REQUESTING" /\ c.tries > 5 -> Restart /\ UNCHANGED renewing
       [] c.state = "CHECKING" /\ c.tries <= 1 ->
            Check(c) /\ UNCHANGED <<address, xid, requests, renewing>>
       [] c.state = "CHECKING" /\ c.tries > 1 -> Bind(c) /\ UNCHANGED <<xid, requests>>
       [] OTHER -> client' = c /\ UNCHANGED <<address, xid, requests, renewing>>
  /\ UNCHANGED main

Expiring == client.t0 # 0 /\ client.used + 1 = client.t0

Again(limit, used, now) == IF limit >= used + 2 THEN (limit - used) \div 2 ELSE now

(* dhcp_coarse_tmr, once a minute *)
CoarseTimer ==
  LET used == IF client.t0 = 0 THEN client.used ELSE client.used + 1
      tick == [client EXCEPT !.used = used, !.rebind = IF @ = 0 THEN 0 ELSE @ - 1]
      both == [tick EXCEPT !.renew = IF @ = 0 THEN 0 ELSE @ - 1]
      in(c, S) == c.state \in {"REQUESTING", "BOUND", "RENEWING"} \cup S IN
  /\ client.state # "OFF" /\ (client.t0 # 0 \/ client.rebind # 0 \/ client.renew # 0)
  /\ CASE Expiring -> Restart /\ UNCHANGED renewing
       [] ~Expiring /\ client.rebind = 1 /\ in(tick, {"REBINDING"}) ->
            /\ client' = [Account(SetState(tick, "REBINDING")) EXCEPT
                            !.rebind = Again(tick.t0, used, 0)]
            /\ requests' = Ask("REQUEST", tick, address) /\ renewing' = TRUE
            /\ UNCHANGED <<address, xid>>
       [] ~Expiring /\ client.rebind # 1 /\ client.renew = 1 /\ in(both, {}) ->
            /\ client' = [Account(SetState(both, "RENEWING")) EXCEPT
                            !.renew = Again(both.t2, used, 0)]
            /\ requests' = Ask("REQUEST", both, address) /\ renewing' = TRUE
            /\ UNCHANGED <<address, xid>>
       [] OTHER -> /\ client' = IF client.rebind = 1 THEN tick ELSE both
                   /\ UNCHANGED <<address, xid, requests, renewing>>
  /\ UNCHANGED main
-----------------------------------------------------------------------------
(* Main_Thread: DHCP_Request, with dhcp_start and dhcp_stop inside *)

Step(p, q) == pc = p /\ pc' = q

Start ==
  /\ Step("start", IF Attempts > 0 THEN "discover" ELSE "poll")
  /\ client' = IF Attempts > 0 THEN [Cleared EXCEPT !.pcb = TRUE] ELSE client
  /\ UNCHANGED <<count, gateway, address, xid, requests, renewing>>

StartDiscover ==
  /\ Step("discover", "account")
  /\ xid' = xid + 1
  /\ client' = Discovering(client, xid + 1)
  /\ requests' = Ask("DISCOVER", client', "none")
  /\ UNCHANGED <<count, gateway, address, renewing>>

StartAccount ==
  /\ Step("account", "poll")
  /\ client' = Account(client)
  /\ UNCHANGED <<count, gateway, address, xid, requests, renewing>>

(* DHCP_WAIT *)
Succeed ==
  /\ Supplied(client) /\ Step("poll", "report")
  /\ UNCHANGED <<count, gateway, client, address, xid, requests, renewing>>

Poll ==
  /\ ~Supplied(client) /\ count < Attempts
  /\ pc = "poll" /\ count' = count + 1
  /\ UNCHANGED <<pc, gateway, client, address, xid, requests, renewing>>

(* without dhcp_stop *)
GiveUpOnly ==
  /\ ~Supplied(client) /\ count >= Attempts /\ Step("poll", "static")
  /\ UNCHANGED <<count, gateway, client, address, xid, requests, renewing>>

GiveUp ==
  /\ ~Supplied(client) /\ count >= Attempts
  /\ Step("poll", IF Attempts > 0 THEN "stop" ELSE "static")
  /\ UNCHANGED <<count, gateway, client, address, xid, requests, renewing>>

Stop ==
  /\ Step("stop", IF client.state # "OFF" THEN "release" ELSE "static")
  /\ client' = IF pc' = "release"
               THEN [client EXCEPT !.offered = "none", !.lease = 0, !.used = 0, !.t0 = 0,
                                   !.renew = 0, !.rebind = 0]
               ELSE client
  /\ UNCHANGED <<count, gateway, address, xid, requests, renewing>>

StopRelease ==
  /\ Step("release", "unset")
  /\ IF Supplied(client)
     THEN client' = [client EXCEPT !.xid = FreshXid(client)] /\ xid' = client'.xid
     ELSE UNCHANGED <<client, xid>>
  /\ UNCHANGED <<count, gateway, address, requests, renewing>>

StopUnset ==
  /\ Step("unset", "off")
  /\ address' = "none"
  /\ UNCHANGED <<count, gateway, client, xid, requests, renewing>>

StopOff ==
  /\ Step("off", "free")
  /\ client' = SetState(client, "OFF")
  /\ UNCHANGED <<count, gateway, address, xid, requests, renewing>>

StopFree ==
  /\ Step("free", "static")
  /\ client' = [client EXCEPT !.pcb = FALSE]
  /\ UNCHANGED <<count, gateway, address, xid, requests, renewing>>

Static ==
  /\ Step("static", "report")
  /\ address' = "static"
  /\ UNCHANGED <<count, gateway, client, xid, requests, renewing>>

(* Netif_Info, and the end of the polling *)
Report ==
  /\ Step("report", "done")
  /\ gateway' = address
  /\ UNCHANGED <<count, client, address, xid, requests, renewing>>
-----------------------------------------------------------------------------
Init ==
  /\ pc = "start" /\ count = 0 /\ gateway = "none"
  /\ client = Cleared /\ address = "none"
  /\ xid = 0 /\ requests = {} /\ renewing = FALSE

Main == \/ Start \/ StartDiscover \/ StartAccount \/ Succeed \/ Poll \/ GiveUp
        \/ Stop \/ StopRelease \/ StopUnset \/ StopOff \/ StopFree \/ Static \/ Report

Tcpip == \/ \E m \in requests : Offer(m) \/ Ack(m) \/ Nak(m)
         \/ Decline \/ FineTimer \/ CoarseTimer

Next == Main \/ Tcpip

(* Main_Thread polls every 250 ms; a timer that is set runs out.            *)
Spec == Init /\ [][Next]_vars /\ WF_vars(Main) /\ WF_vars(FineTimer)
-----------------------------------------------------------------------------
Request == [type : {"DISCOVER", "REQUEST"}, xid : Nat, address : Addresses \cup {"none"}]

TypeOK ==
  /\ pc \in {"start", "discover", "account", "poll", "stop", "release", "unset", "off",
             "free", "static", "report", "done"}
  /\ count \in 0..Attempts
  /\ gateway \in Addresses \cup {"none", "static"} /\ address \in Addresses \cup {"none", "static"}
  /\ client \in [state : State, tries : 0..MaxTries, armed : BOOLEAN, xid : Nat,
                 offered : Addresses \cup {"none"}, lease : Nat, used : Nat, t0 : Nat, t2 : Nat,
                 renew : Nat, rebind : Nat, pcb : BOOLEAN]
  /\ xid \in Nat /\ requests \subseteq Request /\ renewing \in BOOLEAN

Stopping == pc \in {"release", "unset", "off", "free", "static"}

(* An address of the server is used only for as long as it is leased: no    *)
(* end of the lease, no refusal and no restart leaves it on the interface.  *)
AddressIsLeased == address \in Addresses => Supplied(client) \/ Stopping

(* The count of a lease never passes its end, where the comparison for      *)
(* equality in dhcp_coarse_tmr would miss it.                               *)
LeaseEnds == Supplied(client) /\ client.t0 # 0 => client.used < client.t0

(* Once the static configuration is set, DHCP does not touch it any more:   *)
(* no answer under way, no timer.                                           *)
StaticStays == [][address = "static" => address' = "static"]_vars

(* Leases of more than one tick whose half is below the limit of a count:   *)
(* from 90 seconds to 91 days. The longer ones have the same count for      *)
(* their half and for their end, and dhcp_coarse_tmr tests the end first.   *)
Renewable(lease) == lease \in 90..120 * TickLimit - 61

(* Such a lease does not run out before a renewal was asked for, whatever   *)
(* refusals, late answers and restarts come in between.                     *)
RenewedInTime ==
  [][Supplied(client) /\ Renewable(client.lease) /\ Expiring /\ ~Supplied(client)'
       => renewing]_vars

(* The same of every lease of more than one tick: it does not hold of the   *)
(* longer ones, nor of one without an end that follows one with an end.     *)
AllRenewedInTime ==
  [][Supplied(client) /\ client.t0 > 1 /\ Expiring /\ ~Supplied(client)' => renewing]_vars

(* DHCP_Request comes to its end, whatever the servers do.                  *)
DhcpEnds == <>(pc = "done")

(* A server that falls silent after its offer is given up.                  *)
RequestingEnds == client.state = "REQUESTING" /\ xid < MaxXid ~> client.state # "REQUESTING"
-----------------------------------------------------------------------------
(* "La puerta de enlace será guardada en un buffer [...] para poder usarla  *)
(* como servidor en las resoluciones DNS" (main.c).                         *)
GatewayKnown == pc = "done" => gateway # "none"

(* dhcp_supplied_address: "1 if DHCP supplied netif->ip_addr" (dhcp.c).     *)
SuppliedMeansAddress == Supplied(client) /\ ~Stopping => address # "none"
=============================================================================
