----------------------------- MODULE Dhcp_proofs -----------------------------
(***************************************************************************)
(* What DHCP_Request and the client of lwIP keep, for any number of polls, *)
(* addresses, leases and transactions: how long an address is used, and    *)
(* that the two sides, which share struct dhcp without a lock, leave the   *)
(* static configuration alone.                                             *)
(***************************************************************************)
EXTENDS Dhcp, TLAPS

Client == [state : State, tries : 0..MaxTries, armed : BOOLEAN, xid : Nat,
           offered : Addresses \cup {"none"}, lease : Nat, used : Nat, t0 : Nat, t2 : Nat,
           renew : Nat, rebind : Nat, pcb : BOOLEAN]

(* Neither a message nor a timer makes the client do anything. *)
Silent == client.state = "OFF" /\ ~client.armed

(* The client is silent before dhcp_start and after dhcp_stop.              *)
Place ==
  /\ pc \in {"start", "discover"} => Silent /\ requests = {} /\ address = "none"
  /\ pc \in {"free", "static"} => Silent
  /\ pc \in {"account", "release", "unset", "off"} => client.state # "OFF"
  /\ address = "static" => pc \in {"report", "done"} /\ Silent
  /\ client.state = "OFF" => ~client.armed
  /\ Attempts = 0 => Silent /\ pc # "discover"

(* The time used stays below the lease, also in the states that come after  *)
(* a refusal, which keep both.                                              *)
Lasting == client.t0 # 0 => client.used < client.t0

(* Until a renewal was asked for, its countdown is ahead of the lease's, if *)
(* the lease is one of those whose counts 16 bits tell apart.               *)
Timely ==
  Supplied(client) /\ ~renewing =>
    /\ client.state = "BOUND"
    /\ Renewable(client.lease) => client.renew > 0 /\ client.used + client.renew < client.t0

DhcpInv == TypeOK /\ Place /\ AddressIsLeased /\ Lasting /\ Timely

-----------------------------------------------------------------------------
(* The operators on struct dhcp                                             *)

LEMMA TicksOf ==
  ASSUME NEW n \in Nat
  PROVE  Ticks(n) \in Nat /\ Ticks(n) > 0
<1> DEFINE k == ((n + 30) % Word) \div 60
<1>1. (n + 30) % Word \in Nat /\ TickLimit \in Nat /\ TickLimit > 0
  BY DhcpAssumption
<1>2. k \in Nat
  BY <1>1
<1>3. Ticks(n) = IF k = 0 THEN 1 ELSE IF k > TickLimit THEN TickLimit ELSE k
  BY DEF Ticks
<1> HIDE DEF k
<1> QED BY <1>1, <1>2, <1>3

(* Below the limit of a word nothing wraps. *)
LEMMA TicksBelow ==
  ASSUME NEW n \in Nat, n + 30 < Word, n >= 30
  PROVE  Ticks(n) = IF (n + 30) \div 60 > TickLimit THEN TickLimit ELSE (n + 30) \div 60
<1>1. (n + 30) % Word = n + 30
  BY DhcpAssumption
<1>2. (n + 30) \div 60 # 0
  OBVIOUS
<1> QED BY <1>1, <1>2 DEF Ticks

(* A lease of 90 seconds to 91 days is to be renewed before its last tick.  *)
LEMMA RenewalCounted ==
  ASSUME NEW n \in Nat, Renewable(n)
  PROVE  n # Word - 1 /\ Ticks(n \div 2) < Ticks(n)
<1>1. /\ n >= 90 /\ n + 61 <= 120 * TickLimit /\ 120 * TickLimit < Word
      /\ TickLimit \in Nat /\ Word \in Nat
  BY DhcpAssumption DEF Renewable
<1>2. n + 30 < Word /\ n # Word - 1 /\ n \div 2 \in Nat /\ n \div 2 >= 30 /\ n \div 2 + 30 < Word
  BY <1>1
<1>3. Ticks(n) = IF (n + 30) \div 60 > TickLimit THEN TickLimit ELSE (n + 30) \div 60
  BY <1>1, <1>2, TicksBelow
<1>4. Ticks(n \div 2) = IF (n \div 2 + 30) \div 60 > TickLimit THEN TickLimit
                          ELSE (n \div 2 + 30) \div 60
  BY <1>2, TicksBelow
<1>5. (n \div 2 + 30) \div 60 < TickLimit
  BY <1>1
<1>6. (n \div 2 + 30) \div 60 < (n + 30) \div 60
  BY <1>1
<1> QED BY <1>1, <1>2, <1>3, <1>4, <1>5, <1>6

SameLease(c, d) == d.used = c.used /\ d.t0 = c.t0 /\ d.renew = c.renew

LEMMA StateIsSet ==
  ASSUME NEW c \in Client, NEW s \in State
  PROVE  /\ SetState(c, s) \in Client /\ SetState(c, s).state = s
         /\ SameLease(c, SetState(c, s))
         /\ s # c.state => ~SetState(c, s).armed
         /\ SetState(c, s).offered = c.offered /\ SetState(c, s).xid = c.xid
         /\ SetState(c, s).lease = c.lease
<1>1. 0 \in 0..MaxTries
  BY DhcpAssumption
<1> QED BY <1>1 DEF SetState, Client, SameLease

LEMMA Accounted ==
  ASSUME NEW c \in Client
  PROVE  /\ Account(c) \in Client /\ Account(c).state = c.state /\ SameLease(c, Account(c))
         /\ Account(c).xid = c.xid /\ Account(c).lease = c.lease
<1>1. c.tries \in 0..MaxTries /\ MaxTries \in Nat
  BY DhcpAssumption DEF Client
<1>2. (IF c.tries < MaxTries THEN c.tries + 1 ELSE c.tries) \in 0..MaxTries
  BY <1>1
<1> QED BY <1>2 DEF Account, Client, SameLease

(* dhcp_bind starts the three counts of the lease. *)
LEMMA BoundIs ==
  ASSUME NEW c \in Client
  PROVE  /\ Bound(c) \in Client /\ Bound(c).state = "BOUND" /\ Bound(c).used = 0
         /\ Bound(c).t0 = LeaseEnd(c) /\ Bound(c).renew = Ticks(c.lease \div 2)
         /\ Bound(c).lease = c.lease
<1> DEFINE d == SetState(c, "BOUND")
<1>1. d \in Client /\ d.state = "BOUND" /\ d.lease = c.lease
  BY StateIsSet DEF State
<1>2. c.lease \in Nat /\ c.t0 \in Nat
  BY DEF Client
<1>3. c.lease \div 2 \in Nat /\ Rebinding(c.lease) \in Nat
  <2>1. (c.lease * 7) % Word \in Nat
    BY <1>2, DhcpAssumption
  <2> QED BY <1>2, <2>1 DEF Rebinding
<1>4. /\ LeaseEnd(c) \in Nat /\ Ticks(c.lease \div 2) \in Nat
      /\ Ticks(Rebinding(c.lease)) \in Nat
  BY <1>2, <1>3, TicksOf DEF LeaseEnd
<1> DEFINE full == LeaseEnd(c)
           half == Ticks(c.lease \div 2)
           most == Ticks(Rebinding(c.lease))
<1>5. Bound(c) = [d EXCEPT !.used = 0, !.t0 = full, !.t2 = most, !.renew = half, !.rebind = most]
  BY DEF Bound
<1> HIDE DEF d, full, half, most
<1>6. full \in Nat /\ half \in Nat /\ most \in Nat
  BY <1>4 DEF full, half, most
<1>7. /\ Bound(c) \in Client
  <2> DEFINE d3 == [d EXCEPT !.used = 0, !.t0 = full, !.t2 = most]
             d5 == [d3 EXCEPT !.renew = half, !.rebind = most]
  <2>1. d3 \in Client
    BY <1>1, <1>6 DEF Client
  <2> HIDE DEF d3
  <2>2. d5 \in Client
    BY <2>1, <1>6 DEF Client
  <2>3. Bound(c) = d5
    BY <1>5 DEF d3
  <2> QED BY <2>2, <2>3
<1>8. /\ Bound(c).state = "BOUND" /\ Bound(c).used = 0
      /\ Bound(c).t0 = full /\ Bound(c).renew = half /\ Bound(c).lease = c.lease
  BY <1>1, <1>5 DEF Client
<1> QED BY <1>7, <1>8 DEF full, half

LEMMA ClearedIs ==
  /\ Cleared \in Client /\ Cleared.state = "OFF" /\ ~Cleared.armed /\ Cleared.t0 = 0
  /\ [Cleared EXCEPT !.pcb = TRUE] \in Client
  /\ [Cleared EXCEPT !.pcb = TRUE].state = "OFF" /\ ~[Cleared EXCEPT !.pcb = TRUE].armed
  /\ [Cleared EXCEPT !.pcb = TRUE].t0 = 0
<1>1. 0 \in 0..MaxTries
  BY DhcpAssumption
<1> QED BY <1>1 DEF Cleared, Client, State

(* A request of the server's address, or of none *)
LEMMA Asked ==
  ASSUME TypeOK, NEW c \in Client, NEW type \in {"DISCOVER", "REQUEST"},
         NEW a \in Addresses \cup {"none"}
  PROVE  Ask(type, c, a) \subseteq Request
BY DEF Ask, TypeOK, Client, Request

(* dhcp_discover *)
LEMMA DiscoveringIs ==
  ASSUME NEW c \in Client, NEW id \in Nat
  PROVE  /\ Discovering(c, id) \in Client /\ Discovering(c, id).state = "SELECTING"
         /\ SameLease(c, Discovering(c, id)) /\ Discovering(c, id).xid = id
<1> DEFINE d == SetState(c, "SELECTING")
<1>1. d \in Client /\ d.state = "SELECTING" /\ SameLease(c, d)
  BY StateIsSet DEF State
<1> HIDE DEF d
<1>2. Discovering(c, id) = [d EXCEPT !.offered = "none", !.xid = id]
  BY DEF Discovering, d
<1> QED BY <1>1, <1>2 DEF Client, SameLease

LEMMA DiscoversFrom ==
  ASSUME TypeOK, NEW c \in Client, NEW id \in Nat, DiscoverFrom(c, id)
  PROVE  /\ client' \in Client /\ client'.state = "SELECTING" /\ SameLease(c, client')
         /\ xid' \in Nat /\ requests' \subseteq Request
<1> DEFINE d == Discovering(c, id)
<1>1. d \in Client /\ d.state = "SELECTING" /\ SameLease(c, d)
  BY DiscoveringIs
<1>2. client' = Account(d) /\ xid' = id /\ requests' = Ask("DISCOVER", client', "none")
  BY DEF DiscoverFrom
<1> HIDE DEF d
<1>3. client' \in Client /\ client'.state = "SELECTING" /\ SameLease(c, client')
  BY <1>1, <1>2, Accounted DEF SameLease
<1>4. requests' \subseteq Request
  BY <1>2, <1>3, Asked
<1> QED BY <1>2, <1>3, <1>4

LEMMA Discovers ==
  ASSUME TypeOK, NEW c \in Client, Discover(c)
  PROVE  /\ client' \in Client /\ client'.state = "SELECTING" /\ SameLease(c, client')
         /\ xid' \in Nat /\ requests' \subseteq Request
<1> DEFINE id == FreshXid(SetState(c, "SELECTING"))
<1>1. id \in Nat
  BY DEF FreshXid, TypeOK
<1>2. DiscoverFrom(c, id)
  BY DEF Discover
<1> HIDE DEF id
<1> QED BY <1>1, <1>2, DiscoversFrom

(* dhcp_select *)
LEMMA Selects ==
  ASSUME TypeOK, NEW c \in Client, Select(c)
  PROVE  /\ client' \in Client /\ client'.state = "REQUESTING" /\ SameLease(c, client')
         /\ requests' \subseteq Request
<1> DEFINE d == SetState(c, "REQUESTING")
<1>1. d \in Client /\ d.state = "REQUESTING" /\ SameLease(c, d)
  BY StateIsSet DEF State
<1> HIDE DEF d
<1>2. client' = Account(d) /\ requests' = Ask("REQUEST", c, c.offered)
  BY DEF Select, d
<1>3. requests' \subseteq Request
  BY <1>2, Asked DEF Client
<1> QED BY <1>1, <1>2, <1>3, Accounted DEF SameLease

(* dhcp_check *)
LEMMA Checks ==
  ASSUME NEW c \in Client, Check(c)
  PROVE  client' \in Client /\ client'.state = "CHECKING" /\ SameLease(c, client')
<1> DEFINE d == SetState(c, "CHECKING")
<1>1. d \in Client /\ d.state = "CHECKING" /\ SameLease(c, d)
  BY StateIsSet DEF State
<1> HIDE DEF d
<1>2. client' = Account(d)
  BY DEF Check, d
<1> QED BY <1>1, <1>2, Accounted DEF SameLease

-----------------------------------------------------------------------------
(* What a handler of tcpip_thread can do to the client                      *)

(* It goes on negotiating, *)
Negotiates ==
  /\ client'.state \in {"SELECTING", "REQUESTING", "CHECKING", "BACKING_OFF"}
  /\ SameLease(client, client') /\ renewing' = renewing
  /\ address' = "none" \/ (address' = address /\ ~Supplied(client))

(* binds an address, *)
Binds ==
  /\ client'.state = "BOUND" /\ client'.used = 0
  /\ client'.renew = Ticks(client'.lease \div 2)
  /\ client'.lease # Word - 1 => client'.t0 = Ticks(client'.lease)
  /\ address' \in Addresses \cup {"none"} /\ renewing' = FALSE

(* forgets the lease and begins again, *)
Restarts ==
  client'.state = "SELECTING" /\ client'.t0 = 0 /\ address' = "none" /\ renewing' = renewing

(* does nothing that matters, *)
Rests ==
  /\ client'.state = client.state /\ SameLease(client, client')
  /\ client'.lease = client.lease
  /\ UNCHANGED <<address, renewing>>

(* or counts a minute of the lease, which may ask for a renewal.            *)
Ages ==
  /\ ~Expiring /\ address' = address
  /\ client'.t0 = client.t0
  /\ client'.used = IF client.t0 = 0 THEN client.used ELSE client.used + 1
  /\ \/ client'.state \in {"RENEWING", "REBINDING"} /\ renewing' = TRUE
     \/ /\ client'.state = client.state /\ renewing' = renewing
        /\ client'.lease = client.lease
        /\ client.state = "BOUND" =>
             /\ client.renew # 1
             /\ client'.renew = IF client.renew = 0 THEN 0 ELSE client.renew - 1

Handled ==
  /\ client' \in Client /\ client.state # "OFF" /\ client'.state # "OFF"
  /\ xid' \in Nat /\ requests' \subseteq Request /\ UNCHANGED main
  /\ Negotiates \/ Binds \/ Restarts \/ Rests \/ Ages

LEMMA BindIs ==
  ASSUME NEW c \in Client, Bind(c)
  PROVE  client' \in Client /\ Binds
<1>1. client' = Bound(c) /\ address' = c.offered /\ renewing' = FALSE
  BY DEF Bind
<1>2. c.lease \in Nat /\ c.offered \in Addresses \cup {"none"}
  BY DEF Client
<1>3. client' \in Client /\ client'.lease = c.lease /\ client'.t0 = LeaseEnd(c)
  BY <1>1, BoundIs
<1> QED BY <1>1, <1>2, <1>3, BoundIs DEF Binds, LeaseEnd

LEMMA RestartIs ==
  ASSUME TypeOK, Restart
  PROVE  /\ client' \in Client /\ client'.state = "SELECTING" /\ client'.t0 = 0 /\ address' = "none"
         /\ xid' \in Nat /\ requests' \subseteq Request
<1> DEFINE c == [Cleared EXCEPT !.pcb = TRUE]
           id == (IF Supplied(client) THEN FreshXid(client) ELSE xid) + 1
<1>1. c \in Client /\ c.t0 = 0
  BY ClearedIs
<1>2. id \in Nat
  BY DEF FreshXid, TypeOK
<1>3. DiscoverFrom(c, id) /\ address' = "none"
  BY DEF Restart
<1> HIDE DEF c, id
<1> QED BY <1>1, <1>2, <1>3, DiscoversFrom DEF SameLease

LEMMA OfferHandled ==
  ASSUME TypeOK, NEW m \in requests, Offer(m)
  PROVE  Handled
<1>1. PICK a \in Addresses : Select([client EXCEPT !.armed = FALSE, !.offered = a])
  BY DEF Offer
<1> DEFINE c == [client EXCEPT !.armed = FALSE, !.offered = a]
<1>2. c \in Client /\ SameLease(client, c)
  BY DEF TypeOK, Client, SameLease
<1>3. /\ client.state = "SELECTING"
      /\ UNCHANGED <<main, address, xid, renewing>>
  BY DEF Offer
<1>4. Select(c)
  BY <1>1
<1> HIDE DEF c
<1>5. client' \in Client /\ client'.state = "REQUESTING" /\ SameLease(c, client')
      /\ requests' \subseteq Request
  BY <1>2, <1>4, Selects
<1>6. Negotiates
  BY <1>2, <1>3, <1>5 DEF Negotiates, SameLease, Supplied
<1> QED BY <1>3, <1>5, <1>6 DEF Handled, TypeOK, main

LEMMA AckHandled ==
  ASSUME TypeOK, NEW m \in requests, Ack(m)
  PROVE  Handled
<1>1. UNCHANGED <<main, xid, requests>> /\ requests \subseteq Request /\ xid \in Nat
  BY DEF Ack, TypeOK
<1>2. m.address \in Addresses \cup {"none"}
  BY DEF TypeOK, Request
<1>5. Leases \subseteq Nat
  BY DhcpAssumption
<1>3. CASE client.state = "REQUESTING"
  <2>1. PICK s \in Leases : Check([client EXCEPT !.lease = s, !.offered = m.address])
    BY <1>3 DEF Ack
  <2>2. UNCHANGED <<address, renewing>>
    BY <1>3 DEF Ack
  <2> DEFINE c == [client EXCEPT !.lease = s, !.offered = m.address]
  <2>3. c \in Client /\ SameLease(client, c)
    BY <1>2, <1>5 DEF TypeOK, Client, SameLease
  <2>4. Check(c)
    BY <2>1
  <2> HIDE DEF c
  <2>5. client' \in Client /\ client'.state = "CHECKING" /\ SameLease(c, client')
    BY <2>3, <2>4, Checks
  <2>6. Negotiates
    BY <1>3, <2>2, <2>3, <2>5 DEF Negotiates, SameLease, Supplied
  <2> QED BY <1>1, <1>3, <2>5, <2>6 DEF Handled
<1>4. CASE client.state \in {"RENEWING", "REBINDING"}
  <2>1. PICK s \in Leases : Bind([client EXCEPT !.lease = s, !.offered = m.address])
    BY <1>4 DEF Ack, Granted
  <2> DEFINE c == [client EXCEPT !.lease = s, !.offered = m.address]
  <2>2. c \in Client
    BY <1>2, <1>5 DEF TypeOK, Client
  <2>3. Bind(c)
    BY <2>1
  <2> HIDE DEF c
  <2>4. client' \in Client /\ Binds
    BY <2>2, <2>3, BindIs
  <2> QED BY <1>1, <1>4, <2>4 DEF Handled, Binds
<1> QED BY <1>3, <1>4 DEF Ack

LEMMA NakHandled ==
  ASSUME TypeOK, NEW m \in requests, Nak(m)
  PROVE  Handled
<1>1. /\ UNCHANGED <<main, renewing>> /\ address' = "none"
      /\ client.state \in {"REQUESTING", "RENEWING", "REBINDING"}
  BY DEF Nak
<1> DEFINE c == SetState(client, "BACKING_OFF")
<1>2. c \in Client /\ SameLease(client, c)
  BY StateIsSet DEF TypeOK, Client, State
<1>3. Discover(c)
  BY DEF Nak
<1> HIDE DEF c
<1>4. /\ client' \in Client /\ client'.state = "SELECTING" /\ SameLease(c, client')
      /\ xid' \in Nat /\ requests' \subseteq Request
  BY <1>2, <1>3, Discovers
<1>5. Negotiates
  BY <1>1, <1>2, <1>4 DEF Negotiates, SameLease
<1> QED BY <1>1, <1>4, <1>5 DEF Handled

LEMMA DeclineHandled ==
  ASSUME TypeOK, Decline
  PROVE  Handled
<1>1. /\ UNCHANGED <<main, address, requests, renewing>> /\ client.state = "CHECKING"
      /\ xid' = xid + 1 /\ xid \in Nat /\ requests \subseteq Request
  BY DEF Decline, TypeOK
<1> DEFINE d == SetState(client, "BACKING_OFF")
           e == [d EXCEPT !.xid = xid + 1]
<1>2. d \in Client /\ d.state = "BACKING_OFF" /\ SameLease(client, d)
  BY StateIsSet DEF TypeOK, Client, State
<1>3. client' = Account(e)
  BY DEF Decline
<1> HIDE DEF d
<1>4. e \in Client /\ e.state = "BACKING_OFF" /\ SameLease(client, e)
  BY <1>1, <1>2 DEF Client, SameLease
<1> HIDE DEF e
<1>5. client' \in Client /\ client'.state = "BACKING_OFF" /\ SameLease(client, client')
  BY <1>3, <1>4, Accounted DEF SameLease
<1>6. Negotiates
  BY <1>1, <1>5 DEF Negotiates, Supplied
<1> QED BY <1>1, <1>5, <1>6 DEF Handled

LEMMA FineTimerHandled ==
  ASSUME TypeOK, Place, FineTimer
  PROVE  Handled
<1> DEFINE c == [client EXCEPT !.armed = FALSE]
<1>1. /\ c \in Client /\ SameLease(client, c) /\ c.state = client.state
      /\ c.tries = client.tries /\ client.tries \in Nat
  <2>1. /\ c \in Client /\ SameLease(client, c) /\ c.state = client.state
        /\ c.tries = client.tries
    BY DEF TypeOK, Client, SameLease
  <2>2. client.tries \in 0..MaxTries /\ MaxTries \in Nat
    BY DhcpAssumption DEF TypeOK
  <2> QED BY <2>1, <2>2
<1>2. /\ client.state # "OFF" /\ client.state \in State /\ UNCHANGED main
      /\ xid \in Nat /\ requests \subseteq Request
  BY DEF FineTimer, Place, TypeOK
<1>9. c.lease = client.lease
  BY DEF TypeOK, Client
<1>3. CASE client.state \in {"BACKING_OFF", "SELECTING"}
  <2>1. Discover(c) /\ UNCHANGED <<address, renewing>>
    BY <1>1, <1>3 DEF FineTimer
  <2> HIDE DEF c
  <2>2. /\ client' \in Client /\ client'.state = "SELECTING" /\ SameLease(c, client')
        /\ xid' \in Nat /\ requests' \subseteq Request
    BY <1>1, <2>1, Discovers
  <2>3. Negotiates
    BY <1>1, <1>3, <2>1, <2>2 DEF Negotiates, SameLease, Supplied
  <2> QED BY <1>2, <2>2, <2>3 DEF Handled
<1>4. CASE client.state = "REQUESTING" /\ client.tries <= 5
  <2>1. Select(c) /\ UNCHANGED <<address, xid, renewing>>
    BY <1>1, <1>4 DEF FineTimer
  <2> HIDE DEF c
  <2>2. /\ client' \in Client /\ client'.state = "REQUESTING" /\ SameLease(c, client')
        /\ requests' \subseteq Request
    BY <1>1, <2>1, Selects
  <2>3. Negotiates
    BY <1>1, <1>4, <2>1, <2>2 DEF Negotiates, SameLease, Supplied
  <2> QED BY <1>2, <2>1, <2>2, <2>3 DEF Handled
<1>5. CASE client.state = "REQUESTING" /\ ~(client.tries <= 5)
  <2>1. client.tries > 5
    BY <1>5, DhcpAssumption DEF TypeOK
  <2>2. Restart /\ renewing' = renewing
    BY <1>1, <1>5, <2>1 DEF FineTimer
  <2>3. /\ client' \in Client /\ client'.state = "SELECTING" /\ Restarts
        /\ xid' \in Nat /\ requests' \subseteq Request
    BY <2>2, RestartIs DEF Restarts
  <2> QED BY <1>2, <2>3 DEF Handled
<1>6. CASE client.state = "CHECKING" /\ client.tries <= 1
  <2>1. Check(c) /\ UNCHANGED <<address, xid, requests, renewing>>
    BY <1>1, <1>6 DEF FineTimer
  <2> HIDE DEF c
  <2>2. client' \in Client /\ client'.state = "CHECKING" /\ SameLease(c, client')
    BY <1>1, <2>1, Checks
  <2>3. Negotiates
    BY <1>1, <1>6, <2>1, <2>2 DEF Negotiates, SameLease, Supplied
  <2> QED BY <1>2, <2>1, <2>2, <2>3 DEF Handled
<1>7. CASE client.state = "CHECKING" /\ ~(client.tries <= 1)
  <2>1. client.tries > 1
    BY <1>7, DhcpAssumption DEF TypeOK
  <2>2. Bind(c) /\ UNCHANGED <<xid, requests>>
    BY <1>1, <1>7, <2>1 DEF FineTimer
  <2> HIDE DEF c
  <2>3. client' \in Client /\ Binds
    BY <1>1, <2>2, BindIs
  <2> QED BY <1>2, <2>2, <2>3 DEF Handled, Binds
<1>8. CASE client.state \in {"BOUND", "RENEWING", "REBINDING"}
  <2>1. client' = c /\ UNCHANGED <<address, xid, requests, renewing>>
    BY <1>1, <1>8 DEF FineTimer
  <2> HIDE DEF c
  <2>2. Rests
    BY <1>1, <1>9, <2>1 DEF Rests
  <2> QED BY <1>1, <1>2, <2>1, <2>2 DEF Handled
<1> QED BY <1>2, <1>3, <1>4, <1>5, <1>6, <1>7, <1>8 DEF State

(* The two counts that dhcp_coarse_tmr takes down *)
LEMMA AgainIs ==
  ASSUME NEW limit \in Nat, NEW used \in Nat
  PROVE  Again(limit, used, 0) \in Nat
BY DEF Again

LEMMA CoarseTimerHandled ==
  ASSUME TypeOK, Place, Lasting, CoarseTimer
  PROVE  Handled
<1> DEFINE used == IF client.t0 = 0 THEN client.used ELSE client.used + 1
           rebind == IF client.rebind = 0 THEN 0 ELSE client.rebind - 1
           renew == IF client.renew = 0 THEN 0 ELSE client.renew - 1
           tick == [client EXCEPT !.used = used, !.rebind = rebind]
           both == [tick EXCEPT !.renew = IF @ = 0 THEN 0 ELSE @ - 1]
<1>1. client \in Client /\ client.used \in Nat /\ client.renew \in Nat /\ client.rebind \in Nat
  BY DEF TypeOK, Client
<1>2. used \in Nat /\ rebind \in Nat /\ renew \in Nat
  BY <1>1
<1>3. /\ client.state # "OFF" /\ client.state \in State /\ UNCHANGED main
      /\ xid \in Nat /\ requests \subseteq Request
      /\ address \in Addresses \cup {"none"}
  <2>1. client.state # "OFF" /\ UNCHANGED main
    BY DEF CoarseTimer
  <2>2. address # "static"
    BY <2>1 DEF Place, Silent
  <2> QED BY <2>1, <2>2 DEF TypeOK
<1>4. CASE Expiring
  <2>1. Restart /\ renewing' = renewing
    BY <1>4 DEF CoarseTimer
  <2>2. /\ client' \in Client /\ client'.state = "SELECTING" /\ Restarts
        /\ xid' \in Nat /\ requests' \subseteq Request
    BY <2>1, RestartIs DEF Restarts
  <2> QED BY <1>3, <2>2 DEF Handled
<1>5. CASE ~Expiring
  <2>1. /\ tick \in Client /\ tick.state = client.state /\ tick.t0 = client.t0 /\ tick.used = used
        /\ tick.renew = client.renew /\ tick.lease = client.lease
    BY <1>1, <1>2 DEF Client
  <2>2. /\ both \in Client /\ both.state = client.state /\ both.t0 = client.t0 /\ both.used = used
        /\ both.renew = renew /\ both.lease = client.lease
    <3> DEFINE b == [tick EXCEPT !.renew = renew]
    <3>1. both = b
      BY <2>1
    <3> HIDE DEF tick, renew
    <3>2. /\ b \in Client /\ b.state = tick.state /\ b.t0 = tick.t0 /\ b.used = tick.used
          /\ b.renew = renew /\ b.lease = tick.lease
      BY <1>2, <2>1 DEF Client
    <3> QED BY <2>1, <3>1, <3>2
  <2> DEFINE early == client.rebind = 1 /\ client.state \in {"REQUESTING", "BOUND", "RENEWING", "REBINDING"}
             late == /\ client.rebind # 1 /\ client.renew = 1
                     /\ client.state \in {"REQUESTING", "BOUND", "RENEWING"}
  <2>3. CASE early
    <3>1. /\ client' = [Account(SetState(tick, "REBINDING")) EXCEPT !.rebind = Again(tick.t0, used, 0)]
          /\ requests' = Ask("REQUEST", tick, address) /\ renewing' = TRUE
          /\ UNCHANGED <<address, xid>>
      BY <1>5, <2>3 DEF CoarseTimer
    <3> DEFINE d == SetState(tick, "REBINDING")
               e == Account(d)
               n == Again(tick.t0, used, 0)
    <3> HIDE DEF tick, used
    <3>2. d \in Client /\ d.state = "REBINDING" /\ SameLease(tick, d)
      BY <2>1, StateIsSet DEF State
    <3> HIDE DEF d
    <3>3. e \in Client /\ e.state = "REBINDING" /\ SameLease(tick, e)
      BY <3>2, Accounted DEF SameLease
    <3>4. n \in Nat
      BY <1>2, <2>1, AgainIs DEF Client
    <3>5. client' = [e EXCEPT !.rebind = n]
      BY <3>1 DEF d
    <3> HIDE DEF e, n
    <3>6. client' \in Client /\ client'.state = "REBINDING" /\ SameLease(tick, client')
      BY <3>3, <3>4, <3>5 DEF Client, SameLease
    <3>7. requests' \subseteq Request
      BY <1>3, <2>1, <3>1, Asked
    <3>8. Ages
      BY <1>5, <2>1, <3>1, <3>6 DEF Ages, SameLease, used
    <3> QED BY <1>3, <3>1, <3>6, <3>7, <3>8 DEF Handled
  <2>4. CASE late
    <3>1. /\ client' = [Account(SetState(both, "RENEWING")) EXCEPT !.renew = Again(both.t2, used, 0)]
          /\ requests' = Ask("REQUEST", both, address) /\ renewing' = TRUE
          /\ UNCHANGED <<address, xid>>
      <4>1. both.state \in {"REQUESTING", "BOUND", "RENEWING"} \cup {}
        BY <2>2, <2>4
      <4>2. client.rebind # 1 /\ client.renew = 1
        BY <2>4
      <4> QED BY <1>5, <4>1, <4>2 DEF CoarseTimer
    <3> DEFINE d == SetState(both, "RENEWING")
               e == Account(d)
               n == Again(both.t2, used, 0)
    <3> HIDE DEF both, used
    <3>2. d \in Client /\ d.state = "RENEWING" /\ SameLease(both, d)
      BY <2>2, StateIsSet DEF State
    <3> HIDE DEF d
    <3>3. e \in Client /\ e.state = "RENEWING" /\ SameLease(both, e)
      BY <3>2, Accounted DEF SameLease
    <3>4. n \in Nat
      BY <1>2, <2>2, AgainIs DEF Client
    <3>5. client' = [e EXCEPT !.renew = n]
      BY <3>1 DEF d
    <3> HIDE DEF e, n
    <3>6. /\ client' \in Client /\ client'.state = "RENEWING"
          /\ client'.t0 = both.t0 /\ client'.used = both.used
      BY <3>3, <3>4, <3>5 DEF Client, SameLease
    <3>7. requests' \subseteq Request
      BY <1>3, <2>2, <3>1, Asked
    <3>8. Ages
      BY <1>5, <2>2, <3>1, <3>6 DEF Ages, used
    <3> QED BY <1>3, <3>1, <3>6, <3>7, <3>8 DEF Handled
  <2>5. CASE ~early /\ ~late
    <3>1. /\ client' = IF client.rebind = 1 THEN tick ELSE both
          /\ UNCHANGED <<address, xid, requests, renewing>>
      BY <1>5, <2>5 DEF CoarseTimer
    <3>2. client' \in Client /\ client'.state = client.state /\ client'.t0 = client.t0
          /\ client'.used = used /\ client'.lease = client.lease
      BY <2>1, <2>2, <3>1
    <3>3. ASSUME client.state = "BOUND"
          PROVE  client.renew # 1 /\ client'.renew = renew
      <4>1. client.rebind # 1 /\ client.renew # 1
        BY <2>5, <3>3
      <4> QED BY <2>2, <3>1, <4>1
    <3>4. Ages
      BY <1>5, <3>1, <3>2, <3>3 DEF Ages
    <3> QED BY <1>3, <3>1, <3>2, <3>4 DEF Handled
  <2> QED BY <2>3, <2>4, <2>5
<1> QED BY <1>4, <1>5

LEMMA TcpipHandled ==
  ASSUME TypeOK, Place, Lasting, Tcpip
  PROVE  Handled
BY OfferHandled, AckHandled, NakHandled, DeclineHandled, FineTimerHandled, CoarseTimerHandled
   DEF Tcpip

(* The counts are numbers. *)
LEMMA Counts ==
  TypeOK => /\ client \in Client
            /\ client.used \in Nat /\ client.t0 \in Nat /\ client.renew \in Nat
BY DEF TypeOK, Client

LEMMA HandledKeeps ==
  ASSUME DhcpInv, Handled
  PROVE  DhcpInv'
<1>1. /\ client' \in Client /\ client.state # "OFF" /\ client'.state # "OFF"
      /\ xid' \in Nat /\ requests' \subseteq Request /\ pc' = pc /\ count' = count
      /\ gateway' = gateway
  BY DEF Handled, main
<1>2. TypeOK /\ Place /\ AddressIsLeased /\ Lasting /\ Timely
  BY DEF DhcpInv
<1>3. /\ client \in Client /\ client.used \in Nat /\ client.t0 \in Nat /\ client.renew \in Nat
      /\ client'.used \in Nat /\ client'.t0 \in Nat /\ client'.renew \in Nat
  <2>1. client \in Client
    BY <1>2, Counts
  <2> QED BY <1>1, <2>1 DEF Client
<1>4. "none" \notin Addresses /\ "static" \notin Addresses /\ "static" # "none"
  BY DhcpAssumption
<1>5. address \in Addresses \cup {"none"}
  BY <1>1, <1>2 DEF Place, Silent, TypeOK
<1>6. address' \in Addresses \cup {"none"} /\ renewing' \in BOOLEAN
  <2>1. renewing \in BOOLEAN
    BY <1>2 DEF TypeOK
  <2> QED BY <1>5, <2>1 DEF Handled, Negotiates, Binds, Restarts, Rests, Ages
<1>7. TypeOK'
  BY <1>1, <1>2, <1>6 DEF TypeOK, Client
<1>8. Place'
  BY <1>1, <1>2, <1>4, <1>6 DEF Place, Silent
<1>9. AddressIsLeased'
  <2>1. CASE Stopping
    BY <1>1, <2>1 DEF AddressIsLeased, Stopping
  <2>2. CASE ~Stopping
    <3>1. address \in Addresses => Supplied(client)
      BY <1>2, <2>2 DEF AddressIsLeased
    <3> QED BY <1>4, <3>1 DEF Handled, Negotiates, Binds, Restarts, Rests, Ages,
                              AddressIsLeased, Supplied
  <2> QED BY <2>1, <2>2
<1>10. CASE Negotiates
  <2>1. SameLease(client, client') /\ ~Supplied(client')
    BY <1>10 DEF Negotiates, Supplied
  <2> QED BY <1>2, <1>7, <1>8, <1>9, <2>1 DEF DhcpInv, Lasting, Timely, SameLease
<1>11. CASE Binds
  <2>1. client'.used = 0 /\ client'.state = "BOUND" /\ client'.lease \in Nat
    BY <1>1, <1>11 DEF Binds, Client
  <2>2. client'.renew = Ticks(client'.lease \div 2) /\ client'.lease \div 2 \in Nat
    BY <1>11, <2>1 DEF Binds
  <2>3. client'.renew > 0
    BY <2>2, TicksOf
  <2>4. Renewable(client'.lease) => client'.used + client'.renew < client'.t0
    BY <1>3, <1>11, <2>1, <2>2, RenewalCounted DEF Binds
  <2>5. Lasting' /\ Timely'
    BY <1>3, <2>1, <2>3, <2>4 DEF Lasting, Timely
  <2> QED BY <1>7, <1>8, <1>9, <2>5 DEF DhcpInv
<1>12. CASE Restarts
  <2>1. client'.t0 = 0 /\ ~Supplied(client')
    BY <1>12 DEF Restarts, Supplied
  <2> QED BY <1>7, <1>8, <1>9, <2>1 DEF DhcpInv, Lasting, Timely
<1>13. CASE Rests
  <2>1. /\ SameLease(client, client') /\ client'.state = client.state /\ renewing' = renewing
        /\ client'.lease = client.lease
    BY <1>13 DEF Rests
  <2>2. Lasting' /\ Timely'
    BY <1>2, <2>1 DEF Lasting, Timely, SameLease, Supplied
  <2> QED BY <1>7, <1>8, <1>9, <2>2 DEF DhcpInv
<1>14. CASE Ages
  <2>1. /\ ~Expiring /\ client'.t0 = client.t0
        /\ client'.used = IF client.t0 = 0 THEN client.used ELSE client.used + 1
    BY <1>14 DEF Ages
  <2>2. client.t0 # 0 => client.used + 1 < client.t0
    BY <1>2, <1>3, <2>1 DEF Expiring, Lasting
  <2>3. Lasting'
    BY <1>3, <2>1, <2>2 DEF Lasting
  <2>4. Timely'
    <3> SUFFICES ASSUME Supplied(client'), ~renewing'
                 PROVE  /\ client'.state = "BOUND"
                        /\ Renewable(client'.lease) => /\ client'.renew > 0
                                                       /\ client'.used + client'.renew < client'.t0
      BY DEF Timely
    <3>1. client'.state = client.state /\ ~renewing /\ client'.lease = client.lease
      BY <1>14 DEF Ages
    <3>2. client.state = "BOUND"
          /\ (Renewable(client.lease) => client.renew > 0 /\ client.used + client.renew < client.t0)
      BY <1>2, <3>1 DEF Timely, Supplied
    <3>3. /\ client.renew # 1
          /\ client'.renew = IF client.renew = 0 THEN 0 ELSE client.renew - 1
      BY <1>14, <3>2 DEF Ages
    <3> QED BY <1>3, <2>1, <3>1, <3>2, <3>3
  <2> QED BY <1>7, <1>8, <1>9, <2>3, <2>4 DEF DhcpInv
<1> QED BY <1>10, <1>11, <1>12, <1>13, <1>14 DEF Handled

-----------------------------------------------------------------------------
(* DHCP_Request                                                             *)

(* A step that changes nothing of the lease *)
Leaves ==
  /\ client' \in Client /\ SameLease(client, client') /\ client'.state = client.state
  /\ client'.lease = client.lease /\ renewing' = renewing

LEMMA LeavesLease ==
  ASSUME DhcpInv, Leaves
  PROVE  Lasting' /\ Timely'
BY DEF DhcpInv, Leaves, Lasting, Timely, SameLease, Supplied

LEMMA StartKeeps ==
  ASSUME DhcpInv, Start \/ StartDiscover \/ StartAccount
  PROVE  DhcpInv'
<1>1. TypeOK /\ Place /\ AddressIsLeased /\ Lasting /\ Timely /\ client \in Client
  BY Counts DEF DhcpInv
<1>2. CASE Start
  <2>1. /\ pc = "start" /\ pc' \in {"discover", "poll"} /\ ~Supplied(client)
        /\ Attempts = 0 => pc' = "poll"
        /\ UNCHANGED <<count, gateway, address, xid, requests, renewing>>
    BY <1>1, <1>2 DEF Start, Step, Place, Silent, Supplied
  <2>2. /\ client' \in Client /\ client'.state = "OFF" /\ ~client'.armed
        /\ client'.t0 = 0 \/ SameLease(client, client')
    BY <1>1, <1>2, <2>1, ClearedIs DEF Start, Place, Silent, SameLease
  <2>3. ~Supplied(client') /\ "none" \notin Addresses
    BY <2>2, DhcpAssumption DEF Supplied
  <2>4. TypeOK'
    BY <1>1, <2>1, <2>2 DEF TypeOK, Client
  <2>5. Place' /\ AddressIsLeased'
    BY <1>1, <2>1, <2>2, <2>3 DEF Place, Silent, AddressIsLeased
  <2>6. Lasting' /\ Timely'
    BY <1>1, <2>2, <2>3 DEF Lasting, Timely, SameLease
  <2> QED BY <2>4, <2>5, <2>6 DEF DhcpInv
<1>3. CASE StartDiscover
  <2>1. /\ pc = "discover" /\ pc' = "account" /\ xid' = xid + 1 /\ xid \in Nat
        /\ client' = Discovering(client, xid + 1)
        /\ requests' = Ask("DISCOVER", client', "none")
        /\ UNCHANGED <<count, gateway, address, renewing>>
    BY <1>1, <1>3 DEF StartDiscover, Step, TypeOK
  <2>2. /\ client' \in Client /\ client'.state = "SELECTING" /\ SameLease(client, client')
    BY <1>1, <2>1, DiscoveringIs
  <2>3. requests' \subseteq Request
    BY <1>1, <2>1, <2>2, Asked
  <2>4. ~Supplied(client') /\ address = "none" /\ "none" \notin Addresses
    BY <1>1, <2>1, <2>2, DhcpAssumption DEF Supplied, Place
  <2>5. TypeOK'
    BY <1>1, <2>1, <2>2, <2>3 DEF TypeOK, Client
  <2>6. Place' /\ AddressIsLeased'
    BY <1>1, <2>1, <2>2, <2>4 DEF Place, Silent, AddressIsLeased
  <2>7. Lasting' /\ Timely'
    BY <1>1, <2>2, <2>4 DEF Lasting, Timely, SameLease
  <2> QED BY <2>5, <2>6, <2>7 DEF DhcpInv
<1>4. CASE StartAccount
  <2>1. /\ pc = "account" /\ pc' = "poll" /\ client' = Account(client)
        /\ UNCHANGED <<count, gateway, address, xid, requests, renewing>>
    BY <1>4 DEF StartAccount, Step
  <2>2. client' \in Client /\ client'.state = client.state /\ SameLease(client, client')
        /\ client'.lease = client.lease
    BY <1>1, <2>1, Accounted
  <2>3. TypeOK'
    BY <1>1, <2>1, <2>2 DEF TypeOK, Client
  <2>4. Place' /\ AddressIsLeased'
    BY <1>1, <2>1, <2>2 DEF Place, Silent, AddressIsLeased, Supplied, Stopping
  <2>5. Lasting' /\ Timely'
    BY <2>1, <2>2, LeavesLease DEF Leaves
  <2> QED BY <2>3, <2>4, <2>5 DEF DhcpInv
<1> QED BY <1>2, <1>3, <1>4

LEMMA PollKeeps ==
  ASSUME DhcpInv, Succeed \/ Poll \/ Report
  PROVE  DhcpInv'
<1>1. TypeOK /\ Place /\ AddressIsLeased /\ client \in Client
  BY Counts DEF DhcpInv
<1>2. UNCHANGED <<client, address, xid, requests, renewing>>
  BY DEF Succeed, Poll, Report
<1>3. /\ pc \in {"poll", "report"} /\ pc' \in {"poll", "report", "done"}
      /\ pc = "report" => pc' = "done"
  BY DEF Succeed, Poll, Report, Step
<1>4. count' \in 0..Attempts
  BY <1>1, DhcpAssumption DEF TypeOK, Succeed, Poll, Report
<1>5. gateway' \in {gateway, address}
  BY DEF Succeed, Poll, Report
<1>6. TypeOK'
  BY <1>1, <1>2, <1>3, <1>4, <1>5 DEF TypeOK
<1>7. Place' /\ AddressIsLeased'
  BY <1>1, <1>2, <1>3 DEF Place, Silent, AddressIsLeased, Stopping
<1>8. Lasting' /\ Timely'
  BY <1>1, <1>2, LeavesLease DEF Leaves, SameLease
<1> QED BY <1>6, <1>7, <1>8 DEF DhcpInv

LEMMA GiveUpKeeps ==
  ASSUME DhcpInv, GiveUp
  PROVE  DhcpInv'
<1>1. TypeOK /\ Place /\ AddressIsLeased /\ client \in Client
  BY Counts DEF DhcpInv
<1>2. /\ pc = "poll" /\ ~Supplied(client) /\ pc' \in {"stop", "static"}
      /\ pc' = "static" => Attempts = 0
      /\ UNCHANGED <<count, gateway, client, address, xid, requests, renewing>>
  BY DhcpAssumption DEF GiveUp, Step
<1>3. TypeOK' /\ Place'
  BY <1>1, <1>2 DEF TypeOK, Place, Silent
<1>4. AddressIsLeased'
  BY <1>1, <1>2 DEF AddressIsLeased, Stopping, Supplied
<1>5. Lasting' /\ Timely'
  BY <1>1, <1>2, LeavesLease DEF Leaves, SameLease
<1> QED BY <1>3, <1>4, <1>5 DEF DhcpInv

LEMMA DhcpStopKeeps ==
  ASSUME DhcpInv, Stop
  PROVE  DhcpInv'
<1>1. TypeOK /\ Place /\ AddressIsLeased /\ Lasting /\ Timely /\ client \in Client
  BY Counts DEF DhcpInv
<1>2. /\ pc = "stop" /\ pc' \in {"release", "static"}
      /\ pc' = "release" <=> client.state # "OFF"
      /\ UNCHANGED <<count, gateway, address, xid, requests, renewing>>
  BY DEF Stop, Step
<1>3. /\ client' \in Client /\ client'.state = client.state /\ client'.armed = client.armed
      /\ \/ client'.t0 = 0 /\ client'.lease = 0
         \/ SameLease(client, client') /\ client'.lease = client.lease
  <2>1. CASE pc' = "release"
    <3> DEFINE d == [client EXCEPT !.offered = "none", !.lease = 0, !.used = 0]
               e == [d EXCEPT !.t0 = 0, !.renew = 0, !.rebind = 0]
    <3>1. d \in Client /\ d.state = client.state /\ d.armed = client.armed /\ d.lease = 0
      BY <1>1 DEF Client
    <3>2. client' = e
      BY <2>1 DEF Stop
    <3> HIDE DEF d
    <3>3. e \in Client /\ e.state = d.state /\ e.armed = d.armed /\ e.t0 = 0 /\ e.lease = 0
      BY <3>1 DEF Client
    <3> QED BY <3>1, <3>2, <3>3
  <2>2. CASE pc' # "release"
    BY <1>1, <2>2 DEF Stop, SameLease
  <2> QED BY <2>1, <2>2
<1>4. pc' = "static" => Silent
  BY <1>1, <1>2 DEF Place, Silent
<1>5. TypeOK'
  BY <1>1, <1>2, <1>3 DEF TypeOK, Client
<1>6. Place'
  BY <1>1, <1>2, <1>3, <1>4 DEF Place, Silent
<1>7. AddressIsLeased'
  BY <1>1, <1>2 DEF AddressIsLeased, Stopping
<1>8. Lasting'
  BY <1>1, <1>3 DEF Lasting, SameLease
<1>9. Timely'
  BY <1>1, <1>2, <1>3 DEF Timely, SameLease, Supplied, Renewable
<1> QED BY <1>5, <1>6, <1>7, <1>8, <1>9 DEF DhcpInv

LEMMA StopKeeps ==
  ASSUME DhcpInv, StopRelease \/ StopUnset \/ StopOff \/ StopFree
  PROVE  DhcpInv'
<1>1. TypeOK /\ Place /\ Lasting /\ Timely /\ client \in Client
  BY Counts DEF DhcpInv
<1>2. UNCHANGED <<count, gateway, requests, renewing>>
  BY DEF StopRelease, StopUnset, StopOff, StopFree
<1>3. /\ pc \in {"release", "unset", "off", "free"}
      /\ pc' \in {"unset", "off", "free", "static"} /\ Stopping'
  BY DEF StopRelease, StopUnset, StopOff, StopFree, Step, Stopping
<1>4. address' \in {address, "none"}
  BY DEF StopRelease, StopUnset, StopOff, StopFree
<1>5. /\ client' \in Client /\ SameLease(client, client') /\ xid' \in Nat
      /\ client'.lease = client.lease
      /\ IF pc' \in {"free", "static"} THEN Silent' ELSE client'.state # "OFF"
      /\ client'.state \in {client.state, "OFF"}
  <2>1. CASE StopRelease
    <3>1. /\ pc = "release" /\ pc' = "unset" /\ xid \in Nat
          /\ \/ UNCHANGED <<client, xid>>
             \/ client' = [client EXCEPT !.xid = FreshXid(client)] /\ xid' = client'.xid
      BY <1>1, <2>1 DEF StopRelease, Step, TypeOK
    <3>2. FreshXid(client) \in Nat
      BY <3>1 DEF FreshXid
    <3>3. client' \in Client /\ SameLease(client, client') /\ xid' \in Nat
          /\ client'.state = client.state /\ client'.lease = client.lease
      BY <1>1, <3>1, <3>2 DEF Client, SameLease
    <3> QED BY <1>1, <3>1, <3>3 DEF Place
  <2>2. CASE StopUnset
    BY <1>1, <2>2 DEF StopUnset, Step, SameLease, Place, TypeOK
  <2>3. CASE StopOff
    <3>1. pc = "off" /\ pc' = "free" /\ client' = SetState(client, "OFF") /\ xid' = xid
      BY <2>3 DEF StopOff, Step
    <3>2. client.state # "OFF"
      BY <1>1, <3>1 DEF Place
    <3>3. client' \in Client /\ SameLease(client, client') /\ client'.state = "OFF" /\ ~client'.armed
          /\ client'.lease = client.lease
      BY <1>1, <3>1, <3>2, StateIsSet DEF State
    <3> QED BY <1>1, <3>1, <3>3 DEF Silent, TypeOK
  <2>4. CASE StopFree
    <3>1. /\ pc = "free" /\ pc' = "static" /\ client' = [client EXCEPT !.pcb = FALSE]
          /\ xid' = xid /\ Silent
      BY <1>1, <2>4 DEF StopFree, Step, Place
    <3>2. client' \in Client /\ SameLease(client, client') /\ client'.state = client.state
          /\ client'.armed = client.armed /\ client'.lease = client.lease
      BY <1>1, <3>1 DEF Client, SameLease
    <3> QED BY <1>1, <3>1, <3>2 DEF Silent, TypeOK
  <2> QED BY <2>1, <2>2, <2>3, <2>4
<1>6. "none" # "static" /\ address # "static" /\ (Attempts = 0 => pc' = "static")
  BY <1>1, <1>3 DEF Place, Silent, StopRelease, StopUnset, StopOff, StopFree, Step
<1>7. TypeOK'
  BY <1>1, <1>2, <1>3, <1>4, <1>5 DEF TypeOK, Client
<1>8. Place'
  BY <1>3, <1>4, <1>5, <1>6 DEF Place, Silent
<1>9. Lasting' /\ Timely'
  BY <1>1, <1>2, <1>5 DEF Lasting, Timely, SameLease, Supplied
<1> QED BY <1>3, <1>7, <1>8, <1>9 DEF DhcpInv, AddressIsLeased

LEMMA StaticKeeps ==
  ASSUME DhcpInv, Static
  PROVE  DhcpInv'
<1>1. TypeOK /\ Place /\ Lasting /\ Timely /\ client \in Client
  BY Counts DEF DhcpInv
<1>2. /\ pc = "static" /\ pc' = "report" /\ address' = "static"
      /\ UNCHANGED <<count, gateway, client, xid, requests, renewing>>
  BY DEF Static, Step
<1>3. TypeOK' /\ Place' /\ AddressIsLeased'
  BY <1>1, <1>2, DhcpAssumption DEF TypeOK, Place, Silent, AddressIsLeased
<1>4. Lasting' /\ Timely'
  BY <1>1, <1>2, LeavesLease DEF Leaves, SameLease
<1> QED BY <1>3, <1>4 DEF DhcpInv

LEMMA Begin == Init => DhcpInv
<1> SUFFICES ASSUME Init PROVE DhcpInv
  OBVIOUS
<1>1. client \in Client /\ client.state = "OFF" /\ ~client.armed /\ client.t0 = 0
  BY ClearedIs DEF Init
<1>2. 0 \in 0..Attempts /\ "none" \notin Addresses
  BY DhcpAssumption
<1>3. TypeOK
  BY <1>1, <1>2 DEF Init, TypeOK, Client
<1>4. Place /\ AddressIsLeased
  BY <1>1, <1>2 DEF Init, Place, Silent, AddressIsLeased
<1>5. Lasting /\ Timely
  BY <1>1 DEF Lasting, Timely, Supplied
<1> QED BY <1>3, <1>4, <1>5 DEF DhcpInv

LEMMA Continue == DhcpInv /\ [Next]_vars => DhcpInv'
<1> SUFFICES ASSUME DhcpInv, [Next]_vars PROVE DhcpInv'
  OBVIOUS
<1>1. CASE Main
  BY <1>1, StartKeeps, PollKeeps, GiveUpKeeps, DhcpStopKeeps, StopKeeps, StaticKeeps
  DEF Main
<1>2. CASE Tcpip
  BY <1>2, TcpipHandled, HandledKeeps DEF DhcpInv
<1>3. CASE UNCHANGED vars
  BY <1>3 DEF vars, DhcpInv, TypeOK, Place, Silent, AddressIsLeased, Supplied, Stopping, Lasting,
              Timely
<1> QED BY <1>1, <1>2, <1>3 DEF Next

-----------------------------------------------------------------------------
(* Types; when the client is silent; how far the three counts of a lease    *)
(* are apart.                                                               *)
THEOREM DhcpInvariance == Spec => []DhcpInv
BY Begin, Continue, PTL DEF Spec

(* Types of struct dhcp and of the messages, for any number of polls,       *)
(* addresses, leases and transactions.                                      *)
THEOREM DhcpTypes == Spec => []TypeOK
<1>1. DhcpInv => TypeOK
  BY DEF DhcpInv
<1> QED BY <1>1, DhcpInvariance, PTL

(* No end of the lease, no refusal and no restart leaves an address of the  *)
(* server on the interface.                                                 *)
THEOREM AddressesAreLeased == Spec => []AddressIsLeased
<1>1. DhcpInv => AddressIsLeased
  BY DEF DhcpInv
<1> QED BY <1>1, DhcpInvariance, PTL

(* dhcp_coarse_tmr, which compares for equality, does not miss the end of a *)
(* lease.                                                                   *)
THEOREM LeasesEnd == Spec => []LeaseEnds
<1>1. DhcpInv => LeaseEnds
  BY DEF DhcpInv, Lasting, LeaseEnds
<1> QED BY <1>1, DhcpInvariance, PTL

(* What DHCP_Request sets after dhcp_stop is not taken away by an answer    *)
(* under way or by a timer.                                                 *)
THEOREM StaticIsKept == Spec => StaticStays
<1>1. ASSUME DhcpInv, [Next]_vars PROVE [address = "static" => address' = "static"]_vars
  <2> SUFFICES ASSUME address = "static" PROVE address' = "static"
    OBVIOUS
  <2>1. pc \in {"report", "done"} /\ client.state = "OFF"
    BY <1>1 DEF DhcpInv, Place, Silent
  <2>2. ~Tcpip
    BY <1>1, <2>1, TcpipHandled DEF Handled, DhcpInv
  <2>3. CASE Main
    BY <2>1, <2>3 DEF Main, Start, StartDiscover, StartAccount, Succeed, Poll, GiveUp, Stop, StopRelease,
                      StopUnset, StopOff, StopFree, Static, Report, Step
  <2>4. CASE UNCHANGED vars
    BY <2>4 DEF vars
  <2> QED BY <1>1, <2>2, <2>3, <2>4 DEF Next
<1> QED BY <1>1, DhcpInvariance, PTL DEF Spec, StaticStays

(* A lease of 90 seconds to 91 days (60 * 65535 * 2 seconds, where the      *)
(* count of its half reaches the limit of 16 bits) runs out only after a    *)
(* renewal was asked for. Longer ones run out without, and so may those of  *)
(* one tick: see AllRenewedInTime.                                          *)
THEOREM RenewalsAreInTime == Spec => RenewedInTime
<1>1. ASSUME DhcpInv, Supplied(client), Renewable(client.lease), Expiring PROVE renewing
  <2> SUFFICES ASSUME ~renewing PROVE FALSE
    OBVIOUS
  <2>1. client.renew > 0 /\ client.used + client.renew < client.t0
    BY <1>1 DEF DhcpInv, Timely
  <2>2. client.used + 1 = client.t0
    BY <1>1 DEF Expiring
  <2>3. client.used \in Nat /\ client.t0 \in Nat /\ client.renew \in Nat
    BY <1>1, Counts DEF DhcpInv
  <2> QED BY <2>1, <2>2, <2>3
<1>2. DhcpInv => [Supplied(client) /\ Renewable(client.lease) /\ Expiring /\ ~Supplied(client)'
                    => renewing]_vars
  BY <1>1
<1> QED BY <1>2, DhcpInvariance, PTL DEF Spec, RenewedInTime
=============================================================================
