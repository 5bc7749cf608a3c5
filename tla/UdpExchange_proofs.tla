------------------------- MODULE UdpExchange_proofs -------------------------
(***************************************************************************)
(* What the restart of the interface before each exchange brings about,    *)
(* for any number of exchanges and any age of the ARP entry: requests go   *)
(* out as they were written, and answers are those of the exchange that    *)
(* takes them.                                                             *)
(***************************************************************************)
EXTENDS UdpExchange, TLAPS

(* Before its request is sent, nothing of an exchange is under way. *)
Sending == pc \in {"start", "build", "send"}

Numbers ==
  /\ queued <= n /\ (Sending => queued < n)
  /\ \A d \in toServer \cup toBoard : d.port <= n /\ (Sending => d.port < n)

(* The socket has only what came to its own port. *)
Mailbox ==
  /\ \A a \in received : a.port = n
  /\ ~Open => received = {}

(* The interface was restarted: until the send only a packet of the next    *)
(* hop makes an entry.                                                      *)
Restarted ==
  /\ pc \in {"build", "send"} => arp = "empty" \/ (arp = "stable" /\ greeted)
  /\ arp = "pending" => ctime < MaxPending

(* What is under way for the exchange is about its own question. *)
Own ==
  ~greeted => \A d \in toServer \cup toBoard \cup received : d.port = n => d.about = n

ExchangeInv == TypeOK /\ Numbers /\ Mailbox /\ Restarted /\ Own

-----------------------------------------------------------------------------
LEMMA Begin == Init => ExchangeInv
<1> SUFFICES ASSUME Init PROVE ExchangeInv
  OBVIOUS
<1>1. 1 \in Exchange /\ 0 \in 0..MaxExchanges /\ 0 \in 0..MaxPending /\ MaxPending > 0
  BY ExchangeAssumption DEF Exchange
<1>2. TypeOK
  BY <1>1 DEF Init, TypeOK, None, Ending
<1>3. Numbers /\ Mailbox /\ Own
  BY DEF Init, Numbers, Mailbox, Own, None
<1>4. Restarted
  BY DEF Init, Restarted
<1> QED BY <1>2, <1>3, <1>4 DEF ExchangeInv

(* What the numbers are *)
LEMMA Ranges ==
  TypeOK => /\ n \in Nat /\ n >= 1 /\ n <= MaxExchanges /\ MaxExchanges \in Nat /\ MaxPending \in Nat
            /\ MaxPending > 0 /\ ctime \in Nat /\ queued \in Nat
            /\ \A d \in toServer \cup toBoard \cup received : d.port \in Nat /\ d.about \in Nat
<1> SUFFICES ASSUME TypeOK
             PROVE  /\ n \in Nat /\ n >= 1 /\ n <= MaxExchanges /\ MaxExchanges \in Nat
                    /\ MaxPending \in Nat /\ MaxPending > 0 /\ ctime \in Nat /\ queued \in Nat
                    /\ \A d \in toServer \cup toBoard \cup received :
                         d.port \in Nat /\ d.about \in Nat
  OBVIOUS
<1>1. \A d \in Question \cup Reply : d.port \in Nat /\ d.about \in Nat
  BY ExchangeAssumption DEF Question, Reply, Exchange
<1>2. toServer \cup toBoard \cup received \subseteq Question \cup Reply
  BY DEF TypeOK
<1> QED BY <1>1, <1>2, ExchangeAssumption DEF TypeOK, Exchange

-----------------------------------------------------------------------------
(* Main_Thread                                                              *)

LEMMA DownUpKeeps ==
  ASSUME ExchangeInv, DownUp
  PROVE  ExchangeInv'
<1>1. TypeOK /\ Numbers /\ Mailbox /\ Own
  BY DEF ExchangeInv
<1>2. /\ pc = "start" /\ pc' = "build" /\ arp' = "empty" /\ queued' = 0 /\ ctime' = 0
      /\ greeted' = FALSE /\ UNCHANGED <<n, dirty, below, asked, toServer, toBoard, received, result>>
  BY DEF DownUp, None, cache, network
<1>3. TypeOK'
  <2>1. queued' \in 0..MaxExchanges /\ ctime' \in 0..MaxPending
    BY <1>2, ExchangeAssumption
  <2> QED BY <1>1, <1>2, <2>1 DEF TypeOK
<1>4. Numbers'
  BY <1>1, <1>2, Ranges DEF Numbers, Sending
<1>5. Mailbox'
  BY <1>1, <1>2 DEF Mailbox, Open
<1>6. Restarted'
  BY <1>2 DEF Restarted
<1>7. Own'
  <2>1. \A d \in toServer \cup toBoard : d.port # n
    BY <1>1, <1>2, Ranges DEF Numbers, Sending
  <2>2. received = {}
    BY <1>1, <1>2 DEF Mailbox, Open
  <2> QED BY <1>2, <2>1, <2>2 DEF Own
<1> QED BY <1>3, <1>4, <1>5, <1>6, <1>7 DEF ExchangeInv

LEMMA BuildKeeps ==
  ASSUME ExchangeInv, Build \/ Evict
  PROVE  ExchangeInv'
<1>1. TypeOK /\ Numbers /\ Mailbox /\ Own /\ Restarted
  BY DEF ExchangeInv
<1>2. /\ pc \in {"build", "send"} /\ pc' = "send" /\ dirty' \in BOOLEAN
      /\ UNCHANGED <<n, arp, ctime, queued, asked, greeted, toServer, toBoard, received, result>>
  BY DEF Build, Evict, entry, network
<1>3. below' \in 0..MaxExchanges
  <2>1. CASE Build
    BY <1>1, <2>1, Ranges DEF Build
  <2>2. CASE Evict
    BY <1>1, <2>2 DEF Evict, TypeOK
  <2> QED BY <2>1, <2>2
<1>4. TypeOK'
  BY <1>1, <1>2, <1>3 DEF TypeOK
<1>5. Numbers'
  BY <1>1, <1>2 DEF Numbers, Sending
<1>6. Mailbox' /\ Restarted' /\ Own'
  BY <1>1, <1>2 DEF Mailbox, Open, Restarted, Own
<1> QED BY <1>4, <1>5, <1>6 DEF ExchangeInv

(* A request that is not sent at once is sent as it was copied. *)
LEMMA SendToKeeps ==
  ASSUME ExchangeInv, SendTo
  PROVE  ExchangeInv'
<1>1. TypeOK /\ Numbers /\ Mailbox /\ Own /\ Restarted
  BY DEF ExchangeInv
<1>2. /\ pc = "send" /\ pc' = "receive"
      /\ UNCHANGED <<n, dirty, below, greeted, toBoard, received, result>>
  BY DEF SendTo, cache
<1>3. CASE arp = "stable"
  <2>1. /\ toServer' = toServer \cup {[port |-> n, about |-> InMemory]}
        /\ UNCHANGED <<arp, ctime, queued, asked>> /\ greeted
    BY <1>1, <1>2, <1>3 DEF SendTo, entry, Restarted
  <2>2. InMemory \in 0..MaxExchanges
    BY <1>1, Ranges DEF InMemory, TypeOK
  <2>3. TypeOK'
    BY <1>1, <1>2, <2>1, <2>2 DEF TypeOK, Question
  <2>4. Numbers'
    BY <1>1, <1>2, <2>1, Ranges DEF Numbers, Sending
  <2>5. Mailbox' /\ Restarted' /\ Own'
    BY <1>1, <1>2, <2>1 DEF Mailbox, Open, Restarted, Own
  <2> QED BY <2>3, <2>4, <2>5 DEF ExchangeInv
<1>4. CASE arp # "stable"
  <2>1. /\ arp = "empty" /\ arp' = "pending" /\ queued' = n /\ asked' = TRUE /\ ctime' = 0
        /\ toServer' = toServer
    BY <1>1, <1>2, <1>4 DEF SendTo, Restarted
  <2>2. TypeOK'
    BY <1>1, <1>2, <2>1, Ranges DEF TypeOK
  <2>3. Numbers'
    BY <1>1, <1>2, <2>1, Ranges DEF Numbers, Sending
  <2>4. Mailbox' /\ Own'
    BY <1>1, <1>2, <2>1 DEF Mailbox, Open, Own
  <2>5. Restarted'
    BY <1>1, <1>2, <2>1, Ranges DEF Restarted
  <2> QED BY <2>2, <2>3, <2>4, <2>5 DEF ExchangeInv
<1> QED BY <1>3, <1>4

LEMMA RecvKeeps ==
  ASSUME ExchangeInv, RecvFrom \/ RecvTimeout
  PROVE  ExchangeInv'
<1>1. TypeOK /\ Numbers /\ Mailbox /\ Own /\ Restarted
  BY DEF ExchangeInv
<1>2. /\ pc = "receive" /\ pc' \in {"close", "failed"}
      /\ UNCHANGED <<n, dirty, below, arp, ctime, queued, asked, greeted, toServer, toBoard, received>>
  BY DEF RecvFrom, RecvTimeout, cache, entry, network
<1>3. result' \in [Exchange -> [about : 0..MaxExchanges, ending : Ending]]
  <2>1. CASE RecvTimeout
    BY <1>1, <2>1 DEF RecvTimeout, TypeOK
  <2>2. CASE RecvFrom
    <3>1. PICK a \in received : Answer(a)
      BY <2>2 DEF RecvFrom
    <3>2. a.about \in 0..MaxExchanges /\ a.ending \in Ending
      BY <1>1, Ranges DEF TypeOK, Reply, Exchange
    <3> QED BY <1>1, <3>1, <3>2 DEF TypeOK, Answer
  <2> QED BY <2>1, <2>2
<1>4. TypeOK'
  BY <1>1, <1>2, <1>3 DEF TypeOK
<1>5. Numbers'
  BY <1>1, <1>2 DEF Numbers, Sending
<1>6. Mailbox'
  BY <1>1, <1>2 DEF Mailbox, Open, RecvFrom, RecvTimeout
<1>7. Restarted' /\ Own'
  BY <1>1, <1>2 DEF Restarted, Own
<1> QED BY <1>4, <1>5, <1>6, <1>7 DEF ExchangeInv

LEMMA CloseKeeps ==
  ASSUME ExchangeInv, Close
  PROVE  ExchangeInv'
<1>1. TypeOK /\ Numbers /\ Own /\ Restarted
  BY DEF ExchangeInv
<1>2. /\ pc = "close" /\ received' = {}
      /\ UNCHANGED <<dirty, below, arp, ctime, queued, asked, greeted, toServer, toBoard, result>>
  BY DEF Close, cache, entry, network
<1>3. \/ n = MaxExchanges /\ pc' = "done" /\ n' = n
      \/ n # MaxExchanges /\ pc' = "start" /\ n' = n + 1
  BY DEF Close
<1>4. n' \in Exchange /\ n' >= n /\ n' \in Nat /\ (pc' = "start" => n' = n + 1)
  BY <1>1, <1>3, Ranges DEF Exchange
<1>5. TypeOK'
  BY <1>1, <1>2, <1>3, <1>4 DEF TypeOK
<1>6. Numbers'
  <2>1. queued <= n /\ \A d \in toServer \cup toBoard : d.port <= n
    BY <1>1 DEF Numbers
  <2> QED BY <1>1, <1>2, <1>3, <1>4, <2>1, Ranges DEF Numbers, Sending
<1>7. Mailbox' /\ Restarted'
  BY <1>1, <1>2, <1>3 DEF Mailbox, Restarted
<1>8. Own'
  <2> SUFFICES ASSUME ~greeted, NEW d \in toServer \cup toBoard, d.port = n' PROVE d.about = n'
    BY <1>2 DEF Own
  <2>1. d.port <= n
    BY <1>1 DEF Numbers
  <2>2. n' = n
    BY <1>1, <1>3, <2>1, Ranges
  <2> QED BY <1>1, <2>2 DEF Own
<1> QED BY <1>5, <1>6, <1>7, <1>8 DEF ExchangeInv

-----------------------------------------------------------------------------
(* tcpip_thread, the servers and the network                                *)

LEMMA ResolveKeeps ==
  ASSUME ExchangeInv, ArpReply \/ ArpRequested
  PROVE  ExchangeInv'
<1>1. TypeOK /\ Numbers /\ Mailbox /\ Own /\ Restarted
  BY DEF ExchangeInv
<1>2. /\ UNCHANGED <<pc, n, dirty, below, toBoard, received, result>> /\ asked' \in BOOLEAN
      /\ arp' = "stable" /\ ctime' = 0 /\ queued' = 0
      /\ greeted' = (greeted \/ arp = "empty")
      /\ toServer' = IF queued = 0 THEN toServer
                     ELSE toServer \cup {[port |-> queued, about |-> queued]}
  BY <1>1 DEF ArpReply, ArpRequested, Resolve, cache, None, TypeOK
<1>3. greeted' \in BOOLEAN
  BY <1>2
<1>4. TypeOK'
  BY <1>1, <1>2, <1>3, Ranges DEF TypeOK, Question, Exchange
<1>5. Numbers'
  BY <1>1, <1>2, Ranges DEF Numbers, Sending
<1>6. Mailbox'
  BY <1>1, <1>2 DEF Mailbox, Open
<1>7. Restarted'
  BY <1>1, <1>2 DEF Restarted
<1>8. Own'
  <2> SUFFICES ASSUME ~greeted, NEW d \in toServer' \cup toBoard \cup received, d.port = n
               PROVE  d.about = n
    BY <1>2 DEF Own
  <2>1. d \in toServer \cup toBoard \cup received \/ d = [port |-> queued, about |-> queued]
    BY <1>2
  <2> QED BY <1>1, <2>1 DEF Own
<1> QED BY <1>4, <1>5, <1>6, <1>7, <1>8 DEF ExchangeInv

LEMMA ArpTimerKeeps ==
  ASSUME ExchangeInv, ArpTimer
  PROVE  ExchangeInv'
<1>1. TypeOK /\ Numbers /\ Mailbox /\ Own /\ Restarted
  BY DEF ExchangeInv
<1>2. /\ UNCHANGED <<pc, n, dirty, below, greeted, toServer, toBoard, received, result>>
      /\ arp = "pending" /\ ctime' = ctime + 1
  BY DEF ArpTimer, cache, network
<1>3. \/ ctime + 1 >= MaxPending /\ arp' = "empty" /\ queued' = 0 /\ asked' = asked
      \/ ~(ctime + 1 >= MaxPending) /\ asked' = TRUE /\ UNCHANGED <<arp, queued>>
  BY DEF ArpTimer, None
<1>4. ctime' \in 0..MaxPending /\ (arp' = "pending" => ctime' < MaxPending)
  BY <1>1, <1>2, <1>3, Ranges DEF Restarted
<1>5. TypeOK'
  <2>1. arp' \in {"empty", "pending", "stable"} /\ asked' \in BOOLEAN
    BY <1>1, <1>3 DEF TypeOK
  <2>2. queued' \in 0..MaxExchanges
    BY <1>1, <1>3, Ranges DEF TypeOK
  <2> QED BY <1>1, <1>2, <1>4, <2>1, <2>2 DEF TypeOK
<1>6. Numbers'
  BY <1>1, <1>2, <1>3, Ranges DEF Numbers, Sending
<1>7. Mailbox' /\ Own'
  BY <1>1, <1>2 DEF Mailbox, Open, Own
<1>8. Restarted'
  BY <1>1, <1>2, <1>4 DEF Restarted
<1> QED BY <1>5, <1>6, <1>7, <1>8 DEF ExchangeInv

(* The network takes datagrams away, hands them over or answers them: what  *)
(* comes in has the port and the question of what was there.                *)
LEMMA NetworkKeeps ==
  ASSUME ExchangeInv,
         UNCHANGED <<pc, n, dirty, below, arp, ctime, queued, greeted, result>>, asked' \in BOOLEAN,
         toServer' \subseteq toServer,
         toBoard' \subseteq Reply, received' \subseteq Reply,
         \A a \in toBoard' : \E d \in toServer \cup toBoard : a.port = d.port /\ a.about = d.about,
         \A a \in received' : a \in received \/ (Open /\ a \in toBoard /\ a.port = n)
  PROVE  ExchangeInv'
<1>1. TypeOK /\ Numbers /\ Mailbox /\ Own /\ Restarted
  BY DEF ExchangeInv
<1>2. TypeOK'
  BY <1>1 DEF TypeOK
<1>3. Numbers'
  BY <1>1 DEF Numbers, Sending
<1>4. Mailbox'
  BY <1>1 DEF Mailbox, Open
<1>5. Restarted'
  BY <1>1 DEF Restarted
<1>6. Own'
  BY <1>1 DEF Own
<1> QED BY <1>2, <1>3, <1>4, <1>5, <1>6 DEF ExchangeInv

LEMMA DeliverKeeps ==
  ASSUME ExchangeInv, NEW a \in toBoard, Deliver(a)
  PROVE  ExchangeInv'
<1>1. toBoard \subseteq Reply /\ received \subseteq Reply /\ asked \in BOOLEAN
  BY DEF ExchangeInv, TypeOK
<1>2. /\ UNCHANGED <<pc, n, dirty, below, arp, ctime, queued, asked, greeted, toServer, result>>
      /\ received' = IF Open /\ a.port = n THEN received \cup {a} ELSE received
      /\ toBoard' = toBoard \ {a}
  BY DEF Deliver, cache, entry
<1>3. \A b \in received' : b \in received \/ (Open /\ b \in toBoard /\ b.port = n)
  BY <1>2
<1> QED BY <1>1, <1>2, <1>3, NetworkKeeps

LEMMA ServeKeeps ==
  ASSUME ExchangeInv, NEW d \in toServer, Serve(d)
  PROVE  ExchangeInv'
<1>1. toBoard \subseteq Reply /\ received \subseteq Reply /\ asked \in BOOLEAN /\ d \in Question
  BY DEF ExchangeInv, TypeOK
<1>2. /\ UNCHANGED <<pc, n, dirty, below, arp, ctime, queued, asked, greeted, received, result>>
      /\ toServer' \subseteq toServer
  BY DEF Serve, cache, entry
<1>3. CASE d.about = None
  BY <1>1, <1>2, <1>3, NetworkKeeps DEF Serve
<1>4. CASE d.about # None
  <2>1. PICK e \in Ending :
          toBoard' = toBoard \cup {[port |-> d.port, about |-> d.about, ending |-> e]}
    BY <1>4 DEF Serve
  <2>2. [port |-> d.port, about |-> d.about, ending |-> e] \in Reply
    BY <1>1, <1>4, ExchangeAssumption DEF Question, Reply, Exchange, None
  <2>3. toBoard' \subseteq Reply
    BY <1>1, <2>1, <2>2
  <2>4. \A b \in toBoard' : \E c \in toServer \cup toBoard : b.port = c.port /\ b.about = c.about
    BY <2>1
  <2> QED BY <1>1, <1>2, <2>3, <2>4, NetworkKeeps
<1> QED BY <1>3, <1>4

LEMMA LoseKeeps ==
  ASSUME ExchangeInv, Lose
  PROVE  ExchangeInv'
<1>1. toBoard \subseteq Reply /\ received \subseteq Reply /\ asked \in BOOLEAN
  BY DEF ExchangeInv, TypeOK
<1>2. UNCHANGED <<pc, n, dirty, below, arp, ctime, queued, greeted, received, result>>
  BY DEF Lose, cache, entry
<1>3. asked' \in BOOLEAN /\ toServer' \subseteq toServer /\ toBoard' \subseteq toBoard
  BY <1>1 DEF Lose, network
<1> QED BY <1>1, <1>2, <1>3, NetworkKeeps

LEMMA Continue == ExchangeInv /\ [Next]_vars => ExchangeInv'
<1> SUFFICES ASSUME ExchangeInv, [Next]_vars PROVE ExchangeInv'
  OBVIOUS
<1>1. CASE Main
  BY <1>1, DownUpKeeps, BuildKeeps, SendToKeeps, RecvKeeps, CloseKeeps DEF Main
<1>2. CASE Tcpip
  BY <1>2, ResolveKeeps, ArpTimerKeeps, DeliverKeeps DEF Tcpip
<1>3. CASE Evict \/ (\E d \in toServer : Serve(d)) \/ Lose
  BY <1>3, BuildKeeps, ServeKeeps, LoseKeeps
<1>4. CASE UNCHANGED vars
  BY <1>4 DEF vars, ExchangeInv, TypeOK, Numbers, Sending, Mailbox, Open, Restarted, Own
<1> QED BY <1>1, <1>2, <1>3, <1>4 DEF Next

-----------------------------------------------------------------------------
(* Types; what is under way has a port that was used; what is under way for *)
(* an exchange is about its own question unless the next hop was known      *)
(* before it was asked for.                                                 *)
THEOREM ExchangeInvariance == Spec => []ExchangeInv
BY Begin, Continue, PTL DEF Spec

(* Types, for any number of exchanges.                                      *)
THEOREM ExchangeTypes == Spec => []TypeOK
<1>1. ExchangeInv => TypeOK
  BY DEF ExchangeInv
<1> QED BY <1>1, ExchangeInvariance, PTL

(* The request goes out from the uncached heap, unless an ARP packet of the *)
(* next hop came between the restart of the interface and the send.         *)
THEOREM RequestsGoIntact == Spec => RequestsIntact
<1>1. ASSUME ExchangeInv, [Next]_vars, ~greeted, NEW d \in toServer', d \notin toServer
      PROVE  d.about = d.port
  <2>1. CASE SendTo
    <3>1. arp # "stable"
      BY <1>1, <2>1 DEF ExchangeInv, Restarted, SendTo
    <3> QED BY <1>1, <2>1, <3>1 DEF SendTo
  <2>2. CASE ArpReply \/ ArpRequested
    BY <1>1, <2>2 DEF ArpReply, ArpRequested, Resolve
  <2>3. CASE UNCHANGED toServer
    BY <1>1, <2>3
  <2>4. CASE Lose \/ \E q \in toServer : Serve(q)
    BY <1>1, <2>4 DEF Lose, Serve, network
  <2>5. Main \/ Tcpip => \/ SendTo \/ ArpReply \/ ArpRequested \/ UNCHANGED toServer
    BY DEF Main, Tcpip, DownUp, Build, RecvFrom, RecvTimeout, Close, ArpTimer, Deliver, network
  <2>6. Evict \/ UNCHANGED vars => UNCHANGED toServer
    BY DEF Evict, vars, network
  <2> QED BY <1>1, <2>1, <2>2, <2>3, <2>4, <2>5, <2>6 DEF Next
<1>2. ExchangeInv /\ [Next]_vars =>
        [~greeted => \A d \in toServer' \ toServer : d.about = d.port]_vars
  BY <1>1
<1> QED BY <1>2, ExchangeInvariance, PTL DEF Spec, RequestsIntact

(* An exchange takes an answer to its own request only, as long as that     *)
(* request went out as it was written.                                      *)
THEOREM AnswersAreOwn == Spec => AnswersMatch
<1>1. ASSUME ExchangeInv, [Next]_vars, ~greeted, NEW e \in Exchange, result'[e] # result[e]
      PROVE  result'[e].about = e
  <2>1. CASE RecvFrom
    <3>1. PICK a \in received : Answer(a)
      BY <2>1 DEF RecvFrom
    <3>2. a.port = n /\ a.about = n
      BY <1>1 DEF ExchangeInv, Mailbox, Own
    <3>3. result \in [Exchange -> [about : 0..MaxExchanges, ending : Ending]]
      BY <1>1 DEF ExchangeInv, TypeOK
    <3> QED BY <1>1, <3>1, <3>2, <3>3 DEF Answer
  <2>2. Next => RecvFrom \/ UNCHANGED result
    BY DEF Next, Main, Tcpip, DownUp, Build, SendTo, RecvTimeout, Close, Evict, ArpReply,
           ArpRequested, ArpTimer, Deliver, Serve, Lose
  <2>3. UNCHANGED vars => UNCHANGED result
    BY DEF vars
  <2> QED BY <1>1, <2>1, <2>2, <2>3
<1>2. ExchangeInv /\ [Next]_vars =>
        [~greeted => \A e \in Exchange : result'[e] # result[e] => result'[e].about = e]_vars
  BY <1>1
<1> QED BY <1>2, ExchangeInvariance, PTL DEF Spec, AnswersMatch
=============================================================================
