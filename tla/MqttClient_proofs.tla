-------------------------- MODULE MqttClient_proofs --------------------------
(***************************************************************************)
(* What mqtt_client.c guarantees: a session, for any number of messages,   *)
(* and the bytes of its packets, for any lengths.                          *)
(***************************************************************************)
EXTENDS MqttSession, MqttCodec, SequenceTheorems, FiniteSetTheorems, WellFoundedInduction, TLAPS

-----------------------------------------------------------------------------
(* The session *)

(* The types of the state, without the bound on the requests under way *)
SessionTypes ==
  /\ pc \in {"start", "overrun"} \cup Waiting \cup Ended
  /\ seen \subseteq Acks
  /\ toBroker \in Seq(Requests) /\ toBoard \in Seq(Incoming)
  /\ closed \in BOOLEAN /\ finRead \in BOOLEAN /\ dead \in BOOLEAN
  /\ owed \in BOOLEAN /\ late \in BOOLEAN

(* A read takes packets from the front of what is under way to the board    *)
(* and notes the first one if it is an acknowledgement; no read brings back *)
(* what was noted, or forgets the end of the connection.                    *)
LEMMA ReadTypes ==
  ASSUME SessionTypes, NEW ok, NEW more, Read(ok, more)
  PROVE  /\ toBoard' \in Seq(Incoming) /\ seen \subseteq seen' /\ seen' \subseteq Acks
         /\ finRead' \in BOOLEAN /\ late' \in BOOLEAN /\ (late => late')
<1>1. CASE ReadData(ok, more)
  <2>1. PICK n \in 1..Len(toBoard) :
          /\ toBoard' = SubSeq(toBoard, n + 1, Len(toBoard))
          /\ seen' = seen \cup ({Head(SubSeq(toBoard, 1, n))} \cap Acks)
          /\ UNCHANGED <<finRead, late>>
    BY <1>1 DEF ReadData
  <2>2. toBoard \in Seq(Incoming) /\ Len(toBoard) \in Nat
    BY DEF SessionTypes
  <2>3. toBoard' \in Seq(Incoming)
    BY <2>1, <2>2, SubSeqProperties
  <2>4. QED
    BY <2>1, <2>3 DEF SessionTypes
<1>2. CASE ReadEnd(ok, more) \/ ReadError(ok, more) \/ ReadTimeout(ok, more)
  BY <1>2 DEF SessionTypes, ReadEnd, ReadError, ReadTimeout
<1>3. QED
  BY <1>1, <1>2 DEF Read

(* A write appends to what is under way to the broker, or is lost.          *)
LEMMA WriteTypes ==
  ASSUME SessionTypes, NEW p \in Requests, Write(p)
  PROVE  toBroker' \in Seq(Requests)
BY DEF SessionTypes, Write

-----------------------------------------------------------------------------
(* The inductive invariant *)

(* Until the board has accepted the connection, the broker has nothing of   *)
(* it but the CONNECT, and only answers that, or closes.                    *)
Handshake ==
  pc \in {"start", "connack"} =>
    /\ ~subscribed /\ ~owed /\ buf = "zeros"
    /\ \A i \in 1..Len(toBroker) : toBroker[i] = "CONNECT"
    /\ \A i \in 1..Len(toBoard) : toBoard[i] \in {"CONNACK", "REFUSED", "DISCONNECT"}

(* Nothing comes after the end of the connection. The DISCONNECT is the     *)
(* last packet of the board, and the broker closes when it takes it.        *)
Leaving ==
  /\ finRead => closed /\ toBoard = <<>>
  /\ pc = "drain" /\ ~closed /\ ~dead =>
       toBroker # <<>> /\ toBroker[Len(toBroker)] = "DISCONNECT"
  /\ pc = "closed" => late \/ (closed /\ toBoard = <<>>)

SessionInv == SessionTypes /\ Handshake /\ ConnectionAccepted /\ Leaving

(* The session starts with nothing sent.                                    *)
LEMMA InitInv == Init => SessionInv
<1> SUFFICES ASSUME Init PROVE SessionInv
  OBVIOUS
<1>1. SessionTypes
  BY EmptySeq DEF Init, SessionTypes
<1>2. Handshake /\ ConnectionAccepted /\ Leaving
  BY DEF Init, Handshake, ConnectionAccepted, Leaving
<1>3. QED
  BY <1>1, <1>2 DEF SessionInv

(* What a read of the first wait can be: only a CONNACK that accepts the    *)
(* connection brings the board past it.                                     *)
LEMMA FirstRead ==
  ASSUME SessionInv, pc = "connack", NEW ok \in BOOLEAN, NEW more \in BOOLEAN,
         Read(ok, more), ok
  PROVE  "CONNACK" \in seen'
<1>1. CASE ReadData(ok, more)
  <2>1. PICK n \in 1..Len(toBoard) :
          /\ Accepted(SubSeq(toBoard, 1, n), ok)
          /\ seen' = seen \cup ({Head(SubSeq(toBoard, 1, n))} \cap Acks)
    BY <1>1 DEF ReadData
  <2>2. Head(SubSeq(toBoard, 1, n)) = toBoard[1] /\ 1 \in 1..Len(toBoard)
    BY <2>1, SubSeqProperties DEF SessionInv, SessionTypes
  <2>3. toBoard[1] \in {"CONNACK", "REFUSED", "DISCONNECT"}
    BY <2>2 DEF SessionInv, Handshake
  <2>4. toBoard[1] = "CONNACK"
    BY <2>1, <2>2, <2>3 DEF Accepted
  <2>5. QED
    BY <2>1, <2>2, <2>4 DEF Acks
<1>2. CASE ReadEnd(ok, more)
  BY <1>2 DEF SessionInv, Handshake, ReadEnd, AcceptedStale
<1>3. QED
  BY <1>1, <1>2 DEF Read, ReadError, ReadTimeout

(* A read keeps the end of the connection the last thing there is. One that *)
(* brings nothing leaves nothing behind, or is late.                        *)
LEMMA ReadLeaves ==
  ASSUME SessionInv, NEW ok, NEW more, Read(ok, more)
  PROVE  /\ finRead' => closed /\ toBoard' = <<>>
         /\ ~more => late' \/ (closed /\ toBoard' = <<>>)
                    \/ (toBroker = <<>> /\ ~closed /\ ~dead)
<1>1. CASE ReadData(ok, more)
  BY <1>1 DEF ReadData, SessionInv, Leaving
<1>2. CASE ReadEnd(ok, more) \/ ReadError(ok, more)
  BY <1>2 DEF ReadEnd, ReadError, SessionInv, SessionTypes, Leaving
<1>3. CASE ReadTimeout(ok, more)
  <2>1. ~finRead' /\ toBoard' = toBoard
    BY <1>3 DEF ReadTimeout
  <2>2. late' <=> late \/ toBoard # <<>> \/ toBroker # <<>> \/ owed \/ closed \/ dead
    BY <1>3, Zenon DEF ReadTimeout
  <2>3. QED
    BY <2>1, <2>2
<1>4. QED
  BY <1>1, <1>2, <1>3 DEF Read

(* The reads of Main_Thread and of Close_Program keep the invariant.        *)
LEMMA ProgramStep ==
  ASSUME SessionInv, Program \/ Press PROVE SessionInv'
<1>0. SessionTypes /\ Handshake /\ ConnectionAccepted /\ Leaving
  BY DEF SessionInv
<1>1. CASE Connect
  <2>1. toBroker' \in Seq(Requests)
    BY <1>0, <1>1, WriteTypes DEF Connect, Requests
  <2>2. Handshake'
    BY <1>0, <1>1 DEF Connect, Write, Handshake, SessionTypes, broker
  <2>3. QED
    BY <1>0, <1>1, <2>1, <2>2
    DEF Connect, SessionInv, SessionTypes, ConnectionAccepted, Leaving, Waiting, broker
<1>2. CASE Press
  <2>1. toBroker' \in Seq(Requests)
    BY <1>0, <1>2, WriteTypes DEF Press, Requests
  <2>2. QED
    BY <1>0, <1>2, <2>1
    DEF Press, SessionInv, SessionTypes, Handshake, ConnectionAccepted, Leaving, Waiting, broker
<1>3. CASE AwaitConnack
  <2>1. PICK ok \in BOOLEAN, more \in BOOLEAN :
          /\ Read(ok, more)
          /\ IF ok THEN pc' = "suback" /\ Write("SUBSCRIBE") ELSE pc' = "failed" /\ NoWrite
    BY <1>3 DEF AwaitConnack, ReadPacket
  <2>2. UNCHANGED <<broker, dead>> /\ pc = "connack"
    BY <1>3 DEF AwaitConnack, ReadPacket
  <2>3. toBroker' \in Seq(Requests)
    BY <1>0, <2>1, WriteTypes DEF NoWrite, SessionTypes, Requests
  <2>4. ConnectionAccepted'
    BY <2>1, <2>2, FirstRead DEF ConnectionAccepted
  <2>5. Leaving'
    BY <2>1, <2>2, ReadLeaves DEF Leaving, broker
  <2>6. QED
    BY <1>0, <2>1, <2>2, <2>3, <2>4, <2>5, ReadTypes
    DEF SessionInv, SessionTypes, Handshake, Waiting, Ended, broker
<1>4. CASE AwaitSuback \/ Loop \/ Ping
  <2>1. PICK ok \in BOOLEAN, more \in BOOLEAN : Read(ok, more)
    BY <1>4 DEF AwaitSuback, Loop, Ping, ReadPacket
  <2>2. /\ UNCHANGED <<broker, dead>> /\ pc \in {"suback", "loop", "ping"}
        /\ pc' \in {"loop", "ping", "failed", "lost"}
    BY <1>4 DEF AwaitSuback, Loop, Ping, ReadPacket
  <2>3. toBroker' = toBroker \/ Write("PINGREQ")
    BY <1>4 DEF AwaitSuback, Loop, Ping, NoWrite
  <2>4. toBroker' \in Seq(Requests)
    BY <1>0, <2>3, WriteTypes DEF SessionTypes, Requests
  <2>5. ConnectionAccepted'
    BY <1>0, <2>1, <2>2, ReadTypes DEF ConnectionAccepted
  <2>6. Leaving'
    BY <2>1, <2>2, ReadLeaves DEF Leaving, broker
  <2>7. QED
    BY <1>0, <2>1, <2>2, <2>4, <2>5, <2>6, ReadTypes
    DEF SessionInv, SessionTypes, Handshake, Waiting, Ended, broker
<1>5. CASE AwaitUnsuback
  <2>1. PICK ok \in BOOLEAN, more \in BOOLEAN :
          /\ Read(ok, more)
          /\ IF ok THEN pc' = "drain" /\ Write("DISCONNECT") ELSE pc' = "failed" /\ NoWrite
    BY <1>5 DEF AwaitUnsuback, ReadPacket
  <2>2. UNCHANGED <<broker, dead>> /\ pc = "unsuback"
    BY <1>5 DEF AwaitUnsuback, ReadPacket
  <2>3. toBroker' \in Seq(Requests)
    BY <1>0, <2>1, WriteTypes DEF NoWrite, SessionTypes, Requests
  <2>4. ConnectionAccepted'
    BY <1>0, <2>1, <2>2, ReadTypes DEF ConnectionAccepted
  <2>5. Leaving'
    BY <1>0, <2>1, <2>2, ReadLeaves DEF Leaving, broker, Write, SessionTypes
  <2>6. QED
    BY <1>0, <2>1, <2>2, <2>3, <2>4, <2>5, ReadTypes
    DEF SessionInv, SessionTypes, Handshake, Waiting, Ended, broker
<1>6. CASE Drain
  <2>1. PICK ok \in BOOLEAN, more \in BOOLEAN :
          Read(ok, more) /\ pc' = IF more THEN "drain" ELSE "closed"
    BY <1>6 DEF Drain
  <2>2. UNCHANGED <<broker, dead, toBroker>> /\ pc = "drain"
    BY <1>6 DEF Drain
  <2>3. ConnectionAccepted'
    BY <1>0, <2>1, <2>2, ReadTypes DEF ConnectionAccepted
  <2>4. Leaving'
    BY <1>0, <2>1, <2>2, ReadLeaves DEF Leaving, broker
  <2>5. QED
    BY <1>0, <2>1, <2>2, <2>3, <2>4, ReadTypes
    DEF SessionInv, SessionTypes, Handshake, Waiting, Ended, broker
<1>7. CASE Overrun
  BY <1>0, <1>7
  DEF Overrun, SessionInv, SessionTypes, Handshake, ConnectionAccepted, Leaving, Waiting, broker, network
<1>8. QED
  BY <1>1, <1>2, <1>3, <1>4, <1>5, <1>6, <1>7 DEF Program

(* Taking a request leaves the others, in particular a DISCONNECT behind it. *)
LEMMA Received ==
  ASSUME SessionInv, NEW p \in Requests, Receive(p)
  PROVE  /\ toBroker' \in Seq(Requests)
         /\ (\A i \in 1..Len(toBroker) : toBroker[i] = "CONNECT") =>
              \A i \in 1..Len(toBroker') : toBroker'[i] = "CONNECT"
         /\ toBroker[Len(toBroker)] = "DISCONNECT" /\ p # "DISCONNECT" =>
              toBroker' # <<>> /\ toBroker'[Len(toBroker')] = "DISCONNECT"
<1>1. toBroker \in Seq(Requests) /\ toBroker # <<>> /\ toBroker[1] = p
      /\ toBroker' = Tail(toBroker)
  BY DEF SessionInv, SessionTypes, Receive
<1>2. /\ toBroker' \in Seq(Requests)
      /\ Len(toBroker') = Len(toBroker) - 1 /\ Len(toBroker) \in Nat \ {0}
      /\ \A i \in 1..Len(toBroker') : toBroker'[i] = toBroker[i + 1]
  BY <1>1, HeadTailProperties
<1>3. ASSUME toBroker[Len(toBroker)] = "DISCONNECT", p # "DISCONNECT"
      PROVE  toBroker' # <<>> /\ toBroker'[Len(toBroker')] = "DISCONNECT"
  <2>1. Len(toBroker) # 1
    BY <1>1, <1>3
  <2>2. Len(toBroker') \in 1..Len(toBroker') /\ Len(toBroker') + 1 = Len(toBroker)
    BY <1>2, <2>1
  <2>3. QED
    BY <1>2, <1>3, <2>2
<1>4. QED
  BY <1>2, <1>3

(* What the broker does, and what happens to it and to the network, keeps   *)
(* the invariant.                                                           *)
LEMMA BrokerStep ==
  ASSUME SessionInv, Broker \/ Forward \/ BrokerCloses \/ NetworkDies
  PROVE  SessionInv'
<1>0. SessionTypes /\ Handshake /\ ConnectionAccepted /\ Leaving
  BY DEF SessionInv
<1>incoming. {"CONNACK", "REFUSED", "NOSUB", "SUBACK", "PINGRESP", "UNSUBACK", "COMMAND",
       "MESSAGE", "DISCONNECT"} \subseteq Incoming
  BY DEF Incoming, Acks
<1>1. CASE TakeConnect
  <2>1. Receive("CONNECT") /\ ~closed /\ "CONNECT" \in Requests
    BY <1>1 DEF TakeConnect, Receive, Requests
  <2>2. PICK a \in {"CONNACK", "REFUSED"} : toBoard' = Append(toBoard, a)
    BY <1>1 DEF TakeConnect
  <2>3. UNCHANGED <<board, subscribed, owed, dead>> /\ closed' \in BOOLEAN
    BY <1>0, <1>1 DEF TakeConnect, SessionTypes
  <2>4. toBroker' \in Seq(Requests) /\ toBoard' \in Seq(Incoming)
    <3>1. toBroker' \in Seq(Requests)
      BY <2>1, Received
    <3>2. a \in Incoming /\ toBoard \in Seq(Incoming)
      BY <1>0, <1>incoming DEF SessionTypes
    <3>3. QED
      BY <2>2, <3>1, <3>2
  <2>5. Handshake'
    BY <1>0, <2>1, <2>2, <2>3, Received DEF Handshake, SessionTypes, board
  <2>6. Leaving'
    BY <1>0, <1>1, <2>1, <2>3, Received DEF Leaving, board, TakeConnect
  <2>7. QED
    BY <1>0, <2>3, <2>4, <2>5, <2>6
    DEF SessionInv, SessionTypes, ConnectionAccepted, board
<1>2. CASE TakeSubscribe \/ TakePing \/ TakeUnsubscribe
  <2>1. PICK p \in Requests \ {"CONNECT", "DISCONNECT"} : Receive(p)
    BY <1>2 DEF TakeSubscribe, TakePing, TakeUnsubscribe, Requests
  <2>2. /\ UNCHANGED <<board, closed, dead>> /\ owed' \in BOOLEAN
        /\ toBoard' = toBoard \/ \E a \in {"NOSUB", "PINGRESP", "UNSUBACK"} :
                                    toBoard' = Append(toBoard, a)
    BY <1>0, <1>2 DEF TakeSubscribe, TakePing, TakeUnsubscribe, broker, SessionTypes
  <2>3. toBroker' \in Seq(Requests) /\ toBoard' \in Seq(Incoming)
    <3>1. toBroker' \in Seq(Requests)
      BY <2>1, Received
    <3>2. toBoard \in Seq(Incoming)
      BY <1>0 DEF SessionTypes
    <3>3. \A a \in {"NOSUB", "PINGRESP", "UNSUBACK"} : Append(toBoard, a) \in Seq(Incoming)
      BY <1>incoming, <3>2
    <3>4. QED
      BY <2>2, <3>1, <3>2, <3>3
  <2>4. ~closed /\ toBroker[1] = p /\ 1 \in 1..Len(toBroker)
    BY <1>0, <2>1 DEF Receive, SessionTypes
  <2>5. pc \notin {"start", "connack"}
    BY <1>0, <2>4 DEF Handshake
  <2>6. Leaving'
    BY <1>0, <2>1, <2>2, <2>4, Received DEF Leaving, board
  <2>7. QED
    BY <1>0, <2>2, <2>3, <2>5, <2>6
    DEF SessionInv, SessionTypes, Handshake, ConnectionAccepted, board
<1>3. CASE TakeDisconnect
  <2>1. Receive("DISCONNECT") /\ ~closed /\ "DISCONNECT" \in Requests
    BY <1>3 DEF TakeDisconnect, Receive, Requests
  <2>2. toBroker' \in Seq(Requests)
    BY <2>1, Received
  <2>3. Handshake'
    BY <1>0, <1>3, <2>1, Received DEF Handshake, TakeDisconnect, board
  <2>4. QED
    BY <1>0, <1>3, <2>1, <2>2, <2>3
    DEF SessionInv, SessionTypes, ConnectionAccepted, Leaving, TakeDisconnect, board
<1>4. CASE SendSuback \/ Forward
  <2>1. /\ ~closed /\ (owed \/ subscribed) /\ owed' \in BOOLEAN
        /\ UNCHANGED <<board, closed, dead, toBroker>>
        /\ \E a \in {"SUBACK", "COMMAND", "MESSAGE"} : toBoard' = Append(toBoard, a)
    BY <1>0, <1>4 DEF SendSuback, Forward, SessionTypes
  <2>2. toBoard' \in Seq(Incoming)
    BY <1>0, <1>incoming, <2>1 DEF SessionTypes
  <2>3. QED
    BY <1>0, <2>1, <2>2
    DEF SessionInv, SessionTypes, Handshake, ConnectionAccepted, Leaving, board
<1>5. CASE BrokerCloses
  <2>1. /\ pc # "start" /\ ~closed /\ closed'
        /\ UNCHANGED <<board, subscribed, owed, toBroker, dead>>
        /\ toBoard' = toBoard \/ toBoard' = Append(toBoard, "DISCONNECT")
    BY <1>5 DEF BrokerCloses
  <2>2. toBoard' \in Seq(Incoming)
    BY <1>0, <1>incoming, <2>1 DEF SessionTypes
  <2>3. Handshake'
    BY <1>0, <2>1 DEF Handshake, SessionTypes, board
  <2>4. QED
    BY <1>0, <1>5, <2>1, <2>2, <2>3
    DEF SessionInv, SessionTypes, ConnectionAccepted, Leaving, board, BrokerCloses
<1>6. CASE NetworkDies
  BY <1>0, <1>6
  DEF NetworkDies, SessionInv, SessionTypes, Handshake, ConnectionAccepted, Leaving, board, broker
<1>7. QED
  BY <1>1, <1>2, <1>3, <1>4, <1>5, <1>6 DEF Broker

(* The inductive invariant of a session.                                    *)
THEOREM SessionInvariance == Spec => []SessionInv
<1>1. SessionInv /\ [Next]_vars => SessionInv'
  <2> SUFFICES ASSUME SessionInv, [Next]_vars PROVE SessionInv'
    OBVIOUS
  <2>1. CASE Next
    BY <2>1, ProgramStep, BrokerStep DEF Next
  <2>2. CASE UNCHANGED vars
    BY <2>2
    DEF vars, board, broker, network, SessionInv, SessionTypes, Handshake,
        ConnectionAccepted, Leaving
  <2>3. QED
    BY <2>1, <2>2
<1>2. QED
  BY <1>1, InitInv, PTL DEF Spec

(* main.c:217: the board subscribes and obeys only on a connection the      *)
(* broker accepted, whatever the broker sends and however it is read.       *)
THEOREM OnlyAcceptedConnections == Spec => []ConnectionAccepted
<1>1. SessionInv => ConnectionAccepted
  BY DEF SessionInv
<1>2. QED
  BY SessionInvariance, <1>1, PTL

(* TCP_Close closes a socket in which nothing is left, unless the broker    *)
(* took longer than the timeout of the last read.                           *)
THEOREM SocketsAreDrained == Spec => []ClosedDrained
<1>1. SessionInv => ClosedDrained
  BY DEF SessionInv, Leaving, ClosedDrained
<1>2. QED
  BY SessionInvariance, <1>1, PTL

-----------------------------------------------------------------------------
(* What is under way, while the connection is open                          *)

One(b) == IF b THEN 1 ELSE 0

Holds(s, P) == \A i \in 1..Len(s) : s[i] \in P

(* Requests that the board may send before the broker's answers come back   *)
Ahead ==
  CASE pc \in {"start", "loop"} -> 0
    [] pc \in {"connack", "suback", "ping"} -> 1
    [] OTHER -> 2

(* A request turns into at most one packet, and a PINGREQ that got no       *)
(* answer is followed by another one only after a packet came.              *)
Load ==
  /\ Len(toBroker) <= forwarded + 2
  /\ ~closed => Len(toBroker) + Len(toBoard) + One(owed) <= forwarded + Ahead

(* Of the answer to the SUBSCRIBE there is one. *)
OneSuback ==
  /\ \A i, j \in 1..Len(toBoard) : toBoard[i] = "SUBACK" /\ toBoard[j] = "SUBACK" => i = j
  /\ owed => Holds(toBoard, Incoming \ {"SUBACK"})

(* What the board may find when it reads, as long as the connection is open *)
Expected ==
  /\ pc = "start" => toBroker = <<>> /\ toBoard = <<>>
  /\ pc = "connack" => Len(toBroker) + Len(toBoard) <= 1
  /\ pc = "suback" =>
       /\ Holds(toBroker, {"SUBSCRIBE"}) /\ Len(toBroker) <= 1
       /\ Holds(toBoard, {"SUBACK", "NOSUB", "COMMAND", "MESSAGE"}) /\ OneSuback
       /\ toBroker # <<>> => ~subscribed /\ ~owed /\ toBoard = <<>>
       /\ ~Holds(toBoard, {"SUBACK", "COMMAND", "MESSAGE"}) => ~subscribed /\ ~owed /\ Len(toBoard) = 1
  /\ pc = "loop" =>
       /\ Holds(toBroker, {"PINGREQ"})
       /\ Holds(toBoard, {"SUBACK", "COMMAND", "MESSAGE", "PINGRESP"}) /\ OneSuback
  /\ pc = "ping" =>
       /\ Holds(toBroker, {"PINGREQ"}) /\ ~owed
       /\ Holds(toBoard, {"COMMAND", "MESSAGE", "PINGRESP"})
       /\ dead \/ toBroker # <<>> \/ toBoard # <<>>

(* A command is obeyed once, and while it is under way it is not obeyed.    *)
CommandsIn(s) == {i \in 1..Len(s) : s[i] = "COMMAND"}
Counted == obeyed + Cardinality(CommandsIn(toBoard)) <= commands

MoreTypes ==
  /\ buf \in Looks \cup {"zeros", "COMMAND", "DISCONNECT"}
  /\ obeyed \in Nat /\ subscribed \in BOOLEAN
  /\ forwarded \in 0..MaxMessages /\ commands \in 0..forwarded

AliveInv ==
  /\ SessionInv /\ MoreTypes /\ Load /\ Counted /\ AliveNotLost
  /\ ~closed /\ ~late => Expected

(* What a read does that brings n packets *)
Brings(n, ok) ==
  /\ n \in 1..Len(toBoard)
  /\ Len(toBoard') = Len(toBoard) - n
  /\ \A i \in 1..Len(toBoard') : i + n \in 1..Len(toBoard) /\ toBoard'[i] = toBoard[i + n]
  /\ toBoard[1] \in {"CONNACK", "COMMAND", "MESSAGE", "PINGRESP"} => ok
  /\ toBoard[1] \in {"SUBACK", "NOSUB", "UNSUBACK"} =>
       toBoard[n] \in {"DISCONNECT", "MESSAGE"} \/ ok = (toBoard[n] \in EndsInZero)
  /\ toBoard[1] \in {"REFUSED", "DISCONNECT"} => ~ok
  /\ buf' \in Looks \cup {"COMMAND", "DISCONNECT"}
  /\ buf' = "COMMAND" => toBoard[1] = "COMMAND"

LEMMA DataRead ==
  ASSUME SessionTypes, NEW ok \in BOOLEAN, NEW more \in BOOLEAN, ReadData(ok, more)
  PROVE  \E n \in 1..Len(toBoard) : Brings(n, ok)
<1>1. PICK n \in 1..Len(toBoard) :
        /\ toBoard' = SubSeq(toBoard, n + 1, Len(toBoard))
        /\ Accepted(SubSeq(toBoard, 1, n), ok)
        /\ buf' \in LeftInBuffer(SubSeq(toBoard, 1, n))
  BY DEF ReadData
<1>2. toBoard \in Seq(Incoming) /\ Len(toBoard) \in Nat
  BY DEF SessionTypes
<1> DEFINE ps == SubSeq(toBoard, 1, n)
<1>3. /\ ps \in Seq(Incoming) /\ Len(ps) = n
      /\ \A i \in 1..n : ps[i] = toBoard[i]
  BY <1>1, <1>2, SubSeqProperties
<1>4. Head(ps) = toBoard[1] /\ Last(ps) = toBoard[n]
  BY <1>1, <1>2, <1>3 DEF Last
<1>5. /\ Len(toBoard') = Len(toBoard) - n
      /\ \A i \in 1..Len(toBoard') : i + n \in 1..Len(toBoard) /\ toBoard'[i] = toBoard[i + n]
  BY <1>1, <1>2, SubSeqProperties
<1>6. /\ buf' \in Looks \cup {"COMMAND", "DISCONNECT"}
      /\ buf' = "COMMAND" => toBoard[1] = "COMMAND"
  <2>1. toBoard[1] \in Incoming /\ "MESSAGE" \notin Looks /\ "COMMAND" \notin Looks
    BY <1>1, <1>2 DEF Looks, Acks
  <2>2. \/ toBoard[1] = "COMMAND" /\ buf' \in {"text", "COMMAND"}
        \/ toBoard[1] = "MESSAGE" /\ buf' \in Looks
        \/ toBoard[1] \notin {"COMMAND", "MESSAGE"} /\ buf' = toBoard[1]
    BY <1>1, <1>4 DEF LeftInBuffer
  <2> QED BY <2>1, <2>2 DEF Looks, Incoming
<1> HIDE DEF ps
<1>7. /\ toBoard[1] \in {"CONNACK", "COMMAND", "MESSAGE", "PINGRESP"} => ok
      /\ toBoard[1] \in {"SUBACK", "NOSUB", "UNSUBACK"} =>
           toBoard[n] \in {"DISCONNECT", "MESSAGE"} \/ ok = (toBoard[n] \in EndsInZero)
      /\ toBoard[1] \in {"REFUSED", "DISCONNECT"} => ~ok
  BY <1>1, <1>4 DEF Accepted, ps
<1> QED BY <1>1, <1>5, <1>6, <1>7 DEF Brings

(* On an open connection a read brings packets, or it runs into the timeout *)
LEMMA OpenRead ==
  ASSUME SessionInv, NEW ok \in BOOLEAN, NEW more \in BOOLEAN, Read(ok, more), ~closed
  PROVE  \/ \E n \in 1..Len(toBoard) : Brings(n, ok)
         \/ /\ ~ok /\ toBoard' = toBoard /\ buf' = buf
            /\ late' \/ (~late /\ toBoard = <<>> /\ toBroker = <<>> /\ ~owed /\ ~dead)
<1>1. CASE ReadData(ok, more)
  BY <1>1, DataRead DEF SessionInv
<1>2. CASE ReadEnd(ok, more) \/ ReadError(ok, more)
  BY <1>2 DEF ReadEnd, ReadError, SessionInv, Leaving
<1>3. CASE ReadTimeout(ok, more)
  <2>1. late' <=> late \/ toBoard # <<>> \/ toBroker # <<>> \/ owed \/ closed \/ dead
    BY <1>3, Zenon DEF ReadTimeout
  <2>2. ~ok /\ toBoard' = toBoard /\ buf' = buf
    BY <1>3 DEF ReadTimeout
  <2> QED BY <2>1, <2>2
<1> QED BY <1>1, <1>2, <1>3 DEF Read

(* On a closed one it brings packets, or none *)
LEMMA AnyRead ==
  ASSUME SessionInv, NEW ok \in BOOLEAN, NEW more \in BOOLEAN, Read(ok, more)
  PROVE  \/ \E n \in 1..Len(toBoard) : Brings(n, ok)
         \/ toBoard' = toBoard /\ buf' = buf /\ (ok => buf # "COMMAND")
<1>1. CASE ReadData(ok, more)
  BY <1>1, DataRead DEF SessionInv
<1>2. CASE ~ReadData(ok, more)
  BY <1>2 DEF Read, ReadEnd, ReadError, ReadTimeout, AcceptedStale
<1> QED BY <1>1, <1>2

-----------------------------------------------------------------------------
(* Commands are counted as they come and go. *)

LEMMA CommandsFinite ==
  ASSUME NEW s, Len(s) \in Nat
  PROVE  IsFiniteSet(CommandsIn(s)) /\ Cardinality(CommandsIn(s)) \in Nat
<1>1. IsFiniteSet(1..Len(s))
  BY FS_Interval
<1>2. CommandsIn(s) \subseteq 1..Len(s)
  BY DEF CommandsIn
<1> QED BY <1>1, <1>2, FS_Subset, FS_CardinalityType

LEMMA CommandsAppend ==
  ASSUME NEW s \in Seq(Incoming), NEW x
  PROVE  Cardinality(CommandsIn(Append(s, x))) =
           Cardinality(CommandsIn(s)) + (IF x = "COMMAND" THEN 1 ELSE 0)
<1>1. Len(s) \in Nat /\ IsFiniteSet(CommandsIn(s)) /\ Cardinality(CommandsIn(s)) \in Nat
  BY CommandsFinite
<1>2. /\ Len(Append(s, x)) = Len(s) + 1
      /\ \A i \in 1..Len(s) + 1 : Append(s, x)[i] = IF i = Len(s) + 1 THEN x ELSE s[i]
  BY <1>1
<1>3. CASE x = "COMMAND"
  <2>1. CommandsIn(Append(s, x)) = CommandsIn(s) \cup {Len(s) + 1}
    BY <1>1, <1>2, <1>3 DEF CommandsIn
  <2>2. Len(s) + 1 \notin CommandsIn(s)
    BY <1>1 DEF CommandsIn
  <2> QED BY <1>1, <1>3, <2>1, <2>2, FS_AddElement
<1>4. CASE x # "COMMAND"
  <2>1. CommandsIn(Append(s, x)) = CommandsIn(s)
    BY <1>1, <1>2, <1>4 DEF CommandsIn
  <2> QED BY <1>1, <1>4, <2>1
<1> QED BY <1>3, <1>4

LEMMA CommandsRead ==
  ASSUME SessionTypes, NEW n, NEW ok, Brings(n, ok), Len(toBoard') \in Nat
  PROVE  Cardinality(CommandsIn(toBoard')) + (IF buf' = "COMMAND" THEN 1 ELSE 0)
           <= Cardinality(CommandsIn(toBoard))
<1> DEFINE C == CommandsIn(toBoard)
           D == CommandsIn(toBoard')
           M == {i \in C : i > n}
<1>1. /\ Len(toBoard) \in Nat /\ n \in Nat \ {0} /\ n \in 1..Len(toBoard)
      /\ IsFiniteSet(C) /\ Cardinality(C) \in Nat
      /\ IsFiniteSet(D) /\ Cardinality(D) \in Nat
  BY CommandsFinite DEF SessionTypes, Brings
<1>2. IsFiniteSet(M) /\ Cardinality(M) <= Cardinality(C) /\ Cardinality(M) \in Nat
  BY <1>1, FS_Subset, FS_CardinalityType
<1>3. Cardinality(D) <= Cardinality(M)
  <2> DEFINE f == [i \in D |-> i + n]
  <2>1. \A i \in D : i \in Nat /\ f[i] = i + n /\ f[i] \in M
    BY <1>1 DEF Brings, CommandsIn
  <2>2. f \in Injection(D, M)
    <3>1. f \in [D -> M] /\ DOMAIN f = D
      BY <2>1
    <3>2. \A a, b \in D : f[a] = f[b] => a = b
      BY <2>1, <1>1
    <3> HIDE DEF f, D, M
    <3> QED BY <3>1, <3>2 DEF Injection, IsInjective
  <2> QED BY <1>2, <2>2, FS_Injection
<1>4. ASSUME buf' = "COMMAND" PROVE Cardinality(M) < Cardinality(C)
  <2>1. 1 \in C /\ 1 \notin M
    BY <1>1, <1>4 DEF Brings, CommandsIn
  <2>2. M \subseteq C /\ M # C
    BY <2>1
  <2> QED BY <1>1, <1>2, <2>2, FS_Subset
<1> HIDE DEF C, D, M
<1>5. Cardinality(D) + (IF buf' = "COMMAND" THEN 1 ELSE 0) <= Cardinality(C)
  BY <1>1, <1>2, <1>3, <1>4
<1> QED BY <1>5 DEF C, D

-----------------------------------------------------------------------------
(* Main_Thread and Close_Program keep what is under way in bounds.          *)
LEMMA ProgramLoad ==
  ASSUME AliveInv, SessionInv', Program \/ Press
  PROVE  Load' /\ MoreTypes' /\ Counted'
<1>1. /\ SessionInv /\ SessionTypes /\ MoreTypes /\ Load /\ Counted
      /\ forwarded \in Nat /\ commands \in Nat /\ obeyed \in Nat /\ closed \in BOOLEAN /\ owed \in BOOLEAN
      /\ Len(toBroker) \in Nat /\ Len(toBoard) \in Nat
      /\ Len(toBroker') \in Nat /\ Len(toBoard') \in Nat
      /\ Cardinality(CommandsIn(toBoard)) \in Nat /\ Cardinality(CommandsIn(toBoard')) \in Nat
  BY CommandsFinite DEF AliveInv, SessionInv, SessionTypes, MoreTypes
<1>2. UNCHANGED <<closed, owed, forwarded, commands, subscribed>>
  BY DEF Program, Press, Connect, AwaitConnack, AwaitSuback, Loop, Ping, AwaitUnsuback, Drain, Overrun,
         broker
<1>3. One(owed) \in Nat /\ Ahead \in 0..2
  BY DEF One, Ahead
<1>4. ASSUME Len(toBroker') <= Len(toBroker) + 1, closed => Len(toBroker') = Len(toBroker),
             ~closed => Len(toBroker') + Len(toBoard') + Ahead
                          <= Len(toBroker) + Len(toBoard) + Ahead'
      PROVE  Load'
  <2>1. One(owed') = One(owed) /\ closed' = closed /\ forwarded' = forwarded /\ Ahead' \in 0..2
    BY <1>2 DEF Ahead
  <2>2. One(owed') \in Nat /\ forwarded' \in Nat
    BY <1>1, <1>2, <1>3
  <2>3. Len(toBroker') <= forwarded' + 2
    <3>1. CASE closed
      BY <1>1, <1>2, <1>4, <3>1 DEF Load
    <3>2. CASE ~closed
      BY <1>1, <1>2, <1>3, <1>4, <2>1, <3>2 DEF Load
    <3> QED BY <3>1, <3>2
  <2>4. ~closed' => Len(toBroker') + Len(toBoard') + One(owed') <= forwarded' + Ahead'
    <3>1. ~closed => Len(toBroker) + Len(toBoard) + One(owed) <= forwarded + Ahead
      BY <1>1 DEF Load
    <3> QED BY <1>1, <1>2, <1>3, <1>4, <2>1, <3>1
  <2> QED BY <2>3, <2>4 DEF Load
<1>5. ASSUME NEW p \in Requests, Write(p)
      PROVE  Len(toBroker') = IF closed \/ dead THEN Len(toBroker) ELSE Len(toBroker) + 1
  BY <1>1, <1>5 DEF Write, SessionTypes
<1>6. CASE Connect \/ Press
  <2>1. /\ Len(toBroker') <= Len(toBroker) + 1
        /\ closed => Len(toBroker') = Len(toBroker)
    BY <1>1, <1>5, <1>6 DEF Connect, Press, Requests
  <2>2. toBoard' = toBoard /\ buf' = buf /\ obeyed' = obeyed /\ Ahead' > Ahead
    BY <1>6 DEF Connect, Press, Ahead
  <2>3. Load'
    BY <1>1, <1>3, <1>4, <2>1, <2>2 DEF Ahead
  <2> QED BY <1>1, <1>2, <2>2, <2>3 DEF MoreTypes, Counted
<1>8. CASE Overrun
  <2>1. closed /\ UNCHANGED <<toBroker, toBoard, buf, obeyed>>
    BY <1>8 DEF Overrun, network
  <2>2. Load'
    BY <1>1, <1>4, <2>1
  <2> QED BY <1>1, <1>2, <2>1, <2>2 DEF MoreTypes, Counted
<1>7. CASE ~(Connect \/ Press \/ Overrun)
  <2>1. PICK ok \in BOOLEAN, more \in BOOLEAN :
          /\ Read(ok, more)
          /\ \/ pc = "connack" /\ IF ok THEN pc' = "suback" /\ Write("SUBSCRIBE")
                                       ELSE pc' = "failed" /\ NoWrite
             \/ pc = "suback" /\ NoWrite /\ pc' = IF ok THEN "loop" ELSE "failed"
             \/ pc = "loop" /\ IF ok THEN pc' = "loop" /\ NoWrite
                                    ELSE pc' = "ping" /\ Write("PINGREQ")
             \/ pc = "ping" /\ NoWrite /\ pc' = IF ok THEN "loop" ELSE "lost"
             \/ pc = "unsuback" /\ IF ok THEN pc' = "drain" /\ Write("DISCONNECT")
                                        ELSE pc' = "failed" /\ NoWrite
             \/ pc = "drain" /\ NoWrite /\ pc' \in {"drain", "closed"}
          /\ obeyed' = obeyed \/ (ok /\ Handle)
    BY <1>7 DEF Program, AwaitConnack, AwaitSuback, Loop, Ping, AwaitUnsuback, Drain, NoWrite, ReadPacket, Overrun
  <2>2. /\ Len(toBroker') <= Len(toBroker) + 1
        /\ closed => Len(toBroker') = Len(toBroker)
    BY <1>1, <1>5, <2>1 DEF Requests, NoWrite
  <2>3. ~closed => \/ Len(toBoard') < Len(toBoard)
                   \/ ~ok /\ Len(toBoard') = Len(toBoard)
    BY <1>1, <2>1, OpenRead DEF Brings
  <2>4. ~closed => Len(toBroker') + Len(toBoard') + Ahead
                     <= Len(toBroker) + Len(toBoard) + Ahead'
    <3>1. CASE Len(toBroker') = Len(toBroker) /\ Ahead' >= Ahead
      BY <1>1, <1>3, <2>3, <3>1 DEF Ahead
    <3>2. CASE ok /\ Ahead' >= Ahead - 1 /\ Len(toBroker') = Len(toBroker)
      BY <1>1, <1>3, <2>3, <3>2 DEF Ahead
    <3>3. CASE ok /\ Ahead' >= Ahead
      BY <1>1, <1>3, <2>2, <2>3, <3>3 DEF Ahead
    <3>4. CASE ~ok /\ Ahead' >= Ahead + 1
      BY <1>1, <1>3, <2>2, <2>3, <3>4 DEF Ahead
    <3> QED BY <2>1, <3>1, <3>2, <3>3, <3>4 DEF Ahead, NoWrite
  <2>5. Load'
    BY <1>4, <2>2, <2>4
  <2>6. MoreTypes' /\ Counted'
    <3>1. CASE \E n \in 1..Len(toBoard) : Brings(n, ok)
      <4>1. PICK n \in 1..Len(toBoard) : Brings(n, ok)
        BY <3>1
      <4>2. buf' \in Looks \cup {"zeros", "COMMAND", "DISCONNECT"}
        BY <4>1 DEF Brings
      <4>3. Cardinality(CommandsIn(toBoard')) + (IF buf' = "COMMAND" THEN 1 ELSE 0)
              <= Cardinality(CommandsIn(toBoard))
        BY <1>1, <4>1, CommandsRead
      <4>4. obeyed' \in Nat /\ obeyed' <= obeyed + (IF buf' = "COMMAND" THEN 1 ELSE 0)
        BY <1>1, <2>1 DEF Handle
      <4>5. obeyed' + Cardinality(CommandsIn(toBoard')) <= commands'
        BY <1>1, <1>2, <4>3, <4>4 DEF Counted
      <4> QED BY <1>1, <1>2, <4>2, <4>4, <4>5 DEF MoreTypes, Counted
    <3>2. CASE ~\E n \in 1..Len(toBoard) : Brings(n, ok)
      <4>1. toBoard' = toBoard /\ buf' = buf /\ (ok => buf # "COMMAND")
        BY <1>1, <2>1, <3>2, AnyRead
      <4>2. obeyed' = obeyed
        BY <2>1, <4>1 DEF Handle
      <4> QED BY <1>1, <1>2, <4>1, <4>2 DEF MoreTypes, Counted
    <3> QED BY <3>1, <3>2
  <2> QED BY <2>5, <2>6
<1> QED BY <1>6, <1>7, <1>8

(* So does the broker.                                                      *)
LEMMA BrokerLoad ==
  ASSUME AliveInv, SessionInv', Broker \/ Forward \/ BrokerCloses \/ NetworkDies
  PROVE  Load' /\ MoreTypes' /\ Counted'
<1>1. /\ SessionInv /\ SessionTypes /\ MoreTypes /\ Load /\ Counted
      /\ forwarded \in Nat /\ commands \in Nat /\ obeyed \in Nat /\ closed \in BOOLEAN /\ owed \in BOOLEAN
      /\ Len(toBroker) \in Nat /\ Len(toBoard) \in Nat
      /\ toBoard \in Seq(Incoming) /\ toBroker \in Seq(Requests)
      /\ Cardinality(CommandsIn(toBoard)) \in Nat
  BY CommandsFinite DEF AliveInv, SessionInv, SessionTypes, MoreTypes
<1>2. UNCHANGED board /\ Ahead' = Ahead /\ Ahead \in 0..2 /\ obeyed' = obeyed /\ buf' = buf
  BY DEF Broker, Forward, BrokerCloses, NetworkDies, TakeConnect, TakeSubscribe, SendSuback,
         TakePing, TakeUnsubscribe, TakeDisconnect, board, Ahead
<1>3. ASSUME NEW p, Receive(p) PROVE Len(toBroker') = Len(toBroker) - 1
  BY <1>1, <1>3 DEF Receive
<1>4. ASSUME NEW x \in Incoming, toBoard' = Append(toBoard, x)
      PROVE  /\ Len(toBoard') = Len(toBoard) + 1
             /\ Cardinality(CommandsIn(toBoard')) =
                   Cardinality(CommandsIn(toBoard)) + (IF x = "COMMAND" THEN 1 ELSE 0)
  BY <1>1, <1>4, CommandsAppend
<1>5. CASE Forward
  <2>1. /\ {"COMMAND", "MESSAGE"} \subseteq Incoming
        /\ \/ toBoard' = Append(toBoard, "COMMAND") /\ commands' = commands + 1
           \/ toBoard' = Append(toBoard, "MESSAGE") /\ commands' = commands
        /\ forwarded' = forwarded + 1 /\ forwarded < MaxMessages /\ ~closed
        /\ UNCHANGED <<toBroker, owed, closed, subscribed>>
    BY <1>5 DEF Forward, Incoming
  <2>2. Counted'
    BY <1>1, <1>2, <1>4, <2>1 DEF Counted
  <2>3. Load'
    BY <1>1, <1>2, <1>4, <2>1 DEF Load, One
  <2> QED BY <1>1, <1>2, <2>1, <2>2, <2>3, SessionAssumption DEF MoreTypes
<1>6. CASE ~Forward
  <2>1. /\ forwarded' = forwarded /\ commands' = commands /\ subscribed' \in BOOLEAN
        /\ Len(toBroker') <= Len(toBroker)
    <3>1. forwarded' = forwarded /\ commands' = commands /\ subscribed' \in BOOLEAN
      BY <1>1, <1>6 DEF MoreTypes, Broker, BrokerCloses, NetworkDies, TakeConnect, TakeSubscribe,
         SendSuback, TakePing, TakeUnsubscribe, TakeDisconnect, broker
    <3>2. toBroker' = toBroker \/ \E p \in Requests : Receive(p)
      BY <1>6 DEF Broker, BrokerCloses, NetworkDies, TakeConnect, TakeSubscribe,
         SendSuback, TakePing, TakeUnsubscribe, TakeDisconnect, Requests
    <3> QED BY <1>1, <1>3, <3>1, <3>2
  <2>2. \/ toBoard' = toBoard
        \/ \E x \in Incoming \ {"COMMAND"} : toBoard' = Append(toBoard, x)
    BY <1>6 DEF Broker, BrokerCloses, NetworkDies, TakeConnect, TakeSubscribe,
       SendSuback, TakePing, TakeUnsubscribe, TakeDisconnect, Incoming, Acks
  <2>3. Counted'
    BY <1>1, <1>2, <1>4, <2>1, <2>2 DEF Counted
  <2>4. ~closed' => /\ ~closed
                    /\ Len(toBroker') + Len(toBoard') + One(owed') <= Len(toBroker) + Len(toBoard) + One(owed)
    <3>1. CASE TakeConnect \/ TakeSubscribe
      BY <1>1, <1>3, <1>4, <3>1 DEF TakeConnect, TakeSubscribe, One, Incoming, Acks
    <3>2. CASE SendSuback
      BY <1>1, <1>4, <3>2 DEF SendSuback, One, Incoming, Acks
    <3>3. CASE TakePing \/ TakeUnsubscribe
      BY <1>1, <1>3, <1>4, <3>3 DEF TakePing, TakeUnsubscribe, One, Incoming, Acks, broker
    <3>4. CASE TakeDisconnect \/ BrokerCloses
      BY <3>4 DEF TakeDisconnect, BrokerCloses
    <3>5. CASE NetworkDies
      <4>1. ~closed /\ toBroker' = toBroker /\ toBoard' = toBoard /\ owed' = owed
        BY <3>5 DEF NetworkDies, broker
      <4>2. One(owed) \in Nat
        BY DEF One
      <4> QED BY <1>1, <4>1, <4>2
    <3> QED BY <1>6, <3>1, <3>2, <3>3, <3>4, <3>5 DEF Broker
  <2>5. Len(toBroker') \in Nat /\ Len(toBoard') \in Nat /\ One(owed) \in Nat /\ One(owed') \in Nat
    BY DEF SessionInv, SessionTypes, One
  <2>6. Load'
    BY <1>1, <1>2, <2>1, <2>4, <2>5 DEF Load
  <2> QED BY <1>1, <1>2, <2>1, <2>3, <2>6 DEF MoreTypes
<1> QED BY <1>5, <1>6

-----------------------------------------------------------------------------
LEMMA HoldsRead ==
  ASSUME NEW n, NEW ok, Brings(n, ok), SessionTypes, SessionTypes', NEW P
  PROVE  /\ Holds(toBoard, P) => Holds(toBoard', P)
         /\ toBoard[1] \in P \/ ~Holds(toBoard, P)
         /\ OneSuback => \A i, j \in 1..Len(toBoard') :
                           toBoard'[i] = "SUBACK" /\ toBoard'[j] = "SUBACK" => i = j
         /\ OneSuback /\ toBoard[1] = "SUBACK" => Holds(toBoard', Incoming \ {"SUBACK"}) /\ ~owed
<1>1. /\ Len(toBoard) \in Nat /\ Len(toBoard') \in Nat /\ n \in Nat \ {0}
      /\ 1 \in 1..Len(toBoard) /\ toBoard \in Seq(Incoming)
      /\ \A i \in 1..Len(toBoard') : i + n \in 1..Len(toBoard) /\ toBoard'[i] = toBoard[i + n]
  BY DEF Brings, SessionTypes
<1>2. Holds(toBoard, P) => Holds(toBoard', P) /\ toBoard[1] \in P
  BY <1>1 DEF Holds
<1>3. ASSUME OneSuback, NEW i \in 1..Len(toBoard'), NEW j \in 1..Len(toBoard'),
             toBoard'[i] = "SUBACK", toBoard'[j] = "SUBACK"
      PROVE  i = j
  <2>1. i + n = j + n
    BY <1>1, <1>3 DEF OneSuback
  <2> QED BY <1>1, <2>1
<1>4. ASSUME OneSuback, toBoard[1] = "SUBACK"
      PROVE  Holds(toBoard', Incoming \ {"SUBACK"}) /\ ~owed
  <2>1. \A i \in 1..Len(toBoard') : i + n # 1 /\ toBoard[i + n] \in Incoming
    BY <1>1
  <2>2. \A i \in 1..Len(toBoard') : toBoard'[i] \in Incoming \ {"SUBACK"}
    BY <1>1, <1>4, <2>1 DEF OneSuback
  <2> QED BY <1>1, <1>4, <2>2 DEF OneSuback, Holds
<1> QED BY <1>2, <1>3, <1>4

LEMMA HoldsAppend ==
  ASSUME NEW S, NEW s \in Seq(S), NEW x, NEW P
  PROVE  /\ Len(Append(s, x)) = Len(s) + 1 /\ Len(s) \in Nat
         /\ \A i \in 1..Len(s) : Append(s, x)[i] = s[i]
         /\ Append(s, x)[Len(s) + 1] = x
         /\ Holds(s, P) /\ x \in P => Holds(Append(s, x), P)
<1>1. /\ Len(Append(s, x)) = Len(s) + 1 /\ Len(s) \in Nat
      /\ \A i \in 1..Len(s) : Append(s, x)[i] = s[i]
      /\ Append(s, x)[Len(s) + 1] = x
  OBVIOUS
<1> QED BY <1>1 DEF Holds

(* A program on an open connection finds what it expects, and does not take *)
(* the broker for lost.                                                     *)
LEMMA ProgramExpects ==
  ASSUME AliveInv, SessionInv', Program \/ Press
  PROVE  (~closed' /\ ~late' => Expected') /\ AliveNotLost'
<1>1. /\ SessionInv /\ SessionTypes /\ SessionTypes' /\ Handshake /\ MoreTypes
      /\ toBoard \in Seq(Incoming) /\ toBroker \in Seq(Requests)
      /\ Len(toBoard) \in Nat /\ Len(toBroker) \in Nat
      /\ Len(toBoard') \in Nat /\ Len(toBroker') \in Nat
  BY DEF AliveInv, SessionInv, SessionTypes
<1>2. UNCHANGED <<closed, owed, subscribed, dead>> /\ (late => late')
  <2>1. UNCHANGED <<closed, owed, subscribed, dead>>
    BY DEF Program, Press, Connect, AwaitConnack, AwaitSuback, Loop, Ping, AwaitUnsuback, Drain, Overrun,
           broker, network
  <2>2. late => late'
    BY <1>1, ReadTypes DEF Program, Press, Connect, AwaitConnack, AwaitSuback, Loop, Ping,
       AwaitUnsuback, Drain, Overrun, ReadPacket
  <2> QED BY <2>1, <2>2
<1>3. CASE closed \/ late'
  BY <1>2, <1>3 DEF AliveNotLost
<1>4. CASE ~closed /\ ~late'
  <2> SUFFICES Expected' /\ pc' # "lost"
    BY DEF AliveNotLost
  <2>0. Expected /\ ~late /\ ~closed
    BY <1>2, <1>4 DEF AliveInv
  <2>1. CASE Connect
    BY <1>1, <1>2, <2>0, <2>1 DEF Connect, Write, Expected
  <2>2. CASE Press \/ AwaitUnsuback \/ Drain
    <3>1. pc' \in {"unsuback", "drain", "failed", "closed"}
      BY <2>2 DEF Press, AwaitUnsuback, Drain
    <3> QED BY <3>1 DEF Expected
  <2>3. CASE AwaitConnack
    <3>1. PICK ok \in BOOLEAN, more \in BOOLEAN :
            /\ Read(ok, more)
            /\ IF ok THEN pc' = "suback" /\ Write("SUBSCRIBE") ELSE pc' = "failed" /\ NoWrite
      BY <2>3 DEF AwaitConnack, ReadPacket
    <3>2. CASE ~ok
      BY <3>1, <3>2 DEF Expected
    <3>3. CASE ok
      <4>1. PICK n \in 1..Len(toBoard) : Brings(n, ok)
        BY <1>1, <1>4, <3>1, <3>3, OpenRead
      <4>2. toBroker = <<>> /\ Len(toBoard') = 0 /\ ~subscribed /\ ~owed /\ pc' = "suback"
        BY <1>1, <2>0, <2>3, <3>1, <3>3, <4>1 DEF Expected, AwaitConnack, Brings, Handshake
      <4>3. toBoard' = <<>>
        BY <1>1, <4>2 DEF SessionTypes
      <4>4. toBroker' = <<>> \/ toBroker' = <<"SUBSCRIBE">>
        BY <3>1, <3>3, <4>2 DEF Write
      <4> QED BY <1>2, <4>2, <4>3, <4>4 DEF Expected, Holds, OneSuback
    <3> QED BY <3>2, <3>3
  <2>4. CASE AwaitSuback
    <3>1. PICK ok \in BOOLEAN, more \in BOOLEAN :
            Read(ok, more) /\ pc' = IF ok THEN "loop" ELSE "failed"
      BY <2>4 DEF AwaitSuback, ReadPacket
    <3>2. CASE ~ok
      BY <3>1, <3>2 DEF Expected
    <3>3. CASE ok
      <4>1. PICK n \in 1..Len(toBoard) : Brings(n, ok)
        BY <1>1, <1>4, <3>1, <3>3, OpenRead
      <4>2. /\ pc = "suback" /\ pc' = "loop" /\ toBroker' = <<>> /\ OneSuback
        BY <1>1, <2>0, <2>4, <3>1, <3>3, <4>1 DEF Expected, AwaitSuback
      <4>3. Holds(toBoard, {"SUBACK", "COMMAND", "MESSAGE"})
        <5> SUFFICES ASSUME ~Holds(toBoard, {"SUBACK", "COMMAND", "MESSAGE"}) PROVE FALSE
          OBVIOUS
        <5>1. Len(toBoard) = 1 /\ n = 1 /\ Holds(toBoard, {"SUBACK", "NOSUB", "COMMAND", "MESSAGE"})
          BY <1>1, <2>0, <4>1, <4>2 DEF Expected
        <5>2. toBoard[1] = "NOSUB"
          BY <5>1 DEF Holds
        <5> QED BY <3>3, <4>1, <5>1, <5>2 DEF Brings, EndsInZero
      <4>4. Holds(toBoard, {"SUBACK", "COMMAND", "MESSAGE", "PINGRESP"})
        BY <4>3 DEF Holds
      <4>5. Holds(toBoard', {"SUBACK", "COMMAND", "MESSAGE", "PINGRESP"})
        BY <1>1, <4>1, <4>4, HoldsRead
      <4>6. OneSuback'
        BY <1>1, <1>2, <4>1, <4>2, HoldsRead DEF OneSuback
      <4> QED BY <4>2, <4>5, <4>6 DEF Expected, Holds
    <3> QED BY <3>2, <3>3
  <2>5. CASE Loop
    <3>1. PICK ok \in BOOLEAN, more \in BOOLEAN :
            /\ Read(ok, more)
            /\ IF ok THEN pc' = "loop" /\ NoWrite ELSE pc' = "ping" /\ Write("PINGREQ")
      BY <2>5 DEF Loop, ReadPacket
    <3>2. /\ Holds(toBroker, {"PINGREQ"}) /\ OneSuback
          /\ Holds(toBoard, {"SUBACK", "COMMAND", "MESSAGE", "PINGRESP"})
      BY <2>0, <2>5 DEF Loop, Expected
    <3>3. CASE ok
      <4>1. PICK n \in 1..Len(toBoard) : Brings(n, ok)
        BY <1>1, <1>4, <3>1, <3>3, OpenRead
      <4>2. Holds(toBoard', {"SUBACK", "COMMAND", "MESSAGE", "PINGRESP"})
        BY <1>1, <3>2, <4>1, HoldsRead
      <4>3. OneSuback'
        BY <1>1, <1>2, <3>2, <4>1, HoldsRead DEF OneSuback
      <4> QED BY <3>1, <3>2, <3>3, <4>2, <4>3 DEF Expected, NoWrite
    <3>4. CASE ~ok
      <4>1. Holds(toBroker', {"PINGREQ"}) /\ (dead' \/ toBroker' # <<>>)
        <5>1. CASE dead
          BY <1>2, <3>1, <3>2, <3>4, <5>1 DEF Write
        <5>2. CASE ~dead
          <6>1. toBroker' = Append(toBroker, "PINGREQ")
            BY <1>4, <3>1, <3>4, <5>2 DEF Write
          <6>2. Holds(toBroker', {"PINGREQ"})
            BY <1>1, <3>2, <6>1, HoldsAppend
          <6>3. toBroker' # <<>>
            BY <1>1, <6>1
          <6> QED BY <6>2, <6>3
        <5> QED BY <5>1, <5>2
      <4>2. Holds(toBoard', {"COMMAND", "MESSAGE", "PINGRESP"}) /\ ~owed
        <5>1. CASE \E n \in 1..Len(toBoard) : Brings(n, ok)
          <6>1. PICK n \in 1..Len(toBoard) : Brings(n, ok)
            BY <5>1
          <6>2. toBoard[1] = "SUBACK"
            BY <3>2, <3>4, <6>1 DEF Holds, Brings
          <6>3. /\ Holds(toBoard', {"SUBACK", "COMMAND", "MESSAGE", "PINGRESP"}) /\ ~owed
                /\ Holds(toBoard', Incoming \ {"SUBACK"})
            BY <1>1, <3>2, <6>1, <6>2, HoldsRead
          <6> QED BY <6>3 DEF Holds
        <5>2. CASE ~\E n \in 1..Len(toBoard) : Brings(n, ok)
          BY <1>1, <1>4, <3>1, <5>2, OpenRead DEF Holds
        <5> QED BY <5>1, <5>2
      <4> QED BY <1>2, <3>1, <3>4, <4>1, <4>2 DEF Expected
    <3> QED BY <3>3, <3>4
  <2>6. CASE Ping
    <3>1. PICK ok \in BOOLEAN, more \in BOOLEAN :
            Read(ok, more) /\ pc' = IF ok THEN "loop" ELSE "lost"
      BY <2>6 DEF Ping, ReadPacket
    <3>2. /\ Holds(toBroker, {"PINGREQ"}) /\ ~owed /\ toBroker' = toBroker
          /\ Holds(toBoard, {"COMMAND", "MESSAGE", "PINGRESP"})
          /\ dead \/ toBroker # <<>> \/ toBoard # <<>>
      BY <2>0, <2>6 DEF Ping, Expected
    <3>3. PICK n \in 1..Len(toBoard) : Brings(n, ok)
      BY <1>1, <1>4, <3>1, <3>2, OpenRead
    <3>4. ok
      BY <3>2, <3>3 DEF Holds, Brings
    <3>5. Holds(toBoard', {"COMMAND", "MESSAGE", "PINGRESP"})
      BY <1>1, <3>2, <3>3, HoldsRead
    <3>6. Holds(toBoard', {"SUBACK", "COMMAND", "MESSAGE", "PINGRESP"}) /\ OneSuback'
      BY <1>2, <3>2, <3>5 DEF Holds, OneSuback
    <3> QED BY <3>1, <3>2, <3>4, <3>6 DEF Expected
  <2>7. CASE Overrun
    BY <1>4, <2>7 DEF Overrun
  <2> QED BY <2>1, <2>2, <2>3, <2>4, <2>5, <2>6, <2>7 DEF Program
<1> QED BY <1>3, <1>4

(* Nor does the broker send what the board does not expect.                 *)
LEMMA BrokerExpected ==
  ASSUME AliveInv, SessionInv', Broker \/ Forward \/ BrokerCloses \/ NetworkDies
  PROVE  (~closed' /\ ~late' => Expected') /\ AliveNotLost'
<1>1. /\ SessionInv /\ SessionTypes /\ SessionTypes' /\ Handshake /\ MoreTypes
      /\ toBoard \in Seq(Incoming) /\ toBroker \in Seq(Requests)
      /\ Len(toBoard) \in Nat /\ Len(toBroker) \in Nat
  BY DEF AliveInv, SessionInv, SessionTypes
<1>2. UNCHANGED <<pc, late>> /\ (closed => closed')
  BY DEF Broker, Forward, BrokerCloses, NetworkDies, TakeConnect, TakeSubscribe, SendSuback,
         TakePing, TakeUnsubscribe, TakeDisconnect, board, broker
<1>3. AliveNotLost'
  BY <1>2 DEF AliveInv, AliveNotLost
<1>4. SUFFICES ASSUME ~closed', ~late' PROVE Expected'
  BY <1>3
<1>5. Expected /\ ~closed
  BY <1>2, <1>4 DEF AliveInv
<1>6. ASSUME NEW p \in Requests, Receive(p)
      PROVE  /\ toBroker # <<>> /\ toBroker[1] = p /\ 1 \in 1..Len(toBroker)
             /\ Len(toBroker') = Len(toBroker) - 1
             /\ \A P : Holds(toBroker, P) => p \in P /\ Holds(toBroker', P)
  BY <1>1, <1>6 DEF Receive, Holds
<1>7. CASE TakeConnect
  <2>1. Receive("CONNECT") /\ "CONNECT" \in Requests
    BY <1>7 DEF TakeConnect, Requests
  <2>2. pc \notin {"start", "suback", "loop", "ping"}
    BY <1>5, <1>6, <2>1 DEF Expected
  <2>3. toBoard' = Append(toBoard, "CONNACK")
    BY <1>4, <1>7 DEF TakeConnect
  <2>4. pc = "connack" => Len(toBroker') + Len(toBoard') <= 1
    BY <1>1, <1>5, <1>6, <2>1, <2>3, HoldsAppend DEF Expected
  <2> QED BY <1>2, <2>2, <2>4 DEF Expected
<1>8. CASE TakeSubscribe
  <2>1. Receive("SUBSCRIBE") /\ "SUBSCRIBE" \in Requests
    BY <1>8 DEF TakeSubscribe, Requests
  <2>2. pc \notin {"start", "connack", "loop", "ping"}
    BY <1>1, <1>5, <1>6, <2>1 DEF Expected, Handshake
  <2>3. CASE pc # "suback"
    BY <1>2, <2>2, <2>3 DEF Expected
  <2>4. CASE pc = "suback"
    <3>1. toBoard = <<>> /\ Len(toBroker') = 0 /\ toBroker' = <<>> /\ ~owed /\ ~subscribed
      BY <1>1, <1>5, <1>6, <2>1, <2>4 DEF Expected, SessionTypes
    <3>2. \/ toBoard' = <<>>
          \/ toBoard' = <<"NOSUB">> /\ ~owed' /\ ~subscribed'
      BY <1>8, <3>1 DEF TakeSubscribe
    <3> QED BY <1>2, <2>4, <3>1, <3>2 DEF Expected, Holds, OneSuback
  <2> QED BY <2>3, <2>4
<1>9. CASE SendSuback
  <2>1. /\ owed /\ ~owed' /\ UNCHANGED <<toBroker, subscribed, dead>>
        /\ toBoard' = Append(toBoard, "SUBACK") /\ "SUBACK" \in Incoming
    BY <1>9 DEF SendSuback, Incoming, Acks
  <2>2. pc \notin {"start", "connack", "ping"}
    BY <1>1, <1>5, <2>1 DEF Expected, Handshake
  <2>3. CASE pc \notin {"suback", "loop"}
    BY <1>2, <2>2, <2>3 DEF Expected
  <2>4. CASE pc \in {"suback", "loop"}
    <3>1. OneSuback'
      <4>1. Holds(toBoard, Incoming \ {"SUBACK"})
        BY <1>5, <2>1, <2>4 DEF Expected, OneSuback
      <4>2. \A i \in 1..Len(toBoard') : toBoard'[i] = "SUBACK" => i = Len(toBoard) + 1
        BY <1>1, <2>1, <4>1, HoldsAppend DEF Holds
      <4> QED BY <2>1, <4>2 DEF OneSuback
    <3>2. pc = "suback" => Holds(toBoard, {"SUBACK", "COMMAND", "MESSAGE"}) /\ toBroker = <<>>
      BY <1>5, <2>1 DEF Expected
    <3>3. \A P : Holds(toBoard, P) /\ "SUBACK" \in P => Holds(toBoard', P)
      BY <1>1, <2>1, HoldsAppend
    <3> QED BY <1>2, <1>5, <2>1, <2>4, <3>1, <3>2, <3>3 DEF Expected
  <2> QED BY <2>3, <2>4
<1>10. CASE TakePing
  <2>1. Receive("PINGREQ") /\ "PINGREQ" \in Requests /\ "PINGRESP" \in Incoming
    BY <1>10 DEF TakePing, Requests, Incoming
  <2>2. pc \notin {"start", "connack", "suback"}
    BY <1>1, <1>5, <1>6, <2>1 DEF Expected, Handshake
  <2>3. /\ UNCHANGED <<owed, subscribed, dead>> /\ toBoard' = Append(toBoard, "PINGRESP")
    BY <1>10 DEF TakePing, broker
  <2>4. CASE pc \notin {"loop", "ping"}
    BY <1>2, <2>2, <2>4 DEF Expected
  <2>5. CASE pc \in {"loop", "ping"}
    <3>1. Holds(toBroker', {"PINGREQ"})
      BY <1>5, <1>6, <2>1, <2>5 DEF Expected
    <3>2. /\ \A P : Holds(toBoard, P) /\ "PINGRESP" \in P => Holds(toBoard', P)
          /\ toBoard' # <<>>
      BY <1>1, <2>3, HoldsAppend
    <3>3. OneSuback => OneSuback'
      <4>1. \A i \in 1..Len(toBoard') : toBoard'[i] = "SUBACK" =>
                                         i \in 1..Len(toBoard) /\ toBoard[i] = "SUBACK"
        BY <1>1, <2>3, HoldsAppend
      <4>2. "PINGRESP" \in Incoming \ {"SUBACK"}
        BY <2>1
      <4> QED BY <2>3, <3>2, <4>1, <4>2 DEF OneSuback
    <3> QED BY <1>2, <1>5, <2>3, <2>5, <3>1, <3>2, <3>3 DEF Expected
  <2> QED BY <2>4, <2>5
<1>11. CASE TakeUnsubscribe
  <2>1. Receive("UNSUBSCRIBE") /\ "UNSUBSCRIBE" \in Requests
    BY <1>11 DEF TakeUnsubscribe, Requests
  <2>2. pc \notin {"start", "connack", "suback", "loop", "ping"}
    BY <1>1, <1>5, <1>6, <2>1 DEF Expected, Handshake
  <2> QED BY <1>2, <2>2 DEF Expected
<1>12. CASE Forward
  <2>0. PICK x \in {"COMMAND", "MESSAGE"} : toBoard' = Append(toBoard, x)
    BY <1>12 DEF Forward
  <2>1. /\ subscribed /\ UNCHANGED <<toBroker, owed, subscribed, dead>>
        /\ {"COMMAND", "MESSAGE"} \subseteq Incoming
    BY <1>12 DEF Forward, Incoming
  <2>2. pc \notin {"start", "connack"}
    BY <1>1, <2>1 DEF Handshake
  <2>3. CASE pc \notin {"suback", "loop", "ping"}
    BY <1>2, <2>2, <2>3 DEF Expected
  <2>4. CASE pc \in {"suback", "loop", "ping"}
    <3>1. pc = "suback" => Holds(toBoard, {"SUBACK", "COMMAND", "MESSAGE"}) /\ toBroker = <<>>
      BY <1>5, <2>1 DEF Expected
    <3>2. /\ \A P : Holds(toBoard, P) /\ x \in P => Holds(toBoard', P)
          /\ toBoard' # <<>>
      BY <1>1, <2>0, HoldsAppend
    <3>3. OneSuback => OneSuback'
      <4>1. \A i \in 1..Len(toBoard') : toBoard'[i] = "SUBACK" =>
                                         i \in 1..Len(toBoard) /\ toBoard[i] = "SUBACK"
        BY <1>1, <2>0, HoldsAppend
      <4>2. x \in Incoming \ {"SUBACK"}
        BY <2>0, <2>1
      <4> QED BY <2>1, <3>2, <4>1, <4>2 DEF OneSuback
    <3> QED BY <1>2, <1>5, <2>1, <2>4, <3>1, <3>2, <3>3 DEF Expected
  <2> QED BY <2>3, <2>4
<1>13. CASE NetworkDies
  <2>1. UNCHANGED <<toBroker, toBoard, owed, subscribed>> /\ dead'
    BY <1>13 DEF NetworkDies, broker
  <2> QED BY <1>2, <1>5, <2>1 DEF Expected, OneSuback
<1>14. CASE TakeDisconnect \/ BrokerCloses
  BY <1>4, <1>14 DEF TakeDisconnect, BrokerCloses
<1> QED BY <1>7, <1>8, <1>9, <1>10, <1>11, <1>12, <1>13, <1>14 DEF Broker

-----------------------------------------------------------------------------
(* The inductive invariant of what is under way, for any number of messages *)
THEOREM AliveInvariance == Spec => []AliveInv
<1>1. Init => AliveInv
  <2> SUFFICES ASSUME Init PROVE AliveInv
    OBVIOUS
  <2>1. /\ pc = "start" /\ buf = "zeros" /\ obeyed = 0 /\ forwarded = 0 /\ commands = 0
        /\ toBroker = <<>> /\ toBoard = <<>> /\ subscribed = FALSE /\ owed = FALSE
    BY DEF Init
  <2>2. MoreTypes
    <3>1. 0 \in 0..MaxMessages /\ 0 \in 0..0
      BY SessionAssumption
    <3> QED BY <2>1, <3>1 DEF MoreTypes
  <2>5. Load
    <3>1. Len(toBroker) = 0 /\ Len(toBoard) = 0 /\ Ahead = 0 /\ One(owed) = 0
      BY <2>1 DEF Ahead, One
    <3> QED BY <2>1, <3>1 DEF Load
  <2>4. Counted
    <3>1. CommandsIn(<<>>) = {} /\ Cardinality({}) = 0
      BY FS_EmptySet DEF CommandsIn
    <3>2. Cardinality(CommandsIn(toBoard)) = 0
      BY <2>1, <3>1
    <3> QED BY <2>1, <3>2 DEF Counted
  <2>3. AliveNotLost /\ Expected
    BY DEF Init, AliveNotLost, Expected
  <2> QED BY <2>2, <2>3, <2>4, <2>5, InitInv DEF AliveInv
<1>2. AliveInv /\ SessionInv' /\ [Next]_vars => AliveInv'
  <2> SUFFICES ASSUME AliveInv, SessionInv', [Next]_vars PROVE AliveInv'
    OBVIOUS
  <2>1. CASE Program \/ Press
    BY <2>1, ProgramLoad, ProgramExpects DEF AliveInv
  <2>2. CASE Broker \/ Forward \/ BrokerCloses \/ NetworkDies
    BY <2>2, BrokerLoad, BrokerExpected DEF AliveInv
  <2>3. CASE UNCHANGED vars
    BY <2>3 DEF vars, board, broker, network, AliveInv, MoreTypes, Load, Counted, AliveNotLost,
       Expected, OneSuback, Ahead
  <2> QED BY <2>1, <2>2, <2>3 DEF Next
<1> QED BY <1>1, <1>2, SessionInvariance, PTL DEF Spec

(* Types, and the bound on the requests under way, which nothing in the     *)
(* code counts: a PINGREQ goes out only after the last one was followed by  *)
(* a packet.                                                                *)
THEOREM SessionTypesHold == Spec => []TypeOK
<1>1. AliveInv => TypeOK
  <2> SUFFICES ASSUME AliveInv PROVE TypeOK
    OBVIOUS
  <2>1. SessionTypes /\ MoreTypes /\ Len(toBroker) <= forwarded + 2 /\ Len(toBroker) \in Nat
    BY DEF AliveInv, SessionInv, SessionTypes, Load
  <2>2. Len(toBroker) <= MaxMessages + 4
    BY <2>1, SessionAssumption DEF MoreTypes
  <2> QED BY <2>1, <2>2 DEF SessionTypes, MoreTypes, TypeOK
<1> QED BY <1>1, AliveInvariance, PTL

(* mqtt_recv_buf keeps what earlier reads left in it, and a command in it   *)
(* is never obeyed a second time: for any number of messages, cut into      *)
(* reads in any way.                                                        *)
THEOREM CommandsObeyedOnce == Spec => []ObeysOnlyCommands
<1>1. AliveInv => ObeysOnlyCommands
  <2> SUFFICES ASSUME AliveInv PROVE ObeysOnlyCommands
    OBVIOUS
  <2>1. Cardinality(CommandsIn(toBoard)) \in Nat /\ obeyed \in Nat /\ commands \in Nat
    BY CommandsFinite DEF AliveInv, SessionInv, SessionTypes, MoreTypes
  <2> QED BY <2>1 DEF AliveInv, Counted, ObeysOnlyCommands
<1> QED BY <1>1, AliveInvariance, PTL

(* The loop of Main_Thread with its PINGREQ: a broker that answers in time  *)
(* is not taken for lost, for any number of messages and however they are   *)
(* read.                                                                    *)
THEOREM AliveBrokersAreKept == Spec => []AliveNotLost
<1>1. AliveInv => AliveNotLost
  BY DEF AliveInv
<1> QED BY <1>1, AliveInvariance, PTL

-----------------------------------------------------------------------------
(* The bytes of the packets *)

(* What Min returns of a set with a least element that is known.            *)
LEMMA MinIs ==
  ASSUME NEW S \in SUBSET Int, NEW x \in S, \A y \in S : x <= y
  PROVE  Min(S) = x
<1>1. \A y \in S : (\A z \in S : y <= z) => y = x
  OBVIOUS
<1> QED BY <1>1, Zenon DEF Min

(* The loop over pow counts the digits of a length.                         *)
LEMMA DigitsCounted ==
  ASSUME NEW x \in Nat, x < 128 * 128 * 128 * 128
  PROVE  Digits(x) = IF x < 128 THEN 1 ELSE IF x < 128 * 128 THEN 2
                           ELSE IF x < 128 * 128 * 128 THEN 3 ELSE 4
<1> DEFINE S == {n \in 1..4 : x \div Power[n] = 0}
<1>1. S = {n \in 1..4 : x < Power[n]}
  BY DEF Power
<1>2. CASE x < 128
  <2>1. 1 \in S /\ \A y \in S : 1 <= y
    BY <1>1, <1>2 DEF Power
  <2> QED BY <2>1, <1>2, MinIs DEF Digits
<1>3. CASE x >= 128 /\ x < 128 * 128
  <2>1. 2 \in S /\ \A y \in S : 2 <= y
    BY <1>1, <1>3 DEF Power
  <2> QED BY <2>1, <1>3, MinIs DEF Digits
<1>4. CASE x >= 128 * 128 /\ x < 128 * 128 * 128
  <2>1. 3 \in S /\ \A y \in S : 3 <= y
    BY <1>1, <1>4 DEF Power
  <2> QED BY <2>1, <1>4, MinIs DEF Digits
<1>5. CASE x >= 128 * 128 * 128
  <2>1. 4 \in S /\ \A y \in S : 4 <= y
    BY <1>1, <1>5 DEF Power
  <2> QED BY <2>1, <1>5, MinIs DEF Digits
<1> QED BY <1>2, <1>3, <1>4, <1>5

LEMMA Bytes == \A x : x \in Byte <=> x \in Nat /\ x < 256
BY DEF Byte

LEMMA IsByte == ASSUME NEW x \in Nat, x < 256 PROVE x \in Byte
BY Bytes

(* Bytes as they encode a length: a mark on all but the last.               *)
Encoding(digits, x) ==
  /\ digits \in Seq(Byte) /\ Len(digits) \in 1..4
  /\ \A k \in 1..Len(digits) : digits[k] >= 128 <=> k < Len(digits)
  /\ Decoded(digits) = x

LEMMA EncodingIs ==
  ASSUME NEW digits, NEW x, Encoding(digits, x)
  PROVE  /\ digits \in Seq(Byte) /\ Len(digits) \in 1..4
         /\ \A k \in 1..Len(digits) : /\ digits[k] \in Byte
                                     /\ digits[k] >= 128 <=> k < Len(digits)
         /\ Decoded(digits) = x
<1>1. digits \in Seq(Byte) /\ Len(digits) \in 1..4
  BY DEF Encoding
<1>2. \A k \in 1..Len(digits) : digits[k] >= 128 <=> k < Len(digits)
  BY DEF Encoding
<1>3. Decoded(digits) = x
  BY DEF Encoding
<1> QED BY <1>1, <1>2, <1>3

(* A turn of the loop over rem_len puts one byte before the ones of the     *)
(* turns to come.                                                           *)
LEMMA TurnDecodes ==
  ASSUME NEW x \in Nat, NEW more, Encoding(more, x \div 128), Len(more) < 4
  PROVE  /\ Encoding(Turn(x, more), x)
         /\ Len(Turn(x, more)) = IF x < 128 THEN 1 ELSE 1 + Len(more)
<1> DEFINE a == x % 128
           b == x \div 128
           digits == Turn(x, more)
<1>1. a \in Nat /\ a < 128 /\ b \in Nat /\ x = a + 128 * b /\ (x < 128 => x = a)
  OBVIOUS
<1>2. CASE x < 128
  <2>1. digits = <<x>>
    BY <1>2 DEF Turn
  <2>2. digits \in Seq(Byte) /\ Len(digits) = 1 /\ digits[1] = x
    BY <1>2, <2>1, Bytes
  <2>3. Decoded(digits) = x
    BY <1>2, <2>2 DEF Decoded
  <2> QED BY <1>2, <2>2, <2>3 DEF Encoding
<1>3. CASE x >= 128
  <2>1. digits = <<128 + a>> \o more
    BY <1>3 DEF Turn
  <2>2. /\ more \in Seq(Byte) /\ Len(more) \in 1..3
        /\ \A k \in 1..Len(more) : /\ more[k] \in Byte
                                  /\ more[k] >= 128 <=> k < Len(more)
    <3>1. more \in Seq(Byte) /\ Len(more) \in 1..3
      BY EncodingIs
    <3> QED BY <3>1, EncodingIs
  <2>3. <<128 + a>> \in Seq(Byte) /\ Len(<<128 + a>>) = 1 /\ <<128 + a>>[1] = 128 + a
    BY <1>1, Bytes
  <2>4. /\ digits \in Seq(Byte) /\ Len(digits) = 1 + Len(more)
        /\ digits[1] = 128 + a /\ \A k \in 1..Len(more) : digits[k + 1] = more[k]
    BY <2>1, <2>2, <2>3, ConcatProperties
  <2> HIDE DEF a, b, digits
  <2>5. \A k \in 1..Len(digits) : digits[k] >= 128 <=> k < Len(digits)
    <3>1. 1 < Len(digits) /\ digits[1] >= 128
      BY <1>1, <2>2, <2>4
    <3>2. ASSUME NEW k \in 2..Len(digits) PROVE digits[k] >= 128 <=> k < Len(digits)
      <4>1. k - 1 \in 1..Len(more) /\ digits[k] = more[k - 1]
        BY <2>2, <2>4
      <4>2. more[k - 1] >= 128 <=> k - 1 < Len(more)
        BY <2>2, <4>1
      <4> QED BY <2>2, <2>4, <4>1, <4>2
    <3> QED BY <2>2, <2>4, <3>1, <3>2
  <2>6. Decoded(digits) = x
    <3> DEFINE m(k) == IF k <= Len(more) THEN more[k] % 128 ELSE 0
               e(k) == IF k <= Len(digits) THEN digits[k] % 128 ELSE 0
    <3>1. e(1) = a /\ e(2) = m(1) /\ e(3) = m(2) /\ e(4) = m(3) /\ m(4) = 0
      BY <1>1, <2>2, <2>4
    <3>2. m(1) + 128 * (m(2) + 128 * (m(3) + 128 * m(4))) = b
      BY DEF Encoding, Decoded, b
    <3>3. m(1) \in Nat /\ m(2) \in Nat /\ m(3) \in Nat
      BY <2>2, Bytes
    <3> HIDE DEF m, e
    <3>4. e(1) + 128 * (e(2) + 128 * (e(3) + 128 * e(4))) = x
      BY <1>1, <3>1, <3>2, <3>3
    <3> QED BY <3>4 DEF Decoded, e
  <2> QED BY <1>3, <2>2, <2>4, <2>5, <2>6 DEF Encoding, digits
<1> QED BY <1>2, <1>3

(* The loop over rem_len writes as many bytes as the other loop counted,    *)
(* and a broker decodes the length from them.                               *)
LEMMA LengthWritten ==
  ASSUME NEW x \in Nat, x < 128 * 128 * 128 * 128
  PROVE  /\ Encoding(RemainingLength(x), x)
         /\ Len(RemainingLength(x)) = Digits(x)
<1> DEFINE y == x \div 128
           z == y \div 128
           last == <<z \div 128>>
           two == Turn(z, last)
           three == Turn(y, two)
<1>1. y \in Nat /\ z \in Nat /\ z \div 128 \in Nat /\ z \div 128 < 128
  OBVIOUS
<1>2. Encoding(last, z \div 128) /\ Len(last) = 1
  <2> DEFINE v == z \div 128
  <2> HIDE DEF v
  <2>1. v \in Nat /\ v < 128
    BY <1>1 DEF v
  <2>2. last \in Seq(Byte) /\ Len(last) = 1 /\ last[1] = v
    BY <2>1, Bytes DEF v
  <2> HIDE DEF last
  <2>3. Decoded(last) = v
    BY <2>1, <2>2 DEF Decoded
  <2> QED BY <2>1, <2>2, <2>3 DEF v, Encoding
<1>3. (y < 128 <=> x < 128 * 128) /\ (z < 128 <=> x < 128 * 128 * 128)
  OBVIOUS
<1>4. y = x \div 128 /\ z = y \div 128
  OBVIOUS
<1> HIDE DEF last, y, z
<1>5. Encoding(two, z) /\ Len(two) = IF z < 128 THEN 1 ELSE 2
  <2>1. Len(last) < 4
    BY <1>2
  <2>2. Encoding(two, z)
    BY <1>1, <1>2, <2>1, TurnDecodes
  <2>3. Len(two) = IF z < 128 THEN 1 ELSE 1 + Len(last)
    BY <1>1, <1>2, <2>1, TurnDecodes
  <2> QED BY <1>2, <2>2, <2>3
<1> HIDE DEF two
<1>6. Encoding(three, y) /\ Len(three) = IF y < 128 THEN 1 ELSE 1 + Len(two)
  <2>1. Len(two) < 4 /\ Encoding(two, y \div 128)
    BY <1>4, <1>5
  <2> QED BY <1>1, <2>1, TurnDecodes
<1> HIDE DEF three
<1>7. /\ Encoding(Turn(x, three), x)
      /\ Len(Turn(x, three)) = IF x < 128 THEN 1 ELSE 1 + Len(three)
  <2>1. Len(three) < 4 /\ Encoding(three, x \div 128)
    BY <1>4, <1>5, <1>6
  <2> QED BY <2>1, TurnDecodes
<1>8. RemainingLength(x) = Turn(x, three)
  BY DEF RemainingLength, three, two, last, y, z
<1>9. Len(Turn(x, three)) = IF x < 128 THEN 1 ELSE IF x < 128 * 128 THEN 2
                                  ELSE IF x < 128 * 128 * 128 THEN 3 ELSE 4
  BY <1>3, <1>5, <1>6, <1>7
<1>10. Digits(x) = IF x < 128 THEN 1 ELSE IF x < 128 * 128 THEN 2
                         ELSE IF x < 128 * 128 * 128 THEN 3 ELSE 4
  BY DigitsCounted
<1> QED BY <1>7, <1>8, <1>9, <1>10

(* A text, and the two bytes of its length before it.                       *)
LEMMA RepeatIs ==
  ASSUME NEW c \in Nat, NEW n \in Nat
  PROVE  /\ Repeat(c, n) \in Seq(Nat) /\ Len(Repeat(c, n)) = n
         /\ \A k \in 1..n : Repeat(c, n)[k] = c
BY DEF Repeat

LEMMA TwoBytesIs ==
  ASSUME NEW x \in Nat
  PROVE  /\ TwoBytes(x) \in Seq(Nat) /\ Len(TwoBytes(x)) = 2
         /\ TwoBytes(x)[1] = x \div 256 /\ TwoBytes(x)[2] = x % 256
BY DEF TwoBytes

(* The length of a text is found again in two bytes after n others.         *)
LEMMA FieldFound ==
  ASSUME NEW x \in Nat, NEW n \in Nat, NEW body \in Seq(Nat), n + 2 <= Len(body),
         body[n + 1] = x \div 256, body[n + 2] = x % 256
  PROVE  LET field == SubSeq(body, n + 1, n + 2) IN 256 * field[1] + field[2] = x
<1>1. \A i \in (n + 1)..(n + 2) : body[i] \in Nat
  BY ElementOfSeq
<1>2. /\ SubSeq(body, n + 1, n + 2)[1] = body[n + 1]
      /\ SubSeq(body, n + 1, n + 2)[2] = body[n + 2]
  BY <1>1, SubSeqProperties
<1> QED BY <1>2

(* What follows the remaining length is as long as the sizes say, and has   *)
(* the length of its text where a broker looks for it.                      *)
Fitting(body, size, at, t) ==
  /\ body \in Seq(Nat) /\ Len(body) = size
  /\ at + 2 <= size /\ body[at + 1] = t \div 256 /\ body[at + 2] = t % 256

LEMMA ConnectFits ==
  ASSUME NEW t \in Nat
  PROVE  Fitting(Body("CONNECT", t, 0, 0), 13 + t, 11, t)
<1> DEFINE fixed == <<0, 4, 77, 81, 84, 84, 5, 2>>
           alive == TwoBytes(30)
           none == <<0>>
           length == TwoBytes(t)
           name == Repeat(97, t)
           body == fixed \o alive \o none \o length \o name
           before == Len(fixed) + Len(alive) + Len(none)
<1>1. /\ fixed \in Seq(Nat) /\ alive \in Seq(Nat) /\ none \in Seq(Nat)
      /\ length \in Seq(Nat) /\ name \in Seq(Nat)
  BY TwoBytesIs, RepeatIs
<1>2. /\ Len(fixed) = 8 /\ Len(alive) = 2 /\ Len(none) = 1
      /\ Len(length) = 2 /\ length[1] = t \div 256 /\ length[2] = t % 256
      /\ Len(name) = t
  <2>1. Len(fixed) = 8 /\ Len(none) = 1
    OBVIOUS
  <2>2. Len(alive) = 2
    BY TwoBytesIs
  <2>3. Len(length) = 2 /\ length[1] = t \div 256 /\ length[2] = t % 256
    BY TwoBytesIs
  <2>4. Len(name) = t
    BY RepeatIs
  <2> QED BY <2>1, <2>2, <2>3, <2>4
<1>3. Body("CONNECT", t, 0, 0) = body
  BY DEF Body
<1> HIDE DEF fixed, alive, none, length, name
<1>4. /\ body \in Seq(Nat) /\ Len(body) = before + Len(length) + Len(name)
      /\ \A k \in 1..Len(length) : body[before + k] = length[k]
  BY <1>1
<1> HIDE DEF body
<1>5. before = 11
  BY <1>2
<1> HIDE DEF before
<1> QED BY <1>2, <1>3, <1>4, <1>5 DEF Fitting

LEMMA PublishFits ==
  ASSUME NEW t \in Nat, NEW m \in Nat
  PROVE  Fitting(Body("PUBLISH", t, m, 0), 3 + t + m, 0, t)
<1> DEFINE length == TwoBytes(t)
           name == Repeat(97, t)
           none == <<0>>
           message == Repeat(97, m)
           body == length \o name \o none \o message
<1>1. length \in Seq(Nat) /\ name \in Seq(Nat) /\ none \in Seq(Nat) /\ message \in Seq(Nat)
  <2>1. length \in Seq(Nat) /\ none \in Seq(Nat)
    BY TwoBytesIs
  <2>2. name \in Seq(Nat) /\ message \in Seq(Nat)
    BY RepeatIs
  <2> QED BY <2>1, <2>2
<1>2. /\ Len(length) = 2 /\ length[1] = t \div 256 /\ length[2] = t % 256
      /\ Len(name) = t /\ Len(none) = 1 /\ Len(message) = m
  <2>1. Len(length) = 2 /\ length[1] = t \div 256 /\ length[2] = t % 256 /\ Len(none) = 1
    BY TwoBytesIs
  <2>2. Len(name) = t /\ Len(message) = m
    BY RepeatIs
  <2> QED BY <2>1, <2>2
<1>3. Body("PUBLISH", t, m, 0) = body
  BY DEF Body
<1> HIDE DEF length, name, none, message
<1>4. /\ body \in Seq(Nat) /\ Len(body) = Len(length) + Len(name) + Len(none) + Len(message)
      /\ \A k \in 1..Len(length) : body[k] = length[k]
  BY <1>1
<1> HIDE DEF body
<1> QED BY <1>2, <1>3, <1>4 DEF Fitting

LEMMA UnsubscribeFits ==
  ASSUME NEW t \in Nat, NEW id \in Nat
  PROVE  Fitting(Body("UNSUBSCRIBE", t, 0, id), 5 + t, 3, t)
<1> DEFINE number == Identifier(id)
           none == <<0>>
           length == TwoBytes(t)
           name == Repeat(97, t)
           body == number \o none \o length \o name
           before == Len(number) + Len(none)
<1>1. number \in Seq(Nat) /\ none \in Seq(Nat) /\ length \in Seq(Nat) /\ name \in Seq(Nat)
  BY TwoBytesIs, RepeatIs DEF Identifier
<1>2. /\ Len(number) = 2 /\ Len(none) = 1
      /\ Len(length) = 2 /\ length[1] = t \div 256 /\ length[2] = t % 256
      /\ Len(name) = t
  BY TwoBytesIs, RepeatIs DEF Identifier
<1>3. Body("UNSUBSCRIBE", t, 0, id) = body
  BY DEF Body
<1> HIDE DEF number, none, length, name
<1>4. /\ body \in Seq(Nat) /\ Len(body) = before + Len(length) + Len(name)
      /\ \A k \in 1..Len(length) : body[before + k] = length[k]
  BY <1>1
<1> HIDE DEF body
<1>5. before = 3
  BY <1>2
<1> HIDE DEF before
<1> QED BY <1>2, <1>3, <1>4, <1>5 DEF Fitting

(* A SUBSCRIBE is an UNSUBSCRIBE and one byte of options.                   *)
LEMMA SubscribeFits ==
  ASSUME NEW t \in Nat, NEW id \in Nat
  PROVE  Fitting(Body("SUBSCRIBE", t, 0, id), 6 + t, 3, t)
<1> DEFINE none == <<0>>
           most == Body("UNSUBSCRIBE", t, 0, id)
           body == most \o none
<1>1. none \in Seq(Nat) /\ most \in Seq(Nat)
  BY UnsubscribeFits DEF Fitting
<1>2. Len(none) = 1
  OBVIOUS
<1>3. Len(most) = 5 + t /\ most[4] = t \div 256 /\ most[5] = t % 256
  <2>1. Fitting(most, 5 + t, 3, t)
    BY UnsubscribeFits
  <2> HIDE DEF most
  <2> QED BY <2>1 DEF Fitting
<1>4. Body("SUBSCRIBE", t, 0, id) = body
  BY DEF Body
<1> HIDE DEF none, most
<1>5. /\ body \in Seq(Nat) /\ Len(body) = Len(most) + Len(none)
      /\ \A k \in 1..Len(most) : body[k] = most[k]
  BY <1>1
<1> HIDE DEF body
<1> QED BY <1>2, <1>3, <1>4, <1>5 DEF Fitting

(* A packet that was written: the bytes are those that were reserved, and   *)
(* the remaining length and the length of the text are the right ones.      *)
Written(p) ==
  /\ p.set = p.size
  /\ Encoding(p.length, p.size - 1 - Len(p.length))
  /\ 256 * p.field[1] + p.field[2] = p.name

PacketTypes(p) ==
  /\ p.kind \in Kind /\ p.size \in Nat /\ p.set \in Nat
  /\ p.length \in Seq(Byte) /\ Len(p.length) <= 4 /\ p.field \in Seq(Byte)

LEMMA EncoderWrites ==
  ASSUME NEW kind \in Kind, NEW t \in Nat, NEW m \in Nat, NEW id \in Nat,
         t < 256 * 256, m < 256 * 256, kind # "PUBLISH" => m = 0,
         kind \in {"CONNECT", "PUBLISH"} => id = 0, Encode(kind, t, m, id)
  PROVE  Written(packet') /\ PacketTypes(packet')
<1> DEFINE min == MinSize[kind]
           x == min - 2 + t + m
           n == Digits(x)
           size == min + (n - 1) + t + m
           length == Encoded(size - 2 - (n - 1))
           body == Body(kind, t, m, id)
           at == IF kind = "CONNECT" THEN 11 ELSE IF kind = "PUBLISH" THEN 0 ELSE 3
<1>1. min \in 5..15
  BY DEF MinSize, Kind
<1>2. Fitting(body, x, at, t)
  <2>1. CASE kind = "CONNECT"
    BY <2>1, ConnectFits DEF MinSize
  <2>2. CASE kind = "PUBLISH"
    BY <2>2, PublishFits DEF MinSize
  <2>3. CASE kind = "SUBSCRIBE"
    BY <2>3, SubscribeFits DEF MinSize
  <2>4. CASE kind = "UNSUBSCRIBE"
    BY <2>4, UnsubscribeFits DEF MinSize
  <2> QED BY <2>1, <2>2, <2>3, <2>4 DEF Kind
<1>3. packet' = [kind |-> kind, size |-> size, length |-> length,
                 set |-> 1 + Len(length) + Len(body),
                 field |-> SubSeq(body, at + 1, at + 2), name |-> t, message |-> m]
  <2>1. SubSeq(body, at + 1, at + 2) = IF kind = "CONNECT" THEN SubSeq(body, 12, 13)
                          ELSE IF kind = "PUBLISH" THEN SubSeq(body, 1, 2) ELSE SubSeq(body, 4, 5)
    OBVIOUS
  <2> HIDE DEF body, length, n, min, at
  <2> QED BY <2>1 DEF Encode, n, min, length, body
<1> HIDE DEF min, body, at
<1>4. x \in Nat /\ x < 128 * 128 * 128 * 128
  BY <1>1
<1>5. n \in 1..4
  BY <1>4, DigitsCounted
<1> HIDE DEF n
<1>6. size - 2 - (n - 1) = x
  BY <1>1, <1>5
<1>7. Encoding(length, x) /\ Len(length) = n
  BY <1>4, <1>6, LengthWritten DEF n, Encoded
<1> HIDE DEF length
<1>8. x = size - 1 - Len(length)
  BY <1>1, <1>5, <1>7
<1>9. 1 + Len(length) + Len(body) = size
  BY <1>1, <1>2, <1>5, <1>7 DEF Fitting
<1>10. LET field == SubSeq(body, at + 1, at + 2) IN 256 * field[1] + field[2] = t
  <2>1. at \in Nat
    BY DEF at
  <2> QED BY <1>2, <2>1, FieldFound DEF Fitting
<1>11. SubSeq(body, at + 1, at + 2) \in Seq(Byte)
  <2>1. at \in Nat
    BY DEF at
  <2>2. t \div 256 \in Byte /\ t % 256 \in Byte
    <3>1. t \div 256 \in Nat /\ t \div 256 < 256 /\ t % 256 \in Nat /\ t % 256 < 256
      OBVIOUS
    <3> QED BY <3>1, IsByte
  <2>3. \A i \in (at + 1)..(at + 2) : body[i] \in Byte
    BY <1>2, <2>1, <2>2 DEF Fitting
  <2> QED BY <2>1, <2>3, SubSeqProperties
<1>12. size \in Nat /\ 1 + Len(length) + Len(body) \in Nat
  BY <1>1, <1>5, <1>9
<1>13. length \in Seq(Byte) /\ Len(length) <= 4
  BY <1>7, EncodingIs
<1> HIDE DEF x, size
<1>14. Written(packet')
  BY <1>3, <1>7, <1>8, <1>9, <1>10 DEF Written
<1>15. PacketTypes(packet')
  BY <1>3, <1>11, <1>12, <1>13 DEF PacketTypes
<1> QED BY <1>14, <1>15

(* A set of natural numbers has a least one.                                *)
LEMMA MinOf ==
  ASSUME NEW S \in SUBSET Nat, S # {}
  PROVE  Min(S) \in S /\ \A y \in S : Min(S) <= y
<1>1. PICK x \in S : \A y \in S : ~(<<y, x>> \in OpToRel(<, Nat))
  BY NatLessThanWellFounded, WFMin, Zenon
<1>2. \A y \in S : ~(y < x)
  BY <1>1, Zenon DEF OpToRel
<1>3. \A y \in S : x <= y
  BY <1>2
<1> QED BY <1>3, MinIs

(* What a read finds in the buffer after the broker has sent w in a PUBLISH *)
(* with p bytes of properties: ret bytes, r of them for the length.         *)
Arrived(b, ret, r, p, w) ==
  /\ b \in [0..BufLen - 1 -> Byte]
  /\ ret \in Nat /\ ret <= BufLen /\ r \in 1..4 /\ ret = 4 + r + topic + p + Len(w)
  /\ b[0] = 48 /\ \A k \in 1..r : b[k] >= 128 <=> k < r
  /\ b[r + 1] = topic \div 256 /\ b[r + 2] = topic % 256 /\ b[r + 3 + topic] = p
  /\ \A k \in 1..Len(w) : b[ret - Len(w) + k - 1] = w[k]

LEMMA PublishArrives ==
  ASSUME topic \in Nat, topic < 256 * 256, BufLen \in Nat,
         recv_buf \in [0..BufLen - 1 -> Byte],
         NEW p \in Nat, p < 128, NEW w \in Seq(Byte), Len(w) < 256 * 256,
         Len(Forwarded(p, w)) <= BufLen
  PROVE  \E r \in 1..4 :
           Arrived(Fill(Forwarded(p, w)), Len(Forwarded(p, w)), r, p, w)
<1> DEFINE length == TwoBytes(topic)
           name == Repeat(97, topic)
           count == <<p>>
           props == Repeat(98, p)
           body == length \o name \o count \o props \o w
           first == <<48>>
           rl == RemainingLength(Len(body))
           bytes == first \o rl \o body
           b == Fill(bytes)
           r == Len(rl)
<1>1. /\ length \in Seq(Byte) /\ Len(length) = 2
      /\ length[1] = topic \div 256 /\ length[2] = topic % 256
  <2>1. topic \div 256 \in Byte /\ topic % 256 \in Byte
    <3>1. /\ topic \div 256 \in Nat /\ topic \div 256 < 256
          /\ topic % 256 \in Nat /\ topic % 256 < 256
      OBVIOUS
    <3> QED BY <3>1, IsByte
  <2> QED BY <2>1 DEF TwoBytes
<1>2. name \in Seq(Byte) /\ Len(name) = topic
  <2>1. 97 \in Byte
    BY IsByte
  <2> QED BY <2>1 DEF Repeat
<1>3. /\ count \in Seq(Byte) /\ Len(count) = 1 /\ count[1] = p
      /\ first \in Seq(Byte) /\ Len(first) = 1 /\ first[1] = 48
  <2>1. p \in Byte /\ 48 \in Byte
    BY IsByte
  <2> QED BY <2>1
<1>4. props \in Seq(Byte) /\ Len(props) = p
  <2>1. 98 \in Byte
    BY IsByte
  <2> QED BY <2>1 DEF Repeat
<1>5. Forwarded(p, w) = bytes
  BY DEF Forwarded
<1> HIDE DEF length, name, count, props, first
<1>6. /\ length \in Seq(Byte) /\ name \in Seq(Byte) /\ count \in Seq(Byte)
      /\ props \in Seq(Byte)
  BY <1>1, <1>2, <1>3, <1>4
<1>7. /\ body \in Seq(Byte)
      /\ Len(body) = Len(length) + Len(name) + Len(count) + Len(props) + Len(w)
      /\ \A k \in 1..Len(length) : body[k] = length[k]
      /\ \A k \in 1..Len(count) : body[Len(length) + Len(name) + k] = count[k]
      /\ \A k \in 1..Len(w) : body[Len(length) + Len(name) + Len(count) + Len(props) + k] = w[k]
  BY <1>6
<1> HIDE DEF body
<1>8. /\ Len(body) = 3 + topic + p + Len(w)
      /\ body[1] = topic \div 256 /\ body[2] = topic % 256 /\ body[3 + topic] = p
      /\ \A k \in 1..Len(w) : body[3 + topic + p + k] = w[k]
  <2>1. /\ Len(length) + Len(name) + Len(count) = 3 + topic
        /\ Len(length) + Len(name) + Len(count) + Len(props) = 3 + topic + p
    BY <1>1, <1>2, <1>3, <1>4
  <2>2. Len(body) = 3 + topic + p + Len(w)
    BY <1>7, <2>1
  <2>3. body[1] = topic \div 256 /\ body[2] = topic % 256
    BY <1>1, <1>7
  <2>4. body[3 + topic] = p
    <3>1. body[Len(length) + Len(name) + 1] = p
      BY <1>3, <1>7
    <3>2. Len(length) + Len(name) + 1 = 3 + topic
      BY <1>1, <1>2
    <3> QED BY <3>1, <3>2
  <2>5. \A k \in 1..Len(w) : body[3 + topic + p + k] = w[k]
    BY <1>7, <2>1
  <2> QED BY <2>2, <2>3, <2>4, <2>5
<1>9. /\ rl \in Seq(Byte) /\ r \in 1..4
      /\ \A k \in 1..r : rl[k] >= 128 <=> k < r
  <2>1. Len(body) \in Nat /\ Len(body) < 128 * 128 * 128 * 128
    BY <1>8
  <2> QED BY <2>1, LengthWritten, EncodingIs
<1> HIDE DEF rl
<1>10. first \in Seq(Byte) /\ rl \in Seq(Byte) /\ body \in Seq(Byte)
  BY <1>3, <1>7, <1>9
<1>11. /\ bytes \in Seq(Byte) /\ Len(bytes) = Len(first) + Len(rl) + Len(body)
       /\ \A k \in 1..Len(first) : bytes[k] = first[k]
       /\ \A k \in 1..Len(rl) : bytes[Len(first) + k] = rl[k]
       /\ \A k \in 1..Len(body) : bytes[Len(first) + Len(rl) + k] = body[k]
  BY <1>10
<1> HIDE DEF bytes
<1>12. /\ Len(bytes) = 4 + r + topic + p + Len(w) /\ bytes[1] = 48
       /\ \A k \in 1..r : bytes[1 + k] = rl[k]
       /\ \A k \in 1..Len(body) : bytes[1 + r + k] = body[k]
  BY <1>3, <1>8, <1>9, <1>11
<1>13. Len(bytes) \in Nat /\ Len(bytes) <= BufLen
  BY <1>5, <1>11
<1>14. /\ b \in [0..BufLen - 1 -> Byte]
       /\ \A k \in 0..Len(bytes) - 1 : b[k] = bytes[k + 1]
  BY <1>11, <1>13 DEF Fill
<1> HIDE DEF b
<1>15. b[0] = 48 /\ \A k \in 1..r : b[k] = rl[k]
  <2>1. r + 1 <= Len(bytes)
    BY <1>8, <1>9, <1>12
  <2>2. b[0] = bytes[1]
    BY <1>9, <1>13, <1>14, <2>1
  <2>3. ASSUME NEW k \in 1..r PROVE b[k] = rl[k]
    <3>1. k \in 0..Len(bytes) - 1
      BY <1>9, <1>13, <2>1
    <3>2. b[k] = bytes[1 + k]
      BY <1>14, <3>1
    <3> QED BY <1>12, <3>2
  <2> QED BY <1>12, <2>2, <2>3
<1>16. ASSUME NEW k \in 1..Len(body) PROVE b[r + k] = body[k]
  <2>1. r + k \in 0..Len(bytes) - 1
    BY <1>8, <1>9, <1>12
  <2>2. b[r + k] = bytes[r + k + 1]
    BY <1>14, <2>1
  <2>3. r + k + 1 = 1 + r + k
    BY <1>8, <1>9
  <2> QED BY <1>12, <2>2, <2>3
<1>17. b[r + 1] = topic \div 256 /\ b[r + 2] = topic % 256 /\ b[r + 3 + topic] = p
  BY <1>8, <1>9, <1>16
<1>18. ASSUME NEW k \in 1..Len(w) PROVE b[Len(bytes) - Len(w) + k - 1] = w[k]
  <2>1. 3 + topic + p + k \in 1..Len(body)
    BY <1>8
  <2>2. Len(bytes) - Len(w) + k - 1 = r + (3 + topic + p + k)
    BY <1>9, <1>12
  <2> QED BY <1>8, <1>16, <2>1, <2>2
<1>19. Arrived(b, Len(bytes), r, p, w)
  BY <1>9, <1>12, <1>13, <1>14, <1>15, <1>17, <1>18 DEF Arrived
<1> QED BY <1>5, <1>9, <1>19 DEF b

(* The buffer never looks like a PUBLISH whose length does not end well     *)
(* before the end of the buffer.                                            *)
Closed(b) == b[0] \div 16 = 3 => \E k \in 1..BufLen - 3 : b[k] < 128

(* Whatever MQTT_Read_PUBLISH takes for a message, it stays in the buffer.  *)
LEMMA HandleTypes ==
  ASSUME BufLen \in Nat \ {0}, NEW b \in [0..BufLen - 1 -> Byte], Closed(b),
         NEW ret \in 0..BufLen, HandlePublish(b, ret)
  PROVE  /\ recv_buf' \in [0..BufLen - 1 -> Byte] /\ Closed(recv_buf')
         /\ result' \in -2..BufLen
<1> DEFINE m == MessageLength(b, ret)
<1>1. CASE b[0] \div 16 # 3
  BY <1>1 DEF HandlePublish
<1>2. CASE b[0] \div 16 = 3
  <2> DEFINE S == {k \in DOMAIN b \ {0} : b[k] < 128}
             n == Min(S)
             t == 128 * b[n + 1] + b[n + 2]
             at == n + 2 + t + 1
             p == IF at \in DOMAIN b THEN b[at] ELSE 0
  <2>1. DOMAIN b = 0..BufLen - 1 /\ \A k \in 0..BufLen - 1 : b[k] \in Nat /\ b[k] < 256
    BY Bytes
  <2>2. PICK k \in 1..BufLen - 3 : b[k] < 128
    BY <1>2 DEF Closed
  <2>3. S \in SUBSET Nat /\ k \in S
    BY <2>1, <2>2
  <2>4. n \in S /\ n <= k
    BY <2>3, MinOf
  <2>5. n \in 1..BufLen - 3
    BY <2>1, <2>2, <2>4
  <2> HIDE DEF n
  <2>6. t \in Nat
    BY <2>1, <2>5
  <2> HIDE DEF t
  <2>7. p \in Nat
    BY <2>1, <2>5, <2>6
  <2> HIDE DEF p
  <2>8. m = ret - 1 - n - 2 - t - 1 - p
    BY DEF MessageLength, n, t, p
  <2>9. m \in Int /\ m + n + 4 <= ret
    BY <2>5, <2>6, <2>7, <2>8
  <2>10. b[n] < 128
    BY <2>4 DEF n
  <2> HIDE DEF m
  <2>11. CASE m < 0
    BY <1>2, <2>11 DEF HandlePublish, m
  <2>12. CASE m >= 0
    <3>1. recv_buf' = Moved(b, ret, m) /\ result' = ret
      BY <1>2, <2>9, <2>12 DEF HandlePublish, m
    <3>2. m \in 0..BufLen - 5
      BY <2>5, <2>9, <2>12
    <3>3. /\ recv_buf' \in [0..BufLen - 1 -> Byte]
          /\ recv_buf'[m] = 0
      <4>1. ASSUME NEW j \in 0..BufLen - 1, j < m PROVE b[j + ret - m] \in Byte
        <5>1. j + ret - m \in 0..BufLen - 1
          BY <2>5, <2>9, <3>2, <4>1
        <5> QED BY <5>1
      <4>2. 0 \in Byte
        BY IsByte
      <4>3. recv_buf' = [j \in 0..BufLen - 1 |->
                         IF j < m THEN b[j + ret - m] ELSE IF j = m THEN 0 ELSE b[j]]
        BY <2>1, <3>1 DEF Moved
      <4>4. recv_buf' \in [0..BufLen - 1 -> Byte]
        BY <4>1, <4>2, <4>3
      <4>5. recv_buf'[m] = 0
        BY <3>2, <4>3
      <4> QED BY <4>4, <4>5
    <3>4. CASE m = 0
      BY <3>1, <3>3, <3>4 DEF Closed
    <3>5. CASE m # 0
      <4>1. m \in 1..BufLen - 3 /\ recv_buf'[m] < 128
        BY <3>2, <3>3, <3>5
      <4> QED BY <3>1, <3>3, <4>1 DEF Closed
    <3> QED BY <3>1, <3>3, <3>4, <3>5
  <2> QED BY <2>9, <2>11, <2>12
<1> QED BY <1>1, <1>2

(* The message of a PUBLISH is where it is looked for, as long as the       *)
(* length of its topic fits into one byte, and ends where it ended.         *)
LEMMA PublishIsHandled ==
  ASSUME topic \in Nat, topic < 256, BufLen \in Nat,
         NEW b, NEW ret, NEW r \in 1..4, NEW p \in Nat, NEW c \in Nat \ {0}, NEW l \in Nat,
         Arrived(b, ret, r, p, Repeat(c, l)), HandlePublish(b, ret)
  PROVE  Text' = Repeat(c, l)
<1> DEFINE w == Repeat(c, l)
           S == {k \in DOMAIN b \ {0} : b[k] < 128}
           n == Min(S)
           t == 128 * b[n + 1] + b[n + 2]
           at == n + 2 + t + 1
           m == MessageLength(b, ret)
<1>1. /\ b \in [0..BufLen - 1 -> Byte]
      /\ ret \in Nat /\ ret <= BufLen /\ ret = 4 + r + topic + p + Len(w)
      /\ b[0] = 48 /\ \A k \in 1..r : b[k] >= 128 <=> k < r
      /\ b[r + 1] = topic \div 256 /\ b[r + 2] = topic % 256 /\ b[r + 3 + topic] = p
      /\ \A k \in 1..Len(w) : b[ret - Len(w) + k - 1] = w[k]
  BY DEF Arrived
<1>2. Len(w) = l /\ \A k \in 1..l : w[k] = c
  BY RepeatIs
<1> HIDE DEF w
<1>3. DOMAIN b = 0..BufLen - 1 /\ \A k \in 0..BufLen - 1 : b[k] \in Nat
  BY <1>1, Bytes
<1>4. n = r
  <2>1. r \in S
    <3>1. r \in 0..BufLen - 1 /\ r # 0
      BY <1>1, <1>2
    <3>2. b[r] < 128
      BY <1>1, <1>3, <3>1
    <3> QED BY <1>3, <3>1, <3>2
  <2>2. \A k \in S : r <= k
    BY <1>1, <1>3
  <2>3. S \in SUBSET Int
    BY <1>3
  <2> QED BY <2>1, <2>2, <2>3, MinIs
<1> HIDE DEF n
<1>5. t = topic
  <2>1. topic \div 256 = 0 /\ topic % 256 = topic
    OBVIOUS
  <2>2. b[n + 1] = 0 /\ b[n + 2] = topic
    BY <1>1, <1>4, <2>1
  <2> QED BY <2>2
<1> HIDE DEF t
<1>6. at = r + 3 + topic /\ at \in DOMAIN b
  BY <1>1, <1>2, <1>3, <1>4, <1>5
<1> HIDE DEF at
<1>7. m = ret - 1 - n - 2 - t - 1 - (IF at \in DOMAIN b THEN b[at] ELSE 0)
  BY DEF MessageLength, at, n, t
<1>8. m = l
  BY <1>1, <1>2, <1>4, <1>5, <1>6, <1>7
<1>9. recv_buf' = Moved(b, ret, l)
  BY <1>1, <1>8 DEF HandlePublish
<1>10. /\ DOMAIN recv_buf' = 0..BufLen - 1 /\ l \in 0..BufLen - 1
       /\ recv_buf'[l] = 0 /\ \A k \in 0..l - 1 : recv_buf'[k] = c
  <2>1. l \in 0..BufLen - 1
    BY <1>1, <1>2
  <2>2. recv_buf' = [k \in 0..BufLen - 1 |->
                     IF k < l THEN b[k + ret - l] ELSE IF k = l THEN 0 ELSE b[k]]
    BY <1>3, <1>9 DEF Moved
  <2>3. ASSUME NEW k \in 0..l - 1 PROVE recv_buf'[k] = c
    <3>1. k \in 0..BufLen - 1 /\ k < l /\ k + 1 \in 1..l
      BY <2>1
    <3>2. b[ret - l + (k + 1) - 1] = c
      <4>1. \A i \in 1..l : b[ret - l + i - 1] = w[i]
        BY <1>1, <1>2
      <4> QED BY <1>2, <3>1, <4>1
    <3>3. ret - l + (k + 1) - 1 = k + ret - l
      BY <1>1, <3>1
    <3> QED BY <2>2, <3>1, <3>2, <3>3
  <2>4. \A k \in 0..l - 1 : recv_buf'[k] = c
    BY <2>3
  <2>5. DOMAIN recv_buf' = 0..BufLen - 1 /\ recv_buf'[l] = 0
    BY <2>1, <2>2
  <2> QED BY <2>1, <2>4, <2>5
<1> DEFINE ends == {k \in DOMAIN recv_buf' : recv_buf'[k] = 0}
<1>11. ends # {} /\ Min(ends) = l
  <2>1. l \in ends /\ ends \in SUBSET Int
    BY <1>10
  <2>2. \A k \in ends : l <= k
    BY <1>10
  <2> QED BY <2>1, <2>2, MinIs
<1>12. Text' = [k \in 1..l |-> recv_buf'[k - 1]]
  BY <1>11 DEF Text
<1>13. \A k \in 1..l : recv_buf'[k - 1] = c
  BY <1>10
<1> QED BY <1>12, <1>13 DEF Repeat

(* What holds in every state of the encoders and of the buffer.             *)
CodecInv ==
  /\ stage \in {"start", "connected", "loop", "end"} /\ topic \in TopicLengths
  /\ packet_identifier \in CASE stage \in {"start", "connected"} -> {0}
                             [] stage = "loop" -> {1} [] stage = "end" -> {1, 2}
  /\ PacketTypes(packet) /\ packet.set = packet.size
  /\ stage # "start" => Written(packet)
  /\ recv_buf \in [0..BufLen - 1 -> Byte] /\ Closed(recv_buf)
  /\ text \in Seq(Characters) /\ result \in -2..BufLen

(* The message is in the buffer for as long as it is looked at.             *)
Recovered == text # <<>> => Text = text

LEMMA LengthsFit ==
  /\ BufLen \in Nat \ {0} /\ \A n \in Lengths : n \in Nat /\ n < 256 * 256
  /\ \A n \in TopicLengths : n \in Nat /\ n < 256 * 256
  /\ \A n \in Messages : n \in Nat /\ n < 256 * 256
  /\ \A n \in PropLengths : n \in Nat /\ n < 128
  /\ \A c \in Characters : c \in Nat \ {0} /\ c < 256
BY CodecAssumption

LEMMA CodecStarts == CodecInit => CodecInv /\ Recovered
<1> SUFFICES ASSUME CodecInit PROVE CodecInv /\ Recovered
  OBVIOUS
<1>1. PacketTypes(packet) /\ packet.set = packet.size
  BY DEF CodecInit, Kind, PacketTypes, Byte
<1>2. recv_buf \in [0..BufLen - 1 -> Byte] /\ Closed(recv_buf)
  <2>1. recv_buf = [k \in 0..BufLen - 1 |-> 0] /\ 0 \in 0..BufLen - 1 /\ 0 \in Byte
    BY LengthsFit, IsByte DEF CodecInit
  <2> QED BY <2>1 DEF Closed
<1>3. result \in -2..BufLen /\ text \in Seq(Characters)
  BY LengthsFit DEF CodecInit
<1> QED BY <1>1, <1>2, <1>3 DEF CodecInit, CodecInv, Recovered

LEMMA CodecStep ==
  ASSUME CodecInv, CodecNext
  PROVE  CodecInv' /\ ((\A n \in TopicLengths : n < 256) /\ Recovered => Recovered')
<1>1. /\ BufLen \in Nat \ {0} /\ \A n \in Lengths : n \in Nat /\ n < 256 * 256
      /\ topic \in Nat /\ topic < 256 * 256
  BY LengthsFit DEF CodecInv
<1> DEFINE Keeps == UNCHANGED <<recv_buf, topic, text, result>>
<1>2. Keeps /\ Recovered => Recovered'
  BY DEF Recovered, Text
<1>3. Keeps => /\ topic' \in TopicLengths /\ text' \in Seq(Characters) /\ result' \in -2..BufLen
               /\ recv_buf' \in [0..BufLen - 1 -> Byte] /\ Closed(recv_buf')
  BY DEF CodecInv
<1>4. CASE WriteConnect
  <2>1. PICK t \in Lengths : Encode("CONNECT", t, 0, 0)
    BY <1>4 DEF WriteConnect
  <2>2. Written(packet') /\ PacketTypes(packet')
    BY <1>1, <2>1, EncoderWrites DEF Kind
  <2> QED BY <1>2, <1>3, <1>4, <2>2 DEF WriteConnect, CodecInv, Written
<1>5. CASE WriteSubscribe
  <2>1. packet_identifier' = 1 /\ Encode("SUBSCRIBE", topic, 0, packet_identifier')
    BY <1>5 DEF WriteSubscribe, NextId, CodecInv
  <2>2. Written(packet') /\ PacketTypes(packet')
    BY <1>1, <2>1, EncoderWrites DEF Kind
  <2> QED BY <1>2, <1>3, <1>5, <2>1, <2>2 DEF WriteSubscribe, CodecInv, Written
<1>6. CASE WritePublish
  <2>1. PICK t \in Lengths, m \in Lengths : Encode("PUBLISH", t, m, 0)
    BY <1>6 DEF WritePublish
  <2>2. Written(packet') /\ PacketTypes(packet')
    BY <1>1, <2>1, EncoderWrites DEF Kind
  <2> QED BY <1>2, <1>3, <1>6, <2>2 DEF WritePublish, CodecInv, Written
<1>7. CASE WriteUnsubscribe
  <2>1. packet_identifier' = 2 /\ Encode("UNSUBSCRIBE", topic, 0, packet_identifier')
    BY <1>7 DEF WriteUnsubscribe, NextId, CodecInv
  <2>2. Written(packet') /\ PacketTypes(packet')
    BY <1>1, <2>1, EncoderWrites DEF Kind
  <2> QED BY <1>2, <1>3, <1>7, <2>1, <2>2 DEF WriteUnsubscribe, CodecInv, Written
<1>8. CASE ReadPublish
  <2>1. PICK p \in PropLengths, l \in Messages, c \in Characters :
          LET bytes == Forwarded(p, Repeat(c, l)) IN
          /\ Len(bytes) <= BufLen /\ text' = Repeat(c, l)
          /\ HandlePublish(Fill(bytes), Len(bytes))
    BY <1>8 DEF ReadPublish
  <2> DEFINE w == Repeat(c, l)
             bytes == Forwarded(p, w)
             b == Fill(bytes)
  <2>2. p \in Nat /\ p < 128 /\ l \in Nat /\ l < 256 * 256 /\ c \in Nat \ {0} /\ c < 256
    BY LengthsFit
  <2>3. w \in Seq(Byte) /\ w \in Seq(Characters) /\ Len(w) = l
    <3>1. c \in Byte
      BY <2>2, IsByte
    <3> QED BY <2>2, <3>1 DEF Repeat
  <2>4. PICK r \in 1..4 : Arrived(b, Len(bytes), r, p, w)
    <3> HIDE DEF w
    <3>1. Len(bytes) <= BufLen
      BY <2>1 DEF w
    <3>2. recv_buf \in [0..BufLen - 1 -> Byte] /\ BufLen \in Nat
      BY <1>1 DEF CodecInv
    <3>3. Len(w) < 256 * 256 /\ w \in Seq(Byte)
      BY <2>2, <2>3
    <3> QED BY <1>1, <2>2, <3>1, <3>2, <3>3, PublishArrives
  <2>5. HandlePublish(b, Len(bytes)) /\ text' = w
    BY <2>1
  <2> HIDE DEF bytes, b
  <2>6. /\ b \in [0..BufLen - 1 -> Byte] /\ Len(bytes) \in 0..BufLen /\ Closed(b)
    <3> HIDE DEF w
    <3>1. /\ b \in [0..BufLen - 1 -> Byte] /\ Len(bytes) \in Nat /\ Len(bytes) <= BufLen
          /\ Len(bytes) = 4 + r + topic + p + Len(w) /\ \A k \in 1..r : b[k] >= 128 <=> k < r
      BY <2>4 DEF Arrived
    <3>2. r \in 1..BufLen - 3 /\ Len(w) \in Nat
      BY <1>1, <2>2, <2>3, <3>1
    <3>3. b[r] < 128
      <4>1. r \in 0..BufLen - 1
        BY <1>1, <3>2
      <4>2. b[r] \in Byte
        BY <3>1, <4>1
      <4>3. b[r] \in Nat
        BY <4>2, Bytes
      <4> QED BY <3>1, <4>3
    <3> QED BY <3>1, <3>2, <3>3 DEF Closed
  <2>7. /\ recv_buf' \in [0..BufLen - 1 -> Byte] /\ Closed(recv_buf')
        /\ result' \in -2..BufLen
    BY <1>1, <2>5, <2>6, HandleTypes
  <2>8. ASSUME \A n \in TopicLengths : n < 256 PROVE Recovered'
    <3>1. topic < 256
      BY <2>8 DEF CodecInv
    <3>2. Text' = w
      BY <1>1, <2>2, <2>4, <2>5, <3>1, PublishIsHandled
    <3> QED BY <2>5, <3>2 DEF Recovered
  <2>9. UNCHANGED <<stage, packet, packet_identifier, topic>>
    BY <1>8 DEF ReadPublish
  <2>10. CodecInv'
    <3> HIDE DEF w
    <3> QED BY <2>3, <2>5, <2>7, <2>9 DEF CodecInv, Written, PacketTypes
  <2> QED BY <2>8, <2>10
<1>9. CASE ReadNothing
  <2>1. /\ stage \in {"loop", "end"} /\ stage' = "end" /\ text' = <<>>
        /\ HandlePublish(recv_buf, 0) /\ UNCHANGED <<packet, packet_identifier, topic>>
    BY <1>9 DEF ReadNothing
  <2>2. recv_buf \in [0..BufLen - 1 -> Byte] /\ Closed(recv_buf) /\ 0 \in 0..BufLen
    BY <1>1 DEF CodecInv
  <2>3. /\ recv_buf' \in [0..BufLen - 1 -> Byte] /\ Closed(recv_buf')
        /\ result' \in -2..BufLen
    BY <1>1, <2>1, <2>2, HandleTypes
  <2> QED BY <2>1, <2>3 DEF CodecInv, Recovered, Written, PacketTypes
<1> QED BY <1>4, <1>5, <1>6, <1>7, <1>8, <1>9 DEF CodecNext

(* The invariant holds for every length that fits into two bytes, for every *)
(* buffer, and whatever was in it before.                                   *)
THEOREM CodecInvariance == CodecSpec => []CodecInv
<1>1. CodecInit => CodecInv
  BY CodecStarts
<1>2. CodecInv /\ [CodecNext]_codecVars => CodecInv'
  <2>1. CodecInv /\ CodecNext => CodecInv'
    BY CodecStep
  <2>2. CodecInv /\ UNCHANGED codecVars => CodecInv'
    BY DEF CodecInv, codecVars, Written, PacketTypes, Closed
  <2> QED BY <2>1, <2>2
<1> QED BY <1>1, <1>2, PTL DEF CodecSpec

(* The packet, the buffer and the result have their types.                  *)
THEOREM CodecTypes == CodecSpec => []CodecTypeOK
<1>1. CodecInv => CodecTypeOK
  BY DEF CodecInv, PacketTypes, CodecTypeOK
<1> QED BY <1>1, CodecInvariance, PTL

(* The encoders of mqtt_client.c write the bytes they reserved, no more and *)
(* no fewer: the loop over pow and the loop over rem_len agree.             *)
THEOREM SizesAreWritten == CodecSpec => []SizeIsWritten
<1>1. CodecInv => SizeIsWritten
  BY DEF CodecInv, SizeIsWritten
<1> QED BY <1>1, CodecInvariance, PTL

(* A broker decodes the remaining length, and the length of the text, of    *)
(* every packet the four encoders write.                                    *)
THEOREM PacketsAreUnderstood == CodecSpec => []BrokerUnderstands
<1>1. CodecInv => BrokerUnderstands
  BY EncodingIs DEF CodecInv, Written, BrokerUnderstands
<1> QED BY <1>1, CodecInvariance, PTL

(* MQTT_Read_PUBLISH leaves the message that was published in the buffer,   *)
(* whatever was there before, for topics of fewer than 256 characters: for  *)
(* longer ones it multiplies by 128 where it is 256.                        *)
THEOREM MessagesAreRecovered ==
  ASSUME \A n \in TopicLengths : n < 256
  PROVE  CodecSpec => []MessageRecovered
<1>1. CodecInit => Recovered
  BY CodecStarts
<1>2. CodecInv /\ Recovered /\ [CodecNext]_codecVars => Recovered'
  <2>1. CodecInv /\ Recovered /\ CodecNext => Recovered'
    BY CodecStep
  <2>2. Recovered /\ UNCHANGED codecVars => Recovered'
    BY DEF Recovered, codecVars, Text
  <2> QED BY <2>1, <2>2
<1>3. Recovered => MessageRecovered
  BY DEF Recovered, MessageRecovered
<1> QED BY <1>1, <1>2, <1>3, CodecInvariance, PTL DEF CodecSpec
=============================================================================
