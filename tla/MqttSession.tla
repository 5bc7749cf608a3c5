---------------------------- MODULE MqttSession ----------------------------
(***************************************************************************)
(* One MQTT session of the board with its broker, from CONNECT to the end  *)
(* of the program: Main_Thread after MQTT_Init, Close_Program, and         *)
(* MQTT_Read_Packet with the functions it hands a packet to.               *)
(*                                                                         *)
(* The connection carries whole packets in order. A read takes whatever    *)
(* part of them has arrived (TCP_Read returns the bytes of every segment   *)
(* that is queued) and handles all of it as one packet, in a buffer that   *)
(* keeps what the previous read left in it. A read that finds the          *)
(* connection closed returns 0 once, and an error from then on.            *)
(*                                                                         *)
(* The broker is modelled from how the board uses it: it answers each      *)
(* request, forwards what other clients publish on the secret topic while  *)
(* the board is subscribed, may do so before its SUBACK is out, and may    *)
(* refuse, fall silent or close the connection at any time. What the other *)
(* clients publish is one of the six commands or any other message, whose  *)
(* text may look like anything.                                            *)
(***************************************************************************)
EXTENDS Naturals, Sequences, SequencesExt

CONSTANT MaxMessages     \* messages the other clients publish in a session

ASSUME SessionAssumption == MaxMessages \in Nat

VARIABLES
  pc,          \* the packet Main_Thread or Close_Program waits for
  buf,         \* what mqtt_recv_buf starts with
  obeyed,      \* commands the board has carried out
  seen,        \* the acknowledgements that began a read
  toBroker, toBoard,
  subscribed, owed,       \* the broker's view: SUBSCRIBE taken, SUBACK not yet sent
  forwarded,   \* messages the broker has sent to the board
  commands,    \* and those of them that are commands
  closed,      \* the broker has closed the connection
  finRead,     \* and a read has returned 0 for it
  dead,        \* nothing that the broker sends arrives any more
  late         \* a read ran into its timeout with something under way

board   == <<pc, buf, obeyed, seen, finRead, late>>
broker  == <<subscribed, owed, forwarded, commands, closed>>
network == <<toBroker, toBoard, dead>>
vars    == <<board, broker, network>>

Acks     == {"CONNACK", "REFUSED", "SUBACK", "NOSUB", "UNSUBACK"}
Incoming == Acks \cup {"PINGRESP", "COMMAND", "MESSAGE", "DISCONNECT"}
Requests == {"CONNECT", "SUBSCRIBE", "PINGREQ", "UNSUBSCRIBE", "DISCONNECT"}
Waiting  == {"connack", "suback", "loop", "ping", "unsuback", "drain"}
Ended    == {"failed", "lost", "closed"}

-----------------------------------------------------------------------------
(* MQTT_Read_Packet on the bytes of the packets ps, one or more             *)

(* What a text left in the buffer can be taken for: it may begin with the   *)
(* first byte of any packet ("PUBLISH" with 0x30 to 0x3F, any digit). A     *)
(* message without text leaves the packet that was read after it.           *)
Looks == Acks \cup {"PINGRESP", "PUBLISH", "text"}

(* A packet whose last byte is 0: the accepted answer of MQTT_Read_SUBACK   *)
(* and MQTT_Read_UNSUBACK, which look at the last byte that was read        *)
EndsInZero == {"SUBACK", "UNSUBACK", "PINGRESP"}

(* MQTT_Read_CONNACK without a look at the reason code *)
AcceptsRefusal(ps, ok) ==
  CASE Head(ps) \in {"CONNACK", "REFUSED", "COMMAND", "MESSAGE", "PINGRESP"} -> ok
    [] Head(ps) \in {"SUBACK", "NOSUB", "UNSUBACK"} ->
         Last(ps) \in {"DISCONNECT", "MESSAGE"} \/ ok = (Last(ps) \in EndsInZero)
    [] OTHER -> ~ok

(* ok: the result is not negative. A DISCONNECT, or the text of a message,  *)
(* may end in 0 or not.                                                     *)
Accepted(ps, ok) ==
  CASE Head(ps) \in {"CONNACK", "COMMAND", "MESSAGE", "PINGRESP"} -> ok
    [] Head(ps) \in {"SUBACK", "NOSUB", "UNSUBACK"} ->
         Last(ps) \in {"DISCONNECT", "MESSAGE"} \/ ok = (Last(ps) \in EndsInZero)
    [] OTHER -> ~ok

(* MQTT_Read_PUBLISH moves the message to the start of the buffer, and      *)
(* takes everything up to the last byte read for the message                *)
LeftInBuffer(ps) ==
  CASE Head(ps) = "COMMAND" -> {IF Len(ps) > 1 THEN "text" ELSE "COMMAND"}
    [] Head(ps) = "MESSAGE" -> Looks
    [] OTHER -> {Head(ps)}

(* A read that returned 0: the handler is chosen by what the buffer held.   *)
(* The SUBACK ones then look at the byte before the buffer. For what        *)
(* MQTT_Read_PUBLISH does then see Overrun.                                 *)
AcceptedStale(ok) ==
  \/ ok /\ buf \in {"CONNACK", "PINGRESP", "SUBACK", "NOSUB", "UNSUBACK"}
  \/ ~ok /\ buf \notin {"CONNACK", "PINGRESP"}

(* The outcomes of a read: ok is "not negative", more is "positive" *)
ReadData(ok, more) ==
  \E n \in 1..Len(toBoard) :
    LET ps == SubSeq(toBoard, 1, n) IN
    /\ toBoard' = SubSeq(toBoard, n + 1, Len(toBoard))
    /\ Accepted(ps, ok) /\ more
    /\ buf' \in LeftInBuffer(ps)
    /\ seen' = seen \cup ({Head(ps)} \cap Acks)
    /\ UNCHANGED <<finRead, late>>

ReadEnd(ok, more) ==
  /\ closed /\ toBoard = <<>> /\ ~finRead
  /\ finRead' = TRUE
  /\ AcceptedStale(ok) /\ ~more
  /\ UNCHANGED <<buf, seen, toBoard, late>>

ReadError(ok, more) ==
  /\ finRead /\ ~ok /\ ~more
  /\ UNCHANGED <<buf, seen, toBoard, finRead, late>>

(* The timeout of 10 seconds set by TCP_Init *)
ReadTimeout(ok, more) ==
  /\ ~finRead /\ ~ok /\ ~more
  /\ late' = (late \/ toBoard # <<>> \/ toBroker # <<>> \/ owed \/ closed \/ dead)
  /\ UNCHANGED <<buf, seen, toBoard, finRead>>

Read(ok, more) ==
  ReadData(ok, more) \/ ReadEnd(ok, more) \/ ReadError(ok, more) \/ ReadTimeout(ok, more)

(* MQTT_Read_Packet, as far as it comes back *)
ReadPacket(ok, more) == Read(ok, more) /\ ~(buf = "PUBLISH" /\ finRead' # finRead)

(* A write is lost without a trace once the connection is gone: its result  *)
(* is never looked at.                                                      *)
Write(p) == toBroker' = IF closed \/ dead THEN toBroker ELSE Append(toBroker, p)

NoWrite == toBroker' = toBroker
-----------------------------------------------------------------------------
(* Main_Thread *)

Connect ==
  /\ pc = "start" /\ pc' = "connack"
  /\ Write("CONNECT")
  /\ UNCHANGED <<buf, obeyed, seen, finRead, late, broker, toBoard, dead>>

AwaitConnack ==
  /\ pc = "connack"
  /\ \E ok, more \in BOOLEAN :
       /\ ReadPacket(ok, more)
       /\ IF ok THEN pc' = "suback" /\ Write("SUBSCRIBE") ELSE pc' = "failed" /\ NoWrite
  /\ UNCHANGED <<obeyed, broker, dead>>

AwaitSuback ==
  /\ pc = "suback"
  /\ \E ok, more \in BOOLEAN :
       /\ ReadPacket(ok, more)
       /\ pc' = IF ok THEN "loop" ELSE "failed"
  /\ UNCHANGED <<obeyed, toBroker, broker, dead>>

(* The buffer holds a command as it was sent, or anything else *)
Handle == obeyed' = IF buf' = "COMMAND" THEN obeyed + 1 ELSE obeyed

(* Ends the program at the first read that brings nothing *)
LoopNoPing ==
  /\ pc = "loop"
  /\ \E ok, more \in BOOLEAN :
       /\ ReadPacket(ok, more)
       /\ IF ok THEN pc' = "loop" /\ Handle ELSE pc' = "lost" /\ obeyed' = obeyed
  /\ UNCHANGED <<toBroker, broker, dead>>

Loop ==
  /\ pc = "loop"
  /\ \E ok, more \in BOOLEAN :
       /\ ReadPacket(ok, more)
       /\ IF ok THEN pc' = "loop" /\ Handle /\ NoWrite
          ELSE pc' = "ping" /\ obeyed' = obeyed /\ Write("PINGREQ")
  /\ UNCHANGED <<broker, dead>>

(* Takes whatever the second read leaves in the buffer for a packet *)
PingUnchecked ==
  /\ pc = "ping"
  /\ \E ok, more \in BOOLEAN : ReadPacket(ok, more) /\ pc' = "loop" /\ Handle
  /\ UNCHANGED <<toBroker, broker, dead>>

(* Reads again and again until the broker answers *)
PingForEver ==
  /\ pc = "ping"
  /\ \E ok, more \in BOOLEAN :
       /\ ReadPacket(ok, more)
       /\ IF ok THEN pc' = "loop" /\ Handle ELSE pc' = "ping" /\ obeyed' = obeyed
  /\ UNCHANGED <<toBroker, broker, dead>>

(* Sends another PINGREQ each time that the answer does not come *)
PingAgain ==
  /\ pc = "ping"
  /\ \E ok, more \in BOOLEAN :
       /\ ReadPacket(ok, more)
       /\ IF ok THEN pc' = "loop" /\ Handle /\ NoWrite
          ELSE pc' = "ping" /\ obeyed' = obeyed /\ Write("PINGREQ")
  /\ UNCHANGED <<broker, dead>>

Ping ==
  /\ pc = "ping"
  /\ \E ok, more \in BOOLEAN :
       /\ ReadPacket(ok, more)
       /\ IF ok THEN pc' = "loop" /\ Handle ELSE pc' = "lost" /\ obeyed' = obeyed
  /\ UNCHANGED <<toBroker, broker, dead>>

-----------------------------------------------------------------------------
(* Button_Thread ends Main_Thread wherever it is in its loop and runs       *)
(* Close_Program.                                                           *)

Press ==
  /\ pc \in {"loop", "ping"} /\ pc' = "unsuback"
  /\ Write("UNSUBSCRIBE")
  /\ UNCHANGED <<buf, obeyed, seen, finRead, late, broker, toBoard, dead>>

AwaitUnsuback ==
  /\ pc = "unsuback"
  /\ \E ok, more \in BOOLEAN :
       /\ ReadPacket(ok, more)
       /\ IF ok THEN pc' = "drain" /\ Write("DISCONNECT") ELSE pc' = "failed" /\ NoWrite
  /\ UNCHANGED <<obeyed, broker, dead>>

(* Closes the socket without reading what is left in it *)
CloseAtOnce ==
  /\ pc = "drain" /\ pc' = "closed"
  /\ UNCHANGED <<buf, obeyed, seen, finRead, late, broker, network>>

(* Reads until a read returns exactly 0 *)
DrainToZero ==
  /\ pc = "drain"
  /\ \E ok, more \in BOOLEAN : Read(ok, more)
  /\ pc' = IF finRead' # finRead THEN "closed" ELSE "drain"
  /\ UNCHANGED <<obeyed, toBroker, broker, dead>>

(* TCP_Close *)
Drain ==
  /\ pc = "drain"
  /\ \E ok, more \in BOOLEAN :
       /\ Read(ok, more)
       /\ pc' = IF more THEN "drain" ELSE "closed"
  /\ UNCHANGED <<obeyed, toBroker, broker, dead>>

(* A read returns 0 over a text that looks like a PUBLISH. The size of the  *)
(* message is 0 less what MQTT_Read_PUBLISH takes for the header, in        *)
(* size_t: the loop that moves it runs through the memory behind the buffer *)
(* and never comes back.                                                    *)
Overrun ==
  /\ pc \in Waiting \ {"drain"} /\ pc' = "overrun"
  /\ closed /\ toBoard = <<>> /\ ~finRead
  /\ buf = "PUBLISH"
  /\ finRead' = TRUE
  /\ UNCHANGED <<buf, obeyed, seen, late, broker, network>>

Program ==
  \/ Overrun
  \/ Connect \/ AwaitConnack \/ AwaitSuback \/ Loop \/ Ping \/ AwaitUnsuback \/ Drain

-----------------------------------------------------------------------------
(* The broker *)

Receive(p) ==
  /\ ~closed /\ ~dead
  /\ toBroker # <<>> /\ Head(toBroker) = p
  /\ toBroker' = Tail(toBroker)

TakeConnect ==
  /\ Receive("CONNECT")
  /\ \/ toBoard' = Append(toBoard, "CONNACK") /\ UNCHANGED closed
     \/ toBoard' = Append(toBoard, "REFUSED") /\ closed' = TRUE
  /\ UNCHANGED <<board, subscribed, owed, forwarded, commands, dead>>

TakeSubscribe ==
  /\ Receive("SUBSCRIBE")
  /\ \/ subscribed' = TRUE /\ owed' = TRUE /\ toBoard' = toBoard
     \/ toBoard' = Append(toBoard, "NOSUB") /\ UNCHANGED <<subscribed, owed>>
  /\ UNCHANGED <<board, forwarded, commands, closed, dead>>

SendSuback ==
  /\ owed /\ ~closed /\ ~dead
  /\ owed' = FALSE
  /\ toBoard' = Append(toBoard, "SUBACK")
  /\ UNCHANGED <<board, subscribed, forwarded, commands, closed, toBroker, dead>>

TakePing ==
  /\ Receive("PINGREQ")
  /\ toBoard' = Append(toBoard, "PINGRESP")
  /\ UNCHANGED <<board, broker, dead>>

TakeUnsubscribe ==
  /\ Receive("UNSUBSCRIBE") /\ ~owed
  /\ subscribed' = FALSE
  /\ toBoard' = Append(toBoard, "UNSUBACK")
  /\ UNCHANGED <<board, owed, forwarded, commands, closed, dead>>

TakeDisconnect ==
  /\ Receive("DISCONNECT")
  /\ closed' = TRUE /\ subscribed' = FALSE /\ owed' = FALSE
  /\ UNCHANGED <<board, forwarded, commands, toBoard, dead>>

(* Another client publishes on the secret topic: a command, or anything     *)
(* else, which the board answers with the date                              *)
Forward ==
  /\ subscribed /\ ~closed /\ ~dead /\ forwarded < MaxMessages
  /\ forwarded' = forwarded + 1
  /\ \/ toBoard' = Append(toBoard, "COMMAND") /\ commands' = commands + 1
     \/ toBoard' = Append(toBoard, "MESSAGE") /\ UNCHANGED commands
  /\ UNCHANGED <<board, subscribed, owed, closed, toBroker, dead>>

Broker ==
  \/ TakeConnect \/ TakeSubscribe \/ SendSuback \/ TakePing \/ TakeUnsubscribe
  \/ TakeDisconnect

(* The broker closes the connection of its own accord *)
BrokerCloses ==
  /\ pc # "start" /\ ~closed /\ ~dead
  /\ closed' = TRUE
  /\ toBoard' \in {toBoard, Append(toBoard, "DISCONNECT")}
  /\ UNCHANGED <<board, subscribed, owed, forwarded, commands, toBroker, dead>>

NetworkDies ==
  /\ ~dead /\ ~closed
  /\ dead' = TRUE
  /\ UNCHANGED <<board, broker, toBroker, toBoard>>

-----------------------------------------------------------------------------
Init ==
  /\ pc = "start" /\ buf = "zeros" /\ obeyed = 0 /\ seen = {}
  /\ finRead = FALSE /\ late = FALSE
  /\ toBroker = <<>> /\ toBoard = <<>> /\ dead = FALSE
  /\ subscribed = FALSE /\ owed = FALSE /\ closed = FALSE
  /\ forwarded = 0 /\ commands = 0

Next == Program \/ Press \/ Broker \/ Forward \/ BrokerCloses \/ NetworkDies

(* Every read returns, after 10 seconds at the latest. Nothing is asked of  *)
(* the broker, of the network or of the button.                             *)
Spec == Init /\ [][Next]_vars /\ WF_vars(Program)

-----------------------------------------------------------------------------
(* Properties *)

(* Types, and the one queue nothing in the code bounds: the requests under  *)
(* way. The board may send a PINGREQ before the last one was answered, but  *)
(* only after a read that brought a packet.                                 *)
TypeOK ==
  /\ pc \in {"start", "overrun"} \cup Waiting \cup Ended
  /\ buf \in Looks \cup {"zeros", "COMMAND", "DISCONNECT"}
  /\ obeyed \in Nat /\ seen \subseteq Acks
  /\ toBroker \in Seq(Requests) /\ Len(toBroker) <= MaxMessages + 4
  /\ toBoard \in Seq(Incoming)
  /\ forwarded \in 0..MaxMessages /\ commands \in 0..forwarded
  /\ {subscribed, owed, closed, finRead, dead, late} \subseteq BOOLEAN

(* The LEDs are switched at most once for each command a client published,  *)
(* although every read uses the same buffer and leaves its rests in it.     *)
ObeysOnlyCommands == obeyed <= commands

(* The board subscribes, and enters its loop, only on a connection that the *)
(* broker accepted: main.c:217, "Esperar a que el broker acepte la conexión".*)
ConnectionAccepted == pc \notin {"start", "connack", "failed"} => "CONNACK" \in seen

(* A broker that answers within the timeout and keeps the connection open   *)
(* is never taken for lost, however its packets are cut into reads.         *)
AliveNotLost == pc = "lost" => late \/ closed

(* The socket is closed with nothing left unread in it, unless the broker   *)
(* took longer than the timeout: TCP_Close, "Procesar los datos aún no      *)
(* leídos para cerrar la conexión correctamente".                           *)
ClosedDrained == pc = "closed" => toBoard = <<>> \/ late

(* A broker that closed the connection or fell silent does not keep the     *)
(* program from ending: main.c:269-274, "se ha perdido la conexión, y por   *)
(* ello se finaliza el programa".                                           *)
LossEnds == (closed \/ dead) ~> (pc \in Ended)

(* The same with the one exception there is: the read that returns 0 over a *)
(* text that looks like a PUBLISH. No other end of the connection, and no   *)
(* other rest in the buffer, keeps the program from ending.                 *)
LossEndsOrOverruns == (closed \/ dead) ~> (pc \in Ended \cup {"overrun"})

(* Once the button is pressed the program ends, whatever is under way, with *)
(* the same exception: Close_Program reads a packet too (main.c:525).       *)
PressEndsOrOverruns == (pc = "unsuback") ~> (pc \in Ended \cup {"overrun"})

(* main.c:524: on a connection that stays open the board waits until the    *)
(* broker has accepted the unsubscription.                                  *)
UnsubackAwaited == pc = "drain" /\ ~closed => "UNSUBACK" \in seen

(* README.md:17: a message that is a command is acted upon.                 *)
CommandsObeyed == pc = "loop" /\ toBoard = <<>> => obeyed = commands
=============================================================================
