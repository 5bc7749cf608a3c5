----------------------------- MODULE MqttCodec -----------------------------
(***************************************************************************)
(* The bytes of MQTT: what the four encoders of mqtt_client.c with a       *)
(* variable part allocate and write, and what MQTT_Read_PUBLISH makes of   *)
(* the bytes in mqtt_recv_buf. The board writes and reads in the order of  *)
(* Main_Thread; a read brings one packet, or nothing at the end of the     *)
(* connection. Reads that bring several packets are in MqttSession.        *)
(*                                                                         *)
(* A text is a sequence of the same character: its length is what matters, *)
(* and its first character, which a read that brings nothing finds at the  *)
(* place of a packet's type. char has no sign in this build.               *)
(***************************************************************************)
EXTENDS Integers, Sequences, FiniteSetsExt

CONSTANTS
  Lengths,       \* lengths of names, topics and messages the board writes
  TopicLengths,  \* lengths of the topic that is subscribed to
  Messages,      \* lengths of the messages that clients publish
  PropLengths,   \* lengths of the properties of their packets
  Characters,    \* what their messages are made of
  BufLen         \* RECV_BUF_SIZE

ASSUME CodecAssumption ==
  /\ \A n \in Lengths \cup TopicLengths \cup Messages \cup {BufLen} : n \in Nat /\ n < 256 * 256
  /\ BufLen # 0
  /\ \A n \in PropLengths : n \in Nat /\ n < 128
  /\ \A c \in Characters : c \in Nat \ {0} /\ c < 256

VARIABLES
  stage,         \* Main_Thread: before CONNECT, before SUBSCRIBE, its loop, the end
  packet,        \* what was written last: bytes reserved, bytes set, and of what
  packet_identifier,
  recv_buf,      \* mqtt_recv_buf
  topic,         \* length of SECRET_TOPIC
  text,          \* the message the last read brought
  result         \* what became of it: the length a handler returned, or -1

codecVars == <<stage, packet, packet_identifier, recv_buf, topic, text, result>>

Repeat(c, n) == [k \in 1..n |-> c]
-----------------------------------------------------------------------------
(* Writing *)

Kind == {"CONNECT", "PUBLISH", "SUBSCRIBE", "UNSUBSCRIBE"}

(* ..._MIN_SIZE *)
MinSize == [CONNECT |-> 15, PUBLISH |-> 5, SUBSCRIBE |-> 8, UNSUBSCRIBE |-> 7]

(* pow(128, n), for the lengths below 2^28 that a packet may have *)
Power == <<128, 128 * 128, 128 * 128 * 128, 128 * 128 * 128 * 128>>

(* the loop over pow(128, n) *)
Digits(x) == Min({n \in 1..4 : x \div Power[n] = 0})

(* a turn of the loop over rem_len: the last byte, or one with the mark and more *)
Turn(x, more) == IF x < 128 THEN <<x>> ELSE <<128 + (x % 128)>> \o more

(* without the mark *)
TurnUnmarked(x, more) == IF x < 128 THEN <<x>> ELSE <<x % 128>> \o more

(* the loop over rem_len: its turns, each with what is left of the length *)
RemainingLength(x) ==
  LET y == x \div 128
      z == y \div 128
  IN Turn(x, Turn(y, Turn(z, <<z \div 128>>)))

EncodedUnmarked(x) ==
  LET y == x \div 128
      z == y \div 128
  IN TurnUnmarked(x, TurnUnmarked(y, TurnUnmarked(z, <<z \div 128>>)))
Encoded(x) == RemainingLength(x)

TwoBytes(x) == <<x \div 256, x % 256>>
Identifier(id) == <<id \div 128, id % 128>>

(* what follows the remaining length, a text being t or m times "a" *)
Body(kind, t, m, id) ==
  CASE kind = "CONNECT" -> <<0, 4, 77, 81, 84, 84, 5, 2>> \o TwoBytes(30) \o <<0>>
                             \o TwoBytes(t) \o Repeat(97, t)
    [] kind = "PUBLISH" -> TwoBytes(t) \o Repeat(97, t) \o <<0>> \o Repeat(97, m)
    [] kind = "SUBSCRIBE" -> Identifier(id) \o <<0>> \o TwoBytes(t) \o Repeat(97, t) \o <<0>>
    [] kind = "UNSUBSCRIBE" -> Identifier(id) \o <<0>> \o TwoBytes(t) \o Repeat(97, t)

(* MQTT_Write_...: calloc, then one byte after the other *)
Encode(kind, t, m, id) ==
  LET n == Digits(MinSize[kind] - 2 + t + m)
      size == MinSize[kind] + (n - 1) + t + m
      length == Encoded(size - 2 - (n - 1))
      body == Body(kind, t, m, id)
  IN packet' = [kind |-> kind, size |-> size, length |-> length, set |-> 1 + Len(length) + Len(body),
                field |-> IF kind = "CONNECT" THEN SubSeq(body, 12, 13)
                          ELSE IF kind = "PUBLISH" THEN SubSeq(body, 1, 2) ELSE SubSeq(body, 4, 5),
                name |-> t, message |-> m]

(* MQTT_Generate_Packet_ID *)
NextId == packet_identifier' = packet_identifier + 1

WriteConnect ==
  /\ stage = "start" /\ stage' = "connected"
  /\ \E t \in Lengths : Encode("CONNECT", t, 0, 0)
  /\ UNCHANGED <<packet_identifier, recv_buf, topic, text, result>>

WriteSubscribe ==
  /\ stage = "connected" /\ stage' = "loop"
  /\ NextId /\ Encode("SUBSCRIBE", topic, 0, packet_identifier')
  /\ UNCHANGED <<recv_buf, topic, text, result>>

WritePublish ==
  /\ stage = "loop"
  /\ \E t, m \in Lengths : Encode("PUBLISH", t, m, 0)
  /\ UNCHANGED <<stage, packet_identifier, recv_buf, topic, text, result>>

WriteUnsubscribe ==
  /\ stage = "loop" /\ stage' = "end"
  /\ NextId /\ Encode("UNSUBSCRIBE", topic, 0, packet_identifier')
  /\ UNCHANGED <<recv_buf, topic, text, result>>
-----------------------------------------------------------------------------
(* Reading *)

(* a PUBLISH of the broker *)
Forwarded(p, w) ==
  LET body == TwoBytes(topic) \o Repeat(97, topic) \o <<p>> \o Repeat(98, p) \o w
  IN <<48>> \o RemainingLength(Len(body)) \o body

(* the bytes of a read over what was there *)
Fill(bytes) == [k \in DOMAIN recv_buf |-> IF k < Len(bytes) THEN bytes[k + 1] ELSE recv_buf[k]]

(* without the end of the text *)
MovedOpen(b, ret, m) == [k \in DOMAIN b |-> IF k < m THEN b[k + ret - m] ELSE b[k]]

Moved(b, ret, m) ==
  [k \in DOMAIN b |-> IF k < m THEN b[k + ret - m] ELSE IF k = m THEN 0 ELSE b[k]]

(* MQTT_Read_PUBLISH up to the message: its length, an unsigned number in the code *)
MessageLength(b, ret) ==
  LET n == Min({k \in DOMAIN b \ {0} : b[k] < 128})
      t == 128 * b[n + 1] + b[n + 2]
      at == n + 2 + t + 1
      p == IF at \in DOMAIN b THEN b[at] ELSE 0
  IN ret - 1 - n - 2 - t - 1 - p

(* MQTT_Read_Packet, for a PUBLISH and for types it does not know *)
HandlePublish(b, ret) ==
  LET m == MessageLength(b, ret) IN
  IF b[0] \div 16 # 3 THEN recv_buf' = b /\ result' = -1
  ELSE /\ result' = IF m < 0 THEN -2 ELSE ret
       /\ recv_buf' = IF m < 0 THEN b ELSE Moved(b, ret, m)

ReadPublish ==
  /\ stage = "loop"
  /\ \E p \in PropLengths, l \in Messages, c \in Characters :
       LET bytes == Forwarded(p, Repeat(c, l)) IN
       /\ Len(bytes) <= BufLen
       /\ text' = Repeat(c, l)
       /\ HandlePublish(Fill(bytes), Len(bytes))
  /\ UNCHANGED <<stage, packet, packet_identifier, topic>>

(* the connection has ended: TCP_Read returns 0 *)
ReadNothing ==
  /\ stage \in {"loop", "end"} /\ stage' = "end"
  /\ text' = <<>>
  /\ HandlePublish(recv_buf, 0)
  /\ UNCHANGED <<packet, packet_identifier, topic>>
-----------------------------------------------------------------------------
CodecInit ==
  /\ stage = "start" /\ packet_identifier = 0 /\ topic \in TopicLengths
  /\ recv_buf = [k \in 0..BufLen - 1 |-> 0]
  /\ packet = [kind |-> "CONNECT", size |-> 0, length |-> <<>>, set |-> 0, field |-> <<0, 0>>,
               name |-> 0, message |-> 0]
  /\ text = <<>> /\ result = -1

CodecNext ==
  WriteConnect \/ WriteSubscribe \/ WritePublish \/ WriteUnsubscribe \/ ReadPublish \/ ReadNothing

CodecSpec == CodecInit /\ [][CodecNext]_codecVars
-----------------------------------------------------------------------------
Byte == 0..255

CodecTypeOK ==
  /\ stage \in {"start", "connected", "loop", "end"}
  /\ packet.kind \in Kind /\ packet.size \in Nat /\ packet.set \in Nat
  /\ packet.length \in Seq(Byte) /\ Len(packet.length) <= 4 /\ packet.field \in Seq(Byte)
  /\ packet_identifier \in 0..2
  /\ recv_buf \in [0..BufLen - 1 -> Byte]
  /\ text \in Seq(Characters)
  /\ result \in -2..BufLen

(* What the encoders write is what they reserved: no byte outside of it,    *)
(* and none left out. The size is counted by one loop, the length by        *)
(* another one.                                                             *)
SizeIsWritten == packet.set = packet.size

(* the remaining length as the standard decodes it; a last digit has no mark *)
Decoded(digits) ==
  LET d(k) == IF k <= Len(digits) THEN digits[k] % 128 ELSE 0
  IN d(1) + 128 * (d(2) + 128 * (d(3) + 128 * d(4)))

(* A broker finds the end of the packet, and the length of its text, where  *)
(* the board put them.                                                      *)
BrokerUnderstands ==
  stage # "start" =>
    /\ Decoded(packet.length) = packet.size - 1 - Len(packet.length)
    /\ \A k \in 1..Len(packet.length) : packet.length[k] >= 128 <=> k < Len(packet.length)
    /\ 256 * packet.field[1] + packet.field[2] = packet.name

(* the C string in the buffer *)
Text == LET ends == {k \in DOMAIN recv_buf : recv_buf[k] = 0} IN
        [k \in 1..(IF ends = {} THEN BufLen ELSE Min(ends)) |-> recv_buf[k - 1]]

(* After a read the buffer holds the message that was published, whatever   *)
(* an older and longer one left in it.                                      *)
MessageRecovered == text # <<>> => Text = text
-----------------------------------------------------------------------------
(* "ret es el tamaño total del paquete PUBLISH" (mqtt_client.c): what the   *)
(* handler takes for a packet is one, so its fields fit into it.            *)
ReadIsWholePacket == result # -2
=============================================================================
