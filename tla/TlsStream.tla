----------------------------- MODULE TlsStream -----------------------------
(***************************************************************************)
(* The TLS connection of a session: mbedtls_ssl_write and mbedtls_ssl_read *)
(* over the socket, one step per change of the context tls, which is       *)
(* global. Main_Thread uses it in its loop; the button's task terminates   *)
(* Main_Thread wherever it is, also between two of these steps, and then   *)
(* closes the session on the same context.                                 *)
(*                                                                         *)
(* A record is one unit on its way to the broker. On its way to the board  *)
(* it has HeaderUnits and BodyUnits, and the socket may hand over any part *)
(* of them. Encryption is what the record counter makes of it: a record is *)
(* accepted only when its number is the one the reader expects.            *)
(*                                                                         *)
(* The broker is modelled from how the board uses it: it sends records     *)
(* when it likes, answers one it cannot accept with an alert and closes.   *)
(***************************************************************************)
EXTENDS Naturals, Sequences

CONSTANTS
  MaxPackets,      \* packets that Main_Thread writes
  MaxRecords       \* records that the broker sends

ASSUME StreamAssumption == MaxPackets \in Nat /\ MaxRecords \in Nat

VARIABLES
  user, call, pc,  \* the task on the connection, the call it is in, and where
  out_rec, out_left, out_adv, out_behind, cur_out_ctr,   \* the output side of tls
  in_left, in_buf, in_ctr,                     \* the input side of tls
  in_rec, in_msglen, in_offt, in_zero,         \* the record being handed out
  got, copied,     \* what f_recv or mbedtls_ssl_read is about to return
  toBroker, toBoard, reset, finRead,           \* the TCP connection
  records, open, broker_ctr, accepted, rejected,   \* the broker
  written,         \* packets given to mbedtls_ssl_write, numbered in order
  delivered,       \* the number of the last chunk of text a read returned
  torn,            \* Main_Thread was terminated with tls half updated
  skipped,         \* writes that returned success for a packet never sent
  emptyRead        \* a read returned 0 with the connection open

output   == <<out_rec, out_left, out_adv, out_behind, cur_out_ctr>>
fetched  == <<in_left, in_buf, in_ctr>>
handed   == <<in_rec, in_msglen, in_offt, in_zero>>
input    == <<fetched, handed>>
tls      == <<output, input>>
wire     == <<toBroker, toBoard, reset, finRead>>
broker   == <<records, open, broker_ctr, accepted, rejected>>
history  == <<written, delivered, torn, skipped, emptyRead>>
vars     == <<user, call, pc, got, copied, tls, wire, broker, history>>

HeaderUnits == 1
BodyUnits   == 2
RecordUnits == HeaderUnits + BodyUnits
Units(k)    == [i \in 1..RecordUnits |-> <<k, i>>]

NoRecord == [num |-> 0, seq |-> 0]
Alert    == 0                \* what a record holds instead of chunks

WriteCalls == {"publish", "ping", "unsub", "bye", "disconnect"}
ReadCalls  == {"read", "again", "await"}
WritePlaces == {"record", "header", "counter", "flush", "sent", "rewind", "pointers"}
ReadPlaces  == {"fetch", "fetched", "decrypt", "message", "copy", "less", "zero", "end"}

-----------------------------------------------------------------------------
(* The calls Main_Thread and Close_Program make. A write's result is        *)
(* ignored; a read that is not negative may still hold a refused packet.    *)

After(c, ok) ==
  CASE c = "read"       -> IF ok THEN "publish" ELSE "ping"
    [] c = "ping"       -> "again"
    [] c = "again"      -> IF ok THEN "publish" ELSE "halted"
    [] c = "publish"    -> "read"
    [] c = "unsub"      -> "await"
    [] c = "await"      -> IF ok THEN "bye" ELSE "halted"
    [] c = "bye"        -> "disconnect"
    [] c = "disconnect" -> "halted"

Return(ok) == pc' = "idle" /\ call' = After(call, ok) /\ UNCHANGED user

Goto(p) == pc' = p /\ UNCHANGED <<user, call>>

(* The places where tls is between two consistent states *)
Torn == {"header", "counter", "flush", "sent", "pointers",
         "fetched", "decrypt", "message", "zero", "end"}

Terminate ==
  /\ user = "Main" /\ call # "halted"
  /\ user' = "Button" /\ call' = "unsub" /\ pc' = "idle"
  /\ torn' = (pc \in Torn)
  /\ UNCHANGED <<got, copied, tls, wire, broker, written, delivered, skipped, emptyRead>>
-----------------------------------------------------------------------------
(* mbedtls_ssl_write *)

(* ssl_write_real: with output left it sends that, and nothing else. With   *)
(* out_hdr moved back and the other pointers not, the new record is put     *)
(* behind the place it is sent from: what goes out is none that the broker  *)
(* accepts.                                                                 *)
Write ==
  /\ pc = "idle" /\ call \in WriteCalls
  /\ user = "Main" => written < MaxPackets
  /\ IF out_left # 0
     THEN /\ Goto("flush")
          /\ written' = written + 1
          /\ skipped' = skipped + 1
          /\ UNCHANGED out_rec
     ELSE /\ Goto("record")
          /\ out_rec' = [num |-> written + 1, seq |-> IF out_behind THEN 0 ELSE cur_out_ctr]
          /\ UNCHANGED <<written, skipped>>
  /\ UNCHANGED <<got, copied, out_left, out_adv, out_behind, cur_out_ctr, input, wire, broker,
                 delivered, torn, emptyRead>>

(* mbedtls_ssl_write_record, after the encryption *)
WriteRecord ==
  /\ pc = "record" /\ Goto("header")
  /\ out_left' = 1
  /\ written' = written + 1
  /\ UNCHANGED <<got, copied, out_rec, out_adv, out_behind, cur_out_ctr, input, wire, broker,
                 delivered, torn, skipped, emptyRead>>

AdvanceHeader ==
  /\ pc = "header" /\ Goto("counter")
  /\ out_adv' = TRUE /\ out_behind' = FALSE
  /\ UNCHANGED <<got, copied, out_rec, out_left, cur_out_ctr, input, wire, broker, history>>

(* mbedtls_ssl_write_record that leaves the flush to a later call *)
CountUnflushed ==
  /\ pc = "counter" /\ Return(TRUE)
  /\ cur_out_ctr' = cur_out_ctr + 1
  /\ UNCHANGED <<got, copied, out_rec, out_left, out_adv, out_behind, input, wire, broker, history>>

CountRecord ==
  /\ pc = "counter" /\ Goto("flush")
  /\ cur_out_ctr' = cur_out_ctr + 1
  /\ UNCHANGED <<got, copied, out_rec, out_left, out_adv, out_behind, input, wire, broker, history>>

(* What lies in the out_left bytes before out_hdr: with out_hdr not yet     *)
(* moved, not the record                                                    *)
Pending == IF out_adv THEN out_rec ELSE NoRecord

(* mbedtls_ssl_flush_output: f_send takes all of it, or fails *)
Flush ==
  /\ pc = "flush" /\ ~reset /\ Goto("sent")
  /\ toBroker' = Append(toBroker, Pending)
  /\ UNCHANGED <<got, copied, tls, toBoard, reset, finRead, broker, history>>

FlushFails ==
  /\ pc = "flush" /\ reset /\ Return(FALSE)
  /\ UNCHANGED <<got, copied, tls, wire, broker, history>>

Sent ==
  /\ pc = "sent" /\ Goto("rewind")
  /\ out_left' = 0
  /\ UNCHANGED <<got, copied, out_rec, out_adv, out_behind, cur_out_ctr, input, wire, broker, history>>

(* out_hdr first, then ssl_update_out_pointers *)
Rewind ==
  /\ pc = "rewind" /\ Goto("pointers")
  /\ out_adv' = FALSE /\ out_behind' = TRUE
  /\ UNCHANGED <<got, copied, out_rec, out_left, cur_out_ctr, input, wire, broker, history>>

UpdatePointers ==
  /\ pc = "pointers" /\ Return(TRUE)
  /\ out_behind' = FALSE
  /\ UNCHANGED <<got, copied, out_rec, out_left, out_adv, cur_out_ctr, input, wire, broker, history>>
-----------------------------------------------------------------------------
(* mbedtls_ssl_read *)

(* The rest of a record first; without one, ssl_consume_current_message     *)
(* drops what is left of a record that never became readable                *)
Read ==
  /\ pc = "idle" /\ call \in ReadCalls
  /\ IF in_offt # 0
     THEN Goto("copy") /\ UNCHANGED in_msglen
     ELSE Goto("fetch") /\ in_msglen' = 0
  /\ UNCHANGED <<got, copied, output, fetched, in_rec, in_offt, in_zero, wire, broker, history>>

(* mbedtls_ssl_fetch_input wants the header first, then the whole record    *)
Wanted == (IF in_left < HeaderUnits THEN HeaderUnits ELSE RecordUnits) - in_left

(* ssl_parse_record_header takes ciphertext for a header only by accident   *)
HeaderValid == in_left >= HeaderUnits => in_buf[1][2] = 1

Receive ==
  /\ pc = "fetch" /\ in_left < RecordUnits /\ Goto("fetched")
  /\ \E n \in 1..Wanted :
       /\ n <= Len(toBoard)
       /\ in_buf' = SubSeq(in_buf, 1, in_left) \o SubSeq(toBoard, 1, n)
       /\ toBoard' = SubSeq(toBoard, n + 1, Len(toBoard))
       /\ got' = n
  /\ UNCHANGED <<copied, output, in_left, in_ctr, handed, toBroker, reset, finRead, broker,
                 history>>

Received ==
  /\ pc = "fetched" /\ Goto("fetch")
  /\ in_left' = in_left + got
  /\ UNCHANGED <<got, copied, output, in_buf, in_ctr, handed, wire, broker, history>>

(* a socket without SO_RCVTIMEO *)
NoTimeout ==
  /\ pc = "fetch" /\ in_left < RecordUnits
  /\ toBoard = <<>> /\ (finRead \/ reset)
  /\ Return(FALSE)
  /\ UNCHANGED <<got, copied, tls, wire, broker, history>>

(* 10 seconds without data, the end of the connection after an end of it    *)
(* was read, or a reset                                                     *)
ReceiveFails ==
  /\ pc = "fetch" /\ in_left < RecordUnits
  /\ toBoard = <<>> /\ (open \/ finRead \/ reset)
  /\ Return(FALSE)
  /\ UNCHANGED <<got, copied, tls, wire, broker, history>>

(* MBEDTLS_ERR_SSL_CONN_EOF: mbedtls_ssl_read returns 0, and                *)
(* MQTT_Read_Packet looks at what the buffer held before                    *)
ReceiveEnd ==
  /\ pc = "fetch" /\ in_left < RecordUnits
  /\ toBoard = <<>> /\ ~open /\ ~finRead /\ ~reset
  /\ finRead' = TRUE
  /\ \E ok \in BOOLEAN : Return(ok)
  /\ UNCHANGED <<got, copied, tls, toBroker, toBoard, reset, broker, history>>

BadHeader ==
  /\ pc = "fetch" /\ ~HeaderValid /\ Return(FALSE)
  /\ UNCHANGED <<got, copied, tls, wire, broker, history>>

RecordComplete ==
  /\ pc = "fetch" /\ in_left = RecordUnits /\ Goto("decrypt")
  /\ in_left' = 0
  /\ UNCHANGED <<got, copied, output, in_buf, in_ctr, handed, wire, broker, history>>

Authentic == in_buf = Units(in_ctr)

Decrypt ==
  /\ pc = "decrypt" /\ Authentic
  /\ in_ctr' = in_ctr + 1 /\ in_rec' = in_ctr
  /\ IF records[in_ctr].n = Alert
     THEN Return(FALSE) /\ UNCHANGED in_msglen
     ELSE Goto("message") /\ in_msglen' = records[in_ctr].n
  /\ UNCHANGED <<got, copied, output, in_left, in_buf, in_offt, in_zero, wire, broker, history>>

(* A record that fails is answered with an alert, after what was left       *)
DecryptFails ==
  /\ pc = "decrypt" /\ ~Authentic /\ Return(FALSE)
  /\ toBroker' = IF reset THEN toBroker
                 ELSE toBroker \o (IF out_left # 0 THEN <<Pending>> ELSE <<>>) \o <<NoRecord>>
  /\ UNCHANGED <<got, copied, tls, toBoard, reset, finRead, broker, history>>

OfferMessage ==
  /\ pc = "message" /\ Goto("copy")
  /\ in_offt' = 1 /\ in_zero' = 0
  /\ UNCHANGED <<got, copied, output, fetched, in_rec, in_msglen, wire, broker, history>>

(* The buffer holds one chunk: a read copies that, or nothing if no byte    *)
(* of the record is left                                                    *)
Chunk == IF in_msglen = 0 \/ in_offt = in_zero THEN 0 ELSE records[in_rec].first + in_offt - 1

Copy ==
  /\ pc = "copy" /\ Goto("less")
  /\ got' = IF in_msglen = 0 THEN 0 ELSE 1
  /\ copied' = Chunk
  /\ UNCHANGED <<tls, wire, broker, history>>

(* mbedtls_ssl_read that forgets what does not fit *)
ConsumeAll ==
  /\ pc = "less" /\ Goto("zero")
  /\ in_msglen' = 0
  /\ UNCHANGED <<got, copied, output, fetched, in_rec, in_offt, in_zero, wire, broker, history>>

Consume ==
  /\ pc = "less" /\ Goto("zero")
  /\ in_msglen' = in_msglen - got
  /\ UNCHANGED <<got, copied, output, fetched, in_rec, in_offt, in_zero, wire, broker, history>>

Zeroize ==
  /\ pc = "zero" /\ Goto("end")
  /\ in_zero' = IF got = 0 THEN in_zero ELSE in_offt
  /\ UNCHANGED <<got, copied, output, fetched, in_rec, in_msglen, in_offt, wire, broker, history>>

HandOut ==
  /\ pc = "end"
  /\ in_offt' = IF in_msglen = 0 THEN 0 ELSE in_offt + got
  /\ delivered' = IF copied = 0 THEN delivered ELSE copied
  /\ emptyRead' = (emptyRead \/ (got = 0 /\ open /\ ~reset))
  /\ \E ok \in BOOLEAN : Return(ok)
  /\ UNCHANGED <<got, copied, output, fetched, in_rec, in_msglen, in_zero, wire, broker,
                 written, torn, skipped>>
-----------------------------------------------------------------------------
(* The broker and the network *)

Chunks == IF records = <<>> THEN 0
          ELSE records[Len(records)].first + records[Len(records)].n - 1

SendRecord(n) ==
  /\ records' = Append(records, [first |-> Chunks + 1, n |-> n])
  /\ toBoard' = toBoard \o Units(Len(records) + 1)

Publish ==
  /\ open /\ ~reset /\ Len(records) < MaxRecords
  /\ \E n \in 1..2 : SendRecord(n)
  /\ UNCHANGED <<user, call, pc, got, copied, tls, toBroker, reset, finRead,
                 open, broker_ctr, accepted, rejected, history>>

Take ==
  /\ open /\ toBroker # <<>>
  /\ toBroker' = Tail(toBroker)
  /\ IF Head(toBroker).seq = broker_ctr
     THEN /\ broker_ctr' = broker_ctr + 1
          /\ accepted' = Head(toBroker).num
          /\ UNCHANGED <<toBoard, records, open, rejected>>
     ELSE /\ rejected' = TRUE /\ open' = FALSE
          /\ SendRecord(Alert)
          /\ UNCHANGED <<broker_ctr, accepted>>
  /\ UNCHANGED <<user, call, pc, got, copied, tls, reset, finRead, history>>

(* With a close_notify or without *)
BrokerCloses ==
  /\ open /\ ~reset /\ open' = FALSE
  /\ SendRecord(Alert) \/ UNCHANGED <<records, toBoard>>
  /\ UNCHANGED <<user, call, pc, got, copied, tls, toBroker, reset, finRead,
                 broker_ctr, accepted, rejected, history>>

ConnectionLost ==
  /\ ~reset /\ reset' = TRUE
  /\ toBroker' = <<>> /\ toBoard' = <<>>
  /\ UNCHANGED <<user, call, pc, got, copied, tls, finRead, broker, history>>
-----------------------------------------------------------------------------
Init ==
  /\ user = "Main" /\ call = "read" /\ pc = "idle" /\ got = 0 /\ copied = 0
  /\ out_rec = NoRecord /\ out_left = 0 /\ out_adv = FALSE /\ out_behind = FALSE
  /\ cur_out_ctr = 1
  /\ in_left = 0 /\ in_buf = <<>> /\ in_ctr = 1
  /\ in_rec = 0 /\ in_msglen = 0 /\ in_offt = 0 /\ in_zero = 0
  /\ toBroker = <<>> /\ toBoard = <<>> /\ reset = FALSE /\ finRead = FALSE
  /\ records = <<>> /\ open = TRUE /\ broker_ctr = 1 /\ accepted = 0 /\ rejected = FALSE
  /\ written = 0 /\ delivered = 0 /\ torn = FALSE /\ skipped = 0 /\ emptyRead = FALSE

WriteSteps ==
  \/ Write \/ WriteRecord \/ AdvanceHeader \/ CountRecord
  \/ Flush \/ FlushFails \/ Sent \/ Rewind \/ UpdatePointers

ReadSteps ==
  \/ Read \/ Receive \/ Received \/ ReceiveFails \/ ReceiveEnd \/ BadHeader
  \/ RecordComplete \/ Decrypt \/ DecryptFails \/ OfferMessage
  \/ Copy \/ Consume \/ Zeroize \/ HandOut

Next == WriteSteps \/ ReadSteps \/ Terminate \/ Publish \/ Take \/ BrokerCloses \/ ConnectionLost

(* The task on the connection runs, a read comes back after its timeout,    *)
(* and the broker reads what has arrived.                                   *)
Spec == Init /\ [][Next]_vars /\ WF_vars(WriteSteps) /\ WF_vars(ReadSteps) /\ WF_vars(Take)
-----------------------------------------------------------------------------
TypeOK ==
  /\ user \in {"Main", "Button"}
  /\ call \in WriteCalls \cup ReadCalls \cup {"halted"}
  /\ pc \in WritePlaces \cup ReadPlaces \cup {"idle"}
  /\ got \in 0..BodyUnits /\ copied \in 0..Chunks
  /\ out_rec \in [num : Nat, seq : Nat] /\ out_left \in {0, 1}
  /\ out_adv \in BOOLEAN /\ out_behind \in BOOLEAN
  /\ cur_out_ctr \in Nat \ {0}
  /\ in_left \in 0..RecordUnits /\ in_left <= Len(in_buf)
  /\ in_rec \in 0..Len(records) /\ in_msglen \in 0..2 /\ in_offt \in 0..2 /\ in_zero \in 0..2

(* Until Main_Thread is terminated half way through tls, and then too       *)
(* except for the packets and text that this costs, what mbedtls_ssl_write  *)
(* is given reaches the broker in order and once, and what the broker sends *)
(* is returned by mbedtls_ssl_read in order and once, however the socket    *)
(* cuts it into pieces and however often a read runs into its timeout.      *)
Out == INSTANCE Channel WITH sent <- written, last <- accepted, cut <- torn
In  == INSTANCE Channel WITH sent <- Chunks, last <- delivered, cut <- torn

OutboundInOrder == Out!Spec
InboundInOrder  == In!Spec

(* The broker finds fault with no record, as long as tls was left whole:    *)
(* each record goes out once, complete and with the next number.            *)
NothingRejected == rejected => torn

(* The termination of Main_Thread costs the closing session one packet:     *)
(* once the left-over record is out, mbedtls_ssl_write sends again.         *)
OneWriteSkipped == skipped <= 1 \/ reset

(* A packet that was written reaches the broker, unless the connection      *)
(* ends or Main_Thread was terminated half way.                             *)
WritesArrive ==
  \A n \in 1..MaxPackets + 3 : written >= n ~> (accepted >= n \/ ~open \/ reset \/ torn)

(* The button's task gets through the closing of the session, whatever      *)
(* state it found tls in.                                                   *)
ClosingEnds == user = "Button" ~> call = "halted"
-----------------------------------------------------------------------------
(* A packet is reported as sent only after it was (mqtt_client.c: "Indicar  *)
(* si el paquete se ha enviado correctamente").                             *)
OkMeansSent == (call = "await" /\ skipped > 0) => reset

(* mbedtls_ssl_read returns 0 only at the end of the connection (ssl.h: "0  *)
(* if the read end of the underlying transport was closed").                *)
EmptyReadAtEnd == ~emptyRead
=============================================================================
