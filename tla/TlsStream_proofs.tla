-------------------------- MODULE TlsStream_proofs --------------------------
(***************************************************************************)
(* What a TLS context keeps for any number of packets and records, in      *)
(* whatever state Main_Thread leaves it: each direction of it is a channel *)
(* that hands nothing out twice nor in another order.                      *)
(***************************************************************************)
EXTENDS TlsStream, SequenceTheorems, TLAPS

-----------------------------------------------------------------------------
(* The way to the broker                                                    *)

Record == [num : Nat, seq : Nat]

OutTypes ==
  /\ out_rec \in Record /\ out_left \in {0, 1} /\ cur_out_ctr \in Nat \ {0}
  /\ out_adv \in BOOLEAN /\ out_behind \in BOOLEAN
  /\ toBroker \in Seq(Record) /\ broker_ctr \in Nat \ {0} /\ accepted \in Nat /\ written \in Nat
  /\ reset \in BOOLEAN /\ torn \in BOOLEAN

(* A record that the broker can still accept is of a later packet than the  *)
(* one it accepted last and than those of the records before it.            *)
Acceptable(r) == r.num <= written /\ (r.seq >= broker_ctr => r.num > accepted)

Before(r, s) == r.seq # 0 /\ r.seq < s.seq => r.num < s.num

Ordered(q) ==
  /\ \A i \in 1..Len(q) : Acceptable(q[i])
  /\ \A i, j \in 1..Len(q) : i < j => Before(q[i], q[j])
  /\ out_left = 1 => Acceptable(out_rec) /\ \A i \in 1..Len(q) : Before(q[i], out_rec)

Flushing == {"header", "counter", "flush", "sent"}

(* Whatever state Main_Thread left tls in *)
OutOrder ==
  /\ torn => user = "Button"
  /\ reset => toBroker = <<>>
  /\ accepted <= written
  /\ pc = "record" => out_rec.num = written + 1
  /\ pc \in Flushing => out_left = 1
  /\ Ordered(toBroker)

(* As long as tls was left whole, the packets and the records have the same *)
(* numbers, and none is missing between what the broker accepted and what   *)
(* was written.                                                             *)
InFlight == IF pc \in {"header", "counter", "flush"} THEN 1 ELSE 0

OutWhole ==
  ~torn /\ ~reset =>
    /\ accepted + Len(toBroker) + InFlight = written /\ broker_ctr = accepted + 1
    /\ \A i \in 1..Len(toBroker) : toBroker[i].num = accepted + i /\ toBroker[i].seq = accepted + i
    /\ out_left = 1 => pc \in Flushing
    /\ pc \in Flushing => out_rec.num = written /\ out_rec.seq = written
    /\ pc \in {"counter", "flush", "sent"} => out_adv
    /\ out_behind => pc = "pointers"
    /\ pc = "record" => out_rec.seq = written + 1
    /\ cur_out_ctr = IF pc \in {"header", "counter"} THEN written ELSE written + 1

OutInv == OutTypes /\ OutOrder /\ OutWhole

-----------------------------------------------------------------------------
(* The way to the board                                                     *)

Unit    == Nat \X Nat
Sending == [first : Nat \ {0}, n : 0..2]

InTypes ==
  /\ got \in 0..2 /\ copied \in Nat
  /\ in_left \in 0..RecordUnits /\ in_buf \in Seq(Unit) /\ in_ctr \in Nat \ {0}
  /\ in_left <= Len(in_buf)
  /\ pc = "fetched" => Len(in_buf) = in_left + got /\ in_left + got <= RecordUnits
  /\ pc \in {"decrypt", "message"} => in_left = 0
  /\ in_rec \in Nat /\ in_msglen \in 0..2 /\ in_offt \in 0..2 /\ in_zero \in 0..2
  /\ toBoard \in Seq(Unit) /\ records \in Seq(Sending)
  /\ delivered \in Nat /\ torn \in BOOLEAN /\ reset \in BOOLEAN
  /\ reset => toBoard = <<>>
  /\ torn => user = "Button"

(* The records of the broker share out the chunks among them. *)
Shared ==
  /\ Len(records) > 0 => records[1].first = 1
  /\ \A k \in 1..Len(records) - 1 : records[k + 1].first = records[k].first + records[k].n
  /\ \A j, k \in 1..Len(records) : j < k => records[j].first + records[j].n <= records[k].first

Handing == {"copy", "less", "zero", "end"}
Fetching == {"fetch", "fetched", "decrypt", "message"}

(* Whatever state Main_Thread left tls in, what a read can still return is  *)
(* of the record that was decrypted last, and comes after what was returned *)
(* before.                                                                  *)
InOrder ==
  /\ in_ctr <= Len(records) + 1
  /\ \A i \in 1..Len(toBoard) : toBoard[i][1] \in 1..Len(records)
  /\ \A i \in 1..Len(in_buf) : in_buf[i][1] \in 1..Len(records)
  /\ delivered <= Chunks
  /\ \A k \in in_ctr..Len(records) : delivered < records[k].first
  /\ pc \in Handing => in_offt # 0
  /\ pc \in Fetching => in_offt = 0
  /\ pc = "message" \/ in_offt # 0 => in_rec = in_ctr - 1 /\ in_rec \in 1..Len(records)
  /\ pc = "message" => in_msglen = records[in_rec].n /\ in_msglen # 0 /\ delivered < records[in_rec].first
  /\ in_offt # 0 =>
       /\ delivered + 1 < records[in_rec].first + in_offt
       /\ in_offt + in_msglen <= records[in_rec].n + 1
  /\ pc = "less" => got = IF in_msglen = 0 THEN 0 ELSE 1
  /\ pc \in {"zero", "end"} => got \in {0, 1} /\ in_offt + in_msglen + got <= records[in_rec].n + 1
  /\ pc \in {"less", "zero", "end"} /\ copied # 0 =>
       got = 1 /\ copied + 1 = records[in_rec].first + in_offt

(* Chunks in the first k records *)
Upto(k) == IF k = 0 THEN 0 ELSE records[k].first + records[k].n - 1

(* As long as tls was left whole, nothing is left out between what was      *)
(* returned and what is in hand or not yet decrypted.                       *)
InWhole ==
  ~torn =>
    /\ in_offt = 0 => delivered = IF pc = "message" THEN records[in_rec].first - 1 ELSE Upto(in_ctr - 1)
    /\ in_offt # 0 => delivered + 2 = records[in_rec].first + in_offt
    /\ in_offt # 0 /\ pc \notin {"zero", "end"} => in_offt + in_msglen = records[in_rec].n + 1 /\ in_msglen # 0
    /\ in_offt # 0 => (in_zero < in_offt \/ (pc = "end" /\ in_zero = in_offt))
    /\ pc \in {"less", "zero", "end"} => got = 1 /\ copied + 1 = records[in_rec].first + in_offt
    /\ pc \in {"zero", "end"} => in_offt + in_msglen = records[in_rec].n

(* and every unit of a record is in the buffer or under way, in order.      *)
Have == IF pc = "fetched" THEN in_left + got ELSE IF pc = "decrypt" THEN RecordUnits ELSE in_left

InStream ==
  ~torn =>
    /\ Have <= RecordUnits
    /\ Have # 0 => Len(in_buf) = Have
    /\ \A i \in 1..Have : in_buf[i] = <<in_ctr, i>>
    /\ ~reset => /\ Len(toBoard) + RecordUnits * (in_ctr - 1) + Have = RecordUnits * Len(records)
                 /\ \A i \in 1..Len(toBoard) :
                      /\ toBoard[i][2] \in 1..RecordUnits
                      /\ RecordUnits * (toBoard[i][1] - 1) + toBoard[i][2]
                           = RecordUnits * (in_ctr - 1) + Have + i

InInv == InTypes /\ Shared /\ InOrder /\ InWhole /\ InStream

-----------------------------------------------------------------------------
(* What goes out                                                            *)

LEMMA OutStart == Init => OutInv
<1> SUFFICES ASSUME Init PROVE OutInv
  OBVIOUS
<1>1. toBroker = <<>> /\ <<>> \in Seq(Record) /\ Len(toBroker) = 0
  BY EmptySeq DEF Init
<1>4. NoRecord \in Record
  BY DEF NoRecord, Record
<1>2. OutTypes
  <2>1. toBroker \in Seq(Record) /\ out_rec \in Record
    BY <1>1, <1>4 DEF Init
  <2>2. /\ out_left = 0 /\ cur_out_ctr = 1 /\ broker_ctr = 1 /\ accepted = 0 /\ written = 0
        /\ out_adv = FALSE /\ out_behind = FALSE /\ reset = FALSE /\ torn = FALSE
    BY DEF Init
  <2>3. out_left \in {0, 1} /\ cur_out_ctr \in Nat \ {0} /\ broker_ctr \in Nat \ {0}
    BY <2>2
  <2>4. accepted \in Nat /\ written \in Nat
    BY <2>2
  <2>5. out_adv \in BOOLEAN /\ out_behind \in BOOLEAN /\ reset \in BOOLEAN /\ torn \in BOOLEAN
    BY <2>2
  <2> QED BY <2>1, <2>3, <2>4, <2>5 DEF OutTypes
<1>3. OutOrder /\ OutWhole
  BY <1>1 DEF Init, OutOrder, Ordered, OutWhole, InFlight, Flushing
<1> QED BY <1>2, <1>3 DEF OutInv

(* What is known of the records under way, field by field *)
LEMMA Fields ==
  ASSUME OutTypes
  PROVE  /\ Len(toBroker) \in Nat
         /\ \A i \in 1..Len(toBroker) : toBroker[i].num \in Nat /\ toBroker[i].seq \in Nat
         /\ out_rec.num \in Nat /\ out_rec.seq \in Nat
         /\ broker_ctr \in Nat /\ broker_ctr > 0 /\ accepted \in Nat /\ written \in Nat
<1>1. Len(toBroker) \in Nat /\ \A i \in 1..Len(toBroker) : toBroker[i] \in Record
  BY ElementOfSeq, LenProperties DEF OutTypes
<1>2. \A r \in Record : r.num \in Nat /\ r.seq \in Nat
  BY DEF Record
<1> QED BY <1>1, <1>2 DEF OutTypes

(* A step that touches nothing of it, outside of a write. *)
LEMMA OutKept ==
  ASSUME OutInv, UNCHANGED <<output, toBroker, broker_ctr, accepted, written, torn>>,
         reset' = reset, user' = user,
         pc' = pc \/ (pc \notin Flushing \cup {"pointers"} /\ pc' \notin Flushing \cup {"record"})
  PROVE  OutInv'
<1>1. OutTypes'
  BY DEF OutInv, OutTypes, output
<1>2. OutOrder'
  <2>1. Ordered(toBroker)'
    BY DEF OutInv, OutOrder, Ordered, Acceptable, output
  <2> QED BY <2>1 DEF OutInv, OutOrder, output
<1>3. OutWhole'
  BY DEF OutInv, OutWhole, InFlight, Flushing, output
<1> QED BY <1>1, <1>2, <1>3 DEF OutInv

(* Records that are put on the wire: the one left over from the last write, *)
(* or one without a number.                                                 *)
LEMMA OutAppended ==
  ASSUME OutTypes, NEW q \in Seq(Record), Ordered(q), NEW r \in Record,
         r = NoRecord \/ (r = out_rec /\ out_left = 1)
  PROVE  /\ Append(q, r) \in Seq(Record) /\ Ordered(Append(q, r))
         /\ Len(Append(q, r)) = Len(q) + 1 /\ Append(q, r)[Len(q) + 1] = r
         /\ \A i \in 1..Len(q) : Append(q, r)[i] = q[i]
<1> DEFINE n == Len(q)
           p == Append(q, r)
<1>1. /\ p \in Seq(Record) /\ Len(p) = n + 1 /\ p[n + 1] = r
      /\ \A i \in 1..n : p[i] = q[i]
  BY AppendProperties
<1>2. n \in Nat /\ \A i \in 1..n + 1 : i \in 1..n \/ i = n + 1
  BY LenProperties
<1> HIDE DEF p
<1>3. Acceptable(r) /\ Before(r, out_rec)
  BY Fields DEF Ordered, Acceptable, Before, NoRecord
<1>4. \A i \in 1..n : Before(q[i], r)
  <2>1. CASE r = NoRecord
    <3>1. \A x \in Record : x.seq \in Nat
      BY DEF Record
    <3>2. \A i \in 1..n : q[i] \in Record
      BY ElementOfSeq
    <3> QED BY <2>1, <3>1, <3>2 DEF Before, NoRecord
  <2>2. CASE r = out_rec /\ out_left = 1
    BY <2>2 DEF Ordered
  <2> QED BY <2>1, <2>2
<1>5. \A i \in 1..n + 1 : Acceptable(p[i])
  BY <1>1, <1>2, <1>3 DEF Ordered
<1>6. \A i, j \in 1..n + 1 : i < j => Before(p[i], p[j])
  <2> SUFFICES ASSUME NEW i \in 1..n + 1, NEW j \in 1..n + 1, i < j
               PROVE  Before(p[i], p[j])
    OBVIOUS
  <2>1. i \in 1..n
    BY <1>2
  <2>2. CASE j \in 1..n
    BY <1>1, <2>1, <2>2 DEF Ordered
  <2>3. CASE j = n + 1
    BY <1>1, <1>4, <2>1, <2>3
  <2> QED BY <1>2, <2>2, <2>3
<1>7. out_left = 1 => Acceptable(out_rec) /\ \A i \in 1..n + 1 : Before(p[i], out_rec)
  BY <1>1, <1>2, <1>3 DEF Ordered
<1>8. Ordered(p)
  BY <1>1, <1>5, <1>6, <1>7 DEF Ordered
<1> QED BY <1>1, <1>8 DEF p

LEMMA OutWrites == ASSUME OutInv, WriteSteps PROVE OutInv'
<1> USE DEF Goto, Return, Flushing
<1>1. OutTypes /\ OutOrder /\ OutWhole
  BY DEF OutInv
<1>2. CASE Write
  <2>1. CASE out_left # 0
    <3>1. /\ pc = "idle" /\ pc' = "flush" /\ written' = written + 1 /\ out_left = 1
          /\ UNCHANGED <<output, toBroker, broker_ctr, accepted, torn, reset, user>>
      BY <1>1, <1>2, <2>1 DEF Write, OutTypes, wire, broker, output
    <3>2. torn \/ reset
      BY <1>1, <3>1 DEF OutWhole, OutTypes
    <3>3. OutTypes' /\ OutWhole'
      BY <1>1, <3>1, <3>2 DEF OutTypes, OutWhole, output
    <3>4. Ordered(toBroker)'
      <4>1. \A i \in 1..Len(toBroker) : Acceptable(toBroker[i])'
        BY Fields, <1>1, <3>1 DEF OutOrder, Ordered, Acceptable
      <4>2. Acceptable(out_rec)'
        BY Fields, <1>1, <3>1 DEF OutOrder, Ordered, Acceptable, output
      <4>3. \A i, j \in 1..Len(toBroker) : i < j => Before(toBroker[i], toBroker[j])
        BY <1>1 DEF OutOrder, Ordered
      <4>4. \A i \in 1..Len(toBroker) : Before(toBroker[i], out_rec)
        BY <1>1, <3>1 DEF OutOrder, Ordered
      <4> QED BY <3>1, <4>1, <4>2, <4>3, <4>4 DEF Ordered, output
    <3>5. OutOrder'
      BY Fields, <1>1, <3>1, <3>4 DEF OutOrder, output
    <3> QED BY <3>3, <3>5 DEF OutInv
  <2>2. CASE out_left = 0
    <3>1. /\ pc = "idle" /\ pc' = "record" /\ written' = written
          /\ out_rec' = [num |-> written + 1, seq |-> IF out_behind THEN 0 ELSE cur_out_ctr]
          /\ UNCHANGED <<out_left, out_adv, out_behind, cur_out_ctr, toBroker, broker_ctr, accepted,
                         torn, reset, user>>
      BY <1>2, <2>2 DEF Write, wire, broker
    <3>2. OutTypes' /\ out_rec'.num = written + 1 /\ (~out_behind => out_rec'.seq = cur_out_ctr)
      BY <1>1, <3>1 DEF OutTypes, Record
    <3>3. Ordered(toBroker)'
      BY <1>1, <2>2, <3>1 DEF OutOrder, Ordered, Acceptable
    <3>4. OutOrder'
      BY <1>1, <2>2, <3>1, <3>2, <3>3 DEF OutOrder
    <3>5. OutWhole'
      BY <1>1, <2>2, <3>1, <3>2 DEF OutWhole, InFlight
    <3> QED BY <3>2, <3>4, <3>5 DEF OutInv
  <2> QED BY <1>1, <2>1, <2>2 DEF OutTypes
<1>3. CASE WriteRecord
  <2>1. /\ pc = "record" /\ pc' = "header" /\ written' = written + 1 /\ out_left' = 1
        /\ UNCHANGED <<out_rec, out_adv, out_behind, cur_out_ctr, toBroker, broker_ctr, accepted, torn,
                       reset, user>>
    BY <1>3 DEF WriteRecord, wire, broker
  <2>2. OutTypes'
    BY <1>1, <2>1 DEF OutTypes
  <2>3. Ordered(toBroker)'
    <3>1. \A i \in 1..Len(toBroker) : Acceptable(toBroker[i])' /\ toBroker[i].num < out_rec.num
      BY Fields, <1>1, <2>1 DEF OutOrder, Ordered, Acceptable
    <3>2. Acceptable(out_rec)'
      BY Fields, <1>1, <2>1 DEF OutOrder, Acceptable
    <3> QED BY <1>1, <2>1, <3>1, <3>2 DEF OutOrder, Ordered, Before
  <2>4. OutOrder'
    BY Fields, <1>1, <2>1, <2>3 DEF OutOrder
  <2>5. OutWhole'
    BY Fields, <1>1, <2>1 DEF OutWhole, OutOrder, InFlight
  <2> QED BY <2>2, <2>4, <2>5 DEF OutInv
<1>4. CASE AdvanceHeader \/ CountRecord \/ Sent \/ Rewind \/ UpdatePointers
  <2>1. /\ UNCHANGED <<out_rec, toBroker, broker_ctr, accepted, written,
                     torn, reset, user>>
        /\ pc' # "record"
        /\ \/ pc = "header" /\ pc' = "counter" /\ out_adv' = TRUE /\ out_behind' = FALSE
              /\ UNCHANGED <<out_left, cur_out_ctr>>
           \/ pc = "counter" /\ pc' = "flush" /\ cur_out_ctr' = cur_out_ctr + 1
              /\ UNCHANGED <<out_left, out_adv, out_behind>>
           \/ pc = "sent" /\ pc' = "rewind" /\ out_left' = 0
              /\ UNCHANGED <<out_adv, out_behind, cur_out_ctr>>
           \/ pc = "rewind" /\ pc' = "pointers" /\ out_adv' = FALSE /\ out_behind' = TRUE
              /\ UNCHANGED <<out_left, cur_out_ctr>>
           \/ pc = "pointers" /\ pc' = "idle" /\ out_behind' = FALSE
              /\ UNCHANGED <<out_left, out_adv, cur_out_ctr>>
    <3>1. CASE AdvanceHeader
      BY <3>1 DEF AdvanceHeader, wire, broker, history
    <3>2. CASE CountRecord
      BY <3>2 DEF CountRecord, wire, broker, history
    <3>3. CASE Sent \/ Rewind
      BY <3>3 DEF Sent, Rewind, wire, broker, history
    <3>4. CASE UpdatePointers
      BY <3>4 DEF UpdatePointers, wire, broker, history
    <3> QED BY <1>4, <3>1, <3>2, <3>3, <3>4
  <2>2. OutTypes'
    <3>1. out_left' \in {0, 1} /\ cur_out_ctr' \in Nat \ {0}
      BY <1>1, <2>1 DEF OutTypes
    <3>2. out_adv' \in BOOLEAN /\ out_behind' \in BOOLEAN
      BY <1>1, <2>1 DEF OutTypes
    <3> QED BY <1>1, <2>1, <3>1, <3>2 DEF OutTypes
  <2>3. OutOrder'
    <3>1. Ordered(toBroker)'
      BY <1>1, <2>1 DEF OutOrder, Ordered, Acceptable
    <3> QED BY <1>1, <2>1, <3>1 DEF OutOrder
  <2>4. OutWhole'
    <3>1. CASE pc = "header"
      BY <1>1, <2>1, <3>1 DEF OutWhole, InFlight
    <3>2. CASE pc = "counter"
      BY <1>1, <2>1, <3>2 DEF OutWhole, InFlight
    <3>3. CASE pc = "sent"
      BY <1>1, <2>1, <3>3 DEF OutWhole, InFlight
    <3>4. CASE pc = "rewind" \/ pc = "pointers"
      BY <1>1, <2>1, <3>4 DEF OutWhole, InFlight
    <3> QED BY <2>1, <3>1, <3>2, <3>3, <3>4
  <2> QED BY <2>2, <2>3, <2>4 DEF OutInv
<1>5. CASE Flush
  <2>1. /\ pc = "flush" /\ pc' = "sent" /\ ~reset /\ ~reset' /\ toBroker' = Append(toBroker, Pending)
        /\ UNCHANGED <<out_rec, out_left, out_adv, out_behind, cur_out_ctr, broker_ctr, accepted, written, torn,
                       reset, user>>
        /\ out_left = 1
    BY <1>1, <1>5 DEF Flush, tls, output, broker, history, OutOrder
  <2>2. Pending \in Record /\ (Pending = out_rec \/ Pending = NoRecord)
    BY <1>1 DEF Pending, NoRecord, Record, OutTypes
  <2>3. /\ toBroker' \in Seq(Record) /\ Ordered(toBroker)'
        /\ Len(toBroker') = Len(toBroker) + 1 /\ toBroker'[Len(toBroker) + 1] = Pending
        /\ \A i \in 1..Len(toBroker) : toBroker'[i] = toBroker[i]
    <3>1. Ordered(toBroker')
      BY <1>1, <2>1, <2>2, OutAppended DEF OutTypes, OutOrder
    <3>2. Ordered(toBroker)'
      BY <2>1, <3>1 DEF Ordered, Acceptable, Before
    <3> QED BY <1>1, <2>1, <2>2, <3>2, OutAppended DEF OutTypes, OutOrder
  <2>4. OutTypes' /\ OutOrder'
    BY <1>1, <2>1, <2>3 DEF OutTypes, OutOrder
  <2>5. OutWhole'
    <3> SUFFICES ASSUME ~torn PROVE OutWhole'
      BY <2>1 DEF OutWhole
    <3>1. Pending = out_rec /\ out_rec.num = written /\ out_rec.seq = written
          /\ accepted + Len(toBroker) + 1 = written
      BY <1>1, <2>1 DEF OutWhole, Pending, InFlight
    <3>2. \A i \in 1..Len(toBroker') : toBroker'[i].num = accepted + i /\ toBroker'[i].seq = accepted + i
      <4>1. \A i \in 1..Len(toBroker) : toBroker'[i].num = accepted + i /\ toBroker'[i].seq = accepted + i
        BY <1>1, <2>1, <2>3 DEF OutWhole
      <4>2. \A i \in 1..Len(toBroker') : i \in 1..Len(toBroker) \/ i = Len(toBroker) + 1
        BY <2>3
      <4>3. accepted + (Len(toBroker) + 1) = written
        BY Fields, <1>1, <3>1
      <4> QED BY <2>3, <3>1, <4>1, <4>2, <4>3
    <3>3. broker_ctr' = accepted' + 1 /\ cur_out_ctr' = written' + 1
      BY <1>1, <2>1 DEF OutWhole
    <3>4. accepted' + Len(toBroker') + 0 = written' /\ InFlight' = 0
      BY Fields, <1>1, <2>1, <2>3, <3>1 DEF InFlight
    <3>5. out_adv' /\ pc' = "sent" /\ ~out_behind'
      BY <1>1, <2>1 DEF OutWhole
    <3> QED BY <2>1, <3>1, <3>2, <3>3, <3>4, <3>5 DEF OutWhole, Flushing
  <2> QED BY <2>4, <2>5 DEF OutInv
<1>6. CASE FlushFails
  <2>1. /\ pc = "flush" /\ pc' = "idle" /\ reset /\ reset'
        /\ UNCHANGED <<output, toBroker, broker_ctr, accepted, written,
                     torn, reset, user>>
    BY <1>1, <1>6 DEF FlushFails, tls, wire, broker, history, OutTypes
  <2>2. OutTypes' /\ OutWhole'
    BY <1>1, <2>1 DEF OutTypes, OutWhole, output
  <2>3. Ordered(toBroker)'
    BY <1>1, <2>1 DEF OutOrder, Ordered, Acceptable, output
  <2>4. OutOrder'
    BY <1>1, <2>1, <2>3 DEF OutOrder, output
  <2> QED BY <2>2, <2>4 DEF OutInv
<1> QED BY <1>2, <1>3, <1>4, <1>5, <1>6 DEF WriteSteps

(* The broker takes a record. *)
LEMMA OutTaken == ASSUME OutInv, Take PROVE OutInv'
<1>1. OutTypes /\ OutOrder /\ OutWhole
  BY DEF OutInv
<1> DEFINE n == Len(toBroker)
           h == Head(toBroker)
<1>2. /\ toBroker' \in Seq(Record) /\ Len(toBroker') = n - 1
      /\ \A i \in 1..n - 1 : i + 1 \in 1..n /\ toBroker'[i] = toBroker[i + 1]
      /\ n \in Nat \ {0} /\ h = toBroker[1] /\ 1 \in 1..n
  <2>1. toBroker # <<>> /\ toBroker \in Seq(Record) /\ toBroker' = Tail(toBroker)
    BY <1>1 DEF Take, OutTypes
  <2>2. n \in Nat \ {0}
    BY <2>1, EmptySeq
  <2>3. /\ Tail(toBroker) \in Seq(Record) /\ Len(Tail(toBroker)) = n - 1
        /\ \A i \in 1..n - 1 : Tail(toBroker)[i] = toBroker[i + 1]
    BY <2>1, HeadTailProperties
  <2> QED BY <2>1, <2>2, <2>3
<1>3. /\ UNCHANGED <<pc, out_rec, out_left, out_adv, out_behind, cur_out_ctr, written, torn, reset, user>>
      /\ \/ h.seq = broker_ctr /\ broker_ctr' = broker_ctr + 1 /\ accepted' = h.num
         \/ h.seq # broker_ctr /\ UNCHANGED <<broker_ctr, accepted>>
  BY DEF Take, tls, output, history
<1>4. ~reset
  BY <1>1 DEF Take, OutOrder
<1> HIDE DEF h, n
<1>5. Acceptable(h) /\ h.num \in Nat /\ h.seq \in Nat
  BY <1>1, <1>2, Fields DEF OutOrder, Ordered, n
<1>6. OutTypes'
  BY <1>1, <1>2, <1>3, <1>5, Fields DEF OutTypes
<1>7. \A r \in Record : Acceptable(r) /\ Before(h, r) => Acceptable(r)'
  <2> SUFFICES ASSUME NEW r \in Record, Acceptable(r), Before(h, r)
               PROVE  Acceptable(r)'
    OBVIOUS
  <2>1. r.num \in Nat /\ r.seq \in Nat
    BY DEF Record
  <2> QED BY <1>1, <1>3, <1>5, <2>1, Fields DEF Acceptable, Before
<1>8. Ordered(toBroker)'
  <2>1. \A i \in 1..n - 1 : Acceptable(toBroker'[i]) /\ Before(h, toBroker'[i]) /\ toBroker'[i] \in Record
    <3>1. \A i \in 1..n : toBroker[i] \in Record
      BY <1>1, ElementOfSeq DEF OutTypes, n
    <3>2. \A i \in 1..n - 1 : 1 < i + 1
      BY <1>2
    <3> QED BY <1>1, <1>2, <3>1, <3>2 DEF OutOrder, Ordered, n
  <2>2. \A i, j \in 1..n - 1 : i < j => Before(toBroker'[i], toBroker'[j])
    <3> SUFFICES ASSUME NEW i \in 1..n - 1, NEW j \in 1..n - 1, i < j
                 PROVE  Before(toBroker'[i], toBroker'[j])
      OBVIOUS
    <3>1. i + 1 \in 1..n /\ j + 1 \in 1..n /\ i + 1 < j + 1
      BY <1>2
    <3> QED BY <1>1, <1>2, <3>1 DEF OutOrder, Ordered, n
  <2>3. out_left = 1 => /\ Acceptable(out_rec)' /\ out_rec' = out_rec
                        /\ \A i \in 1..n - 1 : Before(toBroker'[i], out_rec)
    BY <1>1, <1>2, <1>3, <1>7 DEF OutTypes, OutOrder, Ordered, n
  <2>4. \A i \in 1..n - 1 : Acceptable(toBroker[i])'
    BY <1>3, <1>7, <2>1 DEF Acceptable
  <2> QED BY <1>2, <1>3, <2>2, <2>3, <2>4 DEF Ordered, Acceptable, Before
<1>9. OutOrder'
  <2>1. accepted' <= written'
    BY <1>1, <1>3, <1>5 DEF OutOrder, Acceptable
  <2> QED BY <1>1, <1>3, <1>4, <1>8, <2>1 DEF OutOrder
<1>10. OutWhole'
  <2> SUFFICES ASSUME ~torn PROVE OutWhole'
    BY <1>3 DEF OutWhole
  <2>1. /\ accepted + n + InFlight = written /\ broker_ctr = accepted + 1
        /\ h.num = accepted + 1 /\ h.seq = accepted + 1
        /\ \A i \in 1..n : toBroker[i].num = accepted + i /\ toBroker[i].seq = accepted + i
    BY <1>1, <1>2, <1>4 DEF OutWhole, n
  <2>2. broker_ctr' = accepted' + 1 /\ accepted' = accepted + 1 /\ InFlight' = InFlight
    BY <1>3, <2>1 DEF InFlight
  <2>3. \A i \in 1..n - 1 : toBroker'[i].num = accepted' + i /\ toBroker'[i].seq = accepted' + i
    <3> SUFFICES ASSUME NEW i \in 1..n - 1
                 PROVE  toBroker'[i].num = accepted' + i /\ toBroker'[i].seq = accepted' + i
      OBVIOUS
    <3>1. toBroker[i + 1].num = accepted + (i + 1) /\ toBroker[i + 1].seq = accepted + (i + 1)
      BY <1>2, <2>1
    <3>2. accepted \in Nat /\ toBroker'[i] = toBroker[i + 1]
      BY <1>1, <1>2 DEF OutTypes
    <3>3. accepted + (i + 1) = (accepted + 1) + i
      BY <3>2
    <3> QED BY <2>2, <3>1, <3>2, <3>3
  <2>4. accepted' + Len(toBroker') + InFlight' = written'
    BY <1>1, <1>2, <1>3, <2>1, <2>2, Fields DEF InFlight
  <2> QED BY <1>1, <1>2, <1>3, <1>4, <2>2, <2>3, <2>4 DEF OutWhole
<1> QED BY <1>6, <1>9, <1>10 DEF OutInv

(* The record before it in the buffer comes out, and then the alert. *)
LEMMA OutAlert == ASSUME OutInv, DecryptFails, torn PROVE OutInv'
<1>1. OutTypes /\ OutOrder
  BY DEF OutInv
<1>2. /\ pc = "decrypt" /\ pc' = "idle"
      /\ UNCHANGED <<out_rec, out_left, out_adv, out_behind, cur_out_ctr, broker_ctr, accepted, written,
                     torn, reset, user>>
  BY DEF DecryptFails, Return, tls, output, broker, history
<1>3. NoRecord \in Record /\ Pending \in Record /\ Pending \in {out_rec, NoRecord}
  BY <1>1 DEF NoRecord, Record, Pending, OutTypes
<1>4. toBroker' \in Seq(Record) /\ Ordered(toBroker') /\ (reset => toBroker' = toBroker)
  <2>1. CASE reset
    BY <1>1, <2>1 DEF DecryptFails, OutTypes, OutOrder
  <2>2. CASE ~reset /\ out_left = 0
    <3>1. toBroker' = toBroker \o <<>> \o <<NoRecord>>
      BY <2>2 DEF DecryptFails
    <3>2. toBroker' = Append(toBroker, NoRecord)
      BY <1>1, <1>3, <3>1, AppendIsConcat, ConcatEmptySeq DEF OutTypes
    <3> QED BY <1>1, <1>3, <2>2, <3>2, OutAppended DEF OutTypes, OutOrder
  <2>3. CASE ~reset /\ out_left = 1
    <3> DEFINE mid == Append(toBroker, Pending)
    <3>1. toBroker' = toBroker \o <<Pending>> \o <<NoRecord>>
      BY <2>3 DEF DecryptFails
    <3>2. mid \in Seq(Record) /\ Ordered(mid) /\ mid = toBroker \o <<Pending>>
      BY <1>1, <1>3, <2>3, OutAppended, AppendIsConcat DEF OutTypes, OutOrder
    <3> HIDE DEF mid
    <3>3. toBroker' = Append(mid, NoRecord)
      BY <1>3, <3>1, <3>2, AppendIsConcat
    <3> QED BY <1>1, <1>3, <2>3, <3>2, <3>3, OutAppended
  <2> QED BY <1>1, <2>1, <2>2, <2>3 DEF OutTypes
<1>6. Ordered(toBroker)'
  BY <1>2, <1>4 DEF Ordered, Acceptable, Before
<1>5. OutTypes' /\ OutOrder' /\ OutWhole'
  BY <1>1, <1>2, <1>4, <1>6 DEF OutTypes, OutOrder, OutWhole, Flushing
<1> QED BY <1>5 DEF OutInv

LEMMA OutTerminated == ASSUME OutInv, Terminate PROVE OutInv'
<1>1. OutTypes /\ OutOrder /\ OutWhole
  BY DEF OutInv
<1>2. /\ pc' = "idle" /\ user = "Main" /\ user' = "Button" /\ torn' = (pc \in Torn)
      /\ UNCHANGED <<out_rec, out_left, out_adv, out_behind, cur_out_ctr, toBroker, broker_ctr, accepted,
                     written, reset>>
  BY DEF Terminate, tls, output, wire, broker
<1>3. OutTypes'
  BY <1>1, <1>2 DEF OutTypes
<1>4. Ordered(toBroker)'
  BY <1>1, <1>2 DEF OutOrder, Ordered, Acceptable
<1>5. OutOrder'
  BY <1>1, <1>2, <1>4 DEF OutOrder, Flushing
<1>6. OutWhole'
  <2> SUFFICES ASSUME pc \notin Torn PROVE OutWhole'
    BY <1>2 DEF OutWhole
  <2>1. ~torn
    BY <1>1, <1>2 DEF OutOrder
  <2> QED BY <1>1, <1>2, <2>1 DEF OutWhole, InFlight, Flushing, Torn
<1> QED BY <1>3, <1>5, <1>6 DEF OutInv

LEMMA OutLost == ASSUME OutInv, ConnectionLost PROVE OutInv'
<1>1. OutTypes /\ OutOrder
  BY DEF OutInv
<1>2. /\ reset' = TRUE /\ toBroker' = <<>> /\ toBroker' \in Seq(Record) /\ Len(toBroker') = 0
      /\ UNCHANGED <<pc, user, out_rec, out_left, out_adv, out_behind, cur_out_ctr, broker_ctr, accepted,
                     written, torn>>
  BY EmptySeq DEF ConnectionLost, tls, output, broker, history
<1>3. OutTypes'
  BY <1>1, <1>2 DEF OutTypes
<1>4. Ordered(toBroker)'
  BY <1>1, <1>2 DEF OutOrder, Ordered, Acceptable
<1>5. OutOrder' /\ OutWhole'
  BY <1>1, <1>2, <1>4 DEF OutOrder, OutWhole
<1> QED BY <1>3, <1>5 DEF OutInv

-----------------------------------------------------------------------------
(* What comes in                                                            *)

LEMMA InStart == Init => InInv
<1> SUFFICES ASSUME Init PROVE InInv
  OBVIOUS
<1>1. /\ toBoard = <<>> /\ toBoard \in Seq(Unit) /\ Len(toBoard) = 0
      /\ in_buf \in Seq(Unit) /\ Len(in_buf) = 0
      /\ records = <<>> /\ records \in Seq(Sending) /\ Len(records) = 0
  BY EmptySeq DEF Init
<1>2. /\ pc = "idle" /\ got = 0 /\ copied = 0 /\ in_left = 0 /\ in_ctr = 1 /\ in_rec = 0
      /\ in_msglen = 0 /\ in_offt = 0 /\ in_zero = 0 /\ delivered = 0
      /\ torn = FALSE /\ reset = FALSE
  BY DEF Init
<1>3. InTypes
  <2>1. torn \in BOOLEAN /\ reset \in BOOLEAN
    BY <1>2
  <2>2. /\ got \in 0..2 /\ copied \in Nat /\ in_left \in 0..RecordUnits /\ in_ctr \in Nat \ {0}
        /\ in_rec \in Nat /\ in_msglen \in 0..2 /\ in_offt \in 0..2 /\ in_zero \in 0..2
        /\ delivered \in Nat
    BY <1>2 DEF RecordUnits, HeaderUnits, BodyUnits
  <2> QED BY <1>1, <1>2, <2>1, <2>2 DEF InTypes
<1>4. Shared
  BY <1>1 DEF Shared
<1>5. InOrder /\ InWhole
  BY <1>1, <1>2 DEF InOrder, InWhole, Handing, Fetching, Chunks, Upto
<1>6. InStream
  BY <1>1, <1>2 DEF InStream, Have, RecordUnits, HeaderUnits, BodyUnits
<1> QED BY <1>3, <1>4, <1>5, <1>6 DEF InInv

LEMMA Sizes == RecordUnits = 3 /\ HeaderUnits = 1 /\ BodyUnits = 2
BY DEF RecordUnits, HeaderUnits, BodyUnits

LEMMA UnitsAre ==
  ASSUME NEW k \in Nat
  PROVE  /\ Units(k) \in Seq(Unit) /\ Len(Units(k)) = 3
         /\ \A i \in 1..3 : Units(k)[i] = <<k, i>>
<1> DEFINE e(i) == <<k, i>>
<1>1. \A i \in 1..3 : e(i) \in Unit
  BY DEF Unit
<1>2. Units(k) = [i \in 1..3 |-> e(i)]
  BY Sizes DEF Units
<1> HIDE DEF e
<1>3. [i \in 1..3 |-> e(i)] \in Seq(Unit)
  BY <1>1, IsASeq
<1>4. Len([i \in 1..3 |-> e(i)]) = 3
  BY <1>3, LenProperties
<1>5. \A i \in 1..3 : Units(k)[i] = e(i)
  BY <1>2
<1> QED BY <1>2, <1>3, <1>4, <1>5 DEF e

(* What is known of the records and units, field by field *)
LEMMA InFields ==
  ASSUME InTypes
  PROVE  /\ Len(records) \in Nat /\ Len(toBoard) \in Nat /\ Len(in_buf) \in Nat
         /\ \A k \in 1..Len(records) :
              /\ records[k].first \in Nat /\ records[k].first > 0
              /\ records[k].n \in Nat /\ records[k].n <= 2
         /\ \A i \in 1..Len(toBoard) : toBoard[i][1] \in Nat /\ toBoard[i][2] \in Nat
         /\ \A i \in 1..Len(in_buf) : in_buf[i][1] \in Nat /\ in_buf[i][2] \in Nat
<1>1. /\ Len(records) \in Nat /\ Len(toBoard) \in Nat /\ Len(in_buf) \in Nat
      /\ \A k \in 1..Len(records) : records[k] \in Sending
      /\ \A i \in 1..Len(toBoard) : toBoard[i] \in Unit
      /\ \A i \in 1..Len(in_buf) : in_buf[i] \in Unit
  BY ElementOfSeq, LenProperties DEF InTypes
<1>2. \A x \in Sending : x.first \in Nat /\ x.first > 0 /\ x.n \in Nat /\ x.n <= 2
  BY DEF Sending
<1>3. \A u \in Unit : u[1] \in Nat /\ u[2] \in Nat
  BY DEF Unit
<1> QED BY <1>1, <1>2, <1>3

LEMMA Lengths ==
  ASSUME InTypes
  PROVE  Len(records) \in Nat /\ Len(toBoard) \in Nat /\ Len(in_buf) \in Nat
BY LenProperties DEF InTypes

(* The chunks of a record are among all of them, and follow those of the    *)
(* records before it.                                                       *)
LEMMA Shares ==
  ASSUME InTypes, Shared
  PROVE  /\ Chunks \in Nat
         /\ \A k \in 1..Len(records) : records[k].first + records[k].n <= Chunks + 1
         /\ \A k \in 1..Len(records) : records[k].first = Upto(k - 1) + 1
<1> USE Lengths
<1>1. CASE records = <<>>
  BY <1>1, EmptySeq DEF Chunks
<1>2. CASE records # <<>>
  <2> DEFINE z == Len(records)
  <2>1. z \in Nat /\ z > 0 /\ z \in 1..z
    BY <1>2, EmptySeq DEF InTypes
  <2>2. Chunks = records[z].first + records[z].n - 1
    BY <1>2 DEF Chunks
  <2>6. records[z].first \in Nat /\ records[z].first > 0 /\ records[z].n \in Nat
    BY InFields, <2>1
  <2>3. Chunks \in Nat /\ Chunks + 1 = records[z].first + records[z].n
    <3> DEFINE b == records[z].first
               c == records[z].n
    <3>1. b \in Nat /\ b > 0 /\ c \in Nat /\ Chunks = b + c - 1
      BY <2>2, <2>6
    <3> HIDE DEF b, c, z
    <3>2. Chunks \in Nat /\ Chunks + 1 = b + c
      BY <3>1
    <3> QED BY <3>2 DEF b, c
  <2> HIDE DEF z
  <2>4. ASSUME NEW k \in 1..Len(records)
        PROVE  records[k].first + records[k].n <= Chunks + 1
    <3> DEFINE a == records[k].first + records[k].n
               b == records[z].first
               c == records[z].n
    <3>1. a \in Nat /\ b \in Nat /\ c \in Nat /\ Chunks + 1 = b + c
      <4>1. a \in Nat
        BY InFields
      <4> QED BY <2>3, <2>6, <4>1
    <3>2. CASE k = z
      BY <2>3, <3>2
    <3>3. CASE k # z
      <4>1. k < z
        BY <3>3 DEF z
      <4>2. a <= b
        BY <2>1, <4>1 DEF Shared, z
      <4> HIDE DEF a, b, c
      <4>3. a <= Chunks + 1
        BY <3>1, <4>2
      <4> QED BY <4>3 DEF a
    <3> QED BY <3>2, <3>3
  <2>5. ASSUME NEW k \in 1..Len(records)
        PROVE  records[k].first = Upto(k - 1) + 1
    <3>1. CASE k = 1
      BY <3>1 DEF Shared, Upto
    <3>2. CASE k # 1
      <4> DEFINE j == k - 1
      <4>1. j \in 1..Len(records) - 1 /\ j \in 1..Len(records) /\ j # 0 /\ j + 1 = k
        BY <3>2
      <4>2. records[j + 1].first = records[j].first + records[j].n
        BY <4>1 DEF Shared
      <4>3. records[j].first \in Nat /\ records[j].n \in Nat
        BY InFields, <4>1
      <4>4. Upto(j) = records[j].first + records[j].n - 1
        BY <4>1 DEF Upto
      <4> HIDE DEF j
      <4>5. records[k].first = Upto(j) + 1
        BY ONLY <4>1, <4>2, <4>3, <4>4
      <4> QED BY <4>5 DEF j
    <3> QED BY <3>1, <3>2
  <2> QED BY <2>3, <2>4, <2>5
<1> QED BY <1>1, <1>2

(* A step that touches nothing of it, and neither begins a read nor goes on *)
(* with one.                                                                *)
LEMMA InKept ==
  ASSUME InInv,
         UNCHANGED <<got, copied, in_left, in_buf, in_ctr, in_rec, in_msglen, in_offt, in_zero,
                     toBoard, records, delivered, torn, reset, user>>,
         \/ pc' = pc
         \/ pc \notin Handing \cup (Fetching \ {"fetch"}) /\ pc' \notin Handing \cup Fetching
  PROVE  InInv'
<1>1. InTypes'
  BY DEF InInv, InTypes, Fetching
<1>2. Shared'
  BY DEF InInv, Shared
<1>3. InOrder'
  BY DEF InInv, InOrder, Handing, Fetching, Chunks
<1>4. InWhole'
  BY DEF InInv, InWhole, Handing, Fetching, Upto
<1>5. InStream'
  BY DEF InInv, InStream, Have, Handing, Fetching
<1> QED BY <1>1, <1>2, <1>3, <1>4, <1>5 DEF InInv

(* The broker sends a record: data, or an alert. *)
LEMMA InSent ==
  ASSUME InInv, NEW n \in 0..2, SendRecord(n), ~reset,
         UNCHANGED <<pc, got, copied, in_left, in_buf, in_ctr, in_rec, in_msglen, in_offt, in_zero,
                     delivered, torn, reset, user>>
  PROVE  InInv' /\ Chunks' = Chunks + n
<1>1. InTypes /\ Shared /\ InOrder /\ InWhole /\ InStream
  BY DEF InInv
<1> USE Lengths, Sizes
<1> DEFINE z == Len(records)
           x == [first |-> Chunks + 1, n |-> n]
<1>2. z \in Nat /\ Chunks \in Nat /\ x \in Sending /\ x.first = Chunks + 1 /\ x.n = n
  <2>1. z \in Nat /\ Chunks \in Nat
    BY <1>1, Shares
  <2>2. Chunks + 1 \in Nat \ {0}
    BY <2>1
  <2> QED BY <2>1, <2>2 DEF Sending
<1>3. /\ records' \in Seq(Sending) /\ Len(records') = z + 1 /\ records'[z + 1] = x
      /\ records' # <<>> /\ \A k \in 1..z : records'[k] = records[k]
  <2>1. records' = Append(records, x) /\ records \in Seq(Sending)
    BY <1>1 DEF SendRecord, InTypes
  <2> HIDE DEF x
  <2> QED BY <1>2, <2>1, AppendProperties
<1>4. /\ toBoard' \in Seq(Unit) /\ Len(toBoard') = Len(toBoard) + 3
      /\ \A i \in 1..Len(toBoard) + 3 :
           toBoard'[i] = IF i <= Len(toBoard) THEN toBoard[i] ELSE <<z + 1, i - Len(toBoard)>>
  <2>1. /\ Units(z + 1) \in Seq(Unit) /\ Len(Units(z + 1)) = 3
        /\ \A i \in 1..3 : Units(z + 1)[i] = <<z + 1, i>>
    BY <1>2, UnitsAre
  <2>2. toBoard' = toBoard \o Units(z + 1) /\ toBoard \in Seq(Unit)
    BY <1>1 DEF SendRecord, InTypes
  <2>3. /\ toBoard' \in Seq(Unit) /\ Len(toBoard') = Len(toBoard) + 3
        /\ \A i \in 1..Len(toBoard) + 3 :
             toBoard'[i] = IF i <= Len(toBoard) THEN toBoard[i] ELSE Units(z + 1)[i - Len(toBoard)]
    <3> DEFINE u == Units(z + 1)
    <3>1. u \in Seq(Unit) /\ Len(u) = 3 /\ toBoard' = toBoard \o u
      BY <2>1, <2>2
    <3> HIDE DEF u
    <3>2. /\ toBoard \o u \in Seq(Unit) /\ Len(toBoard \o u) = Len(toBoard) + Len(u)
          /\ \A i \in 1..Len(toBoard) + Len(u) :
               (toBoard \o u)[i] = IF i <= Len(toBoard) THEN toBoard[i] ELSE u[i - Len(toBoard)]
      BY <2>2, <3>1, ConcatProperties
    <3>3. /\ toBoard' \in Seq(Unit) /\ Len(toBoard') = Len(toBoard) + 3
          /\ \A i \in 1..Len(toBoard) + 3 :
               toBoard'[i] = IF i <= Len(toBoard) THEN toBoard[i] ELSE u[i - Len(toBoard)]
      BY <3>1, <3>2
    <3> QED BY <3>3 DEF u
  <2>4. \A i \in 1..Len(toBoard) + 3 : i <= Len(toBoard) \/ i - Len(toBoard) \in 1..3
    BY <1>1
  <2> QED BY <2>1, <2>3, <2>4
<1> HIDE DEF x, z
<1>5. Chunks' = Chunks + n
  BY <1>2, <1>3 DEF Chunks
<1>6. InTypes'
  BY <1>1, <1>3, <1>4 DEF InTypes
<1>7. \A k \in 1..z + 1 : k \in 1..z \/ k = z + 1
  BY <1>2
<1>8. Shared'
  <2>1. records'[1].first = 1
    <3>1. CASE z = 0
      <4>1. records = <<>>
        BY <1>1, <3>1, EmptySeq DEF InTypes, z
      <4> QED BY <1>2, <1>3, <3>1, <4>1 DEF Chunks
    <3>2. CASE z # 0
      <4>1. 1 \in 1..z /\ Len(records) > 0
        BY <1>2, <3>2 DEF z
      <4> QED BY <1>1, <1>3, <4>1 DEF Shared
    <3> QED BY <3>1, <3>2
  <2>2. ASSUME NEW k \in 1..z PROVE records'[k + 1].first = records'[k].first + records'[k].n
    <3>1. CASE k = z
      <4>1. records # <<>>
        BY <1>2, <3>1, EmptySeq DEF z
      <4>2. Chunks = records[z].first + records[z].n - 1
        BY <4>1 DEF Chunks, z
      <4>3. z \in 1..Len(records) /\ records[z].first \in Nat /\ records[z].n \in Nat
        BY InFields, <1>1, <1>2, <3>1 DEF z
      <4>4. /\ records'[k + 1].first = Chunks + 1
            /\ records'[k].first = records[z].first /\ records'[k].n = records[z].n
        BY <1>2, <1>3, <3>1
      <4> DEFINE a == records[z].first
                 b == records[z].n
      <4>5. a \in Nat /\ b \in Nat /\ Chunks = a + b - 1
        BY <4>2, <4>3
      <4> HIDE DEF a, b
      <4>6. Chunks + 1 = a + b
        BY <4>5
      <4> QED BY <4>4, <4>6 DEF a, b
    <3>2. CASE k # z
      <4>1. k \in 1..z - 1 /\ k + 1 \in 1..z
        BY <1>2, <3>2
      <4> QED BY <1>1, <1>3, <4>1 DEF Shared, z
    <3> QED BY <3>1, <3>2
  <2>3. ASSUME NEW j \in 1..z + 1, NEW k \in 1..z + 1, j < k
        PROVE  records'[j].first + records'[j].n <= records'[k].first
    <3>1. j \in 1..z /\ records'[j] = records[j]
      BY <1>2, <1>3, <2>3
    <3>2. CASE k = z + 1
      <4>1. records[j].first + records[j].n <= Chunks + 1
        BY <1>1, <3>1, Shares DEF z
      <4> QED BY <1>2, <1>3, <3>1, <3>2, <4>1
    <3>3. CASE k \in 1..z
      BY <1>1, <1>3, <2>3, <3>1, <3>3 DEF Shared, z
    <3> QED BY <1>7, <3>2, <3>3
  <2>4. Len(records') = z + 1 /\ Len(records') - 1 = z
    BY <1>2, <1>3
  <2> QED BY <2>1, <2>2, <2>3, <2>4 DEF Shared
<1>9. InOrder'
  <2>1. \A i \in 1..Len(toBoard') : toBoard'[i][1] \in 1..z + 1
    <3> SUFFICES ASSUME NEW i \in 1..Len(toBoard') PROVE toBoard'[i][1] \in 1..z + 1
      OBVIOUS
    <3>1. CASE i <= Len(toBoard)
      <4>1. toBoard'[i] = toBoard[i] /\ toBoard[i][1] \in 1..z
        BY <1>1, <1>4, <3>1 DEF InOrder, z
      <4> QED BY <1>2, <4>1
    <3>2. CASE ~(i <= Len(toBoard))
      BY <1>2, <1>4, <3>2
    <3> QED BY <3>1, <3>2
  <2>2. \A i \in 1..Len(in_buf) : in_buf[i][1] \in 1..z + 1
    BY <1>1, <1>2 DEF InOrder, z
  <2>3. in_ctr <= z + 2 /\ delivered <= Chunks'
    BY <1>1, <1>2, <1>5 DEF InOrder, InTypes, z
  <2>4. \A k \in in_ctr..z + 1 : delivered < records'[k].first
    <3> SUFFICES ASSUME NEW k \in in_ctr..z + 1 PROVE delivered < records'[k].first
      OBVIOUS
    <3>1. CASE k = z + 1
      BY <1>1, <1>2, <1>3, <3>1 DEF InOrder, InTypes
    <3>2. CASE k # z + 1
      <4>1. k \in in_ctr..z /\ k \in 1..z
        BY <1>1, <1>2, <3>2 DEF InTypes
      <4> QED BY <1>1, <1>3, <4>1 DEF InOrder, z
    <3> QED BY <3>1, <3>2
  <2>5. in_rec \in 1..z => records'[in_rec] = records[in_rec] /\ in_rec \in 1..z + 1
    BY <1>2, <1>3
  <2>6. z + 1 + 1 = z + 2
    BY <1>2
  <2>7. pc \in Handing => in_rec \in 1..z
    BY <1>1 DEF InOrder, z
  <2> QED BY <1>1, <1>3, <2>1, <2>2, <2>3, <2>4, <2>5, <2>6, <2>7 DEF InOrder, Handing, z
<1>10. InWhole'
  <2>1. Upto(in_ctr - 1)' = Upto(in_ctr - 1)
    <3>1. in_ctr = 1 \/ in_ctr - 1 \in 1..z
      BY <1>1, <1>2 DEF InOrder, InTypes, z
    <3> QED BY <1>3, <3>1 DEF Upto
  <2>2. pc = "message" \/ pc \in Handing \/ in_offt # 0 => records'[in_rec] = records[in_rec]
    BY <1>1, <1>3 DEF InOrder, z
  <2> QED BY <1>1, <2>1, <2>2 DEF InWhole, Handing
<1>11. InStream'
  <2> SUFFICES ASSUME ~torn PROVE InStream'
    BY DEF InStream
  <2>1. Have' = Have /\ Have \in Nat
    BY <1>1 DEF Have, InTypes
  <2>2. /\ Len(toBoard) + 3 * (in_ctr - 1) + Have = 3 * z
        /\ \A i \in 1..Len(toBoard) :
              /\ toBoard[i][2] \in 1..3
              /\ 3 * (toBoard[i][1] - 1) + toBoard[i][2] = 3 * (in_ctr - 1) + Have + i
    BY <1>1 DEF InStream, z
  <2>3. Len(toBoard') + 3 * (in_ctr - 1) + Have = 3 * (z + 1)
    BY <1>1, <1>2, <1>4, <2>1, <2>2 DEF InTypes
  <2>4. ASSUME NEW i \in 1..Len(toBoard')
        PROVE  /\ toBoard'[i][2] \in 1..3
               /\ 3 * (toBoard'[i][1] - 1) + toBoard'[i][2] = 3 * (in_ctr - 1) + Have + i
    <3>1. CASE i <= Len(toBoard)
      <4>1. i \in 1..Len(toBoard) /\ toBoard'[i] = toBoard[i]
        BY <1>4, <3>1
      <4> QED BY <2>2, <4>1
    <3>2. CASE ~(i <= Len(toBoard))
      <4>1. toBoard'[i][1] = z + 1 /\ toBoard'[i][2] = i - Len(toBoard) /\ i - Len(toBoard) \in 1..3
        BY <1>1, <1>4, <3>2
      <4>2. in_ctr \in Nat /\ Len(toBoard) \in Nat /\ i \in Nat
        BY <1>1 DEF InTypes
      <4>3. toBoard'[i][1] - 1 = z /\ toBoard'[i][2] = i - Len(toBoard)
        BY <1>2, <4>1
      <4>4. 3 * z = Len(toBoard) + 3 * (in_ctr - 1) + Have
        BY <2>2
      <4> HIDE DEF z
      <4>5. 3 * z + (i - Len(toBoard)) = 3 * (in_ctr - 1) + Have + i
        BY <1>2, <2>1, <4>2, <4>4
      <4> QED BY <4>1, <4>3, <4>5
    <3> QED BY <3>1, <3>2
  <2> QED BY <1>1, <1>3, <2>1, <2>3, <2>4 DEF InStream
<1> QED BY <1>5, <1>6, <1>8, <1>9, <1>10, <1>11 DEF InInv

(* A read begins. *)
LEMMA InBegins == ASSUME InInv, Read PROVE InInv'
<1>1. InTypes /\ Shared /\ InOrder /\ InWhole /\ InStream
  BY DEF InInv
<1>2. /\ pc = "idle"
      /\ \/ in_offt # 0 /\ pc' = "copy" /\ in_msglen' = in_msglen
         \/ in_offt = 0 /\ pc' = "fetch" /\ in_msglen' = 0
      /\ UNCHANGED <<got, copied, in_left, in_buf, in_ctr, in_rec, in_offt, in_zero, toBoard, records,
                     delivered, torn, reset, user>>
  BY DEF Read, Goto, fetched, wire, broker, history
<1>3. InTypes'
  BY <1>1, <1>2 DEF InTypes
<1>4. Shared'
  BY <1>1, <1>2 DEF Shared
<1>5. InOrder'
  BY <1>1, <1>2 DEF InOrder, Handing, Fetching, Chunks
<1>6. InWhole'
  BY <1>1, <1>2 DEF InWhole, Upto
<1>7. InStream'
  BY <1>1, <1>2 DEF InStream, Have
<1> QED BY <1>3, <1>4, <1>5, <1>6, <1>7 DEF InInv

(* The position of a unit in the stream gives its record. *)
LEMMA OneUnit ==
  \A a, b, c, d \in Int :
    b \in 1..3 /\ d \in 1..3 /\ 3 * (a - 1) + b = 3 * (c - 1) + d => a = c /\ b = d
OBVIOUS

(* f_recv hands over a part of what has arrived. *)
LEMMA InReceives == ASSUME InInv, Receive PROVE InInv'
<1>1. InTypes /\ Shared /\ InOrder /\ InWhole /\ InStream
  BY DEF InInv
<1> USE Lengths, Sizes
<1>2. /\ pc = "fetch" /\ pc' = "fetched" /\ in_left < 3
      /\ UNCHANGED <<copied, in_left, in_ctr, in_rec, in_msglen, in_offt, in_zero, records, delivered,
                     torn, reset, user>>
  BY DEF Receive, Goto, handed, broker, history
<1>3. PICK n \in 1..Wanted :
        /\ n <= Len(toBoard) /\ got' = n
        /\ in_buf' = SubSeq(in_buf, 1, in_left) \o SubSeq(toBoard, 1, n)
        /\ toBoard' = SubSeq(toBoard, n + 1, Len(toBoard))
  BY DEF Receive
<1>4. n \in 1..2 /\ in_left \in Nat /\ in_left + n <= 3 /\ in_left <= Len(in_buf)
  BY <1>1, <1>2 DEF Wanted, InTypes
<1>5. /\ toBoard' \in Seq(Unit) /\ Len(toBoard') = Len(toBoard) - n
      /\ \A i \in 1..Len(toBoard) - n : n + i \in 1..Len(toBoard) /\ toBoard'[i] = toBoard[n + i]
  <2>1. \A i \in n + 1..Len(toBoard) : toBoard[i] \in Unit
    BY <1>1, <1>4, ElementOfSeq DEF InTypes
  <2>2. n + 1 \in Int /\ Len(toBoard) \in Int
    BY <1>1, <1>4
  <2>3. /\ toBoard' \in Seq(Unit)
        /\ Len(toBoard') = IF n + 1 <= Len(toBoard) THEN Len(toBoard) - (n + 1) + 1 ELSE 0
        /\ \A i \in 1..Len(toBoard) - (n + 1) + 1 : toBoard'[i] = toBoard[n + 1 + i - 1]
    BY <1>3, <2>1, <2>2, SubSeqProperties
  <2>4. Len(toBoard) - (n + 1) + 1 = Len(toBoard) - n
    BY <1>1, <1>4
  <2>5. \A i \in 1..Len(toBoard) - n : n + 1 + i - 1 = n + i /\ n + i \in 1..Len(toBoard)
    <3> SUFFICES ASSUME NEW i \in 1..Len(toBoard) - n
                 PROVE  n + 1 + i - 1 = n + i /\ n + i \in 1..Len(toBoard)
      OBVIOUS
    <3>1. Len(toBoard) \in Nat /\ n \in Nat /\ i \in Nat /\ i > 0 /\ i <= Len(toBoard) - n
      BY <1>1, <1>4
    <3> QED BY <3>1
  <2>6. Len(toBoard') = Len(toBoard) - n
    BY <1>1, <1>3, <1>4, <2>3
  <2> QED BY <2>3, <2>4, <2>5, <2>6
<1>6. /\ in_buf' \in Seq(Unit) /\ Len(in_buf') = in_left + n
      /\ \A i \in 1..in_left + n :
           in_buf'[i] = IF i <= in_left THEN in_buf[i] ELSE toBoard[i - in_left]
  <2> DEFINE a == SubSeq(in_buf, 1, in_left)
             b == SubSeq(toBoard, 1, n)
  <2>1. a \in Seq(Unit) /\ Len(a) = in_left /\ \A i \in 1..in_left : a[i] = in_buf[i]
    <3>1. \A i \in 1..in_left : in_buf[i] \in Unit
      BY <1>1, <1>4, ElementOfSeq DEF InTypes
    <3>2. 1 \in Int /\ in_left \in Int
      BY <1>4
    <3>3. /\ a \in Seq(Unit) /\ Len(a) = IF 1 <= in_left THEN in_left - 1 + 1 ELSE 0
          /\ \A i \in 1..in_left - 1 + 1 : a[i] = in_buf[1 + i - 1]
      BY <3>1, <3>2, SubSeqProperties
    <3>4. in_left - 1 + 1 = in_left /\ \A i \in 1..in_left : 1 + i - 1 = i
      BY <1>4
    <3>5. Len(a) = in_left
      BY <1>4, <3>3
    <3> QED BY <3>3, <3>4, <3>5
  <2>2. b \in Seq(Unit) /\ Len(b) = n /\ \A i \in 1..n : b[i] = toBoard[i]
    <3>1. \A i \in 1..n : toBoard[i] \in Unit
      BY <1>1, <1>3, <1>4, ElementOfSeq DEF InTypes
    <3>2. 1 \in Int /\ n \in Int
      BY <1>4
    <3>3. /\ b \in Seq(Unit) /\ Len(b) = IF 1 <= n THEN n - 1 + 1 ELSE 0
          /\ \A i \in 1..n - 1 + 1 : b[i] = toBoard[1 + i - 1]
      BY <3>1, <3>2, SubSeqProperties
    <3>4. n - 1 + 1 = n /\ \A i \in 1..n : 1 + i - 1 = i
      BY <1>4
    <3>5. Len(b) = n
      BY <1>4, <3>3
    <3> QED BY <3>3, <3>4, <3>5
  <2>3. in_buf' = a \o b
    BY <1>3
  <2> HIDE DEF a, b
  <2>4. /\ a \o b \in Seq(Unit) /\ Len(a \o b) = Len(a) + Len(b)
        /\ \A i \in 1..Len(a) + Len(b) : (a \o b)[i] = IF i <= Len(a) THEN a[i] ELSE b[i - Len(a)]
    BY <2>1, <2>2, ConcatProperties
  <2>5. ASSUME NEW i \in 1..in_left + n
        PROVE  in_buf'[i] = IF i <= in_left THEN in_buf[i] ELSE toBoard[i - in_left]
    <3>1. in_buf'[i] = IF i <= in_left THEN a[i] ELSE b[i - in_left]
      BY <2>1, <2>2, <2>3, <2>4
    <3>2. CASE i <= in_left
      BY <1>4, <2>1, <3>1, <3>2
    <3>3. CASE ~(i <= in_left)
      BY <1>4, <2>2, <3>1, <3>3
    <3> QED BY <3>2, <3>3
  <2> QED BY <2>1, <2>2, <2>3, <2>4, <2>5
<1>7. InTypes'
  <2>1. got' \in 0..2 /\ in_left' <= Len(in_buf') /\ Len(in_buf') = in_left' + got'
        /\ in_left' + got' <= RecordUnits'
    BY <1>2, <1>3, <1>4, <1>6
  <2>2. reset' => toBoard' = <<>>
    <3>1. toBoard # <<>>
      BY <1>1, <1>3, <1>4, EmptySeq
    <3> QED BY <1>1, <1>2, <3>1 DEF InTypes
  <2> QED BY <1>1, <1>2, <1>5, <1>6, <2>1, <2>2 DEF InTypes
<1>8. Shared'
  BY <1>1, <1>2 DEF Shared
<1>9. InOrder'
  <2>1. \A i \in 1..Len(toBoard') : toBoard'[i][1] \in 1..Len(records)
    BY <1>1, <1>5 DEF InOrder
  <2>2. ASSUME NEW i \in 1..Len(in_buf') PROVE in_buf'[i][1] \in 1..Len(records)
    <3>1. CASE i <= in_left
      <4>1. in_buf'[i] = in_buf[i] /\ i \in 1..Len(in_buf)
        BY <1>1, <1>4, <1>6, <3>1
      <4> QED BY <1>1, <4>1 DEF InOrder
    <3>2. CASE ~(i <= in_left)
      <4>1. in_buf'[i] = toBoard[i - in_left] /\ i - in_left \in 1..Len(toBoard)
        <5>1. /\ Len(toBoard) \in Nat /\ n \in Nat /\ n <= Len(toBoard) /\ i \in Nat
              /\ i <= in_left + n /\ i \in 1..in_left + n
          BY <1>1, <1>3, <1>4, <1>6
        <5> QED BY <1>4, <1>6, <3>2, <5>1
      <4> QED BY <1>1, <4>1 DEF InOrder
    <3> QED BY <3>1, <3>2
  <2> QED BY <1>1, <1>2, <2>1, <2>2 DEF InOrder, Handing, Fetching, Chunks
<1>10. InWhole'
  BY <1>1, <1>2 DEF InWhole, InOrder, Fetching, Upto
<1>11. InStream'
  <2> SUFFICES ASSUME ~torn PROVE InStream'
    BY <1>2 DEF InStream
  <2>1. ~reset
    <3>1. toBoard # <<>>
      BY <1>1, <1>3, <1>4, EmptySeq
    <3> QED BY <1>1, <3>1 DEF InTypes
  <2>2. Have = in_left /\ Have' = in_left + n
    BY <1>2, <1>3 DEF Have
  <2>3. in_ctr \in Nat /\ 3 * (in_ctr - 1) \in Int
    BY <1>1 DEF InTypes
  <2>4. /\ Len(toBoard) + 3 * (in_ctr - 1) + in_left = 3 * Len(records)
        /\ \A i \in 1..Len(toBoard) :
              /\ toBoard[i][2] \in 1..3
              /\ 3 * (toBoard[i][1] - 1) + toBoard[i][2] = 3 * (in_ctr - 1) + in_left + i
        /\ \A i \in 1..in_left : in_buf[i] = <<in_ctr, i>>
    BY <1>1, <2>1, <2>2 DEF InStream
  <2>5. ASSUME NEW i \in 1..n PROVE toBoard[i] = <<in_ctr, in_left + i>>
    <3>1. i \in 1..Len(toBoard)
      BY <1>1, <1>3, <1>4
    <3>2. toBoard[i] \in Unit
      BY <1>1, <3>1, ElementOfSeq DEF InTypes
    <3>3. /\ toBoard[i][2] \in 1..3 /\ toBoard[i][1] \in Nat
          /\ 3 * (toBoard[i][1] - 1) + toBoard[i][2] = 3 * (in_ctr - 1) + (in_left + i)
      <4>1. 3 * (in_ctr - 1) + in_left + i = 3 * (in_ctr - 1) + (in_left + i)
        BY <1>4, <2>3
      <4> QED BY InFields, <1>1, <2>4, <3>1, <4>1
    <3>4. in_left + i \in 1..3
      BY <1>4
    <3>5. toBoard[i][1] = in_ctr /\ toBoard[i][2] = in_left + i
      <4> DEFINE a == toBoard[i][1]
                 b == toBoard[i][2]
                 d == in_left + i
      <4>1. /\ a \in Int /\ b \in Int /\ in_ctr \in Int /\ d \in Int /\ b \in 1..3 /\ d \in 1..3
            /\ 3 * (a - 1) + b = 3 * (in_ctr - 1) + d
        BY <2>3, <3>3, <3>4
      <4> HIDE DEF a, b, d
      <4>2. a = in_ctr /\ b = d
        BY <4>1, OneUnit
      <4> QED BY <4>2 DEF a, b, d
    <3> QED BY <3>2, <3>5 DEF Unit
  <2>6. ASSUME NEW i \in 1..in_left + n PROVE in_buf'[i] = <<in_ctr, i>>
    <3>1. CASE i <= in_left
      BY <1>4, <1>6, <2>4, <3>1
    <3>2. CASE ~(i <= in_left)
      <4>1. i - in_left \in 1..n /\ in_left + (i - in_left) = i
        BY <1>4, <3>2
      <4> QED BY <1>6, <2>5, <3>2, <4>1
    <3> QED BY <3>1, <3>2
  <2>7. Len(toBoard') + 3 * (in_ctr - 1) + (in_left + n) = 3 * Len(records)
    BY InFields, <1>1, <1>4, <1>5, <2>3, <2>4
  <2>8. ASSUME NEW i \in 1..Len(toBoard')
        PROVE  /\ toBoard'[i][2] \in 1..3
               /\ 3 * (toBoard'[i][1] - 1) + toBoard'[i][2] = 3 * (in_ctr - 1) + (in_left + n) + i
    <3>1. n + i \in 1..Len(toBoard) /\ toBoard'[i] = toBoard[n + i]
      BY <1>5
    <3>2. 3 * (in_ctr - 1) + in_left + (n + i) = 3 * (in_ctr - 1) + (in_left + n) + i
      BY <1>4, <2>3
    <3> QED BY <2>4, <3>1, <3>2
  <2> QED BY <1>2, <1>4, <1>6, <2>2, <2>6, <2>7, <2>8 DEF InStream
<1> QED BY <1>7, <1>8, <1>9, <1>10, <1>11 DEF InInv

LEMMA InCounts == ASSUME InInv, Received PROVE InInv'
<1>1. InTypes /\ Shared /\ InOrder /\ InWhole /\ InStream
  BY DEF InInv
<1>2. /\ pc = "fetched" /\ pc' = "fetch" /\ in_left' = in_left + got
      /\ UNCHANGED <<got, copied, in_buf, in_ctr, in_rec, in_msglen, in_offt, in_zero, toBoard, records,
                     delivered, torn, reset, user>>
  BY DEF Received, Goto, handed, wire, broker, history
<1>3. InTypes'
  <2>1. in_left' \in 0..RecordUnits' /\ in_left' <= Len(in_buf')
    BY <1>1, <1>2, Sizes DEF InTypes
  <2> QED BY <1>1, <1>2, <2>1 DEF InTypes
<1>4. Shared'
  BY <1>1, <1>2 DEF Shared
<1>5. InOrder' /\ InWhole'
  BY <1>1, <1>2 DEF InOrder, InWhole, Handing, Fetching, Chunks, Upto
<1>6. InStream'
  BY <1>1, <1>2 DEF InStream, Have
<1> QED BY <1>3, <1>4, <1>5, <1>6 DEF InInv

LEMMA InCompletes == ASSUME InInv, RecordComplete PROVE InInv'
<1>1. InTypes /\ Shared /\ InOrder /\ InWhole /\ InStream
  BY DEF InInv
<1>2. /\ pc = "fetch" /\ pc' = "decrypt" /\ in_left = RecordUnits /\ in_left' = 0
      /\ UNCHANGED <<got, copied, in_buf, in_ctr, in_rec, in_msglen, in_offt, in_zero, toBoard, records,
                     delivered, torn, reset, user>>
  BY DEF RecordComplete, Goto, handed, wire, broker, history
<1>3. InTypes'
  <2>1. in_left' \in 0..RecordUnits' /\ in_left' <= Len(in_buf')
    BY <1>1, <1>2, InFields, Sizes
  <2> QED BY <1>1, <1>2, <2>1 DEF InTypes
<1>4. Shared'
  BY <1>1, <1>2 DEF Shared
<1>5. InOrder' /\ InWhole'
  BY <1>1, <1>2 DEF InOrder, InWhole, Handing, Fetching, Chunks, Upto
<1>6. InStream'
  BY <1>1, <1>2, Sizes DEF InStream, Have
<1> QED BY <1>3, <1>4, <1>5, <1>6 DEF InInv

(* A record that was read whole has the number the reader expects. *)
LEMMA WholeIsAuthentic == ASSUME InInv, pc = "decrypt", ~torn PROVE Authentic
<1>1. in_buf \in Seq(Unit) /\ Len(in_buf) = 3 /\ \A i \in 1..3 : in_buf[i] = <<in_ctr, i>>
  BY Sizes DEF InInv, InStream, InTypes, Have
<1>2. in_ctr \in Nat
  BY DEF InInv, InTypes
<1> DEFINE u == Units(in_ctr)
<1>3. u \in Seq(Unit) /\ Len(u) = 3 /\ \A i \in 1..3 : u[i] = <<in_ctr, i>>
  BY <1>2, UnitsAre
<1> HIDE DEF u
<1>4. Len(in_buf) = Len(u) /\ \A i \in 1..Len(in_buf) : in_buf[i] = u[i]
  BY <1>1, <1>3
<1>5. in_buf = u
  BY <1>1, <1>3, <1>4, SeqEqual
<1> QED BY <1>5 DEF Authentic, u

LEMMA InDecrypts == ASSUME InInv, Decrypt PROVE InInv'
<1>1. InTypes /\ Shared /\ InOrder /\ InWhole /\ InStream
  BY DEF InInv
<1> USE Lengths, Sizes
<1>2. /\ pc = "decrypt" /\ in_ctr' = in_ctr + 1 /\ in_rec' = in_ctr
      /\ \/ records[in_ctr].n = 0 /\ pc' = "idle" /\ in_msglen' = in_msglen
         \/ records[in_ctr].n # 0 /\ pc' = "message" /\ in_msglen' = records[in_ctr].n
      /\ UNCHANGED <<got, copied, in_left, in_buf, in_offt, in_zero, toBoard, records,
                     delivered, torn, reset, user>>
  BY DEF Decrypt, Goto, Return, Alert, wire, broker, history
<1>3. in_ctr \in 1..Len(records) /\ in_ctr \in Nat /\ in_left = 0 /\ in_offt = 0
  <2>1. in_ctr \in Nat /\ in_left = 0 /\ in_offt = 0
    BY <1>1, <1>2 DEF InTypes, InOrder, Fetching
  <2>2. Len(in_buf) = 3 /\ in_buf[1] = <<in_ctr, 1>>
    BY <2>1, UnitsAre DEF Decrypt, Authentic
  <2>3. in_buf[1][1] \in 1..Len(records) /\ in_buf[1][1] = in_ctr
    BY <1>1, <2>2 DEF InOrder
  <2> QED BY <2>1, <2>3
<1>4. InTypes'
  <2>1. in_ctr' \in Nat \ {0} /\ in_rec' \in Nat /\ in_msglen' \in 0..2
    BY InFields, <1>1, <1>2, <1>3 DEF InTypes
  <2> QED BY <1>1, <1>2, <1>3, <2>1 DEF InTypes
<1>5. Shared'
  BY <1>1, <1>2 DEF Shared
<1>6. InOrder'
  <2>1. in_ctr' <= Len(records) + 1 /\ in_rec' = in_ctr' - 1 /\ in_rec' \in 1..Len(records)
    BY <1>1, <1>2, <1>3
  <2>2. delivered < records[in_ctr].first
    BY <1>1, <1>3 DEF InOrder
  <2>3. \A k \in in_ctr'..Len(records) : delivered < records[k].first
    <3>1. \A k \in in_ctr'..Len(records) : k \in in_ctr..Len(records)
      BY <1>1, <1>2, <1>3
    <3> QED BY <1>1, <3>1 DEF InOrder
  <2> QED BY <1>1, <1>2, <1>3, <2>1, <2>2, <2>3 DEF InOrder, Handing, Fetching, Chunks
<1>7. InWhole'
  <2> SUFFICES ASSUME ~torn PROVE InWhole'
    BY <1>2 DEF InWhole
  <2>1. records[in_ctr].first = Upto(in_ctr - 1) + 1 /\ delivered = Upto(in_ctr - 1)
    BY <1>1, <1>2, <1>3, Shares DEF InWhole
  <2>2. delivered = records[in_ctr].first - 1
    BY <1>1, <2>1 DEF InTypes
  <2>3. in_ctr' - 1 = in_ctr /\ in_ctr # 0
    BY <1>1, <1>2, <1>3
  <2>4. Upto(in_ctr - 1)' = records[in_ctr].first + records[in_ctr].n - 1
    BY <1>2, <2>3 DEF Upto
  <2>5. records[in_ctr].n = 0 => delivered = Upto(in_ctr - 1)'
    BY InFields, <1>1, <1>3, <2>2, <2>4
  <2>6. in_offt' = 0 /\ pc' \notin {"less", "zero", "end"}
    BY <1>2, <1>3
  <2>7. delivered' = IF pc' = "message" THEN records'[in_rec'].first - 1 ELSE Upto(in_ctr - 1)'
    BY <1>2, <2>2, <2>3, <2>5 DEF Upto
  <2> QED BY <2>6, <2>7 DEF InWhole
<1>8. InStream'
  <2> SUFFICES ASSUME ~torn PROVE InStream'
    BY <1>2 DEF InStream
  <2>1. Have = 3 /\ Have' = 0
    BY <1>2, <1>3 DEF Have
  <2>2. 3 * (in_ctr' - 1) = 3 * (in_ctr - 1) + 3 /\ 3 * (in_ctr - 1) \in Int
    BY <1>2, <1>3
  <2> QED BY <1>1, <1>2, <1>3, <2>1, <2>2 DEF InStream
<1> QED BY <1>4, <1>5, <1>6, <1>7, <1>8 DEF InInv

(* What is in hand is offered, copied, counted, wiped and handed out. *)
LEMMA InOffers == ASSUME InInv, OfferMessage PROVE InInv'
<1>1. InTypes /\ Shared /\ InOrder /\ InWhole /\ InStream
  BY DEF InInv
<1> USE Lengths
<1>2. /\ pc = "message" /\ pc' = "copy" /\ in_offt' = 1 /\ in_zero' = 0
      /\ UNCHANGED <<got, copied, in_msglen, in_left, in_buf, in_ctr, in_rec, toBoard, records, delivered,
                     torn, reset, user>>
  BY DEF OfferMessage, Goto, fetched, wire, broker, history
<1>3. in_rec \in 1..Len(records) /\ in_offt \in 0..2 /\ in_msglen \in 0..2 /\ got \in 0..2
  BY <1>1, <1>2 DEF InOrder, InTypes, Handing
<1>4. InTypes'
  BY <1>1, <1>2 DEF InTypes
<1>5. Shared'
  BY <1>1, <1>2 DEF Shared
<1>6. InOrder'
  <2>1. /\ in_ctr' <= Len(records') + 1 /\ delivered' <= Chunks'
        /\ \A i \in 1..Len(toBoard') : toBoard'[i][1] \in 1..Len(records')
        /\ \A i \in 1..Len(in_buf') : in_buf'[i][1] \in 1..Len(records')
        /\ \A k \in in_ctr'..Len(records') : delivered' < records'[k].first
    BY <1>1, <1>2 DEF InOrder, Chunks
  <2>2. /\ in_rec = in_ctr - 1 /\ in_msglen = records[in_rec].n /\ delivered < records[in_rec].first
    BY <1>1, <1>2 DEF InOrder
  <2>3. records[in_rec].n \in Nat /\ records[in_rec].first \in Nat /\ delivered \in Nat
    BY InFields, <1>1, <1>3 DEF InTypes
  <2>4. in_offt' + in_msglen <= records[in_rec].n + 1 /\ delivered + 1 < records[in_rec].first + in_offt'
    <3> DEFINE a == records[in_rec].first
               b == records[in_rec].n
    <3>1. a \in Nat /\ b \in Nat /\ in_msglen = b /\ delivered < a /\ delivered \in Nat
      BY <2>2, <2>3
    <3> HIDE DEF a, b
    <3>2. in_offt' + in_msglen <= b + 1 /\ delivered + 1 < a + in_offt'
      BY <1>2, <3>1
    <3> QED BY <3>2 DEF a, b
  <2> QED BY <1>2, <1>3, <2>1, <2>2, <2>4 DEF InOrder, Handing, Fetching
<1>7. InWhole'
  <2> SUFFICES ASSUME ~torn PROVE InWhole'
    BY <1>2 DEF InWhole
  <2>1. /\ delivered = records[in_rec].first - 1 /\ records[in_rec].first \in Nat
        /\ in_msglen = records[in_rec].n /\ in_msglen # 0 /\ records[in_rec].n \in Nat
    BY InFields, <1>1, <1>2, <1>3 DEF InWhole, InOrder, Fetching
  <2>2. /\ delivered + 2 = records[in_rec].first + in_offt' /\ in_offt' + in_msglen = records[in_rec].n + 1
        /\ in_offt' # 0 /\ in_zero' < in_offt'
    BY <1>2, <2>1
  <2> QED BY <1>2, <2>1, <2>2 DEF InWhole
<1>8. InStream'
  BY <1>1, <1>2 DEF InStream, Have
<1> QED BY <1>4, <1>5, <1>6, <1>7, <1>8 DEF InInv

LEMMA InCopies == ASSUME InInv, Copy PROVE InInv'
<1>1. InTypes /\ Shared /\ InOrder /\ InWhole /\ InStream
  BY DEF InInv
<1> USE Lengths
<1>2. /\ pc = "copy" /\ pc' = "less"
      /\ got' = (IF in_msglen = 0 THEN 0 ELSE 1) /\ copied' = Chunk
      /\ UNCHANGED <<in_msglen, in_offt, in_zero, in_left, in_buf, in_ctr, in_rec, toBoard, records, delivered,
                     torn, reset, user>>
  BY DEF Copy, Goto, tls, input, fetched, handed, wire, broker, history
<1>3. in_rec \in 1..Len(records) /\ in_offt \in 0..2 /\ in_msglen \in 0..2 /\ got \in 0..2
  BY <1>1, <1>2 DEF InOrder, InTypes, Handing
<1>9. /\ Chunk \in Nat /\ (Chunk # 0 => in_msglen # 0 /\ Chunk + 1 = records[in_rec].first + in_offt)
      /\ in_msglen # 0 /\ in_offt # in_zero => Chunk + 1 = records[in_rec].first + in_offt
  <2>1. records[in_rec].first \in Nat /\ records[in_rec].first > 0 /\ in_offt # 0
    BY InFields, <1>1, <1>2, <1>3 DEF InOrder, Handing
  <2> DEFINE a == records[in_rec].first
  <2>2. a \in Nat /\ a > 0 /\ in_offt \in Nat
    BY <1>3, <2>1
  <2>3. Chunk = IF in_msglen = 0 \/ in_offt = in_zero THEN 0 ELSE a + in_offt - 1
    BY DEF Chunk
  <2> HIDE DEF a
  <2>4. /\ Chunk \in Nat /\ (Chunk # 0 => in_msglen # 0 /\ Chunk + 1 = a + in_offt)
        /\ in_msglen # 0 /\ in_offt # in_zero => Chunk + 1 = a + in_offt
    BY <2>2, <2>3
  <2> QED BY <2>4 DEF a
<1>4. InTypes'
  BY <1>1, <1>2, <1>9 DEF InTypes
<1>5. Shared'
  BY <1>1, <1>2 DEF Shared
<1>6. InOrder'
  BY <1>1, <1>2, <1>3, <1>9 DEF InOrder, InTypes, Handing, Fetching, Chunks
<1>7. InWhole'
  BY <1>1, <1>2, <1>3, <1>9 DEF InWhole, InOrder, InTypes, Handing, Upto
<1>8. InStream'
  BY <1>1, <1>2 DEF InStream, Have
<1> QED BY <1>4, <1>5, <1>6, <1>7, <1>8 DEF InInv

LEMMA LessLeft ==
  ASSUME NEW o \in Nat, NEW m \in Nat, NEW l \in Nat, NEW g \in Nat, NEW b \in Nat,
         o + l + g = o + m
  PROVE  o + m <= b + 1 => o + l + g <= b + 1 /\ o + l <= b + 1
OBVIOUS

LEMMA InConsumes == ASSUME InInv, Consume PROVE InInv'
<1>1. InTypes /\ Shared /\ InOrder /\ InWhole /\ InStream
  BY DEF InInv
<1> USE Lengths
<1>2. /\ pc = "less" /\ pc' = "zero" /\ in_msglen' = in_msglen - got
      /\ UNCHANGED <<got, copied, in_offt, in_zero, in_left, in_buf, in_ctr, in_rec, toBoard, records, delivered,
                     torn, reset, user>>
  BY DEF Consume, Goto, fetched, wire, broker, history
<1>3. in_rec \in 1..Len(records) /\ in_offt \in 0..2 /\ in_msglen \in 0..2 /\ got \in 0..2
  BY <1>1, <1>2 DEF InOrder, InTypes, Handing
<1>9. in_msglen' \in 0..2 /\ got \in {0, 1} /\ (in_offt + in_msglen' + got = in_offt + in_msglen)
  BY <1>1, <1>2, <1>3 DEF InOrder
<1>4. InTypes'
  BY <1>1, <1>2, <1>9 DEF InTypes
<1>5. Shared'
  BY <1>1, <1>2 DEF Shared
<1>6. InOrder'
  <2>1. /\ in_ctr' <= Len(records') + 1 /\ delivered' <= Chunks'
        /\ \A i \in 1..Len(toBoard') : toBoard'[i][1] \in 1..Len(records')
        /\ \A i \in 1..Len(in_buf') : in_buf'[i][1] \in 1..Len(records')
        /\ \A k \in in_ctr'..Len(records') : delivered' < records'[k].first
    BY <1>1, <1>2 DEF InOrder, Chunks
  <2>2. /\ in_rec = in_ctr - 1 /\ in_offt # 0
        /\ delivered + 1 < records[in_rec].first + in_offt
        /\ in_offt + in_msglen <= records[in_rec].n + 1
        /\ copied # 0 => got = 1 /\ copied + 1 = records[in_rec].first + in_offt
    BY <1>1, <1>2 DEF InOrder, Handing
  <2>3. records[in_rec].n \in Nat
    BY InFields, <1>1, <1>3
  <2>4. in_offt + in_msglen' + got <= records[in_rec].n + 1 /\ in_offt + in_msglen' <= records[in_rec].n + 1
    <3> DEFINE b == records[in_rec].n
    <3>1. b \in Nat /\ in_offt + in_msglen <= b + 1
      BY <2>2, <2>3
    <3> HIDE DEF b
    <3>2. in_msglen' \in Nat /\ in_offt \in Nat /\ in_msglen \in Nat /\ got \in Nat
      BY <1>3, <1>9
    <3>3. in_offt + in_msglen' + got <= b + 1 /\ in_offt + in_msglen' <= b + 1
      BY <1>9, <3>1, <3>2, LessLeft
    <3> QED BY <3>3 DEF b
  <2> QED BY <1>2, <1>3, <1>9, <2>1, <2>2, <2>4 DEF InOrder, Handing, Fetching
<1>7. InWhole'
  <2> SUFFICES ASSUME ~torn PROVE InWhole'
    BY <1>2 DEF InWhole
  <2>1. /\ in_offt # 0 /\ delivered + 2 = records[in_rec].first + in_offt
        /\ in_offt + in_msglen = records[in_rec].n + 1 /\ in_zero < in_offt
        /\ got = 1 /\ copied + 1 = records[in_rec].first + in_offt
    BY <1>1, <1>2 DEF InWhole, InOrder, Handing
  <2>2. records[in_rec].n \in Nat
    BY InFields, <1>1, <1>3
  <2>3. in_offt + in_msglen' = records[in_rec].n
    <3> DEFINE b == records[in_rec].n
    <3>1. b \in Nat /\ in_offt + in_msglen = b + 1 /\ got = 1
      BY <2>1, <2>2
    <3> HIDE DEF b
    <3>2. in_msglen' \in Nat /\ in_offt \in Nat /\ in_msglen \in Nat /\ got \in Nat
      BY <1>3, <1>9
    <3>3. in_msglen' = in_msglen - 1
      BY <1>2, <3>1
    <3>4. in_offt + (in_msglen - 1) = b
      BY ONLY <3>1, <3>2
    <3>5. in_offt + in_msglen' = b
      BY <3>3, <3>4
    <3> QED BY <3>5 DEF b
  <2> QED BY <1>2, <2>1, <2>3 DEF InWhole
<1>8. InStream'
  BY <1>1, <1>2 DEF InStream, Have
<1> QED BY <1>4, <1>5, <1>6, <1>7, <1>8 DEF InInv

LEMMA InWipes == ASSUME InInv, Zeroize PROVE InInv'
<1>1. InTypes /\ Shared /\ InOrder /\ InWhole /\ InStream
  BY DEF InInv
<1> USE Lengths
<1>2. /\ pc = "zero" /\ pc' = "end" /\ in_zero' = (IF got = 0 THEN in_zero ELSE in_offt)
      /\ UNCHANGED <<got, copied, in_msglen, in_offt, in_left, in_buf, in_ctr, in_rec, toBoard, records, delivered,
                     torn, reset, user>>
  BY DEF Zeroize, Goto, fetched, wire, broker, history
<1>3. in_rec \in 1..Len(records) /\ in_offt \in 0..2 /\ in_msglen \in 0..2 /\ got \in 0..2
  BY <1>1, <1>2 DEF InOrder, InTypes, Handing
<1>4. InTypes'
  BY <1>1, <1>2 DEF InTypes
<1>5. Shared'
  BY <1>1, <1>2 DEF Shared
<1>6. InOrder'
  BY <1>1, <1>2, <1>3 DEF InOrder, InTypes, Handing, Fetching, Chunks
<1>7. InWhole'
  BY <1>1, <1>2, <1>3 DEF InWhole, InOrder, InTypes, Handing, Upto
<1>8. InStream'
  BY <1>1, <1>2 DEF InStream, Have
<1> QED BY <1>4, <1>5, <1>6, <1>7, <1>8 DEF InInv

LEMMA InHandsOut ==
  ASSUME InInv, HandOut
  PROVE  /\ InInv' /\ (copied = 0 => delivered' = delivered)
         /\ copied # 0 => delivered' = copied /\ copied > delivered /\ copied <= Chunks
                          /\ (~torn => copied = delivered + 1)
<1>1. InTypes /\ Shared /\ InOrder /\ InWhole /\ InStream
  BY DEF InInv
<1> USE Lengths
<1>2. /\ pc = "end" /\ pc' = "idle"
      /\ in_offt' = (IF in_msglen = 0 THEN 0 ELSE in_offt + got)
      /\ delivered' = (IF copied = 0 THEN delivered ELSE copied)
      /\ UNCHANGED <<got, copied, in_left, in_buf, in_ctr, in_rec, in_msglen, in_zero, toBoard, records,
                     torn, reset, user>>
  BY DEF HandOut, Return, fetched, wire, broker
<1>3. /\ in_rec \in 1..Len(records) /\ in_rec = in_ctr - 1 /\ in_ctr \in Nat
      /\ in_offt \in 1..2 /\ in_msglen \in 0..2 /\ got \in {0, 1}
      /\ copied \in Nat /\ delivered \in Nat
      /\ in_offt + in_msglen + got <= records[in_rec].n + 1
      /\ delivered + 1 < records[in_rec].first + in_offt
      /\ copied # 0 => got = 1 /\ copied + 1 = records[in_rec].first + in_offt
  BY <1>1, <1>2 DEF InOrder, InTypes, Handing
<1>4. /\ records[in_rec].first \in Nat /\ records[in_rec].n \in 0..2 /\ Chunks \in Nat
      /\ records[in_rec].first + records[in_rec].n <= Chunks + 1
  <2>1. records[in_rec].first \in Nat /\ records[in_rec].n \in 0..2
    <3>1. records[in_rec].first \in Nat /\ records[in_rec].n \in Nat /\ records[in_rec].n <= 2
      BY InFields, <1>1, <1>3
    <3> QED BY <3>1
  <2>2. Chunks \in Nat /\ records[in_rec].first + records[in_rec].n <= Chunks + 1
    BY <1>1, <1>3, Shares
  <2> QED BY <2>1, <2>2
<1>5. copied # 0 => /\ copied > delivered /\ copied < records[in_rec].first + records[in_rec].n
                    /\ copied <= Chunks
  <2> DEFINE a == records[in_rec].first
             b == records[in_rec].n
  <2>1. /\ a \in Nat /\ b \in 0..2 /\ Chunks \in Nat /\ a + b <= Chunks + 1
        /\ in_offt + in_msglen + got <= b + 1 /\ delivered + 1 < a + in_offt
        /\ copied # 0 => got = 1 /\ copied + 1 = a + in_offt
    BY <1>3, <1>4
  <2> HIDE DEF a, b
  <2>2. copied # 0 => copied > delivered /\ copied < a + b /\ copied <= Chunks
    <3> SUFFICES ASSUME copied # 0 PROVE copied > delivered /\ copied < a + b /\ copied <= Chunks
      OBVIOUS
    <3>1. copied > delivered
      BY <1>3, <2>1
    <3>2. in_offt <= b
      BY <1>3, <2>1
    <3>3. copied < a + b
      BY <1>3, <2>1, <3>2
    <3> QED BY <1>3, <2>1, <3>1, <3>3
  <2> QED BY <2>2 DEF a, b
<1>6. InTypes'
  <2>1. in_offt' \in 0..2 /\ delivered' \in Nat
    BY InFields, <1>2, <1>3, <1>4
  <2> QED BY <1>1, <1>2, <2>1 DEF InTypes
<1>7. Shared'
  BY <1>1, <1>2 DEF Shared
<1>8. InOrder'
  <2>1. delivered' <= Chunks'
    BY <1>1, <1>2, <1>5 DEF InOrder, Chunks
  <2>2. ASSUME NEW k \in in_ctr..Len(records) PROVE delivered' < records[k].first
    <3>1. CASE copied = 0
      BY <1>1, <1>2, <3>1 DEF InOrder
    <3>2. CASE copied # 0
      <4>1. k \in 1..Len(records) /\ in_rec < k
        BY <1>1, <1>3
      <4>2. records[in_rec].first + records[in_rec].n <= records[k].first
        BY <1>1, <1>3, <4>1 DEF Shared
      <4>3. copied < records[in_rec].first + records[in_rec].n /\ delivered' = copied
        BY <1>2, <1>5, <3>2
      <4>4. records[k].first \in Nat
        BY InFields, <1>1, <4>1
      <4> DEFINE a == records[in_rec].first + records[in_rec].n
                 b == records[k].first
      <4>5. a \in Nat /\ b \in Nat /\ a <= b /\ copied < a
        BY <1>4, <4>2, <4>3, <4>4
      <4> HIDE DEF a, b
      <4>6. copied < b
        BY <1>3, <4>5
      <4> QED BY <4>3, <4>6 DEF b
    <3> QED BY <3>1, <3>2
  <2>3. in_offt' # 0 => /\ delivered' + 1 < records[in_rec].first + in_offt'
                        /\ in_offt' + in_msglen <= records[in_rec].n + 1
    <3> SUFFICES ASSUME in_offt' # 0
                 PROVE  /\ delivered' + 1 < records[in_rec].first + in_offt'
                        /\ in_offt' + in_msglen <= records[in_rec].n + 1
      OBVIOUS
    <3> DEFINE a == records[in_rec].first
               b == records[in_rec].n
               o == in_offt + got
               d == IF copied = 0 THEN delivered ELSE copied
    <3>1. in_offt' = o /\ delivered' = d
      BY <1>2
    <3>2. /\ a \in Nat /\ b \in Nat /\ in_offt + in_msglen + got <= b + 1
          /\ delivered + 1 < a + in_offt /\ (copied # 0 => got = 1 /\ copied + 1 = a + in_offt)
      BY <1>3, <1>4
    <3> HIDE DEF a, b
    <3>3. d + 1 < a + o /\ o + in_msglen <= b + 1
      BY <1>3, <3>2
    <3> QED BY <3>1, <3>3 DEF a, b
  <2>4. in_rec' = in_ctr' - 1 /\ in_rec' \in 1..Len(records')
    BY <1>2, <1>3
  <2>5. in_ctr' <= Len(records') + 1
    BY <1>1, <1>2 DEF InOrder
  <2>6. /\ \A i \in 1..Len(toBoard') : toBoard'[i][1] \in 1..Len(records')
        /\ \A i \in 1..Len(in_buf') : in_buf'[i][1] \in 1..Len(records')
    BY <1>1, <1>2 DEF InOrder
  <2> QED BY <1>2, <2>1, <2>2, <2>3, <2>4, <2>5, <2>6 DEF InOrder, Handing, Fetching
<1>9. ~torn => /\ got = 1 /\ copied # 0 /\ copied = delivered + 1
               /\ in_offt + in_msglen = records[in_rec].n /\ in_zero <= in_offt
  <2> SUFFICES ASSUME ~torn
               PROVE  /\ got = 1 /\ copied # 0 /\ copied = delivered + 1
                      /\ in_offt + in_msglen = records[in_rec].n /\ in_zero <= in_offt
    OBVIOUS
  <2>1. /\ in_offt # 0 /\ delivered + 2 = records[in_rec].first + in_offt
        /\ (in_zero < in_offt \/ in_zero = in_offt)
        /\ got = 1 /\ copied + 1 = records[in_rec].first + in_offt
        /\ in_offt + in_msglen = records[in_rec].n
    BY <1>1, <1>2, <1>3 DEF InWhole
  <2> DEFINE a == records[in_rec].first
  <2>2. /\ a \in Nat /\ copied \in Nat /\ delivered \in Nat /\ in_offt \in Nat
        /\ delivered + 2 = a + in_offt /\ copied + 1 = a + in_offt
    <3>1. a \in Nat /\ copied \in Nat /\ delivered \in Nat /\ in_offt \in Nat
      BY <1>3, <1>4
    <3> QED BY <2>1, <3>1
  <2> HIDE DEF a
  <2>3. copied = delivered + 1 /\ copied # 0
    BY ONLY <2>2
  <2>4. in_zero <= in_offt
    <3>1. in_zero \in Nat
      BY <1>1 DEF InTypes
    <3> QED BY <1>3, <2>1, <3>1
  <2> QED BY <2>1, <2>3, <2>4
<1>10. InWhole'
  <2> SUFFICES ASSUME ~torn PROVE InWhole'
    BY <1>2 DEF InWhole
  <2>1. delivered' = copied /\ copied + 1 = records[in_rec].first + in_offt
    BY <1>2, <1>3, <1>9
  <2>2. CASE in_msglen = 0
    <3>1. in_offt' = 0 /\ in_offt = records[in_rec].n
      BY <1>2, <1>3, <1>9, <2>2
    <3>2. Upto(in_ctr - 1)' = records[in_rec].first + records[in_rec].n - 1
      BY <1>2, <1>3 DEF Upto
    <3>3. delivered' = Upto(in_ctr - 1)'
      <4> DEFINE a == records[in_rec].first
      <4>1. a \in Nat /\ copied + 1 = a + in_offt /\ Upto(in_ctr - 1)' = a + in_offt - 1
        BY <1>4, <2>1, <3>1, <3>2
      <4> HIDE DEF a
      <4> QED BY <1>3, <2>1, <4>1
    <3> QED BY <1>2, <3>1, <3>3 DEF InWhole
  <2>3. CASE in_msglen # 0
    <3>1. in_offt' = in_offt + 1
      BY <1>2, <1>9, <2>3
    <3>2. /\ delivered' + 2 = records[in_rec].first + in_offt' /\ in_offt' + in_msglen = records[in_rec].n + 1
          /\ in_offt' # 0 /\ in_zero < in_offt'
      <4> DEFINE a == records[in_rec].first
                 b == records[in_rec].n
      <4>1. /\ a \in Nat /\ b \in Nat /\ copied + 1 = a + in_offt /\ in_offt + in_msglen = b
            /\ in_zero \in Nat /\ in_zero <= in_offt
        <5>1. in_zero \in Nat
          BY <1>1 DEF InTypes
        <5> QED BY <1>4, <1>9, <2>1, <5>1
      <4> HIDE DEF a, b
      <4>2. delivered' + 2 = a + in_offt' /\ in_offt' + in_msglen = b + 1 /\ in_offt' # 0 /\ in_zero < in_offt'
        BY <1>3, <2>1, <3>1, <4>1
      <4> QED BY <4>2 DEF a, b
    <3> QED BY <1>2, <2>3, <3>2 DEF InWhole
  <2> QED BY <2>2, <2>3
<1>11. InStream'
  BY <1>1, <1>2 DEF InStream, Have
<1>12. /\ copied = 0 => delivered' = delivered
       /\ copied # 0 => delivered' = copied /\ copied > delivered /\ copied <= Chunks
  BY <1>2, <1>5
<1>13. InInv'
  BY <1>6, <1>7, <1>8, <1>10, <1>11 DEF InInv
<1> QED BY <1>9, <1>12, <1>13

LEMMA InTerminated == ASSUME InInv, Terminate PROVE InInv'
<1>1. InTypes /\ Shared /\ InOrder /\ InWhole /\ InStream
  BY DEF InInv
<1>2. /\ pc' = "idle" /\ user = "Main" /\ user' = "Button" /\ torn' = (pc \in Torn)
      /\ UNCHANGED <<got, copied, in_left, in_buf, in_ctr, in_rec, in_msglen, in_offt, in_zero, toBoard,
                     records, delivered, reset>>
  BY DEF Terminate, tls, input, fetched, handed, wire, broker
<1>3. ~torn
  BY <1>1, <1>2 DEF InTypes
<1>4. InTypes'
  <2>1. torn' \in BOOLEAN
    BY <1>2
  <2> QED BY <1>1, <1>2, <2>1 DEF InTypes
<1>5. Shared'
  BY <1>1, <1>2 DEF Shared
<1>6. InOrder'
  BY <1>1, <1>2 DEF InOrder, Handing, Fetching, Chunks
<1>7. InWhole'
  BY <1>1, <1>2, <1>3 DEF InWhole, Torn, Upto
<1>8. InStream'
  BY <1>1, <1>2, <1>3 DEF InStream, Have, Torn
<1> QED BY <1>4, <1>5, <1>6, <1>7, <1>8 DEF InInv

LEMMA InLost == ASSUME InInv, ConnectionLost PROVE InInv'
<1>1. InTypes /\ Shared /\ InOrder /\ InWhole /\ InStream
  BY DEF InInv
<1>2. /\ reset' = TRUE /\ toBoard' = <<>> /\ toBoard' \in Seq(Unit) /\ Len(toBoard') = 0
      /\ UNCHANGED <<pc, user, got, copied, in_left, in_buf, in_ctr, in_rec, in_msglen, in_offt, in_zero,
                     records, delivered, torn>>
  BY EmptySeq DEF ConnectionLost, tls, input, fetched, handed, broker, history
<1>4. InTypes'
  BY <1>1, <1>2 DEF InTypes
<1>5. Shared'
  BY <1>1, <1>2 DEF Shared
<1>6. InOrder'
  BY <1>1, <1>2 DEF InOrder, Chunks
<1>7. InWhole'
  BY <1>1, <1>2 DEF InWhole, Upto
<1>8. InStream'
  BY <1>1, <1>2 DEF InStream, Have
<1> QED BY <1>4, <1>5, <1>6, <1>7, <1>8 DEF InInv

LEMMA InAlert == ASSUME InInv, DecryptFails PROVE InInv' /\ torn
<1>1. InTypes /\ Shared /\ InOrder /\ InWhole /\ InStream
  BY DEF InInv
<1>2. /\ pc = "decrypt" /\ pc' = "idle"
      /\ UNCHANGED <<got, copied, in_left, in_buf, in_ctr, in_rec, in_msglen, in_offt, in_zero, toBoard,
                     records, delivered, torn, reset, user>>
  BY DEF DecryptFails, Return, tls, input, fetched, handed, broker, history
<1>3. torn
  BY <1>2, WholeIsAuthentic DEF DecryptFails
<1>4. InTypes'
  BY <1>1, <1>2 DEF InTypes
<1>5. Shared'
  BY <1>1, <1>2 DEF Shared
<1>6. InOrder'
  BY <1>1, <1>2 DEF InOrder, Handing, Fetching, Chunks
<1>7. InWhole' /\ InStream'
  BY <1>2, <1>3 DEF InWhole, InStream
<1> QED BY <1>3, <1>4, <1>5, <1>6, <1>7 DEF InInv

-----------------------------------------------------------------------------
(* Both ways together                                                       *)

StreamInv == OutInv /\ InInv

(* What the steps of a write, and those of a read, leave alone *)
LEMMA WritesKeep ==
  ASSUME WriteSteps
  PROVE  /\ UNCHANGED <<got, copied, in_left, in_buf, in_ctr, in_rec, in_msglen, in_offt, in_zero,
                        toBoard, records, delivered, torn, reset, user, accepted, broker_ctr, rejected>>
         /\ written' = written \/ written' = written + 1
         /\ pc \in {"idle"} \cup WritePlaces /\ pc' \in {"idle"} \cup WritePlaces
<1> USE DEF Goto, Return, output, input, fetched, handed, tls, wire, broker, history, WritePlaces
<1>1. CASE Write
  BY <1>1 DEF Write
<1>2. CASE WriteRecord
  BY <1>2 DEF WriteRecord
<1>3. CASE AdvanceHeader \/ CountRecord
  BY <1>3 DEF AdvanceHeader, CountRecord
<1>4. CASE Flush \/ FlushFails
  BY <1>4 DEF Flush, FlushFails
<1>5. CASE Sent \/ Rewind \/ UpdatePointers
  BY <1>5 DEF Sent, Rewind, UpdatePointers
<1> QED BY <1>1, <1>2, <1>3, <1>4, <1>5 DEF WriteSteps

LEMMA ReadsKeep ==
  ASSUME ReadSteps
  PROVE  /\ UNCHANGED <<output, written, accepted, broker_ctr, rejected, records, torn, reset, user>>
         /\ pc \in {"idle"} \cup ReadPlaces /\ pc' \in {"idle"} \cup ReadPlaces
         /\ ~DecryptFails => toBroker' = toBroker
         /\ ~HandOut => delivered' = delivered
<1> USE DEF Goto, Return, output, input, fetched, handed, tls, wire, broker, history, ReadPlaces
<1>1. CASE Read
  BY <1>1 DEF Read
<1>2. CASE Receive
  BY <1>2 DEF Receive
<1>3. CASE Received \/ RecordComplete
  BY <1>3 DEF Received, RecordComplete
<1>4. CASE ReceiveFails \/ ReceiveEnd \/ BadHeader
  BY <1>4 DEF ReceiveFails, ReceiveEnd, BadHeader
<1>5. CASE Decrypt
  BY <1>5 DEF Decrypt
<1>6. CASE DecryptFails
  BY <1>6 DEF DecryptFails
<1>7. CASE OfferMessage \/ Copy
  BY <1>7 DEF OfferMessage, Copy
<1>8. CASE Consume \/ Zeroize
  BY <1>8 DEF Consume, Zeroize
<1>9. CASE HandOut
  BY <1>9 DEF HandOut
<1> QED BY <1>1, <1>2, <1>3, <1>4, <1>5, <1>6, <1>7, <1>8, <1>9 DEF ReadSteps

LEMMA InReads == ASSUME InInv, ReadSteps PROVE InInv'
<1>1. CASE ReceiveFails \/ ReceiveEnd \/ BadHeader
  <2>1. /\ UNCHANGED <<got, copied, in_left, in_buf, in_ctr, in_rec, in_msglen, in_offt, in_zero,
                       toBoard, records, delivered, torn, reset, user>>
        /\ pc = "fetch" /\ pc' = "idle"
    BY <1>1 DEF ReceiveFails, ReceiveEnd, BadHeader, Return, tls, input, fetched, handed, wire, broker, history
  <2> QED BY <2>1, InKept DEF Handing, Fetching
<1> QED BY <1>1, InBegins, InReceives, InCounts, InCompletes, InDecrypts, InAlert, InOffers, InCopies,
           InConsumes, InWipes, InHandsOut DEF ReadSteps

(* The broker's steps *)
LEMMA BrokerKeeps ==
  ASSUME StreamInv, Publish \/ Take \/ BrokerCloses
  PROVE  /\ InInv' /\ UNCHANGED <<delivered, torn>> /\ (Chunks' = Chunks \/ Chunks' \in {Chunks + 1, Chunks + 2})
<1>1. InInv /\ OutInv
  BY DEF StreamInv
<1>2. /\ UNCHANGED <<pc, got, copied, in_left, in_buf, in_ctr, in_rec, in_msglen, in_offt, in_zero,
                     delivered, torn, reset, user>>
      /\ ~reset
      /\ (\E n \in 0..2 : SendRecord(n)) \/ UNCHANGED <<records, toBoard>>
  <2>1. CASE Publish
    BY <2>1 DEF Publish, tls, input, fetched, handed, history
  <2>2. CASE Take
    <3>1. ~reset
      BY <1>1, <2>2 DEF Take, OutInv, OutOrder
    <3>2. SendRecord(0) \/ UNCHANGED <<records, toBoard>>
      BY <2>2 DEF Take, Alert
    <3>3. UNCHANGED <<pc, got, copied, in_left, in_buf, in_ctr, in_rec, in_msglen, in_offt, in_zero,
                      delivered, torn, reset, user>>
      BY <2>2 DEF Take, tls, input, fetched, handed, history
    <3> QED BY <3>1, <3>2, <3>3
  <2>3. CASE BrokerCloses
    BY <2>3 DEF BrokerCloses, Alert, tls, input, fetched, handed, history
  <2> QED BY <2>1, <2>2, <2>3
<1>3. CASE \E n \in 0..2 : SendRecord(n)
  <2>1. PICK n \in 0..2 : SendRecord(n)
    BY <1>3
  <2>2. InInv' /\ Chunks' = Chunks + n
    BY <1>1, <1>2, <2>1, InSent
  <2>3. Chunks \in Nat
    BY <1>1, Shares DEF InInv
  <2> QED BY <1>2, <2>2, <2>3
<1>4. CASE UNCHANGED <<records, toBoard>>
  <2>1. InInv'
    BY <1>1, <1>2, <1>4, InKept
  <2> QED BY <1>2, <1>4, <2>1 DEF Chunks
<1> QED BY <1>2, <1>3, <1>4

LEMMA StreamStart == Init => StreamInv
BY OutStart, InStart DEF StreamInv

LEMMA StreamStep == StreamInv /\ [Next]_vars => StreamInv'
<1> SUFFICES ASSUME StreamInv, [Next]_vars PROVE StreamInv'
  OBVIOUS
<1>1. OutInv /\ InInv
  BY DEF StreamInv
<1>2. CASE WriteSteps
  <2>1. OutInv'
    BY <1>1, <1>2, OutWrites
  <2>2. InInv'
    BY <1>1, <1>2, WritesKeep, InKept DEF WritePlaces, Handing, Fetching
  <2> QED BY <2>1, <2>2 DEF StreamInv
<1>3. CASE ReadSteps
  <2>1. InInv'
    BY <1>1, <1>3, InReads
  <2>2. CASE DecryptFails
    BY <1>1, <2>1, <2>2, InAlert, OutAlert DEF StreamInv
  <2>3. CASE ~DecryptFails
    BY <1>1, <1>3, <2>1, <2>3, ReadsKeep, OutKept DEF StreamInv, ReadPlaces, Flushing
  <2> QED BY <2>2, <2>3
<1>4. CASE Terminate
  BY <1>1, <1>4, OutTerminated, InTerminated DEF StreamInv
<1>5. CASE Publish \/ BrokerCloses
  <2>1. UNCHANGED <<output, toBroker, broker_ctr, accepted, written, torn, reset, user, pc>>
    BY <1>5 DEF Publish, BrokerCloses, tls, history
  <2>2. OutInv'
    BY <1>1, <2>1, OutKept
  <2> QED BY <1>5, <2>2, BrokerKeeps DEF StreamInv
<1>6. CASE Take
  BY <1>1, <1>6, OutTaken, BrokerKeeps DEF StreamInv
<1>7. CASE ConnectionLost
  BY <1>1, <1>7, OutLost, InLost DEF StreamInv
<1>8. CASE UNCHANGED vars
  <2>1. /\ UNCHANGED <<output, toBroker, broker_ctr, accepted, written, torn, reset, user, pc>>
        /\ UNCHANGED <<got, copied, in_left, in_buf, in_ctr, in_rec, in_msglen, in_offt, in_zero,
                       toBoard, records, delivered>>
    BY <1>8 DEF vars, tls, input, fetched, handed, wire, broker, history
  <2> QED BY <1>1, <2>1, OutKept, InKept DEF StreamInv
<1> QED BY <1>2, <1>3, <1>4, <1>5, <1>6, <1>7, <1>8 DEF Next

(* The invariant of the context and of both ways, for any number of packets *)
(* and records, however the socket cuts them.                               *)
THEOREM StreamInvariance == Spec => []StreamInv
BY StreamStart, StreamStep, PTL DEF Spec

(* mbedtls_ssl_write implements a channel: the broker accepts the packets   *)
(* in the order they were written and each once, with none left out unless  *)
(* Main_Thread was terminated half way.                                     *)
THEOREM WritesAreAChannel == Spec => OutboundInOrder
<1>1. Init => Out!Init
  BY DEF Init, Out!Init
<1>2. StreamInv /\ [Next]_vars => [Out!Next]_(Out!vars)
  <2> SUFFICES ASSUME StreamInv, [Next]_vars PROVE [Out!Next]_(Out!vars)
    OBVIOUS
  <2>1. OutTypes /\ OutOrder /\ OutWhole
    BY DEF StreamInv, OutInv
  <2>2. CASE WriteSteps
    <3>1. UNCHANGED <<accepted, torn>> /\ (written' = written \/ written' > written)
      BY <2>1, <2>2, WritesKeep DEF OutTypes
    <3> QED BY <3>1 DEF Out!Next, Out!Send, Out!vars
  <2>3. CASE Take
    <3>1. UNCHANGED <<written, torn>>
      BY <2>3 DEF Take, history
    <3>2. CASE Head(toBroker).seq = broker_ctr
      <4>1. accepted' = Head(toBroker).num /\ 1 \in 1..Len(toBroker) /\ Head(toBroker) = toBroker[1]
        <5>1. Len(toBroker) \in Nat \ {0}
          BY <2>1, <2>3, EmptySeq DEF Take, OutTypes
        <5> QED BY <2>3, <3>2, <5>1 DEF Take
      <4>2. /\ accepted' <= written /\ accepted' > accepted /\ accepted' \in Nat
            /\ ~torn => accepted' = accepted + 1
        <5>1. Acceptable(toBroker[1]) /\ toBroker[1].num \in Nat
          BY <2>1, <4>1, Fields DEF OutOrder, Ordered
        <5>2. accepted' <= written /\ accepted' > accepted /\ accepted' \in Nat
          BY <2>1, <3>2, <4>1, <5>1, Fields DEF Acceptable
        <5>3. ~reset
          BY <2>1, <2>3 DEF Take, OutOrder
        <5> QED BY <2>1, <4>1, <5>2, <5>3 DEF OutWhole
      <4>3. accepted \in Nat /\ written \in Nat
        BY <2>1 DEF OutTypes
      <4>4. accepted' \in accepted + 1..written
        BY <4>2, <4>3
      <4> QED BY <3>1, <4>2, <4>4 DEF Out!Next, Out!Deliver
    <3>3. CASE Head(toBroker).seq # broker_ctr
      BY <2>3, <3>1, <3>3 DEF Take, Out!vars
    <3> QED BY <3>2, <3>3
  <2>4. CASE Terminate
    <3>1. torn' \in {torn, TRUE} /\ UNCHANGED <<written, accepted>>
      <4>1. torn = FALSE /\ (torn' = TRUE \/ torn' = FALSE)
        BY <2>1, <2>4 DEF Terminate, OutTypes, OutOrder
      <4> QED BY <2>4, <4>1 DEF Terminate, broker
    <3> QED BY <3>1 DEF Out!Next, Out!Cut, Out!vars
  <2>5. CASE ReadSteps \/ Publish \/ BrokerCloses \/ ConnectionLost \/ UNCHANGED vars
    <3>1. UNCHANGED <<written, accepted, torn>>
      BY <2>5, ReadsKeep DEF Publish, BrokerCloses, ConnectionLost, vars, broker, history
    <3> QED BY <3>1 DEF Out!vars
  <2> QED BY <2>2, <2>3, <2>4, <2>5 DEF Next
<1> QED BY <1>1, <1>2, StreamInvariance, PTL DEF Spec, OutboundInOrder, Out!Spec

(* mbedtls_ssl_read implements a channel: it returns what the broker sent   *)
(* in order and once, through records read in pieces, reads that run into   *)
(* their timeout and the termination of Main_Thread.                        *)
THEOREM ReadsAreAChannel == Spec => InboundInOrder
<1>1. Init => In!Init
  BY DEF Init, In!Init, Chunks
<1>2. StreamInv /\ [Next]_vars => [In!Next]_(In!vars)
  <2> SUFFICES ASSUME StreamInv, [Next]_vars PROVE [In!Next]_(In!vars)
    OBVIOUS
  <2>1. InInv /\ InTypes /\ Chunks \in Nat
    BY Shares DEF StreamInv, InInv
  <2>2. CASE HandOut
    <3>1. Chunks' = Chunks /\ torn' = torn /\ delivered \in Nat /\ copied \in Nat
      BY <2>1, <2>2 DEF HandOut, Chunks, broker, InTypes
    <3>2. CASE copied = 0
      BY <2>1, <2>2, <3>1, <3>2, InHandsOut DEF In!vars
    <3>3. CASE copied # 0
      <4>1. /\ delivered' = copied /\ copied > delivered /\ copied <= Chunks
            /\ ~torn => copied = delivered + 1
        BY <2>1, <2>2, <3>3, InHandsOut
      <4>2. delivered' \in delivered + 1..Chunks
        BY <2>1, <3>1, <4>1
      <4> QED BY <3>1, <4>1, <4>2 DEF In!Next, In!Deliver
    <3> QED BY <3>2, <3>3
  <2>3. CASE Publish \/ Take \/ BrokerCloses
    <3>1. UNCHANGED <<delivered, torn>> /\ (Chunks' = Chunks \/ Chunks' > Chunks)
      BY <2>1, <2>3, BrokerKeeps
    <3> QED BY <3>1 DEF In!Next, In!Send, In!vars
  <2>4. CASE Terminate
    <3>1. torn' \in {torn, TRUE} /\ UNCHANGED <<delivered, records>>
      <4>1. torn = FALSE /\ (torn' = TRUE \/ torn' = FALSE)
        BY <2>1, <2>4 DEF Terminate, InTypes
      <4> QED BY <2>4, <4>1 DEF Terminate, broker
    <3> QED BY <3>1 DEF In!Next, In!Cut, In!vars, Chunks
  <2>5. CASE WriteSteps \/ (ReadSteps /\ ~HandOut) \/ ConnectionLost \/ UNCHANGED vars
    <3>1. UNCHANGED <<delivered, records, torn>>
      BY <2>5, WritesKeep, ReadsKeep DEF ConnectionLost, vars, broker, history
    <3> QED BY <3>1 DEF In!vars, Chunks
  <2> QED BY <2>2, <2>3, <2>4, <2>5 DEF Next
<1> QED BY <1>1, <1>2, StreamInvariance, PTL DEF Spec, InboundInOrder, In!Spec

(* As long as tls was left whole, the broker finds every record it is sent  *)
(* complete and with the number it expects, and has no reason to close.     *)
THEOREM RecordsAreAccepted == Spec => []NothingRejected
<1>1. Init => NothingRejected
  BY DEF Init, NothingRejected
<1>2. StreamInv /\ NothingRejected /\ [Next]_vars => NothingRejected'
  <2> SUFFICES ASSUME StreamInv, NothingRejected, [Next]_vars PROVE NothingRejected'
    OBVIOUS
  <2>1. OutTypes /\ OutOrder /\ OutWhole
    BY DEF StreamInv, OutInv
  <2>2. CASE Take
    <3> SUFFICES ASSUME ~torn PROVE rejected' = rejected
      BY <2>1, <2>2 DEF Take, NothingRejected, history
    <3>1. Len(toBroker) \in Nat \ {0} /\ ~reset
      BY <2>1, <2>2, EmptySeq DEF Take, OutTypes, OutOrder
    <3>2. Head(toBroker) = toBroker[1] /\ 1 \in 1..Len(toBroker)
      BY <3>1
    <3>3. Head(toBroker).seq = broker_ctr
      BY <2>1, <3>1, <3>2 DEF OutWhole
    <3> QED BY <2>2, <3>3 DEF Take
  <2>3. CASE Terminate
    BY <2>1, <2>3 DEF Terminate, NothingRejected, OutOrder, broker
  <2>4. CASE WriteSteps \/ ReadSteps \/ Publish \/ BrokerCloses \/ ConnectionLost \/ UNCHANGED vars
    <3>1. UNCHANGED <<rejected, torn>>
      BY <2>4, WritesKeep, ReadsKeep DEF Publish, BrokerCloses, ConnectionLost, vars, broker, history
    <3> QED BY <3>1 DEF NothingRejected
  <2> QED BY <2>2, <2>3, <2>4 DEF Next
<1> QED BY <1>1, <1>2, StreamInvariance, PTL DEF Spec

(* A write that is skipped ends with the left-over record sent. *)
Skipping ==
  ~reset =>
    /\ skipped \in {0, 1}
    /\ user = "Main" => skipped = 0
    /\ skipped = 1 => out_left = 0 \/ pc \in Flushing

LEMMA SkippingStep == ASSUME StreamInv, Skipping, [Next]_vars PROVE Skipping'
<1> SUFFICES ASSUME ~reset' PROVE Skipping'
  BY DEF Skipping
<1>1. OutTypes /\ OutOrder /\ OutWhole
  BY DEF StreamInv, OutInv
<1>2. CASE WriteSteps
  <2>1. UNCHANGED <<user, torn, reset>> /\ (user = "Main" => ~torn)
    BY <1>1, <1>2, WritesKeep DEF OutOrder
  <2>2. CASE Write
    <3>1. CASE out_left # 0
      <4>1. pc = "idle" /\ pc' = "flush" /\ skipped' = skipped + 1
        BY <2>2, <3>1 DEF Write, Goto
      <4>2. torn /\ user # "Main"
        BY <1>1, <2>1, <3>1, <4>1 DEF OutWhole, OutTypes, Flushing
      <4>3. skipped = 0
        BY <2>1, <3>1, <4>1 DEF Skipping, Flushing
      <4> QED BY <2>1, <4>1, <4>2, <4>3 DEF Skipping, Flushing
    <3>2. CASE out_left = 0
      <4>1. skipped' = skipped /\ out_left' = 0
        BY <2>2, <3>2 DEF Write
      <4> QED BY <2>1, <4>1 DEF Skipping
    <3> QED BY <3>1, <3>2
  <2>3. CASE ~Write
    <3>1. /\ skipped' = skipped
          /\ \/ pc' \in Flushing
             \/ out_left' = 0
             \/ out_left' = out_left /\ pc \notin Flushing
      <4>1. CASE WriteRecord \/ AdvanceHeader \/ CountRecord
        BY <4>1 DEF WriteRecord, AdvanceHeader, CountRecord, Goto, Flushing, history
      <4>2. CASE Flush \/ FlushFails
        BY <2>1, <4>2 DEF Flush, FlushFails, Goto, Flushing, history
      <4>3. CASE Sent \/ Rewind \/ UpdatePointers
        BY <4>3 DEF Sent, Rewind, UpdatePointers, Goto, Return, Flushing, history
      <4> QED BY <1>2, <2>3, <4>1, <4>2, <4>3 DEF WriteSteps
    <3> QED BY <2>1, <3>1 DEF Skipping
  <2> QED BY <2>2, <2>3
<1>3. CASE ReadSteps
  <2>1. /\ UNCHANGED <<user, reset>> /\ out_left' = out_left /\ pc \notin Flushing
    BY <1>3, ReadsKeep DEF output, ReadPlaces, Flushing
  <2>2. skipped' = skipped
    BY <1>3 DEF ReadSteps, Read, Receive, Received, ReceiveFails, ReceiveEnd, BadHeader,
                RecordComplete, Decrypt, DecryptFails, OfferMessage, Copy, Consume, Zeroize,
                HandOut, history
  <2> QED BY <2>1, <2>2 DEF Skipping
<1>4. CASE Terminate
  BY <1>4 DEF Terminate, Skipping, wire
<1>5. CASE Publish \/ Take \/ BrokerCloses \/ UNCHANGED vars
  <2>1. UNCHANGED <<user, reset, out_left, pc, skipped>>
    BY <1>5 DEF Publish, Take, BrokerCloses, vars, tls, output, wire, history
  <2> QED BY <2>1 DEF Skipping
<1>6. CASE ConnectionLost
  BY <1>6 DEF ConnectionLost
<1> QED BY <1>2, <1>3, <1>4, <1>5, <1>6 DEF Next

(* The termination of Main_Thread costs the closing session one packet: the *)
(* write that is skipped sends the record left over, and the next ones      *)
(* send again, for any number of packets.                                   *)
THEOREM OnePacketIsSkipped == Spec => []OneWriteSkipped
<1>1. Init => Skipping
  BY DEF Init, Skipping
<1>2. StreamInv /\ Skipping /\ [Next]_vars => Skipping'
  BY SkippingStep
<1>3. Skipping => OneWriteSkipped
  BY DEF Skipping, OneWriteSkipped
<1> QED BY <1>1, <1>2, <1>3, StreamInvariance, PTL DEF Spec
=============================================================================
