------------------------------ MODULE Channel ------------------------------
(***************************************************************************)
(* What one direction of a connection promises: the items that one side    *)
(* sends, numbered from 1, come out at the other side in the order they    *)
(* were sent, each at most once, and with none left out unless the         *)
(* connection has been cut.                                                *)
(***************************************************************************)
EXTENDS Naturals

VARIABLES
  sent,      \* items handed to the connection
  last,      \* the number of the item that came out last
  cut        \* an item may have been lost

vars == <<sent, last, cut>>

Init == sent = 0 /\ last = 0 /\ cut = FALSE

(* One or more of them. The cut may come with them. *)
Send == sent' > sent /\ cut' \in {cut, TRUE} /\ UNCHANGED last

Deliver ==
  /\ last' \in (IF cut THEN last + 1 .. sent ELSE {last + 1})
  /\ last' <= sent
  /\ UNCHANGED <<sent, cut>>

Cut == cut' = TRUE /\ UNCHANGED <<sent, last>>

Next == Send \/ Deliver \/ Cut

Spec == Init /\ [][Next]_vars
=============================================================================
