--------------------------- MODULE OrderedDelivery ---------------------------
(***************************************************************************)
(* What a buffering consumer promises its producer: the values accepted so *)
(* far reach the handler once each and in the order of their arrival, a    *)
(* delivery hands over everything accepted so far, and fewer than Limit    *)
(* values are ever held back.  Nothing is said of when a delivery happens. *)
(***************************************************************************)
EXTENDS Naturals, Sequences

CONSTANTS Items,  \* the values a stream may carry
          Limit   \* the number of held values that forces a delivery

VARIABLES received,   \* every value accepted, in order of arrival
          delivered   \* every value handed to the handler, in order

dvars == <<received, delivered>>

(* Accepting a value either keeps it back, below the limit, or hands over  *)
(* everything held together with it.                                       *)
Accept(x) ==
  /\ received' = Append(received, x)
  /\ \/ /\ Len(received') - Len(delivered) < Limit
        /\ UNCHANGED delivered
     \/ delivered' = received'

Deliver ==
  /\ delivered' = received
  /\ UNCHANGED received

Init ==
  /\ received = <<>>
  /\ delivered = <<>>

Next == (\E x \in Items : Accept(x)) \/ Deliver

Spec == Init /\ [][Next]_dvars
==============================================================================
