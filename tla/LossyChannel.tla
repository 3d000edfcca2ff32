---------------------------- MODULE LossyChannel ----------------------------
(***************************************************************************)
(* What every hop of the telemetry path promises, and all that it promises: *)
(* items are numbered 1, 2, ... in the order they are handed over, an item  *)
(* comes out at most once, nothing comes out that was not handed over, and  *)
(* any item still inside may be lost at any moment, without notice.  The    *)
(* order of delivery is not promised.                                       *)
(***************************************************************************)
EXTENDS Naturals, Sequences

VARIABLES
  accepted,   \* how many items have been handed over
  inside,     \* the items that may still come out
  received    \* the items that came out, in the order they came out

vars == <<accepted, inside, received>>

Init ==
  /\ accepted = 0
  /\ inside = {}
  /\ received = <<>>

(* Hand over the next item; it, or an older one, may be lost on the spot.   *)
Accept ==
  /\ accepted' = accepted + 1
  /\ inside' \in SUBSET (inside \union {accepted + 1})
  /\ UNCHANGED received

(* One of the items inside comes out; others may be lost.                   *)
Deliver ==
  \E item \in inside :
    /\ received' = Append(received, item)
    /\ inside' \in SUBSET (inside \ {item})
    /\ UNCHANGED accepted

Lose ==
  /\ inside' \in SUBSET inside
  /\ UNCHANGED <<accepted, received>>

Next == Accept \/ Deliver \/ Lose

Spec == Init /\ [][Next]_vars
=============================================================================
