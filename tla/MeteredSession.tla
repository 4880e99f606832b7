--------------------------- MODULE MeteredSession ---------------------------
(***************************************************************************)
(* What a session that is charged for promises, whatever it is made of:    *)
(* bytes come in, are counted at most once each, and the count is booked   *)
(* at most once, as it stood at that moment.  Bytes may still come, and be *)
(* counted, after that: nobody is charged for those.                       *)
(***************************************************************************)
EXTENDS Integers

CONSTANT None

VARIABLES
  received,  \* bytes taken in, in either direction
  counted,   \* bytes counted
  booked     \* bytes added to the usage period, None before

svars == <<received, counted, booked>>

SessionInit == received = 0 /\ counted = 0 /\ booked = None

\* Bytes come in, or are counted, or both.
Carry ==
  /\ received' \in Nat /\ received' >= received
  /\ counted' \in Nat /\ counted' >= counted /\ counted' <= received'
  /\ UNCHANGED booked

\* Reading several counters takes time: what is booked may be less than was counted.
Book ==
  /\ booked = None
  /\ booked' \in 1..counted
  /\ UNCHANGED <<received, counted>>

SessionSpec == SessionInit /\ [][Carry \/ Book]_svars

\* Nobody is charged for a byte that did not come.
ChargedForReceived == booked # None => booked <= received

=============================================================================
