------------------------ MODULE MeteredSessionProofs ------------------------
(* What a session guarantees by itself. *)
EXTENDS MeteredSession, TLAPS

SessionInv ==
  /\ received \in Nat /\ counted \in Nat /\ counted <= received
  /\ booked # None => booked \in Nat /\ booked <= counted

\* Nobody is charged for a byte that did not come, in any module that implements it.
THEOREM ChargedForReceivedHolds == SessionSpec => []ChargedForReceived
<1>1. SessionInit => SessionInv
  BY DEF SessionInit, SessionInv
<1>2. SessionInv /\ [Carry \/ Book]_svars => SessionInv'
  BY DEF SessionInv, Carry, Book, svars
<1>3. SessionInv => ChargedForReceived
  BY DEF SessionInv, ChargedForReceived
<1> QED
  BY <1>1, <1>2, <1>3, PTL DEF SessionSpec

=============================================================================
