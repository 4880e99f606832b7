-------------------------- MODULE VpsLeaseProofs --------------------------
(* What the lease guarantees by itself, for any agents and VPSes. *)
EXTENDS VpsLease, TLAPS

LeaseInv == LeaseTypeOK /\ OneHolding

\* No VPS is held at the start.
LEMMA InitLeaseInv == LeaseInit => LeaseInv
  BY DEF LeaseInit, LeaseInv, LeaseTypeOK, OneHolding

\* Hold displaces the VPS its agent held, so two are never held by one.
LEMMA StepLeaseInv == LeaseInv /\ [LeaseNext]_lvars => LeaseInv'
<1> SUFFICES ASSUME LeaseInv, [LeaseNext]_lvars PROVE LeaseInv'
  OBVIOUS
<1> USE DEF LeaseInv, LeaseTypeOK, OneHolding
<1>1. CASE UNCHANGED lvars
  BY <1>1 DEF lvars
<1>2. ASSUME NEW r \in Vpses, Hold(r) PROVE LeaseInv'
  BY <1>2 DEF Hold
<1>3. ASSUME NEW r \in Vpses, Release(r) PROVE LeaseInv'
  BY <1>3 DEF Release
<1>4. ASSUME NEW r \in Vpses, NEW a \in Agents, Issue(r, a) PROVE LeaseInv'
  BY <1>4 DEF Issue
<1> QED
  BY <1>1, <1>2, <1>3, <1>4 DEF LeaseNext

\* One VPS per agent: an agent that takes a second one gives up the first.
THEOREM OneHoldingHolds == LeaseSpec => []OneHolding
<1>1. LeaseInv => OneHolding
  BY DEF LeaseInv
<1> QED
  BY <1>1, InitLeaseInv, StepLeaseInv, PTL DEF LeaseSpec

=============================================================================
