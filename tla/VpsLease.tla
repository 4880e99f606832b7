------------------------------ MODULE VpsLease ------------------------------
(***************************************************************************)
(* What the control plane promises about who has which VPS, without the    *)
(* handlers that bring it about.  A VPS is issued for one agent, is held   *)
(* by that agent or by nobody, and once the agent has lost it, it is never *)
(* held again.  An agent holds one VPS at a time.                          *)
(***************************************************************************)
CONSTANTS Agents, Vpses, None

VARIABLES
  lease,   \* lease[r]: where VPS r is in its life
  for      \* for[r]: the agent it was issued for

lvars == <<lease, for>>

LeaseTypeOK ==
  /\ lease \in [Vpses -> {"free", "issued", "held", "released"}]
  /\ for \in [Vpses -> Agents \cup {None}]

LeaseInit ==
  /\ lease = [r \in Vpses |-> "free"]
  /\ for = [r \in Vpses |-> None]

Issue(r, a) ==
  /\ lease[r] = "free"
  /\ lease' = [lease EXCEPT ![r] = "issued"]
  /\ for' = [for EXCEPT ![r] = a]

\* The agent takes the VPS; one it held before is displaced in the same step.
Hold(r) ==
  /\ lease[r] = "issued"
  /\ lease' = [s \in Vpses |->
                 IF s = r THEN "held"
                 ELSE IF lease[s] = "held" /\ for[s] = for[r] THEN "released"
                 ELSE lease[s]]
  /\ UNCHANGED for

\* The agent gives the VPS up, or never took it.
Release(r) ==
  /\ lease[r] \in {"issued", "held"}
  /\ lease' = [lease EXCEPT ![r] = "released"]
  /\ UNCHANGED for

LeaseNext ==
  \E r \in Vpses : Hold(r) \/ Release(r) \/ \E a \in Agents : Issue(r, a)

LeaseSpec == LeaseInit /\ [][LeaseNext]_lvars

\* Two VPSes are never held by the same agent.
OneHolding ==
  \A r, s \in Vpses : lease[r] = "held" /\ lease[s] = "held" /\ for[r] = for[s] => r = s

=============================================================================
