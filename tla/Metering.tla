------------------------------ MODULE Metering ------------------------------
(***************************************************************************)
(* How traffic becomes usage, and what usage does: sessions count bytes in *)
(* memory and add them to the usage period of the month when they end; the *)
(* forward proxy asks before it opens a session for a VPS of an elastic    *)
(* provider; the monitor stops the Hetzner VPSes of users who are over     *)
(* their budget (proxy.rs, monitor.rs, gateway_proxy.rs, routes/usage.rs). *)
(*                                                                         *)
(* Usage and budget are read by two statements, and sessions, the budget,  *)
(* the VPSes and the calendar go on in between.  What happens inside a     *)
(* session is ProxyTunnel's and GatewayRelay's; what a handler does to a   *)
(* VPS is VpsLifecycle's, and here an event of the environment.  Bandwidth *)
(* is the only resource that is metered: every provider of cb-infra is     *)
(* BANDWIDTH_ONLY, and the only collector returns what the row has.  The   *)
(* Hetzner provider is configured: without it the monitor stops nothing.   *)
(***************************************************************************)
EXTENDS Integers, FiniteSets, Functions

CONSTANTS
  Users, Vpses, Conns, None,
  Owner,         \* Owner[v]: the user of VPS v
  Hetzner,       \* the VPSes whose provider is Hetzner
  MaxBandwidth,  \* plan.max_bandwidth_bytes
  Rate,          \* plan.overage_bandwidth_cost_per_gb_cents
  Unit,          \* bytes in a "GB"
  Budgets,       \* what a user may set as budget
  Handled,       \* bound: the VPSes that lifecycle handlers work on meanwhile
  LastMonth, MaxCarried, MaxFaults  \* bounds on the calendar, the traffic, the faults

ASSUME MeteringConstantsOK ==
  /\ Owner \in [Vpses -> Users]
  /\ Hetzner \subseteq Vpses /\ Handled \subseteq Vpses
  /\ None \notin Users \cup Vpses
  /\ MaxBandwidth \in Nat /\ Rate \in Nat /\ Unit \in Nat \ {0}
  /\ Budgets \subseteq Nat
  /\ LastMonth \in Nat /\ MaxCarried \in Nat /\ MaxFaults \in Nat

ASSUME FinitelyMany ==
  /\ IsFiniteSet(Vpses)
  /\ IsFiniteSet(Conns)

VARIABLES
  month,    \* date_trunc('month', now())
  vps,      \* vps[v]: the state column; all have been provisioned
  gone,     \* the Hetzner VPSes whose VM the provider has no longer
  period,   \* period[v][m]: vps_usage_periods.bandwidth_bytes, 0 without a row
  budget,   \* budget[u][m]: overage_budgets.budget_cents, 0 without a row
  conn,     \* conn[c]: the session in slot c
  mon,      \* the monitor's round
  carried,  \* carried[v]: bytes that went over sessions of v, for the properties
  late,     \* late[v]: those that did after the session's counter was read
  faults    \* failed statements, failed requests and crashes so far

traffic == <<carried, late>>

vars == <<month, vps, gone, period, budget, conn, mon, traffic, faults>>

Months == 0..LastMonth

Sum(f, S) == FoldFunctionOnSet(+, 0, f, S)

\* pc: "idle", "budget" (usage read, the budget not yet), "open", "flush" (the counter
\* read, the bytes not yet booked).  gated: check_usage let it through.  asOf: the month
\* in which the usage was read.
NoConn ==
  [pc |-> "idle", gated |-> FALSE, vps |-> None, counted |-> 0, cost |-> 0, asOf |-> 0]

\* pc: "idle", "usage", "budget", "stop".  rows are the running Hetzner VPSes the
\* round has read, users those it has not looked at yet.
NoRound == [pc |-> "idle", rows |-> {}, users |-> {}, user |-> None, cost |-> 0, asOf |-> 0]

Init ==
  /\ month = 0
  /\ vps = [v \in Vpses |-> "running"] /\ gone = {}
  /\ period = [v \in Vpses |-> [m \in Months |-> 0]]
  /\ budget = [u \in Users |-> [m \in Months |-> 0]]
  /\ conn = [c \in Conns |-> NoConn]
  /\ mon = NoRound
  /\ carried = [v \in Vpses |-> 0] /\ late = [v \in Vpses |-> 0]
  /\ faults = 0

VpsesOf(u) == {v \in Vpses : Owner[v] = u}

UsedIn(m, S) == Sum([v \in S |-> period[v][m]], S)

\* Mutant: VPSes that are stopped do not count either.
AggregateOfRunning(u) == UsedIn(month, {v \in VpsesOf(u) : vps[v] = "running"})

\* VpsUsagePeriod::get_user_aggregate: "AND v.state != 'destroyed'".
Aggregate(u) == UsedIn(month, {v \in VpsesOf(u) : vps[v] # "destroyed"})

WithinPlan(bytes) == bytes <= MaxBandwidth

\* Plan::overage_cost_cents, rounded up to the cent; exact, where the code
\* divides and multiplies in f64.
OverageCost(bytes) ==
  IF WithinPlan(bytes) THEN 0 ELSE ((bytes - MaxBandwidth) * Rate + Unit - 1) \div Unit

\* The user is over the plan and over the budget, as a check would find now.
Exhausted(u) == OverageCost(Aggregate(u)) > budget[u][month]

-----------------------------------------------------------------------------
(* Sessions: CONNECT tunnels and HTTP requests of the forward proxy, HTTP   *)
(* requests and WebSockets of the gateway proxy                             *)

Open(c, gated, v) ==
  conn' = [conn EXCEPT ![c] = [NoConn EXCEPT !.pc = "open", !.gated = gated, !.vps = v]]

\* handle_request up to the usage that check_usage reads.  It does not look at the
\* state of the row: a VPS being stopped or destroyed may still send.
ProxyRequest(c, v) ==
  /\ conn[c].pc = "idle"
  /\ LET used == Aggregate(Owner[v])
     IN  IF v \in Hetzner \/ WithinPlan(used)
           THEN Open(c, v \notin Hetzner, v)
           ELSE conn' = [conn EXCEPT ![c] =
                  [NoConn EXCEPT !.pc = "budget", !.vps = v,
                                 !.cost = OverageCost(used), !.asOf = month]]
  /\ UNCHANGED <<month, vps, gone, period, budget, mon, traffic, faults>>

\* The rest of check_usage: the budget of the month it is by now.
CheckBudget(c) ==
  /\ conn[c].pc = "budget"
  /\ IF conn[c].cost > budget[Owner[conn[c].vps]][month]
       THEN conn' = [conn EXCEPT ![c] = NoConn]
       ELSE Open(c, TRUE, conn[c].vps)
  /\ UNCHANGED <<month, vps, gone, period, budget, mon, traffic, faults>>

\* The gateway proxy asks for a running VPS and for nothing else.
GatewayRequest(c, v) ==
  /\ conn[c].pc = "idle"
  /\ vps[v] = "running"
  /\ Open(c, FALSE, v)
  /\ UNCHANGED <<month, vps, gone, period, budget, mon, traffic, faults>>

Carry(c) ==
  /\ conn[c].pc = "open"
  /\ Sum(carried, Vpses) < MaxCarried
  /\ conn' = [conn EXCEPT ![c].counted = @ + 1]
  /\ carried' = [carried EXCEPT ![conn[c].vps] = @ + 1]
  /\ UNCHANGED <<month, vps, gone, period, budget, mon, late, faults>>

\* The end of a session: its counter is read, or its two counters.
LoadCount(c) ==
  /\ conn[c].pc = "open"
  /\ conn' = [conn EXCEPT ![c].pc = "flush", ![c].gated = FALSE]
  /\ UNCHANGED <<month, vps, gone, period, budget, mon, traffic, faults>>

\* A task of the session that the reading of its counter does not wait for (the
\* tunnel's other direction, the relay's detached reader) carries a byte.  The reader
\* may go on after the booking too; nothing here tells those bytes from these.
CarryLate(c) ==
  /\ conn[c].pc = "flush"
  /\ Sum(carried, Vpses) < MaxCarried
  /\ carried' = [carried EXCEPT ![conn[c].vps] = @ + 1]
  /\ late' = [late EXCEPT ![conn[c].vps] = @ + 1]
  /\ UNCHANGED <<month, vps, gone, period, budget, conn, mon, faults>>

\* Mutant: the upsert replaces the count instead of adding to it.
FlushReplaces(c) ==
  /\ conn[c].pc = "flush"
  /\ period' = IF conn[c].counted = 0 THEN period
               ELSE [period EXCEPT ![conn[c].vps][month] = conn[c].counted]
  /\ conn' = [conn EXCEPT ![c] = NoConn]
  /\ UNCHANGED <<month, vps, gone, budget, mon, traffic, faults>>

\* add_bandwidth books what was read in the month of now().  The row of the VPS
\* outlives its destruction, so the statement succeeds.
Flush(c) ==
  /\ conn[c].pc = "flush"
  /\ period' = [period EXCEPT ![conn[c].vps][month] = @ + conn[c].counted]
  /\ conn' = [conn EXCEPT ![c] = NoConn]
  /\ UNCHANGED <<month, vps, gone, budget, mon, traffic, faults>>

Fault ==
  /\ faults < MaxFaults
  /\ faults' = faults + 1

\* The session ends and its bytes are not booked: add_bandwidth fails (logged, or
\* ignored by the gateway), or the target of an HTTP request does before its
\* answer is complete, or the client hangs up and the handler is dropped.
Lose(c) ==
  /\ Fault
  /\ conn[c].pc # "idle"
  /\ conn' = [conn EXCEPT ![c] = NoConn]
  /\ UNCHANGED <<month, vps, gone, period, budget, mon, traffic>>

\* The process stops and starts again: counters and round were in its memory.
Crash ==
  /\ Fault
  /\ conn' = [c \in Conns |-> NoConn]
  /\ mon' = NoRound
  /\ UNCHANGED <<month, vps, gone, period, budget, traffic>>

-----------------------------------------------------------------------------
(* The monitor: enforce_limits *)

MonitorTick ==
  /\ mon.pc = "idle"
  /\ LET rows == {v \in Hetzner : vps[v] = "running"}
     IN  /\ rows # {}
         /\ mon' = [NoRound EXCEPT !.pc = "usage", !.rows = rows,
                                   !.users = {Owner[v] : v \in rows}]
  /\ UNCHANGED <<month, vps, gone, period, budget, conn, traffic, faults>>

\* On to the next user; the round is over when there is none.
NextUser(u) ==
  LET rest == mon.users \ {u}
  IN  mon' = IF rest = {} THEN NoRound
             ELSE [NoRound EXCEPT !.pc = "usage", !.rows = mon.rows, !.users = rest]

LoadUsage(u) ==
  /\ mon.pc = "usage"
  /\ u \in mon.users
  /\ LET used == Aggregate(u)
     IN  IF WithinPlan(used)
           THEN NextUser(u)
           ELSE mon' = [mon EXCEPT !.pc = "budget", !.user = u,
                                   !.cost = OverageCost(used), !.asOf = month]
  /\ UNCHANGED <<month, vps, gone, period, budget, conn, traffic, faults>>

\* Mutant: a user whose costs are exactly the budget is over it.
LoadBudgetStrict ==
  /\ mon.pc = "budget"
  /\ IF mon.cost < budget[mon.user][month]
       THEN NextUser(mon.user)
       ELSE mon' = [mon EXCEPT !.pc = "stop", !.cost = 0, !.asOf = 0]
  /\ UNCHANGED <<month, vps, gone, period, budget, conn, traffic, faults>>


LoadBudget ==
  /\ mon.pc = "budget"
  /\ IF mon.cost <= budget[mon.user][month]
       THEN NextUser(mon.user)
       ELSE mon' = [mon EXCEPT !.pc = "stop", !.cost = 0, !.asOf = 0]
  /\ UNCHANGED <<month, vps, gone, period, budget, conn, traffic, faults>>

\* Mutant: the row gets the provider's word for the state.
StopNextAsProvider ==
  LET todo == {v \in mon.rows : Owner[v] = mon.user}
  IN  /\ mon.pc = "stop"
      /\ IF todo = {}
           THEN NextUser(mon.user) /\ UNCHANGED vps
           ELSE \E v \in todo :
                  /\ vps' = IF v \in gone THEN vps ELSE [vps EXCEPT ![v] = "off"]
                  /\ mon' = [mon EXCEPT !.rows = @ \ {v}]
      /\ UNCHANGED <<month, gone, period, budget, conn, traffic, faults>>

\* Stop the user's next Hetzner VPS of the list; one whose VM is gone fails at the
\* provider and is passed over.
StopNext ==
  LET todo == {v \in mon.rows : Owner[v] = mon.user}
  IN  /\ mon.pc = "stop"
      /\ IF todo = {}
           THEN NextUser(mon.user) /\ UNCHANGED vps
           ELSE \E v \in todo :
                  /\ vps' = IF v \in gone THEN vps ELSE [vps EXCEPT ![v] = "stopped"]
                  /\ mon' = [mon EXCEPT !.rows = @ \ {v}]
      /\ UNCHANGED <<month, gone, period, budget, conn, traffic, faults>>

\* A statement or the provider fails: the round goes on without the user (or, when
\* the provider does, without the VPS).
MonitorError ==
  /\ Fault
  /\ \/ /\ mon.pc = "usage"
        /\ \E u \in mon.users : NextUser(u)
     \/ /\ mon.pc = "budget"
        /\ NextUser(mon.user)
     \/ /\ mon.pc = "stop"
        /\ \E v \in mon.rows :
             Owner[v] = mon.user /\ mon' = [mon EXCEPT !.rows = @ \ {v}]
  /\ UNCHANGED <<month, vps, gone, period, budget, conn, traffic>>

-----------------------------------------------------------------------------
(* What goes on around it *)

MonthEnds ==
  /\ month < LastMonth
  /\ month' = month + 1
  /\ UNCHANGED <<vps, gone, period, budget, conn, mon, traffic, faults>>

\* PUT /overage-budget: upserts the row of the current month.
SetBudget(u, cents) ==
  /\ budget' = [budget EXCEPT ![u][month] = cents]
  /\ UNCHANGED <<month, vps, gone, period, conn, mon, traffic, faults>>

\* What the lifecycle handlers do to a row: none of them looks at the usage, and none
\* at the state it overwrites, so that a destroyed VPS may come back.  A destruction
\* may take the VM with it or not.
VpsEvent(v) ==
  /\ \E to \in {"running", "stopped", "destroyed"} :
       /\ vps[v] # to
       /\ vps' = [vps EXCEPT ![v] = to]
       /\ \/ to = "destroyed" /\ v \in Hetzner /\ gone' = gone \cup {v}
          \/ UNCHANGED gone
  /\ UNCHANGED <<month, period, budget, conn, mon, traffic, faults>>

MonitorStep == LoadBudget \/ StopNext \/ \E u \in Users : LoadUsage(u)

Next ==
  \/ \E c \in Conns : CheckBudget(c) \/ Carry(c) \/ LoadCount(c) \/ CarryLate(c)
                       \/ Flush(c) \/ Lose(c)
  \/ \E c \in Conns, v \in Vpses : ProxyRequest(c, v) \/ GatewayRequest(c, v)
  \/ MonitorTick \/ MonitorStep \/ MonitorError
  \/ MonthEnds \/ Crash
  \/ \E u \in Users, cents \in Budgets : SetBudget(u, cents)
  \/ \E v \in Handled : VpsEvent(v)

Spec == Init /\ [][Next]_vars

\* The interval ticks for ever and the statements of a round are answered; nobody
\* has to send traffic or end a session.
FairSpec == Spec /\ WF_vars(MonitorTick) /\ WF_vars(MonitorStep)

-----------------------------------------------------------------------------
(* Properties *)

\* Tables, sessions and the monitor's round keep their types: a VPS has one of the
\* three states, whoever writes it.
TypeOK ==
  /\ month \in Months
  /\ vps \in [Vpses -> {"running", "stopped", "destroyed"}] /\ gone \subseteq Hetzner
  /\ period \in [Vpses -> [Months -> Nat]]
  /\ budget \in [Users -> [Months -> Nat]]
  /\ conn \in [Conns -> [pc : {"idle", "budget", "open", "flush"}, gated : BOOLEAN,
                         vps : Vpses \cup {None}, counted : Nat, cost : Nat, asOf : Months]]
  /\ mon \in [pc : {"idle", "usage", "budget", "stop"}, rows : SUBSET Hetzner,
              users : SUBSET Users, user : Users \cup {None}, cost : Nat, asOf : Months]
  /\ carried \in [Vpses -> Nat] /\ late \in [Vpses -> Nat]
  /\ faults \in 0..MaxFaults

Booked(v) == Sum(period[v], Months)

InHand(v) == Sum([c \in Conns |-> conn[c].counted], {c \in Conns : conn[c].vps = v})

\* No byte is charged twice, to another VPS or in two months, however sessions of one
\* VPS overlap and the month ends under them; and the bytes nobody is charged for are
\* those a session carried after its counter was read and those that a fault lost.
BytesChargedOnce ==
  \A v \in Vpses :
    /\ Booked(v) + InHand(v) + late[v] <= carried[v]
    /\ faults = 0 => Booked(v) + InHand(v) + late[v] = carried[v]

\* What the user's VPSes used, destroyed ones included, costs more than the budget.
OverBudget(u, m) == OverageCost(UsedIn(m, VpsesOf(u))) > budget[u][m]

\* The step that answers 403.
Refused(c) == conn[c].pc = "budget" /\ conn'[c].pc = "idle" /\ faults' = faults

\* The usage a decision rests on may be out of date by the time the budget is
\* read, but within a month it errs to one side: a request is refused, or a VPS
\* stopped, only if what the user's VPSes used exceeds the budget at the moment of
\* the decision.
DecidesOnEvidence ==
  [][ /\ \A c \in Conns :
           Refused(c) /\ conn[c].asOf = month => OverBudget(Owner[conn[c].vps], month)
      /\ mon.pc = "budget" /\ mon'.pc = "stop" /\ mon.asOf = month
           => OverBudget(mon.user, month)
    ]_vars

\* A user whose budget is exhausted, once the checks that began before are over,
\* opens no more sessions through the forward proxy for VPSes that are gated, until
\* the month ends, the budget is set anew or a VPS is destroyed: what is still open
\* can only add to the usage, and stopping a VPS takes nothing from it.
ShutOut(u) ==
  /\ Exhausted(u)
  /\ \A c \in Conns :
       conn[c].pc = "budget" /\ Owner[conn[c].vps] = u => conn[c].cost > budget[u][month]

ShutOutStays ==
  [][ \A u \in Users :
        /\ ShutOut(u)
        /\ UNCHANGED <<month, budget>>
        /\ \A v \in VpsesOf(u) : vps'[v] = "destroyed" => vps[v] = "destroyed"
        => /\ ShutOut(u)'
           /\ \A c \in Conns :
                conn'[c].gated /\ Owner[conn'[c].vps] = u => conn[c].gated
    ]_vars


\* "Sum usage across all of a user's VPSes for the current month."
AggregateOfAllVpses == \A u \in Users : Aggregate(u) = UsedIn(month, VpsesOf(u))


=============================================================================
