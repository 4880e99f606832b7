---------------------------- MODULE VpsLifecycle ----------------------------
(***************************************************************************)
(* The life of agents, their VPS rows and the provider's VMs, as driven by *)
(* the HTTP handlers of cb-api (routes/vps.rs, routes/agents.rs, routes/   *)
(* admin.rs) and by the enforcement loop of monitor.rs.                    *)
(*                                                                         *)
(* A handler is an async function; tokio interleaves handlers at every     *)
(* await, each SQL statement commits by itself (the code opens no          *)
(* transaction), and a handler vanishes at an await when its client hangs  *)
(* up, when a statement fails (`?`) or when the process stops.  So every   *)
(* await is an action here, and the values a handler read earlier live in  *)
(* its record, where they may be stale by the time it uses them.           *)
(***************************************************************************)
EXTENDS Integers, FiniteSets

CONSTANTS
  Agents,       \* the agents; POST /agents has inserted them
  Vpses,        \* ids a VPS row can get
  VMs,          \* ids a provider can give a VM; Fly and Hetzner never reuse one
  Users,
  Procs,        \* slots for handlers in flight
  Owner,        \* agents.user_id
  MaxVpses,     \* plan.max_vpses
  MaxAborts,    \* how many handlers are dropped at an await, or statements fail (a bound)
  DestroyFails, \* may the provider refuse to destroy a VM?
  RestartFails, \* may it refuse to start one that is being restarted?
  None

ASSUME ConstantsOK ==
  /\ Owner \in [Agents -> Users]
  /\ MaxVpses \in Nat
  /\ MaxAborts \in Nat
  /\ DestroyFails \in BOOLEAN /\ RestartFails \in BOOLEAN
  /\ None \notin Agents \cup Vpses \cup VMs

ASSUME FinitelyMany ==
  /\ IsFiniteSet(Procs)
  /\ IsFiniteSet(Vpses)

VARIABLES
  agents,  \* the agents whose row exists: the rest were deleted
  vpsOf,   \* vpsOf[a]: column agents.vps_id
  vps,     \* vps[r]: row of table vpses
  vm,      \* vm[v]: the VM at the provider
  h,       \* h[p]: the handler in slot p, its program counter and locals
  lost,    \* VMs created of which no handler in flight or row knows
  dark,    \* the rows whose VM a restart could not start, and nobody has switched since
  aborts   \* how many handlers were dropped and statements failed

vars == <<agents, vpsOf, vps, vm, h, lost, dark, aborts>>

VpsState == {"provisioning", "running", "stopped", "destroyed"}

\* A row: the `name` column says for which agent it was inserted.
VpsRow ==
  [state : VpsState \cup {"absent"}, vm : VMs \cup {None}, name : Agents \cup {None}]

NoRow == [state |-> "absent", vm |-> None, name |-> None]

Op ==
  {"provision", "start", "stop", "restart", "destroy", "delete_agent", "admin_destroy",
   "cleanup", "monitor"}

Label ==
  {"count_vpses", "insert_vps", "assign_vps", "create_vm", "update_refs",
   "set_running", "load", "start_vm", "stop_vm", "set_stopped", "restart_stop",
   "restart_start", "destroy_vm", "set_destroyed", "list_agents", "unassign",
   "delete_agent", "next_vps"}

\* What a handler read of a row in a list query: its id and its provider_vm_id.
Snapshot == [vps : Vpses, vm : VMs \cup {None}]

Handler ==
  [op : Op \cup {"idle"}, pc : Label \cup {"idle"},
   agent  : Agents \cup {None}, vps : Vpses \cup {None}, vm : VMs \cup {None},
   todo   : SUBSET Snapshot,    \* rows a loop over a list has still to visit
   holders : SUBSET Agents]     \* agents a handler has still to unassign

Idle == [op |-> "idle", pc |-> "idle", agent |-> None, vps |-> None, vm |-> None,
         todo |-> {}, holders |-> {}]

TypeOK ==
  /\ agents \in SUBSET Agents
  /\ vpsOf \in [Agents -> Vpses \cup {None}]
  /\ vps \in [Vpses -> VpsRow]
  /\ vm \in [VMs -> {"unused", "on", "off", "gone"}]
  /\ h \in [Procs -> Handler]
  /\ lost \in SUBSET VMs
  /\ dark \in SUBSET Vpses
  /\ aborts \in 0 .. MaxAborts

Init ==
  /\ agents = Agents
  /\ vpsOf = [a \in Agents |-> None]
  /\ vps = [r \in Vpses |-> NoRow]
  /\ vm = [v \in VMs |-> "unused"]
  /\ h = [p \in Procs |-> Idle]
  /\ lost = {}
  /\ dark = {}
  /\ aborts = 0

-----------------------------------------------------------------------------
(* Handlers in flight *)

At(p, op, label) == h[p].op = op /\ h[p].pc = label

Holds(p, label) == h[p].pc = label

Enter(p, op, label, a, r, rows) ==
  /\ h[p] = Idle
  /\ h' = [h EXCEPT ![p] = [op |-> op, pc |-> label, agent |-> a, vps |-> r, vm |-> None,
                            todo |-> rows, holders |-> {}]]

GoTo(p, label) == h' = [h EXCEPT ![p].pc = label]

WithVm(p, v, label) == h' = [h EXCEPT ![p].vm = v, ![p].pc = label]

\* A local the handler does not use again is dropped, to keep states few.
DoneWithVm(p, label) == WithVm(p, None, label)

Return(p) == h' = [h EXCEPT ![p] = Idle]

\* The handlers of an operation that have got as far as one of these labels.
InFlight(op, labels) == {p \in Procs : h[p].op = op /\ h[p].pc \in labels}

LiveVm(v) == vm[v] \in {"on", "off"}

\* Vps::count_for_user: the rows of the user that are not destroyed.
LiveRows(u) ==
  {r \in Vpses : /\ vps[r].state \notin {"absent", "destroyed"}
                 /\ Owner[vps[r].name] = u}

CountForUser(u) == Cardinality(LiveRows(u))

\* Agent::list_for_user.
AgentsOf(u) == {a \in agents : Owner[a] = u}

-----------------------------------------------------------------------------
(* POST /agents/{id}/vps: provision_vps *)

\* The agent is read and must have no VPS.  The bound: a request enters only
\* while there is a row id left for it.
ProvisionVps(p, a) ==
  /\ a \in agents
  /\ vpsOf[a] = None
  /\ Cardinality(InFlight("provision", {"count_vpses", "insert_vps"}))
       < Cardinality({r \in Vpses : vps[r] = NoRow})
  /\ Enter(p, "provision", "count_vpses", a, None, {})
  /\ UNCHANGED <<agents, vpsOf, vps, vm, lost, dark, aborts>>

\* Mutant: the limit is off by one.
CountVpsesOffByOne(p) ==
  /\ Holds(p, "count_vpses")
  /\ IF CountForUser(Owner[h[p].agent]) <= MaxVpses
       THEN GoTo(p, "insert_vps")
       ELSE Return(p)
  /\ UNCHANGED <<agents, vpsOf, vps, vm, lost, dark, aborts>>

CountVpses(p) ==
  /\ Holds(p, "count_vpses")
  /\ IF CountForUser(Owner[h[p].agent]) < MaxVpses
       THEN GoTo(p, "insert_vps")
       ELSE Return(p)
  /\ UNCHANGED <<agents, vpsOf, vps, vm, lost, dark, aborts>>

\* Mutant: the row of a destroyed VPS is used again.
InsertVpsReusesRow(p) ==
  /\ Holds(p, "insert_vps")
  /\ \E r \in Vpses :
       /\ vps[r].state \in {"absent", "destroyed"}
       /\ vps' = [vps EXCEPT ![r] = [state |-> "provisioning", vm |-> None,
                                     name |-> h[p].agent]]
       /\ h' = [h EXCEPT ![p].vps = r, ![p].pc = "assign_vps"]
  /\ UNCHANGED <<agents, vpsOf, vm, lost, dark, aborts>>

InsertVps(p) ==
  /\ Holds(p, "insert_vps")
  /\ \E r \in Vpses :
       /\ vps[r] = NoRow
       /\ vps' = [vps EXCEPT ![r] = [state |-> "provisioning", vm |-> None,
                                     name |-> h[p].agent]]
       /\ h' = [h EXCEPT ![p].vps = r, ![p].pc = "assign_vps"]
  /\ UNCHANGED <<agents, vpsOf, vm, lost, dark, aborts>>

\* UPDATE agents SET vps_id = ... WHERE id = ...: no row is touched once the
\* agent is deleted, and UNIQUE (vps_id) makes the statement fail when another
\* agent has that VPS.
UniqueOK(a, r) == \A b \in Agents \ {a} : vpsOf[b] # r

AssignVps(p) ==
  /\ Holds(p, "assign_vps")
  /\ LET a == h[p].agent
         r == h[p].vps
     IN  IF UniqueOK(a, r)
           THEN /\ vpsOf' = IF a \in agents THEN [vpsOf EXCEPT ![a] = r] ELSE vpsOf
                /\ h' = [h EXCEPT ![p].agent = None, ![p].pc = "create_vm"]
           ELSE Return(p) /\ UNCHANGED vpsOf
  /\ UNCHANGED <<agents, vps, vm, lost, dark, aborts>>

\* Mutant: a VM that has the name already counts as created.
CreateVmIdempotent(p) ==
  /\ Holds(p, "create_vm")
  /\ \E v \in VMs :
       /\ vm[v] \in {"unused", "on"}
       /\ vm' = [vm EXCEPT ![v] = "on"]
       /\ WithVm(p, v, "update_refs")
  /\ UNCHANGED <<agents, vpsOf, vps, lost, dark, aborts>>

\* Mutant: the row is set to running before it has the VM's id.
CreateVmRunsFirst(p) ==
  /\ Holds(p, "create_vm")
  /\ \E v \in VMs :
       /\ vm[v] = "unused"
       /\ vm' = [vm EXCEPT ![v] = "on"]
       /\ WithVm(p, v, "set_running")
  /\ UNCHANGED <<agents, vpsOf, vps, lost, dark, aborts>>

\* provider.create_vps: a VM with a new id, or an error.
CreateVm(p) ==
  /\ Holds(p, "create_vm")
  /\ \E v \in VMs :
       /\ vm[v] = "unused"
       /\ vm' = [vm EXCEPT ![v] = "on"]
       /\ WithVm(p, v, "update_refs")
  /\ UNCHANGED <<agents, vpsOf, vps, lost, dark, aborts>>

\* On an error the handler returns: the row stays, and so does the agent's
\* vps_id.  The VM may exist all the same, when only the answer was lost.
CreateVmFails(p) ==
  /\ Holds(p, "create_vm")
  /\ \/ UNCHANGED <<vm, lost>>
     \/ \E v \in VMs :
          /\ vm[v] = "unused"
          /\ vm' = [vm EXCEPT ![v] = "on"]
          /\ lost' = lost \cup {v}
  /\ Return(p)
  /\ UNCHANGED <<agents, vpsOf, vps, dark, aborts>>

UpdateProviderRefs(p) ==
  /\ Holds(p, "update_refs")
  /\ vps' = [vps EXCEPT ![h[p].vps].vm = h[p].vm]
  /\ DoneWithVm(p, "set_running")
  /\ UNCHANGED <<agents, vpsOf, vm, lost, dark, aborts>>

\* Mutant: the agent is made to point to the VPS once more.
SetRunningReassigns(p) ==
  /\ Holds(p, "set_running")
  /\ vps' = [vps EXCEPT ![h[p].vps].state = "running"]
  /\ vpsOf' = [a \in Agents |->
                 IF a \in agents /\ vps[h[p].vps].name = a THEN h[p].vps ELSE vpsOf[a]]
  /\ Return(p)
  /\ UNCHANGED <<agents, vm, lost, dark, aborts>>

\* Last statement of provision_vps and of start_vps.
SetRunning(p) ==
  /\ Holds(p, "set_running")
  /\ vps' = [vps EXCEPT ![h[p].vps].state = "running"]
  /\ Return(p)
  /\ UNCHANGED <<agents, vpsOf, vm, lost, dark, aborts>>

-----------------------------------------------------------------------------
(* Start, stop and destroy: the handler reads the agent, then its VPS. *)

\* get_agent_vps, first read.
UserOp(p, op, a) ==
  /\ a \in agents
  /\ vpsOf[a] # None
  /\ Enter(p, op, "load", IF op = "destroy" THEN a ELSE None, vpsOf[a], {})
  /\ UNCHANGED <<agents, vpsOf, vps, vm, lost, dark, aborts>>

\* The admin's handlers name the VPS.
AdminOp(p, op, r) ==
  /\ vps[r] # NoRow
  /\ Enter(p, op, "load", None, r, {})
  /\ UNCHANGED <<agents, vpsOf, vps, vm, lost, dark, aborts>>

\* Mutant: any VPS that is not running can be started.
LoadForStartIfNotRunning(p) ==
  /\ At(p, "start", "load")
  /\ LET row == vps[h[p].vps]
     IN  IF row.state # "running" /\ row.vm # None
           THEN WithVm(p, row.vm, "start_vm")
           ELSE Return(p)
  /\ UNCHANGED <<agents, vpsOf, vps, vm, lost, dark, aborts>>

\* Second read, and the test of what was read.
LoadForStart(p) ==
  /\ At(p, "start", "load")
  /\ LET row == vps[h[p].vps]
     IN  IF row.state = "stopped" /\ row.vm # None
           THEN WithVm(p, row.vm, "start_vm")
           ELSE Return(p)
  /\ UNCHANGED <<agents, vpsOf, vps, vm, lost, dark, aborts>>

LoadForStop(p) ==
  /\ At(p, "stop", "load")
  /\ LET row == vps[h[p].vps]
     IN  IF row.state = "running" /\ row.vm # None
           THEN WithVm(p, row.vm, "stop_vm")
           ELSE Return(p)
  /\ UNCHANGED <<agents, vpsOf, vps, vm, lost, dark, aborts>>

\* Mutant: the row is set to destroyed before the VM is destroyed.
LoadForDestroyRowFirst(p) ==
  /\ h[p].op \in {"destroy", "admin_destroy", "delete_agent"}
  /\ Holds(p, "load")
  /\ vps[h[p].vps].state # "destroyed"
  /\ vps' = [vps EXCEPT ![h[p].vps].state = "destroyed"]
  /\ WithVm(p, vps[h[p].vps].vm,
            IF vps[h[p].vps].vm # None THEN "destroy_vm" ELSE "set_destroyed")
  /\ UNCHANGED <<agents, vpsOf, vm, lost, dark, aborts>>

\* A destroyed row: destroy answers 409, delete_agent goes on to the agent.
LoadForDestroy(p) ==
  /\ h[p].op \in {"destroy", "admin_destroy", "delete_agent"}
  /\ Holds(p, "load")
  /\ LET row == vps[h[p].vps]
     IN  IF row.state # "destroyed"
           THEN WithVm(p, row.vm, IF row.vm # None THEN "destroy_vm" ELSE "set_destroyed")
           ELSE IF h[p].op = "delete_agent" THEN GoTo(p, "delete_agent") ELSE Return(p)
  /\ UNCHANGED <<agents, vpsOf, vps, vm, lost, dark, aborts>>

\* provider.start_vps / stop_vps.  A VM that is gone is an error.
StartVm(p) ==
  /\ Holds(p, "start_vm")
  /\ LiveVm(h[p].vm)
  /\ vm' = [vm EXCEPT ![h[p].vm] = "on"]
  /\ dark' = dark \ {h[p].vps}
  /\ DoneWithVm(p, "set_running")
  /\ UNCHANGED <<agents, vpsOf, vps, lost, aborts>>

StopVm(p) ==
  /\ Holds(p, "stop_vm")
  /\ LiveVm(h[p].vm)
  /\ vm' = [vm EXCEPT ![h[p].vm] = "off"]
  /\ dark' = dark \ {h[p].vps}
  /\ DoneWithVm(p, "set_stopped")
  /\ UNCHANGED <<agents, vpsOf, vps, lost, aborts>>

\* start_vps and stop_vps return the error; the enforcement loop goes on.  A call
\* that was carried out and whose answer was lost is the call followed by Abort
\* (or MonitorWriteFails); a destroy whose answer was lost is DestroyVm.
PowerCallFails(p) ==
  /\ h[p].pc \in {"start_vm", "stop_vm"}
  /\ IF h[p].op = "monitor" THEN GoTo(p, "next_vps") ELSE Return(p)
  /\ UNCHANGED <<agents, vpsOf, vps, vm, lost, dark, aborts>>

\* Mutant: the row gets the provider's word for the state.
SetStoppedAsProvider(p) ==
  /\ Holds(p, "set_stopped")
  /\ vps' = [vps EXCEPT ![h[p].vps].state = "off"]
  /\ IF h[p].op = "monitor" THEN GoTo(p, "next_vps") ELSE Return(p)
  /\ UNCHANGED <<agents, vpsOf, vm, lost, dark, aborts>>

SetStopped(p) ==
  /\ Holds(p, "set_stopped")
  /\ vps' = [vps EXCEPT ![h[p].vps].state = "stopped"]
  /\ IF h[p].op = "monitor" THEN GoTo(p, "next_vps") ELSE Return(p)
  /\ UNCHANGED <<agents, vpsOf, vm, lost, dark, aborts>>

\* restart_agent, of a VPS of Hetzner: stop and start, and no statement.  (Of a sprite
\* it restarts the service, which SpriteAgent has; Fly is not implemented.)
LoadForRestart(p) ==
  /\ At(p, "restart", "load")
  /\ LET row == vps[h[p].vps]
     IN  IF row.state = "running" /\ row.vm # None
           THEN WithVm(p, row.vm, "restart_stop")
           ELSE Return(p)
  /\ UNCHANGED <<agents, vpsOf, vps, vm, lost, dark, aborts>>

\* `let _ = provider.stop_vps(..)`.
RestartStopVm(p) ==
  /\ Holds(p, "restart_stop")
  /\ \/ LiveVm(h[p].vm) /\ vm' = [vm EXCEPT ![h[p].vm] = "off"]
     \/ UNCHANGED vm
  /\ GoTo(p, "restart_start")
  /\ UNCHANGED <<agents, vpsOf, vps, lost, dark, aborts>>

RestartStartVm(p) ==
  /\ Holds(p, "restart_start")
  /\ LiveVm(h[p].vm)
  /\ vm' = [vm EXCEPT ![h[p].vm] = "on"]
  /\ dark' = dark \ {h[p].vps}
  /\ Return(p)
  /\ UNCHANGED <<agents, vpsOf, vps, lost, aborts>>

\* The error is answered and nothing else done: the row stays running.
RestartStartFails(p) ==
  /\ Holds(p, "restart_start")
  /\ RestartFails \/ ~LiveVm(h[p].vm)
  /\ dark' = IF LiveVm(h[p].vm) THEN dark \cup {h[p].vps} ELSE dark
  /\ Return(p)
  /\ UNCHANGED <<agents, vpsOf, vps, vm, lost, aborts>>

\* `let _ = provider.destroy_vps(..)`: the handler goes on whatever the answer,
\* and without a call when the provider of the row cannot be looked up.
DestroyVm(p) ==
  /\ Holds(p, "destroy_vm")
  /\ vm' = [vm EXCEPT ![h[p].vm] = "gone"]
  /\ DoneWithVm(p, "set_destroyed")
  /\ UNCHANGED <<agents, vpsOf, vps, lost, dark, aborts>>

DestroyVmFails(p) ==
  /\ DestroyFails
  /\ Holds(p, "destroy_vm")
  /\ DoneWithVm(p, "set_destroyed")
  /\ UNCHANGED <<agents, vpsOf, vps, vm, lost, dark, aborts>>

AfterDestroyed(op) ==
  CASE op = "destroy"      -> "unassign"
    [] op = "delete_agent" -> "delete_agent"
    [] OTHER               -> "list_agents"

\* Mutant: the row forgets its VM, whether or not the provider destroyed it.
SetDestroyedForgetsVm(p) ==
  /\ Holds(p, "set_destroyed")
  /\ vps' = [vps EXCEPT ![h[p].vps].state = "destroyed", ![h[p].vps].vm = None]
  /\ h' = [h EXCEPT ![p].holders = IF h[p].op = "destroy" THEN {h[p].agent} ELSE {},
                    ![p].pc = AfterDestroyed(h[p].op)]
  /\ UNCHANGED <<agents, vpsOf, vm, lost, dark, aborts>>

\* Mutant: destroy_vps leaves the agent's vps_id alone.
SetDestroyedKeepsAgent(p) ==
  /\ Holds(p, "set_destroyed")
  /\ vps' = [vps EXCEPT ![h[p].vps].state = "destroyed"]
  /\ IF h[p].op = "destroy" THEN Return(p) ELSE GoTo(p, AfterDestroyed(h[p].op))
  /\ UNCHANGED <<agents, vpsOf, vm, lost, dark, aborts>>

SetDestroyed(p) ==
  /\ Holds(p, "set_destroyed")
  /\ vps' = [vps EXCEPT ![h[p].vps].state = "destroyed"]
  /\ h' = [h EXCEPT ![p].holders = IF h[p].op = "destroy" THEN {h[p].agent} ELSE {},
                    ![p].pc = AfterDestroyed(h[p].op)]
  /\ UNCHANGED <<agents, vpsOf, vm, lost, dark, aborts>>

\* admin_destroy and cleanup: which of the owner's agents have this VPS?
ListAgents(p) ==
  /\ Holds(p, "list_agents")
  /\ LET u == Owner[vps[h[p].vps].name]
     IN  h' = [h EXCEPT ![p].holders = {a \in AgentsOf(u) : vpsOf[a] = h[p].vps},
                        ![p].pc = "unassign"]
  /\ UNCHANGED <<agents, vpsOf, vps, vm, lost, dark, aborts>>

\* Agent::assign_vps(agent, None), without looking at the agent again.
Unassign(p) ==
  /\ Holds(p, "unassign")
  /\ \E a \in h[p].holders :
       /\ vpsOf' = [vpsOf EXCEPT ![a] = None]
       /\ h' = [h EXCEPT ![p].holders = @ \ {a}]
  /\ UNCHANGED <<agents, vps, vm, lost, dark, aborts>>

UnassignDone(p) ==
  /\ Holds(p, "unassign")
  /\ h[p].holders = {}
  /\ IF h[p].op = "cleanup" THEN GoTo(p, "next_vps") ELSE Return(p)
  /\ UNCHANGED <<agents, vpsOf, vps, vm, lost, dark, aborts>>

-----------------------------------------------------------------------------
(* DELETE /agents/{id} and its admin twin *)

DeleteAgent(p, a) ==
  /\ a \in agents
  /\ Enter(p, "delete_agent", IF vpsOf[a] = None THEN "delete_agent" ELSE "load",
           a, vpsOf[a], {})
  /\ UNCHANGED <<agents, vpsOf, vps, vm, lost, dark, aborts>>

DeleteAgentRow(p) ==
  /\ Holds(p, "delete_agent")
  /\ agents' = agents \ {h[p].agent}
  /\ vpsOf' = [vpsOf EXCEPT ![h[p].agent] = None]
  /\ Return(p)
  /\ UNCHANGED <<vps, vm, lost, dark, aborts>>

-----------------------------------------------------------------------------
(* Loops over a list of rows read once: cleanup_stuck and enforce_limits *)

RowsIn(state) ==
  {[vps |-> r, vm |-> vps[r].vm] : r \in {s \in Vpses : vps[s].state = state}}

\* Mutant: only rows that name a VM are cleaned up.
CleanupStuckWithVm(p) ==
  /\ Enter(p, "cleanup", "next_vps", None, None,
           {s \in RowsIn("provisioning") : s.vm # None})
  /\ UNCHANGED <<agents, vpsOf, vps, vm, lost, dark, aborts>>

CleanupStuck(p) ==
  /\ Enter(p, "cleanup", "next_vps", None, None, RowsIn("provisioning"))
  /\ UNCHANGED <<agents, vpsOf, vps, vm, lost, dark, aborts>>

\* One monitor task runs; which users are over their budget is decided
\* elsewhere, from the usage of the month.  A round that has nothing to stop
\* changes nothing and is left out.
EnforceLimits(p) ==
  /\ \A q \in Procs : h[q].op # "monitor"
  /\ \E over \in SUBSET Users :
       LET running == {s \in RowsIn("running") : Owner[vps[s.vps].name] \in over}
       IN  /\ running # {}
           /\ Enter(p, "monitor", "next_vps", None, None, running)
  /\ UNCHANGED <<agents, vpsOf, vps, vm, lost, dark, aborts>>

NextVps(p) ==
  /\ Holds(p, "next_vps")
  /\ \E s \in h[p].todo :
       LET next == IF h[p].op = "monitor"
                     THEN IF s.vm # None THEN "stop_vm" ELSE "next_vps"
                     ELSE IF s.vm # None THEN "destroy_vm" ELSE "set_destroyed"
       IN  h' = [h EXCEPT ![p] = [Idle EXCEPT !.op = h[p].op, !.pc = next, !.vps = s.vps,
                                              !.vm = s.vm, !.todo = h[p].todo \ {s}]]
  /\ UNCHANGED <<agents, vpsOf, vps, vm, lost, dark, aborts>>

LoopDone(p) ==
  /\ Holds(p, "next_vps")
  /\ h[p].todo = {}
  /\ Return(p)
  /\ UNCHANGED <<agents, vpsOf, vps, vm, lost, dark, aborts>>

-----------------------------------------------------------------------------
\* The handler is dropped: nothing more of it happens.  A VM it had just created
\* is known to nobody.
Abort(p) ==
  /\ aborts < MaxAborts
  /\ aborts' = aborts + 1
  /\ h[p] # Idle
  /\ lost' = IF Holds(p, "update_refs") THEN lost \cup {h[p].vm} ELSE lost
  /\ Return(p)
  /\ UNCHANGED <<agents, vpsOf, vps, vm, dark>>

\* Two handlers go on when a statement fails.  delete_agent looks its VPS up with
\* `if let Ok`: without it, the agent alone is deleted.
LookupFails(p) ==
  /\ aborts < MaxAborts
  /\ aborts' = aborts + 1
  /\ At(p, "delete_agent", "load")
  /\ GoTo(p, "delete_agent")
  /\ UNCHANGED <<agents, vpsOf, vps, vm, lost, dark>>

\* The enforcement loop logs that set_state failed and takes the next row.
MonitorWriteFails(p) ==
  /\ aborts < MaxAborts
  /\ aborts' = aborts + 1
  /\ At(p, "monitor", "set_stopped")
  /\ GoTo(p, "next_vps")
  /\ UNCHANGED <<agents, vpsOf, vps, vm, lost, dark>>

Request(p) ==
  \/ CleanupStuck(p)
  \/ EnforceLimits(p)
  \/ \E a \in Agents :
       \/ ProvisionVps(p, a)
       \/ DeleteAgent(p, a)
       \/ \E op \in {"start", "stop", "restart", "destroy"} : UserOp(p, op, a)
  \/ \E r \in Vpses, op \in {"stop", "admin_destroy"} : AdminOp(p, op, r)

\* The next await of the handler in slot p completes.
Step(p) ==
  \/ CountVpses(p)
  \/ InsertVps(p)
  \/ AssignVps(p)
  \/ CreateVm(p)
  \/ CreateVmFails(p)
  \/ UpdateProviderRefs(p)
  \/ SetRunning(p)
  \/ LoadForStart(p)
  \/ LoadForStop(p)
  \/ LoadForDestroy(p)
  \/ StartVm(p)
  \/ StopVm(p)
  \/ PowerCallFails(p)
  \/ SetStopped(p)
  \/ LoadForRestart(p)
  \/ RestartStopVm(p)
  \/ RestartStartVm(p)
  \/ RestartStartFails(p)
  \/ DestroyVm(p)
  \/ DestroyVmFails(p)
  \/ SetDestroyed(p)
  \/ ListAgents(p)
  \/ Unassign(p)
  \/ UnassignDone(p)
  \/ DeleteAgentRow(p)
  \/ NextVps(p)
  \/ LoopDone(p)

Next ==
  \/ \E p \in Procs : Request(p) \/ Step(p)
  \/ \E p \in Procs : Abort(p) \/ LookupFails(p) \/ MonitorWriteFails(p)

Spec == Init /\ [][Next]_vars

\* tokio polls every task that can go on, and a statement or a provider call is
\* answered in the end, if only by an error.  Nobody has to send a request.
FairSpec == Spec /\ \A p \in Procs : WF_vars(Step(p))

-----------------------------------------------------------------------------
(* Properties *)

\* The UNIQUE constraint on agents.vps_id never rejects an assignment: a VPS is
\* attached to the live agent it was inserted for or to nobody, and while
\* provision_vps is about to assign it no other agent has it.
Attachment ==
  /\ \A a \in Agents :
       vpsOf[a] # None => a \in agents /\ vps[vpsOf[a]].name = a
  /\ \A p \in Procs : Holds(p, "assign_vps") => UniqueOK(h[p].agent, h[p].vps)

\* The branch "VPS has no provider VM ID" of start_vps and stop_vps is never
\* taken: a row that is running or stopped has its VM's id, however the handlers
\* that set the state interleave with those that destroy the row.
PoweredRowHasVm ==
  \A r \in Vpses : vps[r].state \in {"running", "stopped"} => vps[r].vm # None

\* No VM gets out of sight: one that exists is recorded in a row, is in the
\* hands of the handler that just created it, or was lost with that handler or
\* with the provider's answer.
LiveVmKnown ==
  \A v \in VMs :
    LiveVm(v) => \/ v \in lost
                 \/ \E r \in Vpses : vps[r].vm = v
                 \/ \E p \in Procs : Holds(p, "update_refs") /\ h[p].vm = v

\* Two rows never name the same VM, so a handler that stops or destroys the VM
\* of its row cannot hit the VM of another VPS.
VmOfOneRow ==
  \A r, s \in Vpses : vps[r].vm # None /\ vps[r].vm = vps[s].vm => r = s

\* update_provider_refs is an unconditional UPDATE, yet it never replaces a VM id
\* (the VM it named would be lost) and no handler clears one.
VmIdKept ==
  [][\A r \in Vpses : vps[r].vm # None => vps'[r].vm = vps[r].vm]_vars

\* Handlers that may still set the state of row r to running or stopped, because
\* they read it, or inserted it, before it was destroyed.
CanRevive(p, r) ==
  \/ /\ h[p].vps = r
     /\ h[p].pc \in {"assign_vps", "create_vm", "update_refs", "set_running",
                     "start_vm", "stop_vm", "set_stopped"}
  \/ h[p].op = "monitor" /\ \E s \in h[p].todo : s.vps = r

Settled(r) == vps[r].state = "destroyed" /\ \A p \in Procs : ~CanRevive(p, r)

\* Destroyed is final as soon as the handlers that had the row in hand are gone:
\* every later request looks at the state before it acts on the row (set_state
\* itself checks nothing), so none can bring it back.
SettledStaysDestroyed == [][\A r \in Vpses : Settled(r) => Settled(r)']_vars

\* The refinement mapping to VpsLease: a row is issued while the handler that
\* inserted it is about to assign it, held while its agent points to it.
LeaseOf(r) ==
  IF vps[r] = NoRow THEN "free"
  ELSE IF vpsOf[vps[r].name] = r THEN "held"
  ELSE IF \E p \in Procs : Holds(p, "assign_vps") /\ h[p].vps = r THEN "issued"
  ELSE "released"

Lease == INSTANCE VpsLease WITH
           lease <- [r \in Vpses |-> LeaseOf(r)],
           for   <- [r \in Vpses |-> vps[r].name]

\* However the handlers interleave and wherever they are dropped, a VPS goes to
\* the agent it was inserted for at most once, and an agent that lost it never
\* gets it back: no stale handler re-attaches a VPS.
ImplementsLease == Lease!LeaseSpec

\* When handlers run one at a time and none is cut short, then at rest the
\* tables and the provider agree: a live row is the VPS of a live agent, its
\* state is that of its VM, unless a restart could not start it again, and a
\* destroyed row is attached to nobody and has no VM left.  Two handlers at once
\* break all of it.  A VM counts as off once the stop is answered; at Hetzner that
\* is a shutdown, which takes its time.
AtRestConsistent ==
  aborts = 0 /\ (\A p \in Procs : h[p] = Idle) =>
    \A r \in Vpses :
      LET row == vps[r]
          v   == row.vm
      IN  /\ row.state \in {"provisioning", "running", "stopped"} => vpsOf[row.name] = r
          /\ row.state = "running" => vm[v] = "on" \/ (vm[v] = "off" /\ r \in dark)
          /\ row.state = "stopped" => vm[v] = "off"
          /\ row.state = "destroyed" =>
               /\ \A a \in Agents : vpsOf[a] # r
               /\ v # None => vm[v] = "gone"

\* When handlers run one at a time, one that is dropped half-way leaves no VM
\* behind that nobody can act on: unless the provider's answer was lost, a live
\* VM is that of a row that is not destroyed, so that an administrator can still
\* destroy it (the handlers answer 409 for a destroyed row).
VmReachable ==
  \A v \in VMs :
    LiveVm(v) =>
      \/ v \in lost
      \/ \E p \in Procs : Holds(p, "update_refs") /\ h[p].vm = v
      \/ \E r \in Vpses : vps[r].vm = v /\ vps[r].state # "destroyed"

\* With one handler at a time the limit of the plan is exact.
WithinPlan == \A u \in Users : CountForUser(u) <= MaxVpses

\* An administrator who runs the cleanup again and again.
CleanedSpec ==
  FairSpec /\ \A p \in Procs : SF_vars(CleanupStuck(p))

\* Then no row stays "provisioning" for ever, whatever became of its handler.
StuckIsCleaned ==
  \A r \in Vpses : vps[r].state = "provisioning" ~> vps[r].state # "provisioning"

\* The administrator's dialog says of "Destroy": "This cannot be undone."
DestroyedIsFinal ==
  [][\A r \in Vpses : vps[r].state = "destroyed" => vps'[r].state = "destroyed"]_vars

\* "Delete agent (destroys attached VPS)": a deleted agent leaves no VM behind
\* once its handlers are through.
DeletedLeavesNoVm ==
  \A r \in Vpses :
    /\ vps[r] # NoRow /\ vps[r].vm # None
    /\ vps[r].name \notin agents
    /\ \A p \in Procs : h[p] = Idle
    => ~LiveVm(vps[r].vm)

=============================================================================
