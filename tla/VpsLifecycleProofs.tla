------------------------ MODULE VpsLifecycleProofs ------------------------
(***************************************************************************)
(* What TLC checks of VpsLifecycle on two handlers, proved for any number  *)
(* of agents, rows, VMs, handlers and aborts.                              *)
(***************************************************************************)
EXTENDS VpsLifecycle, FiniteSetTheorems, TLAPS

(* The inductive invariant, in named parts. *)

\* What the locals of a handler are when it has got to a label.
LocalsOK(p) ==
  /\ h[p].pc \in {"count_vpses", "insert_vps", "assign_vps"} =>
       h[p].op = "provision" /\ h[p].agent \in Agents
  /\ h[p].op = "destroy" /\ h[p].pc \in {"load", "destroy_vm", "set_destroyed"} =>
       h[p].agent \in Agents
  /\ h[p].pc \in {"load", "assign_vps", "create_vm", "update_refs", "set_running",
                  "start_vm", "stop_vm", "set_stopped", "restart_stop", "restart_start",
                  "destroy_vm", "set_destroyed", "list_agents"} => h[p].vps \in Vpses
  /\ h[p].pc \in {"update_refs", "start_vm", "stop_vm", "restart_stop", "restart_start",
                  "destroy_vm"} => h[p].vm \in VMs
  /\ h[p].pc = "next_vps" => h[p].op \in {"cleanup", "monitor"}

\* The row a handler has in hand was inserted, and those it is going to visit;
\* an id it read of one is still the row's.
RowsInHand(p) ==
  /\ h[p].vps # None => vps[h[p].vps].state # "absent"
  /\ \A s \in h[p].todo :
       /\ vps[s.vps].state # "absent"
       /\ s.vm # None => vps[s.vps].vm = s.vm

\* An id without a row holds nothing; a row names its agent.
RowNamed ==
  \A r \in Vpses : IF vps[r].state = "absent" THEN vps[r] = NoRow
                                              ELSE vps[r].name \in Agents

\* A VM in a row was created.
RowVmUsed == \A r \in Vpses : vps[r].vm # None => vm[vps[r].vm] # "unused"

\* A handler that is going to write "running" or "stopped" has a row with a VM.
PowerHasVm ==
  \A p \in Procs :
    h[p].pc \in {"set_running", "start_vm", "stop_vm", "set_stopped"} =>
      vps[h[p].vps].vm # None

\* provision_vps before it wrote the VM's id.
Building(p) == h[p].pc \in {"assign_vps", "create_vm", "update_refs"}

\* Its row has no VM yet and is its own.
BuildsAlone ==
  \A p \in Procs :
    Building(p) =>
      /\ vps[h[p].vps].vm = None
      /\ \A q \in Procs \ {p} : Building(q) => h[q].vps # h[p].vps

\* Before it assigns the row, the row names its agent and nobody points to it.
AssignsFresh ==
  \A p \in Procs :
    h[p].pc = "assign_vps" =>
      /\ vps[h[p].vps].name = h[p].agent
      /\ \A a \in Agents : vpsOf[a] # h[p].vps

\* A VM that was just created is in no row and in no other handler's hands.
VmInHand ==
  \A p \in Procs :
    h[p].pc = "update_refs" =>
      /\ vm[h[p].vm] # "unused"
      /\ \A r \in Vpses : vps[r].vm # h[p].vm
      /\ \A q \in Procs \ {p} : h[q].pc = "update_refs" => h[q].vm # h[p].vm

\* An agent that has a VPS exists and the VPS was inserted for it.
AttachedByName ==
  \A a \in Agents : vpsOf[a] # None => a \in agents /\ vps[vpsOf[a]].name = a

TypeInv == TypeOK /\ \A p \in Procs : LocalsOK(p)

IInv ==
  /\ TypeInv
  /\ \A p \in Procs : RowsInHand(p)
  /\ RowNamed
  /\ RowVmUsed
  /\ PowerHasVm
  /\ PoweredRowHasVm
  /\ BuildsAlone
  /\ AssignsFresh
  /\ VmInHand
  /\ AttachedByName
  /\ VmOfOneRow
  /\ LiveVmKnown

-----------------------------------------------------------------------------
(* What each way of updating a handler's record does to h *)

Becomes(p, o, l, a, r, v, t, k) ==
  /\ h' \in [Procs -> Handler]
  /\ h'[p] = [op |-> o, pc |-> l, agent |-> a, vps |-> r, vm |-> v, todo |-> t, holders |-> k]
  /\ \A q \in Procs \ {p} : h'[q] = h[q]

\* A jump: the handler changes its label, and no other handler moves.
LEMMA GoToDoes ==
  ASSUME h \in [Procs -> Handler], NEW p \in Procs, NEW l \in Label, GoTo(p, l)
  PROVE  Becomes(p, h[p].op, l, h[p].agent, h[p].vps, h[p].vm, h[p].todo, h[p].holders)
<1> DEFINE rec == [op |-> h[p].op, pc |-> l, agent |-> h[p].agent, vps |-> h[p].vps,
                     vm |-> h[p].vm, todo |-> h[p].todo, holders |-> h[p].holders]
<1>1. rec \in Handler
  BY DEF Handler
<1>2. h'[p] = rec
  BY DEF Handler, GoTo
<1>3. h' = [q \in Procs |-> h'[q]] /\ \A q \in Procs \ {p} : h'[q] = h[q]
  BY DEF GoTo
<1> QED
  BY <1>1, <1>2, <1>3 DEF Becomes

\* The handler takes up a VM, or drops it, and changes its label.
LEMMA WithVmDoes ==
  ASSUME h \in [Procs -> Handler], NEW p \in Procs, NEW l \in Label,
         NEW v \in VMs \cup {None}, WithVm(p, v, l)
  PROVE  Becomes(p, h[p].op, l, h[p].agent, h[p].vps, v, h[p].todo, h[p].holders)
<1> DEFINE rec == [op |-> h[p].op, pc |-> l, agent |-> h[p].agent, vps |-> h[p].vps,
                     vm |-> v, todo |-> h[p].todo, holders |-> h[p].holders]
<1>1. rec \in Handler
  BY DEF Handler
<1>2. h'[p] = rec
  BY ZenonT(60) DEF Handler, WithVm
<1>3. h' = [q \in Procs |-> h'[q]] /\ \A q \in Procs \ {p} : h'[q] = h[q]
  BY DEF WithVm
<1> QED
  BY <1>1, <1>2, <1>3 DEF Becomes

\* The handler's slot is free again.
LEMMA ReturnDoes ==
  ASSUME h \in [Procs -> Handler], NEW p \in Procs, Return(p)
  PROVE  Becomes(p, "idle", "idle", None, None, None, {}, {})
<1> DEFINE rec == [op |-> "idle", pc |-> "idle", agent |-> None, vps |-> None,
                     vm |-> None, todo |-> {}, holders |-> {}]
<1>1. rec \in Handler
  BY DEF Handler
<1>2. h'[p] = rec
  BY DEF Handler, Return, Idle
<1>3. h' = [q \in Procs |-> h'[q]] /\ \A q \in Procs \ {p} : h'[q] = h[q]
  BY DEF Return
<1> QED
  BY <1>1, <1>2, <1>3 DEF Becomes

\* A request takes a free slot.
LEMMA EnterDoes ==
  ASSUME h \in [Procs -> Handler], NEW p \in Procs, NEW o \in Op, NEW l \in Label,
         NEW a \in Agents \cup {None}, NEW r \in Vpses \cup {None}, NEW t \in SUBSET Snapshot,
         Enter(p, o, l, a, r, t)
  PROVE  Becomes(p, o, l, a, r, None, t, {})
<1> DEFINE rec == [op |-> o, pc |-> l, agent |-> a, vps |-> r,
                     vm |-> None, todo |-> t, holders |-> {}]
<1>1. rec \in Handler
  BY DEF Handler
<1>2. h'[p] = rec
  BY DEF Handler, Enter, Idle
<1>3. h' = [q \in Procs |-> h'[q]] /\ \A q \in Procs \ {p} : h'[q] = h[q]
  BY DEF Enter
<1> QED
  BY <1>1, <1>2, <1>3 DEF Becomes

\* The handler takes up the row it inserted.
LEMMA WithVpsDoes ==
  ASSUME h \in [Procs -> Handler], NEW p \in Procs, NEW l \in Label, NEW r \in Vpses,
         h' = [h EXCEPT ![p].vps = r, ![p].pc = l]
  PROVE  Becomes(p, h[p].op, l, h[p].agent, r, h[p].vm, h[p].todo, h[p].holders)
<1> DEFINE rec == [op |-> h[p].op, pc |-> l, agent |-> h[p].agent, vps |-> r,
                     vm |-> h[p].vm, todo |-> h[p].todo, holders |-> h[p].holders]
<1>1. rec \in Handler
  BY DEF Handler
<1>2. h'[p] = rec
  BY ZenonT(60) DEF Handler
<1>3. h' = [q \in Procs |-> h'[q]] /\ \A q \in Procs \ {p} : h'[q] = h[q]
  OBVIOUS
<1> QED
  BY <1>1, <1>2, <1>3 DEF Becomes

\* The handler drops the agent it has assigned its row to.
LEMMA WithoutAgentDoes ==
  ASSUME h \in [Procs -> Handler], NEW p \in Procs, NEW l \in Label,
         h' = [h EXCEPT ![p].agent = None, ![p].pc = l]
  PROVE  Becomes(p, h[p].op, l, None, h[p].vps, h[p].vm, h[p].todo, h[p].holders)
<1> DEFINE rec == [op |-> h[p].op, pc |-> l, agent |-> None, vps |-> h[p].vps,
                     vm |-> h[p].vm, todo |-> h[p].todo, holders |-> h[p].holders]
<1>1. rec \in Handler
  BY DEF Handler
<1>2. h'[p] = rec
  BY ZenonT(60) DEF Handler
<1>3. h' = [q \in Procs |-> h'[q]] /\ \A q \in Procs \ {p} : h'[q] = h[q]
  OBVIOUS
<1> QED
  BY <1>1, <1>2, <1>3 DEF Becomes

\* The handler takes up the agents it has to unassign.
LEMMA WithHoldersDoes ==
  ASSUME h \in [Procs -> Handler], NEW p \in Procs, NEW l \in Label, NEW k \in SUBSET Agents,
         h' = [h EXCEPT ![p].holders = k, ![p].pc = l]
  PROVE  Becomes(p, h[p].op, l, h[p].agent, h[p].vps, h[p].vm, h[p].todo, k)
<1> DEFINE rec == [op |-> h[p].op, pc |-> l, agent |-> h[p].agent, vps |-> h[p].vps,
                     vm |-> h[p].vm, todo |-> h[p].todo, holders |-> k]
<1>1. rec \in Handler
  BY DEF Handler
<1>2. h'[p] = rec
  BY ZenonT(60) DEF Handler
<1>3. h' = [q \in Procs |-> h'[q]] /\ \A q \in Procs \ {p} : h'[q] = h[q]
  OBVIOUS
<1> QED
  BY <1>1, <1>2, <1>3 DEF Becomes

\* The handler has one agent fewer to unassign.
LEMMA FewerHoldersDoes ==
  ASSUME h \in [Procs -> Handler], NEW p \in Procs, NEW a,
         h' = [h EXCEPT ![p].holders = @ \ {a}]
  PROVE  Becomes(p, h[p].op, h[p].pc, h[p].agent, h[p].vps, h[p].vm, h[p].todo,
                 h[p].holders \ {a})
<1> DEFINE rec == [op |-> h[p].op, pc |-> h[p].pc, agent |-> h[p].agent, vps |-> h[p].vps,
                     vm |-> h[p].vm, todo |-> h[p].todo, holders |-> h[p].holders \ {a}]
<1>1. rec \in Handler
  BY DEF Handler
<1>2. h'[p] = rec
  BY DEF Handler
<1>3. h' = [q \in Procs |-> h'[q]] /\ \A q \in Procs \ {p} : h'[q] = h[q]
  OBVIOUS
<1> QED
  BY <1>1, <1>2, <1>3 DEF Becomes

\* A loop takes the next row of its list.
LEMMA TakeVpsDoes ==
  ASSUME h \in [Procs -> Handler], NEW p \in Procs, NEW s \in h[p].todo, NEW l \in Label,
         h' = [h EXCEPT ![p] = [Idle EXCEPT !.op = h[p].op, !.pc = l, !.vps = s.vps,
                                            !.vm = s.vm, !.todo = h[p].todo \ {s}]]
  PROVE  Becomes(p, h[p].op, l, None, s.vps, s.vm, h[p].todo \ {s}, {})
<1> DEFINE rec == [op |-> h[p].op, pc |-> l, agent |-> None, vps |-> s.vps,
                     vm |-> s.vm, todo |-> h[p].todo \ {s}, holders |-> {}]
<1>1. rec \in Handler
  BY DEF Handler, Snapshot
<1>2. h'[p] = rec
  BY DEF Handler, Idle, Snapshot
<1>3. h' = [q \in Procs |-> h'[q]] /\ \A q \in Procs \ {p} : h'[q] = h[q]
  OBVIOUS
<1> QED
  BY <1>1, <1>2, <1>3 DEF Becomes

-----------------------------------------------------------------------------
(* Steps that touch no table: a read, a test, a provider call that failed, the *)
(* end of a handler.                                                         *)

\* What such a step must see to about the handler: it does not enter the part of
\* provision_vps that builds a VM, and leaves it only when the VM is lost.  The
\* provider may switch VMs, and create one whose id is lost.
LEMMA HandlerAndVm ==
  ASSUME IInv, NEW p \in Procs, NEW o, NEW l, NEW a, NEW r, NEW v, NEW t, NEW k,
         Becomes(p, o, l, a, r, v, t, k),
         UNCHANGED <<agents, vpsOf, vps>>,
         vm' \in [VMs -> {"unused", "on", "off", "gone"}],
         \A w \in VMs : vm[w] # "unused" => vm'[w] # "unused",
         \A w \in VMs : LiveVm(w)' => LiveVm(w) \/ w \in lost',
         lost \subseteq lost', lost' \subseteq VMs, aborts' \in 0 .. MaxAborts, dark' \subseteq Vpses,
         LocalsOK(p)', RowsInHand(p)',
         l \notin {"assign_vps", "create_vm", "update_refs"},
         h[p].pc = "update_refs" => h[p].vm \in lost',
         l \in {"set_running", "start_vm", "stop_vm", "set_stopped"} => vps[r].vm # None
  PROVE  IInv'
<1> USE DEF Becomes
<1>1. TypeInv'
  BY DEF IInv, TypeInv, TypeOK, LocalsOK
<1>2. (\A q \in Procs : RowsInHand(q))'
  BY DEF IInv, RowsInHand
<1>3. RowNamed' /\ PoweredRowHasVm' /\ AttachedByName' /\ VmOfOneRow'
  BY DEF IInv, RowNamed, PoweredRowHasVm, AttachedByName, VmOfOneRow
<1>4. RowVmUsed'
  <2>1. \A x \in Vpses : vps[x].vm \in VMs \cup {None}
    BY DEF IInv, TypeInv, TypeOK, VpsRow
  <2> QED
    BY <2>1 DEF IInv, RowVmUsed
<1>5. PowerHasVm'
  BY DEF IInv, PowerHasVm
<1>6. BuildsAlone' /\ AssignsFresh'
  BY DEF IInv, BuildsAlone, AssignsFresh, Building
<1>7. VmInHand'
  <2>1. \A q \in Procs : h[q].pc = "update_refs" => h[q].vm \in VMs
    BY DEF IInv, TypeInv, LocalsOK
  <2> QED
    BY <2>1 DEF IInv, VmInHand
<1>8. LiveVmKnown'
  BY DEF IInv, LiveVmKnown, LiveVm, Holds
<1> QED
  BY <1>1, <1>2, <1>3, <1>4, <1>5, <1>6, <1>7, <1>8 DEF IInv

\* The same for a step that changes no VM.
LEMMA HandlerOnly ==
  ASSUME IInv, NEW p \in Procs, NEW o, NEW l, NEW a, NEW r, NEW v, NEW t, NEW k,
         Becomes(p, o, l, a, r, v, t, k),
         UNCHANGED <<agents, vpsOf, vps, vm>>,
         lost \subseteq lost', lost' \subseteq VMs, aborts' \in 0 .. MaxAborts, dark' \subseteq Vpses,
         LocalsOK(p)', RowsInHand(p)',
         l \notin {"assign_vps", "create_vm", "update_refs"},
         h[p].pc = "update_refs" => h[p].vm \in lost',
         l \in {"set_running", "start_vm", "stop_vm", "set_stopped"} => vps[r].vm # None
  PROVE  IInv'
<1>1. /\ vm' \in [VMs -> {"unused", "on", "off", "gone"}]
      /\ \A w \in VMs : vm[w] # "unused" => vm'[w] # "unused"
      /\ \A w \in VMs : LiveVm(w)' => LiveVm(w)
  BY DEF IInv, TypeInv, TypeOK, LiveVm
<1> QED
  BY <1>1, HandlerAndVm

\* A list query returns snapshots of rows that exist.
LEMMA RowsInAreSnapshots ==
  ASSUME TypeOK, NEW st \in VpsState
  PROVE  /\ RowsIn(st) \in SUBSET Snapshot
         /\ \A s \in RowsIn(st) : vps[s.vps].state = st /\ vps[s.vps].vm = s.vm
  BY DEF TypeOK, RowsIn, Snapshot, VpsRow

\* A request reads, and takes a free slot.
LEMMA RequestKeepsIInv ==
  ASSUME IInv, NEW p \in Procs, Request(p)
  PROVE  IInv'
<1> USE ConstantsOK
<1>0. h \in [Procs -> Handler] /\ lost \subseteq VMs /\ aborts \in 0 .. MaxAborts /\ dark \subseteq Vpses
  BY DEF IInv, TypeInv, TypeOK
<1>1. CASE CleanupStuck(p)
  <2>1. RowsIn("provisioning") \in SUBSET Snapshot
    BY RowsInAreSnapshots DEF IInv, TypeInv, VpsState
  <2>2. Becomes(p, "cleanup", "next_vps", None, None, None, RowsIn("provisioning"), {})
    BY <1>0, <1>1, <2>1, EnterDoes DEF CleanupStuck, Op, Label
  <2>3. RowsInHand(p)'
    BY <1>1, <2>2, RowsInAreSnapshots
       DEF CleanupStuck, RowsInHand, Becomes, IInv, TypeInv, VpsState
  <2>4. LocalsOK(p)'
    BY <2>2 DEF Becomes, LocalsOK
  <2>5. h[p] = Idle /\ UNCHANGED <<agents, vpsOf, vps, vm, lost, dark, aborts>>
    BY <1>1 DEF CleanupStuck, Enter
  <2> QED
    BY <1>0, <2>2, <2>3, <2>4, <2>5, HandlerOnly DEF Idle
<1>2. CASE EnforceLimits(p)
  <2>1. PICK over \in SUBSET Users :
          Enter(p, "monitor", "next_vps", None, None,
                {s \in RowsIn("running") : Owner[vps[s.vps].name] \in over})
    BY <1>2 DEF EnforceLimits
  <2> DEFINE running == {s \in RowsIn("running") : Owner[vps[s.vps].name] \in over}
  <2>2. running \in SUBSET Snapshot
    BY RowsInAreSnapshots DEF IInv, TypeInv, VpsState
  <2>3. Becomes(p, "monitor", "next_vps", None, None, None, running, {})
    BY <1>0, <2>1, <2>2, EnterDoes DEF Op, Label
  <2>4. RowsInHand(p)'
    BY <1>2, <2>3, RowsInAreSnapshots
       DEF EnforceLimits, RowsInHand, Becomes, IInv, TypeInv, VpsState
  <2>5. LocalsOK(p)'
    BY <2>3 DEF Becomes, LocalsOK
  <2>6. h[p] = Idle /\ UNCHANGED <<agents, vpsOf, vps, vm, lost, dark, aborts>>
    BY <1>2 DEF EnforceLimits, Enter
  <2> QED
    BY <1>0, <2>3, <2>4, <2>5, <2>6, HandlerOnly DEF Idle
<1>3. ASSUME NEW ag \in Agents, ProvisionVps(p, ag) PROVE IInv'
  <2>1. Becomes(p, "provision", "count_vpses", ag, None, None, {}, {})
    BY <1>0, <1>3, EnterDoes DEF ProvisionVps, Op, Label
  <2>2. RowsInHand(p)' /\ LocalsOK(p)'
    BY <1>3, <2>1 DEF RowsInHand, LocalsOK, Becomes
  <2>3. h[p].pc = "idle" /\ UNCHANGED <<agents, vpsOf, vps, vm, lost, dark, aborts>>
    BY <1>3 DEF ProvisionVps, Enter, Idle
  <2> QED
    BY <1>0, <2>1, <2>2, <2>3, HandlerOnly
<1>4. ASSUME NEW ag \in Agents, DeleteAgent(p, ag) PROVE IInv'
  <2> DEFINE l == IF vpsOf[ag] = None THEN "delete_agent" ELSE "load"
  <2>1. vpsOf[ag] \in Vpses \cup {None} /\ l \in Label
    BY DEF IInv, TypeInv, TypeOK, Label
  <2>2. Becomes(p, "delete_agent", l, ag, vpsOf[ag], None, {}, {})
    BY <1>0, <1>4, <2>1, EnterDoes DEF DeleteAgent, Op
  <2>3. RowsInHand(p)'
    BY <1>4, <2>1, <2>2
       DEF DeleteAgent, RowsInHand, Becomes, IInv, AttachedByName, RowNamed, NoRow
  <2>4. LocalsOK(p)'
    BY <2>1, <2>2 DEF Becomes, LocalsOK
  <2>5. h[p].pc = "idle" /\ UNCHANGED <<agents, vpsOf, vps, vm, lost, dark, aborts>>
    BY <1>4 DEF DeleteAgent, Enter, Idle
  <2> QED
    BY <1>0, <2>2, <2>3, <2>4, <2>5, HandlerOnly
<1>5. ASSUME NEW ag \in Agents, NEW op \in {"start", "stop", "restart", "destroy"},
             UserOp(p, op, ag)
      PROVE  IInv'
  <2> DEFINE who == IF op = "destroy" THEN ag ELSE None
  <2>1. vpsOf[ag] \in Vpses
    BY <1>5 DEF UserOp, IInv, TypeInv, TypeOK
  <2>2. Becomes(p, op, "load", who, vpsOf[ag], None, {}, {})
    BY <1>0, <1>5, <2>1, EnterDoes DEF UserOp, Op, Label
  <2>3. RowsInHand(p)'
    BY <1>5, <2>1, <2>2
       DEF UserOp, RowsInHand, Becomes, IInv, AttachedByName, RowNamed, NoRow
  <2>4. LocalsOK(p)'
    BY <2>1, <2>2 DEF Becomes, LocalsOK
  <2>5. h[p].pc = "idle" /\ UNCHANGED <<agents, vpsOf, vps, vm, lost, dark, aborts>>
    BY <1>5 DEF UserOp, Enter, Idle
  <2> QED
    BY <1>0, <2>2, <2>3, <2>4, <2>5, HandlerOnly
<1>6. ASSUME NEW rw \in Vpses, NEW op \in {"stop", "admin_destroy"}, AdminOp(p, op, rw)
      PROVE  IInv'
  <2>1. Becomes(p, op, "load", None, rw, None, {}, {})
    BY <1>0, <1>6, EnterDoes DEF AdminOp, Op, Label
  <2>2. RowsInHand(p)'
    BY <1>6, <2>1 DEF AdminOp, RowsInHand, Becomes, IInv, RowNamed
  <2>3. LocalsOK(p)'
    BY <2>1 DEF Becomes, LocalsOK
  <2>4. h[p].pc = "idle" /\ UNCHANGED <<agents, vpsOf, vps, vm, lost, dark, aborts>>
    BY <1>6 DEF AdminOp, Enter, Idle
  <2> QED
    BY <1>0, <2>1, <2>2, <2>3, <2>4, HandlerOnly
<1> QED
  BY <1>1, <1>2, <1>3, <1>4, <1>5, <1>6 DEF Request

\* A handler ends.
LEMMA ReturnOnly ==
  ASSUME IInv, NEW p \in Procs, Return(p),
         UNCHANGED <<agents, vpsOf, vps, vm>>,
         lost \subseteq lost', lost' \subseteq VMs, aborts' \in 0 .. MaxAborts, dark' \subseteq Vpses,
         h[p].pc = "update_refs" => h[p].vm \in lost'
  PROVE  IInv'
<1>1. Becomes(p, "idle", "idle", None, None, None, {}, {})
  BY ReturnDoes DEF IInv, TypeInv, TypeOK
<1>2. LocalsOK(p)' /\ RowsInHand(p)'
  BY <1>1 DEF Becomes, LocalsOK, RowsInHand
<1> QED
  BY <1>1, <1>2, HandlerOnly

\* A handler goes on with the same locals to a label that asks nothing new of
\* them.
LEMMA GoToOnly ==
  ASSUME IInv, NEW p \in Procs, NEW l \in Label, GoTo(p, l),
         UNCHANGED <<agents, vpsOf, vps, vm, lost, dark>>, aborts' \in 0 .. MaxAborts,
         l \in {"insert_vps", "delete_agent", "next_vps"},
         l = "insert_vps" => h[p].pc = "count_vpses",
         l = "next_vps" => h[p].op \in {"cleanup", "monitor"},
         h[p].pc # "update_refs"
  PROVE  IInv'
<1>1. Becomes(p, h[p].op, l, h[p].agent, h[p].vps, h[p].vm, h[p].todo, h[p].holders)
  BY GoToDoes DEF IInv, TypeInv, TypeOK
<1>2. LocalsOK(p)' /\ RowsInHand(p)'
  BY <1>1 DEF Becomes, LocalsOK, RowsInHand, IInv, TypeInv
<1>3. lost \subseteq VMs /\ dark \subseteq Vpses
  BY DEF IInv, TypeInv, TypeOK
<1> QED
  BY <1>1, <1>2, <1>3, HandlerOnly

\* A handler takes up the VM of its row, or drops it.
LEMMA WithVmOnly ==
  ASSUME IInv, NEW p \in Procs, NEW v \in VMs \cup {None}, NEW l \in Label, WithVm(p, v, l),
         UNCHANGED <<agents, vpsOf, vps, vm, lost, dark, aborts>>,
         h[p].pc \in {"load", "destroy_vm"},
         l \in {"start_vm", "stop_vm", "restart_stop", "destroy_vm"} =>
           v = vps[h[p].vps].vm /\ v # None,
         l \in {"start_vm", "stop_vm", "restart_stop", "destroy_vm", "set_destroyed"}
  PROVE  IInv'
<1>1. Becomes(p, h[p].op, l, h[p].agent, h[p].vps, v, h[p].todo, h[p].holders)
  BY WithVmDoes DEF IInv, TypeInv, TypeOK
<1>2. LocalsOK(p)' /\ RowsInHand(p)'
  BY <1>1 DEF Becomes, LocalsOK, RowsInHand, IInv, TypeInv
<1>3. lost \subseteq VMs /\ aborts \in 0 .. MaxAborts /\ dark \subseteq Vpses
  BY DEF IInv, TypeInv, TypeOK
<1> QED
  BY <1>1, <1>2, <1>3, HandlerOnly

\* The steps that read, test or fail.
LEMMA ReadKeepsIInv ==
  ASSUME IInv, NEW p \in Procs,
         \/ CountVpses(p) \/ LoadForStart(p) \/ LoadForStop(p) \/ LoadForRestart(p)
         \/ LoadForDestroy(p) \/ PowerCallFails(p) \/ RestartStartFails(p)
         \/ DestroyVmFails(p) \/ ListAgents(p) \/ UnassignDone(p)
         \/ NextVps(p) \/ LoopDone(p)
  PROVE  IInv'
<1> USE ConstantsOK DEF Holds, At
<1>0. /\ h \in [Procs -> Handler] /\ lost \subseteq VMs /\ aborts \in 0 .. MaxAborts /\ dark \subseteq Vpses
      /\ vps \in [Vpses -> VpsRow] /\ LocalsOK(p)
  BY DEF IInv, TypeInv, TypeOK
<1>1. CASE CountVpses(p)
  BY <1>0, <1>1, GoToOnly, ReturnOnly DEF CountVpses, Label
<1>2. CASE LoadForStart(p)
  BY <1>0, <1>2, WithVmOnly, ReturnOnly DEF LoadForStart, Label, LocalsOK, VpsRow
<1>3. CASE LoadForStop(p)
  BY <1>0, <1>3, WithVmOnly, ReturnOnly DEF LoadForStop, Label, LocalsOK, VpsRow
<1>4. CASE LoadForDestroy(p)
  BY <1>0, <1>4, WithVmOnly, GoToOnly, ReturnOnly
     DEF LoadForDestroy, Label, LocalsOK, VpsRow
<1>5. CASE PowerCallFails(p)
  BY <1>0, <1>5, GoToOnly, ReturnOnly DEF PowerCallFails, Label
<1>6. CASE DestroyVmFails(p)
  BY <1>0, <1>6, WithVmOnly DEF DestroyVmFails, DoneWithVm, Label
<1>7. CASE ListAgents(p)
  <2> DEFINE u == Owner[vps[h[p].vps].name]
             k == {a \in AgentsOf(u) : vpsOf[a] = h[p].vps}
  <2>1. k \in SUBSET Agents
    BY DEF AgentsOf, IInv, TypeInv, TypeOK
  <2>2. Becomes(p, h[p].op, "unassign", h[p].agent, h[p].vps, h[p].vm, h[p].todo, k)
    BY <1>0, <1>7, <2>1, WithHoldersDoes DEF ListAgents, Label
  <2>3. /\ h[p].pc = "list_agents" /\ RowsInHand(p)
        /\ UNCHANGED <<agents, vpsOf, vps, vm, lost, dark, aborts>>
    BY <1>7 DEF ListAgents, IInv
  <2> HIDE DEF k
  <2>4. LocalsOK(p)' /\ RowsInHand(p)'
    BY <1>0, <2>2, <2>3 DEF Becomes, LocalsOK, RowsInHand
  <2> QED
    BY <1>0, <2>2, <2>3, <2>4, HandlerOnly
<1>8. CASE UnassignDone(p)
  BY <1>0, <1>8, GoToOnly, ReturnOnly DEF UnassignDone, Label
<1>9. CASE NextVps(p)
  <2> DEFINE next(s) == IF h[p].op = "monitor"
                          THEN IF s.vm # None THEN "stop_vm" ELSE "next_vps"
                          ELSE IF s.vm # None THEN "destroy_vm" ELSE "set_destroyed"
  <2>1. PICK s \in h[p].todo :
          h' = [h EXCEPT ![p] = [Idle EXCEPT !.op = h[p].op, !.pc = next(s), !.vps = s.vps,
                                             !.vm = s.vm, !.todo = h[p].todo \ {s}]]
    BY <1>9 DEF NextVps
  <2>2. next(s) \in Label
    BY DEF Label
  <2>3. Becomes(p, h[p].op, next(s), None, s.vps, s.vm, h[p].todo \ {s}, {})
    BY <1>0, <2>1, <2>2, TakeVpsDoes
  <2>4. s \in Snapshot /\ h[p].op \in {"cleanup", "monitor"}
    BY <1>0, <1>9 DEF Handler, LocalsOK, NextVps
  <2>5. RowsInHand(p) /\ h[p].pc = "next_vps"
        /\ UNCHANGED <<agents, vpsOf, vps, vm, lost, dark, aborts>>
    BY <1>9 DEF IInv, NextVps
  <2>6. LocalsOK(p)'
    <3>1. s.vps \in Vpses /\ s.vm \in VMs \cup {None}
      BY <2>4 DEF Snapshot
    <3>2. next(s) \in {"stop_vm", "destroy_vm"} => s.vm \in VMs
      BY <2>4, <3>1
    <3> HIDE DEF next
    <3>3. next(s) \in {"stop_vm", "destroy_vm", "set_destroyed", "next_vps"}
      BY DEF next
    <3> QED
      BY <2>3, <2>4, <3>1, <3>2, <3>3 DEF Becomes, LocalsOK
  <2>7. RowsInHand(p)'
    BY <2>3, <2>4, <2>5 DEF Becomes, RowsInHand, Snapshot
  <2>8. next(s) \in {"stop_vm"} => vps[s.vps].vm # None
    BY <2>5 DEF RowsInHand
  <2>9. next(s) \in {"stop_vm", "destroy_vm", "set_destroyed", "next_vps"}
    OBVIOUS
  <2> HIDE DEF next
  <2> QED
    BY <1>0, <2>3, <2>5, <2>6, <2>7, <2>8, <2>9, HandlerOnly
<1>10. CASE LoopDone(p)
  BY <1>0, <1>10, ReturnOnly DEF LoopDone
<1>11. CASE LoadForRestart(p)
  BY <1>0, <1>11, WithVmOnly, ReturnOnly DEF LoadForRestart, Label, LocalsOK, VpsRow
<1>12. CASE RestartStartFails(p)
  BY <1>0, <1>12, ReturnOnly DEF RestartStartFails, LocalsOK
<1> QED
  BY <1>1, <1>2, <1>3, <1>4, <1>5, <1>6, <1>7, <1>8, <1>9, <1>10, <1>11, <1>12

\* A handler that is dropped, and one that goes on when a statement fails.
LEMMA FailureKeepsIInv ==
  ASSUME IInv, NEW p \in Procs, Abort(p) \/ LookupFails(p) \/ MonitorWriteFails(p)
  PROVE  IInv'
<1> USE ConstantsOK DEF Holds, At
<1>0. /\ h \in [Procs -> Handler] /\ lost \subseteq VMs
      /\ aborts \in 0 .. MaxAborts /\ LocalsOK(p)
      /\ dark \subseteq Vpses
  BY DEF IInv, TypeInv, TypeOK
<1>1. CASE Abort(p)
  BY <1>0, <1>1, ReturnOnly DEF Abort, LocalsOK
<1>2. CASE LookupFails(p)
  BY <1>0, <1>2, GoToOnly DEF LookupFails, Label
<1>3. CASE MonitorWriteFails(p)
  BY <1>0, <1>3, GoToOnly DEF MonitorWriteFails, Label
<1> QED
  BY <1>1, <1>2, <1>3

-----------------------------------------------------------------------------
(* Steps at the provider *)

\* start_vps, stop_vps and destroy_vps switch a VM that was created.
LEMMA PowerKeepsIInv ==
  ASSUME IInv, NEW p \in Procs, StartVm(p) \/ StopVm(p) \/ DestroyVm(p)
  PROVE  IInv'
<1> USE ConstantsOK DEF Holds
<1> DEFINE l == CASE StartVm(p) -> "set_running"
                  [] StopVm(p)  -> "set_stopped"
                  [] OTHER      -> "set_destroyed"
<1>0. /\ h \in [Procs -> Handler] /\ lost \subseteq VMs /\ aborts \in 0 .. MaxAborts /\ dark \subseteq Vpses
      /\ vm \in [VMs -> {"unused", "on", "off", "gone"}] /\ dark \subseteq Vpses
      /\ LocalsOK(p) /\ RowsInHand(p)
  BY DEF IInv, TypeInv, TypeOK
<1>1. /\ l \in {"set_running", "set_stopped", "set_destroyed"}
      /\ WithVm(p, None, l)
      /\ UNCHANGED <<agents, vpsOf, vps, lost, aborts>> /\ dark' \subseteq dark
      /\ h[p].pc \in {"start_vm", "stop_vm", "destroy_vm"}
      /\ IF l = "set_destroyed" THEN h[p].pc = "destroy_vm"
                               ELSE h[p].pc \in {"start_vm", "stop_vm"}
  BY DEF StartVm, StopVm, DestroyVm, DoneWithVm
<1>2. \E x \in {"on", "off", "gone"} :
        vm' = [vm EXCEPT ![h[p].vm] = x] /\ (x # "gone" => LiveVm(h[p].vm))
  BY DEF StartVm, StopVm, DestroyVm
<1>3. /\ vm' \in [VMs -> {"unused", "on", "off", "gone"}]
      /\ \A w \in VMs : vm[w] # "unused" => vm'[w] # "unused"
      /\ \A w \in VMs : LiveVm(w)' => LiveVm(w)
  BY <1>0, <1>2 DEF LiveVm
<1> HIDE DEF l
<1>4. Becomes(p, h[p].op, l, h[p].agent, h[p].vps, None, h[p].todo, h[p].holders)
  BY <1>0, <1>1, WithVmDoes DEF Label
<1>5. LocalsOK(p)' /\ RowsInHand(p)'
  BY <1>0, <1>1, <1>4 DEF Becomes, LocalsOK, RowsInHand
<1>6. l # "set_destroyed" => vps[h[p].vps].vm # None
  BY <1>1 DEF IInv, PowerHasVm
<1> QED
  BY <1>0, <1>1, <1>3, <1>4, <1>5, <1>6, HandlerAndVm

\* restart_agent stops the VM and starts it.
LEMMA RestartKeepsIInv ==
  ASSUME IInv, NEW p \in Procs, RestartStopVm(p) \/ RestartStartVm(p)
  PROVE  IInv'
<1> USE ConstantsOK DEF Holds
<1>0. /\ h \in [Procs -> Handler] /\ lost \subseteq VMs /\ aborts \in 0 .. MaxAborts
      /\ vm \in [VMs -> {"unused", "on", "off", "gone"}] /\ dark \subseteq Vpses
      /\ LocalsOK(p) /\ RowsInHand(p)
  BY DEF IInv, TypeInv, TypeOK
<1>1. /\ h[p].pc \in {"restart_stop", "restart_start"}
      /\ UNCHANGED <<agents, vpsOf, vps, lost, aborts>> /\ dark' \subseteq dark
  BY DEF RestartStopVm, RestartStartVm
<1>2. /\ vm' \in [VMs -> {"unused", "on", "off", "gone"}]
      /\ \A w \in VMs : vm[w] # "unused" => vm'[w] # "unused"
      /\ \A w \in VMs : LiveVm(w)' => LiveVm(w)
  BY <1>0 DEF RestartStopVm, RestartStartVm, LiveVm
<1>3. CASE RestartStopVm(p)
  <2>1. Becomes(p, h[p].op, "restart_start", h[p].agent, h[p].vps, h[p].vm, h[p].todo,
                h[p].holders)
    BY <1>0, <1>3, GoToDoes DEF RestartStopVm, Label
  <2>2. LocalsOK(p)' /\ RowsInHand(p)'
    BY <1>0, <1>1, <2>1 DEF Becomes, LocalsOK, RowsInHand
  <2> QED
    BY <1>0, <1>1, <1>2, <2>1, <2>2, HandlerAndVm
<1>4. CASE RestartStartVm(p)
  <2>1. Becomes(p, "idle", "idle", None, None, None, {}, {})
    BY <1>0, <1>4, ReturnDoes DEF RestartStartVm
  <2>2. LocalsOK(p)' /\ RowsInHand(p)'
    BY <2>1 DEF Becomes, LocalsOK, RowsInHand
  <2> QED
    BY <1>0, <1>1, <1>2, <2>1, <2>2, HandlerAndVm
<1> QED
  BY <1>3, <1>4

\* create_vps fails, and the VM exists or not.
LEMMA CreateVmFailsKeepsIInv ==
  ASSUME IInv, NEW p \in Procs, CreateVmFails(p)
  PROVE  IInv'
<1>0. /\ h \in [Procs -> Handler] /\ lost \subseteq VMs /\ aborts \in 0 .. MaxAborts /\ dark \subseteq Vpses
      /\ vm \in [VMs -> {"unused", "on", "off", "gone"}] /\ dark \subseteq Vpses
  BY DEF IInv, TypeInv, TypeOK
<1>1. /\ Return(p) /\ h[p].pc = "create_vm" /\ UNCHANGED <<agents, vpsOf, vps, dark, aborts>>
  BY DEF CreateVmFails, Holds
<1>2. /\ vm' \in [VMs -> {"unused", "on", "off", "gone"}]
      /\ \A w \in VMs : vm[w] # "unused" => vm'[w] # "unused"
      /\ \A w \in VMs : LiveVm(w)' => LiveVm(w) \/ w \in lost'
      /\ lost \subseteq lost' /\ lost' \subseteq VMs
  BY <1>0 DEF CreateVmFails, LiveVm
<1>3. Becomes(p, "idle", "idle", None, None, None, {}, {})
  BY <1>0, <1>1, ReturnDoes
<1>4. LocalsOK(p)' /\ RowsInHand(p)'
  BY <1>3 DEF Becomes, LocalsOK, RowsInHand
<1> QED
  BY <1>0, <1>1, <1>2, <1>3, <1>4, HandlerAndVm

\* create_vps: the new VM is in the hands of this handler alone.
LEMMA CreateVmKeepsIInv ==
  ASSUME IInv, NEW p \in Procs, CreateVm(p)
  PROVE  IInv'
<1> USE ConstantsOK DEF Holds
<1>0. /\ h \in [Procs -> Handler]
      /\ vm \in [VMs -> {"unused", "on", "off", "gone"}]
      /\ LocalsOK(p) /\ RowsInHand(p) /\ h[p].pc = "create_vm"
      /\ UNCHANGED <<agents, vpsOf, vps, lost, dark, aborts>>
  BY DEF IInv, TypeInv, TypeOK, CreateVm
<1>1. PICK v \in VMs : vm[v] = "unused" /\ vm' = [vm EXCEPT ![v] = "on"]
                       /\ WithVm(p, v, "update_refs")
  BY DEF CreateVm
<1>2. Becomes(p, h[p].op, "update_refs", h[p].agent, h[p].vps, v, h[p].todo, h[p].holders)
  BY <1>0, <1>1, WithVmDoes DEF Label
<1>3. /\ vm' \in [VMs -> {"unused", "on", "off", "gone"}]
      /\ vm'[v] = "on" /\ \A w \in VMs \ {v} : vm'[w] = vm[w]
  BY <1>0, <1>1
<1>4. LocalsOK(p)' /\ RowsInHand(p)'
  BY <1>0, <1>2 DEF Becomes, LocalsOK, RowsInHand
<1>5. \A x \in Vpses : vps[x].vm \in VMs \cup {None} /\ vps[x].vm # v
  BY <1>1 DEF IInv, TypeInv, TypeOK, VpsRow, RowVmUsed
<1>6. \A q \in Procs : h[q].pc = "update_refs" => h[q].vm \in VMs /\ h[q].vm # v
  BY <1>1 DEF IInv, TypeInv, LocalsOK, VmInHand
<1> USE DEF Becomes
<1>11. TypeInv'
  BY <1>0, <1>2, <1>3, <1>4 DEF IInv, TypeInv, TypeOK, LocalsOK
<1>12. (\A q \in Procs : RowsInHand(q))'
  BY <1>0, <1>2, <1>4 DEF IInv, RowsInHand
<1>13. RowNamed' /\ PoweredRowHasVm' /\ AttachedByName' /\ VmOfOneRow'
  BY <1>0 DEF IInv, RowNamed, PoweredRowHasVm, AttachedByName, VmOfOneRow
<1>14. RowVmUsed'
  BY <1>0, <1>3, <1>5 DEF IInv, RowVmUsed
<1>15. PowerHasVm'
  BY <1>0, <1>2 DEF IInv, PowerHasVm
<1>16. BuildsAlone' /\ AssignsFresh'
  BY <1>0, <1>2 DEF IInv, BuildsAlone, AssignsFresh, Building
<1>17. VmInHand'
  BY <1>0, <1>2, <1>3, <1>5, <1>6 DEF IInv, VmInHand
<1>18. LiveVmKnown'
  BY <1>0, <1>1, <1>2, <1>3 DEF IInv, LiveVmKnown, LiveVm
<1> QED
  BY <1>11, <1>12, <1>13, <1>14, <1>15, <1>16, <1>17, <1>18 DEF IInv

-----------------------------------------------------------------------------
(* Steps that write the tables *)

SetState(r, st) == vps' = [vps EXCEPT ![r].state = st]

\* set_state: only the state of the handler's row changes, and "running" or
\* "stopped" is written only to a row that has a VM.
LEMMA SetStateKeepsIInv ==
  ASSUME IInv, NEW p \in Procs, NEW o, NEW l, NEW a, NEW r, NEW v, NEW t, NEW k,
         Becomes(p, o, l, a, r, v, t, k), NEW st \in VpsState,
         SetState(h[p].vps, st),
         UNCHANGED <<agents, vpsOf, vm, lost, dark, aborts>>,
         h[p].pc \in {"set_running", "set_stopped", "set_destroyed"},
         st \in {"running", "stopped"} => h[p].pc # "set_destroyed",
         l \in {"idle", "next_vps", "list_agents", "delete_agent", "unassign"},
         l = "next_vps" => o \in {"cleanup", "monitor"},
         l = "list_agents" => r \in Vpses,
         r = h[p].vps \/ r = None, t \subseteq h[p].todo
  PROVE  IInv'
<1> USE ConstantsOK
<1> DEFINE R == h[p].vps
<1>0. /\ h \in [Procs -> Handler] /\ vps \in [Vpses -> VpsRow]
      /\ LocalsOK(p) /\ RowsInHand(p) /\ R \in Vpses
  BY DEF IInv, TypeInv, TypeOK, LocalsOK
<1>1. /\ vps' \in [Vpses -> VpsRow]
      /\ vps'[R].state = st
      /\ \A x \in Vpses : vps'[x].vm = vps[x].vm /\ vps'[x].name = vps[x].name
      /\ \A x \in Vpses \ {R} : vps'[x] = vps[x]
  BY <1>0 DEF VpsRow, SetState
<1>2. vps[R].state # "absent" /\ st # "absent"
  BY <1>0 DEF RowsInHand, VpsState
<1>3. \A q \in Procs : (h[q].vps # None => h[q].vps \in Vpses) /\ h[q].todo \in SUBSET Snapshot
  BY <1>0 DEF Handler
<1>4. \A s \in Snapshot : s.vps \in Vpses
  BY DEF Snapshot
<1> USE DEF Becomes
<1>11. TypeInv'
  <2>1. LocalsOK(p)'
    BY DEF LocalsOK
  <2> QED
    BY <1>1, <2>1 DEF IInv, TypeInv, TypeOK, LocalsOK
<1>12. ASSUME NEW q \in Procs PROVE RowsInHand(q)'
  <2>1. RowsInHand(q)
    BY DEF IInv
  <2>2. CASE q = p
    BY <1>0, <1>1, <1>2, <1>3, <1>4, <2>1, <2>2 DEF RowsInHand
  <2>3. CASE q # p
    BY <1>1, <1>2, <1>3, <1>4, <2>1, <2>3 DEF RowsInHand
  <2> QED
    BY <2>2, <2>3
<1>13. RowNamed'
  BY <1>1, <1>2 DEF IInv, RowNamed
<1>14. PoweredRowHasVm'
  <2>1. st \in {"running", "stopped"} => vps[R].vm # None
    BY DEF IInv, PowerHasVm
  <2> QED
    BY <1>1, <2>1 DEF IInv, PoweredRowHasVm
<1>15. AttachedByName' /\ VmOfOneRow' /\ RowVmUsed'
  <2>1. \A b \in Agents : vpsOf[b] # None => vpsOf[b] \in Vpses
    BY DEF IInv, TypeInv, TypeOK
  <2> QED
    BY <1>1, <2>1 DEF IInv, AttachedByName, VmOfOneRow, RowVmUsed
<1>16. PowerHasVm'
  <2>1. \A q \in Procs : h[q].pc \in {"set_running", "start_vm", "stop_vm", "set_stopped"} =>
                           h[q].vps \in Vpses
    BY DEF IInv, TypeInv, LocalsOK
  <2> QED
    BY <1>1, <2>1 DEF IInv, PowerHasVm
<1>17. BuildsAlone' /\ AssignsFresh'
  <2>1. \A q \in Procs : Building(q) => h[q].vps \in Vpses
    BY DEF IInv, TypeInv, LocalsOK, Building
  <2> QED
    BY <1>1, <2>1 DEF IInv, BuildsAlone, AssignsFresh, Building
<1>18. VmInHand'
  BY <1>1 DEF IInv, VmInHand
<1>19. LiveVmKnown'
  BY <1>1 DEF IInv, LiveVmKnown, LiveVm, Holds
<1> QED
  BY <1>11, <1>12, <1>13, <1>14, <1>15, <1>16, <1>17, <1>18, <1>19 DEF IInv

\* The three uses of set_state.
LEMMA StatesKeepIInv ==
  ASSUME IInv, NEW p \in Procs, SetRunning(p) \/ SetStopped(p) \/ SetDestroyed(p)
  PROVE  IInv'
<1> USE ConstantsOK DEF Holds
<1>0. h \in [Procs -> Handler] /\ LocalsOK(p)
  BY DEF IInv, TypeInv, TypeOK
<1>1. CASE Return(p) /\ (SetRunning(p) \/ SetStopped(p))
  <2>1. Becomes(p, "idle", "idle", None, None, None, {}, {})
    BY <1>0, <1>1, ReturnDoes
  <2>2. PICK st \in {"running", "stopped"} :
          /\ SetState(h[p].vps, st)
          /\ h[p].pc \in {"set_running", "set_stopped"}
          /\ UNCHANGED <<agents, vpsOf, vm, lost, dark, aborts>>
    BY <1>1 DEF SetRunning, SetStopped, SetState
  <2>3. st \in VpsState
    BY DEF VpsState
  <2> QED
    BY <2>1, <2>2, <2>3, SetStateKeepsIInv
<1>2. CASE GoTo(p, "next_vps") /\ SetStopped(p) /\ h[p].op = "monitor"
  <2>1. Becomes(p, h[p].op, "next_vps", h[p].agent, h[p].vps, h[p].vm, h[p].todo, h[p].holders)
    BY <1>0, <1>2, GoToDoes DEF Label
  <2>2. /\ SetState(h[p].vps, "stopped")
        /\ h[p].pc = "set_stopped"
        /\ UNCHANGED <<agents, vpsOf, vm, lost, dark, aborts>>
    BY <1>2 DEF SetStopped, SetState
  <2>3. "stopped" \in VpsState
    BY DEF VpsState
  <2> QED
    BY <1>2, <2>1, <2>2, <2>3, SetStateKeepsIInv
<1>3. CASE SetDestroyed(p)
  <2> DEFINE l == AfterDestroyed(h[p].op)
             k == IF h[p].op = "destroy" THEN {h[p].agent} ELSE {}
  <2>1. l \in {"unassign", "delete_agent", "list_agents"} /\ k \in SUBSET Agents
    BY <1>0, <1>3 DEF AfterDestroyed, SetDestroyed, LocalsOK
  <2>2. /\ SetState(h[p].vps, "destroyed")
        /\ h[p].pc = "set_destroyed" /\ h[p].vps \in Vpses
        /\ UNCHANGED <<agents, vpsOf, vm, lost, dark, aborts>>
        /\ h' = [h EXCEPT ![p].holders = k, ![p].pc = l]
    BY <1>0, <1>3 DEF SetDestroyed, LocalsOK, SetState
  <2> HIDE DEF l, k
  <2>3. l \in Label /\ "destroyed" \in VpsState
    BY <2>1 DEF Label, VpsState
  <2>4. Becomes(p, h[p].op, l, h[p].agent, h[p].vps, h[p].vm, h[p].todo, k)
    BY <1>0, <2>1, <2>2, <2>3, WithHoldersDoes
  <2> QED
    BY <2>1, <2>2, <2>3, <2>4, SetStateKeepsIInv
<1> QED
  BY <1>1, <1>2, <1>3 DEF SetRunning, SetStopped

\* Vps::insert: a new row, known to this handler alone.
LEMMA InsertVpsKeepsIInv ==
  ASSUME IInv, NEW p \in Procs, InsertVps(p)
  PROVE  IInv'
<1> USE ConstantsOK DEF Holds
<1>0. /\ h \in [Procs -> Handler] /\ vps \in [Vpses -> VpsRow]
      /\ LocalsOK(p) /\ RowsInHand(p) /\ h[p].pc = "insert_vps" /\ h[p].agent \in Agents
      /\ UNCHANGED <<agents, vpsOf, vm, lost, dark, aborts>>
  BY DEF IInv, TypeInv, TypeOK, InsertVps, LocalsOK
<1>1. PICK r \in Vpses :
        /\ vps[r] = NoRow
        /\ vps' = [vps EXCEPT ![r] = [state |-> "provisioning", vm |-> None, name |-> h[p].agent]]
        /\ h' = [h EXCEPT ![p].vps = r, ![p].pc = "assign_vps"]
  BY DEF InsertVps
<1>2. Becomes(p, h[p].op, "assign_vps", h[p].agent, r, h[p].vm, h[p].todo, h[p].holders)
  BY <1>0, <1>1, WithVpsDoes DEF Label
<1>3. /\ vps' \in [Vpses -> VpsRow]
      /\ vps'[r].state = "provisioning" /\ vps'[r].vm = None /\ vps'[r].name = h[p].agent
      /\ \A x \in Vpses \ {r} : vps'[x] = vps[x]
  BY <1>0, <1>1 DEF VpsRow, VpsState
<1>4. vps[r].state = "absent" /\ vps[r].vm = None /\ vps[r].name = None
  BY <1>1 DEF NoRow
<1>5. \A q \in Procs : /\ h[q].vps # r
                       /\ h[q].vps # None => h[q].vps \in Vpses
                       /\ h[q].todo \in SUBSET Snapshot
                       /\ Building(q) => h[q].vps \in Vpses
  BY <1>0, <1>1, <1>4 DEF Handler, IInv, RowsInHand, TypeInv, LocalsOK, Building
<1>6. \A a \in Agents : vpsOf[a] # r /\ (vpsOf[a] # None => vpsOf[a] \in Vpses)
  BY <1>4 DEF IInv, AttachedByName, TypeInv, TypeOK
<1>7. \A s \in Snapshot : s.vps \in Vpses
  BY DEF Snapshot
<1> USE DEF Becomes
<1>11. TypeInv'
  <2>1. LocalsOK(p)'
    BY <1>0, <1>2 DEF LocalsOK
  <2> QED
    BY <1>0, <1>2, <1>3, <2>1 DEF IInv, TypeInv, TypeOK, LocalsOK
<1>12. ASSUME NEW q \in Procs PROVE RowsInHand(q)'
  <2>1. RowsInHand(q)
    BY DEF IInv
  <2>2. CASE q = p
    BY <1>2, <1>3, <1>4, <1>5, <1>7, <2>1, <2>2 DEF RowsInHand
  <2>3. CASE q # p
    BY <1>2, <1>3, <1>4, <1>5, <1>7, <2>1, <2>3 DEF RowsInHand
  <2> QED
    BY <2>2, <2>3
<1>13. RowNamed' /\ PoweredRowHasVm' /\ VmOfOneRow' /\ RowVmUsed'
  BY <1>0, <1>3 DEF IInv, RowNamed, PoweredRowHasVm, VmOfOneRow, RowVmUsed
<1>14. AttachedByName'
  BY <1>0, <1>3, <1>6 DEF IInv, AttachedByName
<1>15. PowerHasVm'
  <2>1. \A q \in Procs : h[q].pc \in {"set_running", "start_vm", "stop_vm", "set_stopped"} =>
                           h[q].vps \in Vpses
    BY DEF IInv, TypeInv, LocalsOK
  <2> QED
    BY <1>2, <1>3, <1>5, <2>1 DEF IInv, PowerHasVm
<1>16. BuildsAlone'
  BY <1>0, <1>2, <1>3, <1>5 DEF IInv, BuildsAlone, Building
<1>17. AssignsFresh'
  BY <1>0, <1>2, <1>3, <1>5, <1>6 DEF IInv, AssignsFresh, Building
<1>18. VmInHand'
  <2>1. \A q \in Procs : h[q].pc = "update_refs" => h[q].vm \in VMs
    BY DEF IInv, TypeInv, LocalsOK
  <2> QED
    BY <1>0, <1>2, <1>3, <2>1 DEF IInv, VmInHand
<1>19. LiveVmKnown'
  BY <1>0, <1>2, <1>3, <1>4 DEF IInv, LiveVmKnown, LiveVm
<1> QED
  BY <1>11, <1>12, <1>13, <1>14, <1>15, <1>16, <1>17, <1>18, <1>19 DEF IInv

\* Vps::update_provider_refs: the id of the VM in hand goes to the handler's row,
\* which had none.
LEMMA UpdateRefsKeepsIInv ==
  ASSUME IInv, NEW p \in Procs, UpdateProviderRefs(p)
  PROVE  IInv' /\ vps[h[p].vps].vm = None
<1> USE ConstantsOK DEF Holds
<1> DEFINE R == h[p].vps
           V == h[p].vm
<1>0. /\ h \in [Procs -> Handler] /\ vps \in [Vpses -> VpsRow]
      /\ LocalsOK(p) /\ RowsInHand(p) /\ h[p].pc = "update_refs"
      /\ R \in Vpses /\ V \in VMs
      /\ UNCHANGED <<agents, vpsOf, vm, lost, dark, aborts>>
  BY DEF IInv, TypeInv, TypeOK, UpdateProviderRefs, LocalsOK
<1>1. vps' = [vps EXCEPT ![R].vm = V] /\ WithVm(p, None, "set_running")
  BY DEF UpdateProviderRefs, DoneWithVm
<1>2. Becomes(p, h[p].op, "set_running", h[p].agent, R, None, h[p].todo, h[p].holders)
  BY <1>0, <1>1, WithVmDoes DEF Label
<1>3. /\ vps' \in [Vpses -> VpsRow]
      /\ vps'[R].vm = V
      /\ \A x \in Vpses : vps'[x].state = vps[x].state /\ vps'[x].name = vps[x].name
      /\ \A x \in Vpses \ {R} : vps'[x] = vps[x]
  BY <1>0, <1>1 DEF VpsRow
<1>4. /\ vps[R].vm = None /\ vps[R].state # "absent"
      /\ \A q \in Procs \ {p} : Building(q) => h[q].vps # R
  BY <1>0 DEF IInv, BuildsAlone, Building, RowsInHand
<1>5. /\ vm[V] # "unused"
      /\ \A x \in Vpses : vps[x].vm # V
      /\ \A q \in Procs \ {p} : h[q].pc = "update_refs" => h[q].vm # V
  BY <1>0 DEF IInv, VmInHand
<1>6. \A q \in Procs : /\ h[q].vps # None => h[q].vps \in Vpses
                       /\ h[q].todo \in SUBSET Snapshot
                       /\ Building(q) => h[q].vps \in Vpses
  BY <1>0 DEF Handler, IInv, TypeInv, LocalsOK, Building
<1>7. \A s \in Snapshot : s.vps \in Vpses
  BY DEF Snapshot
<1> HIDE DEF R, V
<1> USE DEF Becomes
<1>11. TypeInv'
  <2>1. LocalsOK(p)'
    BY <1>0, <1>2 DEF LocalsOK
  <2> QED
    BY <1>0, <1>2, <1>3, <2>1 DEF IInv, TypeInv, TypeOK, LocalsOK
<1>12. ASSUME NEW q \in Procs PROVE RowsInHand(q)'
  <2>1. RowsInHand(q)
    BY DEF IInv
  <2>2. \A s \in h[q].todo : s.vm # None => vps[s.vps].vm = s.vm
    BY <2>1 DEF RowsInHand
  <2>3. /\ h'[q].vps = h[q].vps /\ h'[q].todo = h[q].todo
    BY <1>2 DEF R
  <2> QED
    BY <1>3, <1>4, <1>6, <1>7, <2>1, <2>2, <2>3 DEF RowsInHand
<1>13. RowNamed'
  BY <1>3, <1>4 DEF IInv, RowNamed
<1>14. PoweredRowHasVm' /\ VmOfOneRow' /\ RowVmUsed'
  BY <1>0, <1>3, <1>4, <1>5 DEF IInv, PoweredRowHasVm, VmOfOneRow, RowVmUsed
<1>15. AttachedByName'
  <2>1. \A a \in Agents : vpsOf[a] # None => vpsOf[a] \in Vpses
    BY DEF IInv, TypeInv, TypeOK
  <2> QED
    BY <1>0, <1>3, <2>1 DEF IInv, AttachedByName
<1>16. PowerHasVm'
  <2>1. \A q \in Procs : h[q].pc \in {"set_running", "start_vm", "stop_vm", "set_stopped"} =>
                           h[q].vps \in Vpses
    BY DEF IInv, TypeInv, LocalsOK
  <2> QED
    BY <1>0, <1>2, <1>3, <2>1 DEF IInv, PowerHasVm
<1>17. BuildsAlone' /\ AssignsFresh'
  <2>1. /\ h'[p].pc = "set_running"
        /\ \A q \in Procs \ {p} : h'[q] = h[q]
    BY <1>2
  <2>2. \A q \in Procs \ {p} : Building(q) => vps'[h[q].vps] = vps[h[q].vps]
    BY <1>3, <1>4, <1>6
  <2>3. BuildsAlone'
    BY <2>1, <2>2 DEF IInv, BuildsAlone, Building
  <2>4. AssignsFresh'
    BY <1>0, <2>1, <2>2 DEF IInv, AssignsFresh, Building
  <2> QED
    BY <2>3, <2>4
<1>18. VmInHand'
  BY SMTT(30), <1>0, <1>2, <1>3, <1>5 DEF IInv, VmInHand
<1>19. LiveVmKnown'
  <2>1. ASSUME NEW v \in VMs, LiveVm(v)'
        PROVE  \/ v \in lost
               \/ \E x \in Vpses : vps'[x].vm = v
               \/ \E q \in Procs : h'[q].pc = "update_refs" /\ h'[q].vm = v
    <3>1. CASE v = V
      BY <1>0, <1>3, <3>1
    <3>2. CASE v # V
      <4>1. \/ v \in lost
            \/ \E x \in Vpses : vps[x].vm = v
            \/ \E q \in Procs \ {p} : h[q].pc = "update_refs" /\ h[q].vm = v
        BY <1>0, <2>1, <3>2 DEF IInv, LiveVmKnown, LiveVm, V
      <4> QED
        BY <1>2, <1>3, <1>4, <4>1, <2>1, ConstantsOK
    <3> QED
      BY <3>1, <3>2
  <2> QED
    BY <1>0, <2>1 DEF LiveVmKnown
<1> QED
  BY <1>4, <1>11, <1>12, <1>13, <1>14, <1>15, <1>16, <1>17, <1>18, <1>19 DEF IInv, R

\* Agent::assign_vps with a VPS.
LEMMA AssignVpsKeepsIInv ==
  ASSUME IInv, NEW p \in Procs, AssignVps(p)
  PROVE  IInv'
<1> USE ConstantsOK DEF Holds
<1> DEFINE R == h[p].vps
           A == h[p].agent
<1>0. /\ h \in [Procs -> Handler] /\ vps \in [Vpses -> VpsRow]
      /\ vpsOf \in [Agents -> Vpses \cup {None}]
      /\ LocalsOK(p) /\ RowsInHand(p) /\ h[p].pc = "assign_vps"
      /\ R \in Vpses /\ A \in Agents
      /\ UNCHANGED <<agents, vps, vm, lost, dark, aborts>>
  BY DEF IInv, TypeInv, TypeOK, AssignVps, LocalsOK
<1>1. /\ vps[R].name = A /\ \A b \in Agents : vpsOf[b] # R
      /\ \A q \in Procs \ {p} : Building(q) => h[q].vps # R
  BY <1>0 DEF IInv, AssignsFresh, BuildsAlone, Building
<1>2. UniqueOK(A, R)
  BY <1>1 DEF UniqueOK
<1>3. /\ vpsOf' = IF A \in agents THEN [vpsOf EXCEPT ![A] = R] ELSE vpsOf
      /\ h' = [h EXCEPT ![p].agent = None, ![p].pc = "create_vm"]
  BY <1>2 DEF AssignVps
<1>4. Becomes(p, h[p].op, "create_vm", None, R, h[p].vm, h[p].todo, h[p].holders)
  BY <1>0, <1>3, WithoutAgentDoes DEF Label
<1>5. /\ vpsOf' \in [Agents -> Vpses \cup {None}]
      /\ \A b \in Agents : vpsOf'[b] = vpsOf[b] \/ (b = A /\ A \in agents /\ vpsOf'[b] = R)
  BY <1>0, <1>3
<1> HIDE DEF R, A
<1> USE DEF Becomes
<1>11. TypeInv'
  <2>1. LocalsOK(p)'
    BY <1>0, <1>4 DEF LocalsOK
  <2> QED
    BY <1>0, <1>4, <1>5, <2>1 DEF IInv, TypeInv, TypeOK, LocalsOK
<1>12. ASSUME NEW q \in Procs PROVE RowsInHand(q)'
  BY <1>0, <1>4 DEF RowsInHand, IInv, R
<1>13. RowNamed' /\ PoweredRowHasVm' /\ VmOfOneRow' /\ RowVmUsed'
  BY <1>0 DEF IInv, RowNamed, PoweredRowHasVm, VmOfOneRow, RowVmUsed
<1>14. AttachedByName'
  BY <1>0, <1>1, <1>5 DEF IInv, AttachedByName
<1>15. PowerHasVm'
  BY <1>0, <1>4 DEF IInv, PowerHasVm
<1>16. BuildsAlone'
  BY <1>0, <1>4 DEF IInv, BuildsAlone, Building, R
<1>17. AssignsFresh'
  BY <1>0, <1>1, <1>4, <1>5 DEF IInv, AssignsFresh, Building
<1>18. VmInHand'
  BY <1>0, <1>4 DEF IInv, VmInHand
<1>19. LiveVmKnown'
  BY <1>0, <1>4 DEF IInv, LiveVmKnown, LiveVm
<1> QED
  BY <1>11, <1>12, <1>13, <1>14, <1>15, <1>16, <1>17, <1>18, <1>19 DEF IInv

\* Agent::assign_vps with None, and Agent::delete: an agent loses its VPS.
LEMMA ReleaseKeepsIInv ==
  ASSUME IInv, NEW p \in Procs, Unassign(p) \/ DeleteAgentRow(p)
  PROVE  IInv'
<1> USE ConstantsOK DEF Holds
<1>0. /\ h \in [Procs -> Handler] /\ vpsOf \in [Agents -> Vpses \cup {None}]
      /\ agents \in SUBSET Agents /\ LocalsOK(p) /\ RowsInHand(p)
      /\ h[p].pc \in {"unassign", "delete_agent"}
      /\ UNCHANGED <<vps, vm, lost, dark, aborts>>
  BY DEF IInv, TypeInv, TypeOK, Unassign, DeleteAgentRow
<1>1. PICK a :
        /\ vpsOf' = [vpsOf EXCEPT ![a] = None]
        /\ agents' = agents \/ agents' = agents \ {a}
  BY DEF Unassign, DeleteAgentRow
<1>2. /\ vpsOf' \in [Agents -> Vpses \cup {None}]
      /\ agents' \in SUBSET Agents
      /\ \A b \in Agents : vpsOf'[b] # None => vpsOf'[b] = vpsOf[b] /\ b # a
  BY <1>0, <1>1
<1>3. /\ h' \in [Procs -> Handler]
      /\ \A q \in Procs \ {p} : h'[q] = h[q]
      /\ h'[p].pc \in {"idle", "unassign"}
      /\ h'[p].vps \in {h[p].vps, None} /\ h'[p].todo \subseteq h[p].todo
  <2>1. CASE Unassign(p)
    <3>1. PICK b \in h[p].holders : h' = [h EXCEPT ![p].holders = @ \ {b}]
      BY <2>1 DEF Unassign
    <3>2. Becomes(p, h[p].op, h[p].pc, h[p].agent, h[p].vps, h[p].vm, h[p].todo,
                  h[p].holders \ {b})
      BY <1>0, <3>1, FewerHoldersDoes
    <3>3. h[p].pc = "unassign"
      BY <2>1 DEF Unassign
    <3> QED
      BY <3>2, <3>3 DEF Becomes
  <2>2. CASE DeleteAgentRow(p)
    BY <1>0, <2>2, ReturnDoes DEF DeleteAgentRow, Becomes
  <2> QED
    BY <2>1, <2>2
<1>11. TypeInv'
  <2>1. LocalsOK(p)'
    BY <1>3 DEF LocalsOK
  <2> QED
    BY <1>0, <1>2, <1>3, <2>1 DEF IInv, TypeInv, TypeOK, LocalsOK
<1>12. ASSUME NEW q \in Procs PROVE RowsInHand(q)'
  BY <1>0, <1>3 DEF RowsInHand, IInv
<1>13. RowNamed' /\ PoweredRowHasVm' /\ VmOfOneRow' /\ RowVmUsed'
  BY <1>0 DEF IInv, RowNamed, PoweredRowHasVm, VmOfOneRow, RowVmUsed
<1>14. AttachedByName'
  BY <1>0, <1>1, <1>2 DEF IInv, AttachedByName
<1>15. PowerHasVm'
  BY <1>0, <1>3 DEF IInv, PowerHasVm
<1>16. BuildsAlone'
  BY <1>0, <1>3 DEF IInv, BuildsAlone, Building
<1>17. AssignsFresh'
  <2>1. \A q \in Procs : h[q].pc = "assign_vps" => h[q].vps # None
    BY DEF IInv, TypeInv, LocalsOK
  <2> QED
    BY <1>0, <1>2, <1>3, <2>1 DEF IInv, AssignsFresh
<1>18. VmInHand'
  BY <1>0, <1>3 DEF IInv, VmInHand
<1>19. LiveVmKnown'
  BY <1>0, <1>3 DEF IInv, LiveVmKnown, LiveVm
<1> QED
  BY <1>11, <1>12, <1>13, <1>14, <1>15, <1>16, <1>17, <1>18, <1>19 DEF IInv

-----------------------------------------------------------------------------
(* The theorems *)

\* The invariant holds at the start.
LEMMA InitIInv == Init => IInv
<1> SUFFICES ASSUME Init PROVE IInv
  OBVIOUS
<1>1. \A p \in Procs : h[p] = Idle
  BY DEF Init
<1>2. Idle \in Handler
  BY DEF Idle, Handler
<1>3. TypeInv
  <2>1. NoRow \in VpsRow
    BY DEF NoRow, VpsRow
  <2>2. h \in [Procs -> Handler] /\ vps \in [Vpses -> VpsRow]
    BY <1>2, <2>1 DEF Init
  <2>3. TypeOK
    BY <2>2, ConstantsOK DEF Init, TypeOK
  <2>4. \A p \in Procs : LocalsOK(p)
    BY <1>1 DEF LocalsOK, Idle
  <2> QED
    BY <2>3, <2>4 DEF TypeInv
<1>4. \A p \in Procs : RowsInHand(p)
  BY <1>1 DEF RowsInHand, Idle
<1>5. RowNamed /\ RowVmUsed /\ PoweredRowHasVm /\ AttachedByName /\ VmOfOneRow
  BY ConstantsOK DEF Init, NoRow, RowNamed, RowVmUsed, PoweredRowHasVm, AttachedByName, VmOfOneRow
<1>6. PowerHasVm /\ BuildsAlone /\ AssignsFresh /\ VmInHand
  BY <1>1 DEF Idle, PowerHasVm, BuildsAlone, AssignsFresh, VmInHand, Building
<1>7. LiveVmKnown
  BY DEF Init, LiveVmKnown, LiveVm
<1> QED
  BY <1>3, <1>4, <1>5, <1>6, <1>7 DEF IInv

\* Every step of the system keeps the invariant.
LEMMA StepIInv == IInv /\ [Next]_vars => IInv'
<1> SUFFICES ASSUME IInv, [Next]_vars PROVE IInv'
  OBVIOUS
<1>1. CASE UNCHANGED vars
  BY <1>1 DEF vars, IInv, TypeInv, TypeOK, LocalsOK, RowsInHand, RowNamed, RowVmUsed,
      PowerHasVm, PoweredRowHasVm, BuildsAlone, Building, AssignsFresh, VmInHand,
      AttachedByName, VmOfOneRow, LiveVmKnown, LiveVm, Holds
<1>2. ASSUME NEW p \in Procs, Request(p) PROVE IInv'
  BY <1>2, RequestKeepsIInv
<1>3. ASSUME NEW p \in Procs, Step(p) PROVE IInv'
  BY <1>3, ReadKeepsIInv, PowerKeepsIInv, CreateVmKeepsIInv, CreateVmFailsKeepsIInv,
     StatesKeepIInv, InsertVpsKeepsIInv, UpdateRefsKeepsIInv, AssignVpsKeepsIInv,
     ReleaseKeepsIInv, RestartKeepsIInv DEF Step
<1>4. ASSUME NEW p \in Procs, Abort(p) \/ LookupFails(p) \/ MonitorWriteFails(p) PROVE IInv'
  BY <1>4, FailureKeepsIInv
<1> QED
  BY <1>1, <1>2, <1>3, <1>4 DEF Next

\* The inductive invariant holds throughout, for any number of agents, rows, VMs
\* and handlers in flight, and however many handlers are dropped.
THEOREM Inductive == Spec => []IInv
  BY InitIInv, StepIInv, PTL DEF Spec

\* The tables, the VMs at the provider and the locals of every handler keep
\* their types.
THEOREM TypeCorrect == Spec => []TypeOK
<1>1. IInv => TypeOK
  BY DEF IInv, TypeInv
<1> QED
  BY <1>1, Inductive, PTL

\* The UNIQUE constraint on agents.vps_id never makes provision_vps fail, and a
\* VPS is attached to the agent it was inserted for or to nobody.
THEOREM AttachmentHolds == Spec => []Attachment
<1>1. IInv => Attachment
  <2> SUFFICES ASSUME IInv PROVE Attachment
    OBVIOUS
  <2>1. ASSUME NEW p \in Procs, h[p].pc = "assign_vps" PROVE UniqueOK(h[p].agent, h[p].vps)
    BY <2>1 DEF IInv, AssignsFresh, UniqueOK
  <2> QED
    BY <2>1 DEF IInv, AttachedByName, Attachment, Holds
<1> QED
  BY <1>1, Inductive, PTL

\* A row that is running or stopped has its VM's id: start_vps and stop_vps never
\* answer "VPS has no provider VM ID".
THEOREM PoweredRowHasVmHolds == Spec => []PoweredRowHasVm
<1>1. IInv => PoweredRowHasVm
  BY DEF IInv
<1> QED
  BY <1>1, Inductive, PTL

\* Every VM that exists is in a row, in the hands of the handler that created it,
\* or was lost with that handler or with the provider's answer.
THEOREM LiveVmKnownHolds == Spec => []LiveVmKnown
<1>1. IInv => LiveVmKnown
  BY DEF IInv
<1> QED
  BY <1>1, Inductive, PTL

\* No two rows name the same VM, so stopping or destroying one VPS never hits
\* another.
THEOREM VmOfOneRowHolds == Spec => []VmOfOneRow
<1>1. IInv => VmOfOneRow
  BY DEF IInv
<1> QED
  BY <1>1, Inductive, PTL

-----------------------------------------------------------------------------
(* What a step may never do *)

\* The steps that write a row.
LEMMA RowWriters ==
  ASSUME [Next]_vars
  PROVE  \/ UNCHANGED vps
         \/ \E p \in Procs : \/ InsertVps(p) \/ UpdateProviderRefs(p)
                             \/ SetRunning(p) \/ SetStopped(p) \/ SetDestroyed(p)
<1>1. ASSUME NEW p \in Procs, Request(p) PROVE UNCHANGED vps
  BY <1>1 DEF Request, CleanupStuck, EnforceLimits, ProvisionVps, DeleteAgent, UserOp, AdminOp
<1>2. ASSUME NEW p \in Procs, Step(p)
      PROVE  \/ UNCHANGED vps
             \/ InsertVps(p) \/ UpdateProviderRefs(p)
             \/ SetRunning(p) \/ SetStopped(p) \/ SetDestroyed(p)
  BY <1>2 DEF Step, CountVpses, AssignVps, CreateVm, CreateVmFails, LoadForStart,
     LoadForStop, LoadForDestroy, StartVm, StopVm, PowerCallFails, LoadForRestart,
     RestartStopVm, RestartStartVm, RestartStartFails, DestroyVm,
     DestroyVmFails, ListAgents, Unassign, UnassignDone, DeleteAgentRow, NextVps, LoopDone
<1>3. ASSUME NEW p \in Procs, Abort(p) \/ LookupFails(p) \/ MonitorWriteFails(p)
      PROVE  UNCHANGED vps
  BY <1>3 DEF Abort, LookupFails, MonitorWriteFails
<1> QED
  BY <1>1, <1>2, <1>3 DEF Next, vars

\* No statement replaces or clears the id of a VM that a row has.
THEOREM VmIdKeptHolds == Spec => VmIdKept
<1>1. ASSUME IInv, [Next]_vars, NEW r \in Vpses, vps[r].vm # None
      PROVE  vps'[r].vm = vps[r].vm
  <2>1. vps \in [Vpses -> VpsRow]
    BY <1>1 DEF IInv, TypeInv, TypeOK
  <2>2. CASE \E p \in Procs : InsertVps(p)
    BY <1>1, <2>1, <2>2 DEF InsertVps, NoRow
  <2>3. CASE \E p \in Procs : UpdateProviderRefs(p)
    BY <1>1, <2>1, <2>3, UpdateRefsKeepsIInv DEF UpdateProviderRefs
  <2>4. CASE \E p \in Procs : SetRunning(p) \/ SetStopped(p) \/ SetDestroyed(p)
    BY <2>1, <2>4 DEF SetRunning, SetStopped, SetDestroyed, VpsRow
  <2> QED
    BY <1>1, <2>2, <2>3, <2>4, RowWriters
<1>2. IInv /\ [Next]_vars =>
        [\A r \in Vpses : vps[r].vm # None => vps'[r].vm = vps[r].vm]_vars
  BY <1>1
<1> QED
  BY <1>2, Inductive, PTL DEF Spec, VmIdKept

\* A settled row stays settled when the step leaves it destroyed and the handler
\* that moved has not got it in hand to bring it back.
LEMMA NotRevived ==
  ASSUME NEW r \in Vpses, Settled(r), vps'[r].state = "destroyed",
         NEW p \in Procs, NEW o, NEW l, NEW a, NEW x, NEW v, NEW t, NEW k,
         Becomes(p, o, l, a, x, v, t, k),
         x = r => l \notin {"assign_vps", "create_vm", "update_refs", "set_running",
                            "start_vm", "stop_vm", "set_stopped"},
         o = "monitor" => \A s \in t : s.vps # r
  PROVE  Settled(r)'
  BY DEF Settled, CanRevive, Becomes

\* No request can bring back a row that is destroyed and that no earlier handler
\* has in hand.
LEMMA SettledKept ==
  ASSUME IInv, NEW r \in Vpses, Settled(r), [Next]_vars
  PROVE  Settled(r)'
<1> USE ConstantsOK DEF Holds, At
<1>0. /\ h \in [Procs -> Handler] /\ vps \in [Vpses -> VpsRow]
      /\ \A p \in Procs : LocalsOK(p)
      /\ \A p \in Procs : ~CanRevive(p, r)
      /\ vps[r].state = "destroyed"
  BY DEF IInv, TypeInv, TypeOK, Settled
<1>1. vps'[r].state = "destroyed"
  <2>1. CASE \E p \in Procs : InsertVps(p)
    BY <1>0, <2>1 DEF InsertVps, NoRow
  <2>2. CASE \E p \in Procs : UpdateProviderRefs(p)
    BY <1>0, <2>2 DEF UpdateProviderRefs, VpsRow
  <2>3. CASE \E p \in Procs : SetRunning(p) \/ SetStopped(p)
    <3>1. PICK p \in Procs : SetRunning(p) \/ SetStopped(p)
      BY <2>3
    <3>2. h[p].vps # r
      BY <1>0, <3>1 DEF SetRunning, SetStopped, CanRevive
    <3> QED
      BY <1>0, <3>1, <3>2 DEF SetRunning, SetStopped
  <2>4. CASE \E p \in Procs : SetDestroyed(p)
    BY <1>0, <2>4 DEF SetDestroyed, VpsRow
  <2> QED
    BY <1>0, <2>1, <2>2, <2>3, <2>4, RowWriters
<1>2. ASSUME NEW p \in Procs, Return(p) PROVE Settled(r)'
  BY <1>0, <1>1, <1>2, ReturnDoes, NotRevived
<1>3. ASSUME NEW p \in Procs,
             NEW l \in {"insert_vps", "delete_agent", "next_vps", "restart_start"}, GoTo(p, l)
      PROVE  Settled(r)'
  <2>1. Becomes(p, h[p].op, l, h[p].agent, h[p].vps, h[p].vm, h[p].todo, h[p].holders)
    BY <1>0, <1>3, GoToDoes DEF Label
  <2>2. h[p].op = "monitor" => \A s \in h[p].todo : s.vps # r
    BY <1>0 DEF CanRevive
  <2> QED
    BY <1>1, <2>1, <2>2, NotRevived
<1>4. ASSUME NEW p \in Procs, NEW v \in VMs \cup {None}, NEW l \in Label, WithVm(p, v, l),
             l \in {"restart_stop", "destroy_vm", "set_destroyed"} \/ h[p].vps # r
      PROVE  Settled(r)'
  <2>1. Becomes(p, h[p].op, l, h[p].agent, h[p].vps, v, h[p].todo, h[p].holders)
    BY <1>0, <1>4, WithVmDoes
  <2>2. h[p].op = "monitor" => \A s \in h[p].todo : s.vps # r
    BY <1>0 DEF CanRevive
  <2> QED
    BY <1>1, <1>4, <2>1, <2>2, NotRevived
<1>5. ASSUME NEW p \in Procs, NEW o \in Op, NEW l \in {"count_vpses", "load", "delete_agent", "next_vps"},
             NEW a \in Agents \cup {None}, NEW x \in Vpses \cup {None}, NEW t \in SUBSET Snapshot,
             Enter(p, o, l, a, x, t), \A s \in t : o = "monitor" => s.vps # r
      PROVE  Settled(r)'
  <2>1. Becomes(p, o, l, a, x, None, t, {})
    BY <1>0, <1>5, EnterDoes DEF Label
  <2> QED
    BY <1>1, <1>5, <2>1, NotRevived
<1>6. CASE UNCHANGED vars
  BY <1>6 DEF vars, Settled, CanRevive
<1>7. ASSUME NEW p \in Procs, Request(p) PROVE Settled(r)'
  <2>1. vpsOf \in [Agents -> Vpses \cup {None}]
    BY DEF IInv, TypeInv, TypeOK
  <2>2. CASE CleanupStuck(p)
    BY <1>5, <2>2, RowsInAreSnapshots DEF CleanupStuck, IInv, TypeInv, Op, VpsState
  <2>3. CASE EnforceLimits(p)
    <3>1. PICK over \in SUBSET Users :
            Enter(p, "monitor", "next_vps", None, None,
                  {s \in RowsIn("running") : Owner[vps[s.vps].name] \in over})
      BY <2>3 DEF EnforceLimits
    <3>2. RowsIn("running") \in SUBSET Snapshot /\ \A s \in RowsIn("running") : s.vps # r
      BY <1>0, RowsInAreSnapshots DEF IInv, TypeInv, VpsState
    <3> QED
      BY <1>5, <3>1, <3>2 DEF Op
  <2>4. ASSUME NEW ag \in Agents, ProvisionVps(p, ag) PROVE Settled(r)'
    BY <1>5, <2>4 DEF ProvisionVps, Op
  <2>5. ASSUME NEW ag \in Agents, DeleteAgent(p, ag) PROVE Settled(r)'
    BY <1>5, <2>1, <2>5 DEF DeleteAgent, Op
  <2>6. ASSUME NEW ag \in Agents, NEW op \in {"start", "stop", "restart", "destroy"},
             UserOp(p, op, ag)
        PROVE  Settled(r)'
    BY <1>5, <2>1, <2>6 DEF UserOp, Op
  <2>7. ASSUME NEW rw \in Vpses, NEW op \in {"stop", "admin_destroy"}, AdminOp(p, op, rw)
        PROVE  Settled(r)'
    BY <1>5, <2>7 DEF AdminOp, Op
  <2> QED
    BY <1>7, <2>2, <2>3, <2>4, <2>5, <2>6, <2>7 DEF Request
<1>8. ASSUME NEW p \in Procs, Step(p) PROVE Settled(r)'
  <2>0. LocalsOK(p) /\ ~CanRevive(p, r)
    BY <1>0
  <2>1. CASE CountVpses(p) \/ PowerCallFails(p) \/ UnassignDone(p) \/ LoopDone(p)
             \/ SetStopped(p) \/ SetRunning(p) \/ CreateVmFails(p) \/ DeleteAgentRow(p)
             \/ RestartStopVm(p) \/ RestartStartVm(p) \/ RestartStartFails(p)
    BY <1>2, <1>3, <2>1 DEF CountVpses, PowerCallFails, UnassignDone, LoopDone, SetStopped,
       SetRunning, CreateVmFails, DeleteAgentRow, RestartStopVm, RestartStartVm, RestartStartFails
  <2>2. CASE InsertVps(p)
    <3>1. PICK x \in Vpses : vps[x] = NoRow /\ h' = [h EXCEPT ![p].vps = x, ![p].pc = "assign_vps"]
      BY <2>2 DEF InsertVps
    <3>2. Becomes(p, h[p].op, "assign_vps", h[p].agent, x, h[p].vm, h[p].todo, h[p].holders)
      BY <1>0, <3>1, WithVpsDoes DEF Label
    <3>3. x # r /\ h[p].op = "provision"
      BY <1>0, <2>0, <2>2, <3>1 DEF NoRow, InsertVps, LocalsOK
    <3> QED
      BY <1>1, <3>2, <3>3, NotRevived
  <2>3. CASE AssignVps(p)
    <3>1. h[p].vps # r /\ h[p].op = "provision"
      BY <2>0, <2>3 DEF AssignVps, CanRevive, LocalsOK
    <3>2. CASE h' = [h EXCEPT ![p].agent = None, ![p].pc = "create_vm"]
      <4>1. Becomes(p, h[p].op, "create_vm", None, h[p].vps, h[p].vm, h[p].todo, h[p].holders)
        BY <1>0, <3>2, WithoutAgentDoes DEF Label
      <4> QED
        BY <1>1, <3>1, <4>1, NotRevived
    <3> QED
      BY <1>2, <2>3, <3>2 DEF AssignVps
  <2>4. CASE CreateVm(p) \/ UpdateProviderRefs(p) \/ StartVm(p) \/ StopVm(p)
    <3>1. h[p].vps # r
      BY <2>0, <2>4 DEF CreateVm, UpdateProviderRefs, StartVm, StopVm, CanRevive
    <3> QED
      BY <1>4, <2>4, <3>1 DEF CreateVm, UpdateProviderRefs, StartVm, StopVm, DoneWithVm, Label
  <2>5. CASE LoadForStart(p) \/ LoadForStop(p)
    <3>1. h[p].vps \in Vpses /\ vps[h[p].vps].vm \in VMs \cup {None}
      BY <1>0, <2>0, <2>5 DEF LoadForStart, LoadForStop, LocalsOK, VpsRow
    <3>2. CASE vps[h[p].vps].state \in {"stopped", "running"}
      <4>1. h[p].vps # r
        BY <1>0, <3>2
      <4> QED
        BY <1>2, <1>4, <2>5, <3>1, <4>1 DEF LoadForStart, LoadForStop, Label
    <3>3. CASE vps[h[p].vps].state \notin {"stopped", "running"}
      BY <1>2, <2>5, <3>3 DEF LoadForStart, LoadForStop
    <3> QED
      BY <3>2, <3>3
  <2>6. CASE LoadForDestroy(p) \/ LoadForRestart(p)
    <3>1. h[p].vps \in Vpses /\ vps[h[p].vps].vm \in VMs \cup {None}
      BY <1>0, <2>0, <2>6 DEF LoadForDestroy, LoadForRestart, LocalsOK, VpsRow
    <3> QED
      BY <1>2, <1>3, <1>4, <2>6, <3>1 DEF LoadForDestroy, LoadForRestart, Label
  <2>7. CASE DestroyVm(p) \/ DestroyVmFails(p)
    BY <1>4, <2>7 DEF DestroyVm, DestroyVmFails, DoneWithVm, Label
  <2>8. CASE SetDestroyed(p) \/ ListAgents(p)
    <3>1. PICK l \in {"unassign", "delete_agent", "list_agents"}, k \in SUBSET Agents :
            h' = [h EXCEPT ![p].holders = k, ![p].pc = l]
      <4>1. CASE SetDestroyed(p)
        <5>1. AfterDestroyed(h[p].op) \in {"unassign", "delete_agent", "list_agents"}
          BY DEF AfterDestroyed
        <5>2. (IF h[p].op = "destroy" THEN {h[p].agent} ELSE {}) \in SUBSET Agents
          BY <2>0, <4>1 DEF SetDestroyed, LocalsOK
        <5> QED
          BY <4>1, <5>1, <5>2 DEF SetDestroyed
      <4>2. CASE ListAgents(p)
        <5>1. \A u : AgentsOf(u) \subseteq Agents
          BY DEF AgentsOf, IInv, TypeInv, TypeOK
        <5> QED
          BY <4>2, <5>1 DEF ListAgents
      <4> QED
        BY <2>8, <4>1, <4>2
    <3>2. Becomes(p, h[p].op, l, h[p].agent, h[p].vps, h[p].vm, h[p].todo, k)
      <4>1. l \in Label
        BY DEF Label
      <4> QED
        BY <1>0, <3>1, <4>1, WithHoldersDoes
    <3>3. h[p].op = "monitor" => \A s \in h[p].todo : s.vps # r
      BY <2>0 DEF CanRevive
    <3> QED
      BY <1>1, <3>2, <3>3, NotRevived
  <2>9. CASE Unassign(p)
    <3>1. PICK b \in h[p].holders : h' = [h EXCEPT ![p].holders = @ \ {b}]
      BY <2>9 DEF Unassign
    <3>2. Becomes(p, h[p].op, h[p].pc, h[p].agent, h[p].vps, h[p].vm, h[p].todo,
                  h[p].holders \ {b})
      BY <1>0, <3>1, FewerHoldersDoes
    <3>3. h[p].pc = "unassign" /\ (h[p].op = "monitor" => \A s \in h[p].todo : s.vps # r)
      BY <2>0, <2>9 DEF Unassign, CanRevive
    <3> QED
      BY <1>1, <3>2, <3>3, NotRevived
  <2>10. CASE NextVps(p)
    <3> DEFINE next(s) == IF h[p].op = "monitor"
                            THEN IF s.vm # None THEN "stop_vm" ELSE "next_vps"
                            ELSE IF s.vm # None THEN "destroy_vm" ELSE "set_destroyed"
    <3>1. PICK s \in h[p].todo :
            h' = [h EXCEPT ![p] = [Idle EXCEPT !.op = h[p].op, !.pc = next(s), !.vps = s.vps,
                                               !.vm = s.vm, !.todo = h[p].todo \ {s}]]
      BY <2>10 DEF NextVps
    <3>2. next(s) \in Label
      BY DEF Label
    <3>3. Becomes(p, h[p].op, next(s), None, s.vps, s.vm, h[p].todo \ {s}, {})
      BY <1>0, <3>1, <3>2, TakeVpsDoes
    <3>4. h[p].op = "monitor" => \A q \in h[p].todo : q.vps # r
      BY <2>0 DEF CanRevive
    <3>5. next(s) \in {"stop_vm", "next_vps", "destroy_vm", "set_destroyed"}
          /\ (next(s) = "stop_vm" => h[p].op = "monitor")
      OBVIOUS
    <3> HIDE DEF next
    <3> QED
      BY <1>1, <3>3, <3>4, <3>5, NotRevived
  <2> QED
    BY <1>8, <2>1, <2>2, <2>3, <2>4, <2>5, <2>6, <2>7, <2>8, <2>9, <2>10 DEF Step
<1>9. ASSUME NEW p \in Procs, Abort(p) \/ LookupFails(p) \/ MonitorWriteFails(p)
      PROVE  Settled(r)'
  BY <1>2, <1>3, <1>9 DEF Abort, LookupFails, MonitorWriteFails
<1> QED
  BY <1>6, <1>7, <1>8, <1>9 DEF Next

\* Once a row is destroyed and the handlers that had it in hand before are gone,
\* nothing brings it back, although set_state checks nothing.
THEOREM SettledStaysDestroyedHolds == Spec => SettledStaysDestroyed
<1>1. IInv /\ [Next]_vars => [\A r \in Vpses : Settled(r) => Settled(r)']_vars
  BY SettledKept
<1> QED
  BY <1>1, Inductive, PTL DEF Spec, SettledStaysDestroyed

-----------------------------------------------------------------------------
(* The rows implement the lease *)

\* A step of handler p that has nothing to do with "assign_vps".
Elsewhere(p) ==
  /\ h[p].pc # "assign_vps" /\ h'[p].pc # "assign_vps"
  /\ \A q \in Procs \ {p} : h'[q] = h[q]

\* Only three steps change who has a VPS, and one inserts it.
LEMMA OtherSteps ==
  ASSUME IInv, NEW p \in Procs,
         \/ Request(p) \/ LookupFails(p) \/ MonitorWriteFails(p)
         \/ Abort(p) /\ h[p].pc # "assign_vps"
         \/ Step(p) /\ ~(InsertVps(p) \/ AssignVps(p) \/ Unassign(p) \/ DeleteAgentRow(p))
  PROVE  Elsewhere(p) /\ UNCHANGED vpsOf
<1> USE DEF Elsewhere, Holds, At
<1>0. h \in [Procs -> Handler]
  BY DEF IInv, TypeInv, TypeOK
<1>1. ASSUME h[p].pc # "assign_vps", Return(p) PROVE Elsewhere(p)
  BY <1>0, <1>1 DEF Return, Idle
<1>2. ASSUME h[p].pc # "assign_vps", NEW l, l # "assign_vps", GoTo(p, l) PROVE Elsewhere(p)
  BY <1>0, <1>2 DEF GoTo, Handler
<1>3. ASSUME h[p].pc # "assign_vps", NEW l, l # "assign_vps", NEW v, WithVm(p, v, l)
      PROVE  Elsewhere(p)
  BY <1>0, <1>3 DEF WithVm, Handler
<1>4. ASSUME NEW o, NEW l, l # "assign_vps", NEW a, NEW r, NEW t, Enter(p, o, l, a, r, t)
      PROVE  Elsewhere(p)
  BY <1>0, <1>4 DEF Enter, Idle
<1>5. ASSUME h[p].pc # "assign_vps", NEW l, l # "assign_vps", NEW k,
             h' = [h EXCEPT ![p].holders = k, ![p].pc = l]
      PROVE  Elsewhere(p)
  BY <1>0, <1>5 DEF Handler
<1>6. CASE Request(p)
  BY <1>4, <1>6 DEF Request, CleanupStuck, EnforceLimits, ProvisionVps, DeleteAgent,
     UserOp, AdminOp
<1>7. CASE LookupFails(p) \/ MonitorWriteFails(p) \/ (Abort(p) /\ h[p].pc # "assign_vps")
  BY <1>1, <1>2, <1>7 DEF LookupFails, MonitorWriteFails, Abort
<1>8. CASE CountVpses(p) \/ LoadForStart(p) \/ LoadForStop(p) \/ LoadForDestroy(p)
           \/ PowerCallFails(p) \/ UnassignDone(p) \/ LoopDone(p) \/ LoadForRestart(p)
           \/ RestartStopVm(p) \/ RestartStartVm(p) \/ RestartStartFails(p)
  BY <1>1, <1>2, <1>3, <1>8 DEF CountVpses, LoadForStart, LoadForStop, LoadForDestroy,
     PowerCallFails, UnassignDone, LoopDone, LoadForRestart, RestartStopVm, RestartStartVm,
     RestartStartFails
<1>9. CASE CreateVm(p) \/ CreateVmFails(p) \/ UpdateProviderRefs(p) \/ StartVm(p) \/ StopVm(p)
           \/ DestroyVm(p) \/ DestroyVmFails(p) \/ SetRunning(p) \/ SetStopped(p)
  BY <1>1, <1>2, <1>3, <1>9 DEF CreateVm, CreateVmFails, UpdateProviderRefs, StartVm, StopVm,
     DestroyVm, DestroyVmFails, DoneWithVm, SetRunning, SetStopped
<1>10. CASE SetDestroyed(p)
  <2>1. AfterDestroyed(h[p].op) # "assign_vps"
    BY DEF AfterDestroyed
  <2> QED
    BY <1>5, <1>10, <2>1 DEF SetDestroyed
<1>11. CASE ListAgents(p)
  BY <1>5, <1>11 DEF ListAgents
<1>12. CASE NextVps(p)
  BY <1>0, <1>12 DEF NextVps, Idle
<1>13. CASE Step(p) /\ ~(InsertVps(p) \/ AssignVps(p) \/ Unassign(p) \/ DeleteAgentRow(p))
  BY <1>8, <1>9, <1>10, <1>11, <1>12, <1>13, Zenon DEF Step
<1> QED
  BY <1>6, <1>7, <1>13

\* Is a handler about to assign row r?
Awaits(r) == \E p \in Procs : h[p].pc = "assign_vps" /\ h[p].vps = r

\* What LeaseOf(r) says, case by case.
LEMMA LeaseCases ==
  ASSUME NEW r \in Vpses
  PROVE  /\ LeaseOf(r) = "free" <=> vps[r] = NoRow
         /\ LeaseOf(r) = "held" <=> vps[r] # NoRow /\ vpsOf[vps[r].name] = r
         /\ LeaseOf(r) = "issued" <=>
              vps[r] # NoRow /\ vpsOf[vps[r].name] # r /\ Awaits(r)
         /\ LeaseOf(r) = "released" <=>
              vps[r] # NoRow /\ vpsOf[vps[r].name] # r /\ ~Awaits(r)
  BY DEF LeaseOf, Awaits, Holds

\* A row is inserted once, under one name.
LEMMA RowsKeepNames ==
  ASSUME IInv, [Next]_vars, NEW r \in Vpses,
         \A p \in Procs : InsertVps(p) => vps[r] # NoRow
  PROVE  vps'[r].name = vps[r].name /\ (vps'[r] = NoRow <=> vps[r] = NoRow)
<1>0. /\ vps \in [Vpses -> VpsRow]
      /\ \A p \in Procs : LocalsOK(p) /\ RowsInHand(p)
      /\ RowNamed
  BY DEF IInv, TypeInv, TypeOK
<1>1. CASE \E p \in Procs : InsertVps(p)
  BY <1>0, <1>1 DEF InsertVps
<1>2. CASE \E p \in Procs : \/ UpdateProviderRefs(p) \/ SetRunning(p) \/ SetStopped(p)
                            \/ SetDestroyed(p)
  <2>1. PICK p \in Procs : \/ UpdateProviderRefs(p) \/ SetRunning(p) \/ SetStopped(p)
                           \/ SetDestroyed(p)
    BY <1>2
  <2>2. h[p].vps \in Vpses /\ vps[h[p].vps].state # "absent"
    BY <1>0, <2>1, ConstantsOK
       DEF LocalsOK, RowsInHand, UpdateProviderRefs, SetRunning, SetStopped, SetDestroyed, Holds
  <2>3. /\ vps'[r].name = vps[r].name
        /\ vps'[r] = vps[r] \/ (r = h[p].vps /\ vps'[r].state # "absent")
    BY <1>0, <2>1, <2>2
       DEF UpdateProviderRefs, SetRunning, SetStopped, SetDestroyed, VpsRow
  <2> QED
    BY <2>2, <2>3 DEF NoRow
<1> QED
  BY <1>1, <1>2, RowWriters

\* Rows and attachments as they were: so is the lease.
LEMMA LeaseSame ==
  ASSUME IInv, IInv', UNCHANGED vpsOf, NEW r \in Vpses,
         vps'[r].name = vps[r].name, vps'[r] = NoRow <=> vps[r] = NoRow,
         Awaits(r)' <=> Awaits(r)
  PROVE  LeaseOf(r)' = LeaseOf(r)
  BY DEF LeaseOf, Awaits, Holds

\* Vps::insert issues the new row for the agent.
LEMMA InsertIssues ==
  ASSUME IInv, IInv', NEW p \in Procs, InsertVps(p)
  PROVE  Lease!LeaseNext
<1> USE ConstantsOK DEF Holds
<1>0. /\ h \in [Procs -> Handler] /\ vps \in [Vpses -> VpsRow] /\ h[p].agent \in Agents
      /\ h[p].pc = "insert_vps" /\ UNCHANGED vpsOf /\ vpsOf \in [Agents -> Vpses \cup {None}]
  BY DEF IInv, TypeInv, TypeOK, InsertVps, LocalsOK
<1>1. PICK r \in Vpses :
        /\ vps[r] = NoRow
        /\ vps' = [vps EXCEPT ![r] = [state |-> "provisioning", vm |-> None, name |-> h[p].agent]]
        /\ h' = [h EXCEPT ![p].vps = r, ![p].pc = "assign_vps"]
  BY DEF InsertVps
<1>2. Becomes(p, h[p].op, "assign_vps", h[p].agent, r, h[p].vm, h[p].todo, h[p].holders)
  BY <1>0, <1>1, WithVpsDoes DEF Label
<1>3. /\ vps'[r].name = h[p].agent /\ vps'[r] # NoRow
      /\ \A x \in Vpses \ {r} : vps'[x] = vps[x]
  BY <1>0, <1>1 DEF NoRow
<1>4. \A a \in Agents : vpsOf[a] # r
  BY <1>1 DEF NoRow, IInv, AttachedByName
<1>5. LeaseOf(r) = "free" /\ LeaseOf(r)' = "issued"
  BY <1>0, <1>1, <1>2, <1>3, <1>4 DEF LeaseOf, Becomes
<1>6. ASSUME NEW x \in Vpses \ {r} PROVE LeaseOf(x)' = LeaseOf(x)
  <2>1. Awaits(x)' <=> Awaits(x)
    BY <1>0, <1>2 DEF Awaits, Becomes
  <2> QED
    BY <1>0, <1>3, <2>1, LeaseSame
<1>7. PICK a \in Agents : a = h[p].agent
  BY <1>0
<1>8. Lease!Issue(r, a)
  BY <1>0, <1>3, <1>5, <1>6, <1>7 DEF Lease!Issue
<1> QED
  BY <1>8 DEF Lease!LeaseNext

\* Agent::assign_vps gives the row to its agent, displacing the one it had; when
\* the agent was deleted meanwhile, the row is released.
LEMMA AssignHolds ==
  ASSUME IInv, IInv', NEW p \in Procs, AssignVps(p)
  PROVE  Lease!LeaseNext
<1> USE ConstantsOK DEF Holds
<1>10. h[p].vps \in Vpses /\ h[p].agent \in Agents
  BY DEF IInv, TypeInv, AssignVps, LocalsOK
<1>11. PICK R \in Vpses : R = h[p].vps
  BY <1>10
<1>12. PICK A \in Agents : A = h[p].agent
  BY <1>10
<1>0. /\ h \in [Procs -> Handler] /\ vps \in [Vpses -> VpsRow]
      /\ vpsOf \in [Agents -> Vpses \cup {None}]
      /\ h[p].pc = "assign_vps"
      /\ UNCHANGED <<agents, vps>>
  BY DEF IInv, TypeInv, TypeOK, AssignVps, LocalsOK
<1>1. /\ vps[R].name = A /\ \A b \in Agents : vpsOf[b] # R
      /\ \A q \in Procs \ {p} : h[q].pc = "assign_vps" => h[q].vps # R
      /\ \A q \in Procs : h[q].pc = "assign_vps" => \A b \in Agents : vpsOf[b] # h[q].vps
  BY <1>0, <1>11, <1>12 DEF IInv, AssignsFresh, BuildsAlone, Building
<1>2. UniqueOK(A, R)
  BY <1>1 DEF UniqueOK
<1>3. /\ vpsOf' = IF A \in agents THEN [vpsOf EXCEPT ![A] = R] ELSE vpsOf
      /\ h' = [h EXCEPT ![p].agent = None, ![p].pc = "create_vm"]
  BY <1>2, <1>11, <1>12 DEF AssignVps
<1>4. Becomes(p, h[p].op, "create_vm", None, R, h[p].vm, h[p].todo, h[p].holders)
  BY <1>0, <1>3, <1>11, WithoutAgentDoes DEF Label
<1>5. vps[R] # NoRow
  BY <1>0, <1>1 DEF NoRow
<1>6. /\ Awaits(R) /\ ~Awaits(R)'
      /\ \A x \in Vpses \ {R} : Awaits(x)' <=> Awaits(x)
  BY <1>0, <1>1, <1>4, <1>11 DEF Awaits, Becomes
<1>7. LeaseOf(R) = "issued"
  BY <1>0, <1>1, <1>5, <1>6, LeaseCases
<1>8. CASE A \notin agents
  <2>1. UNCHANGED vpsOf
    BY <1>3, <1>8
  <2>2. LeaseOf(R)' = "released"
    BY <1>0, <1>1, <1>5, <1>6, <2>1 DEF LeaseOf, Awaits
  <2>3. \A x \in Vpses \ {R} : LeaseOf(x)' = LeaseOf(x)
    BY <1>0, <1>6, <2>1, LeaseSame
  <2>4. Lease!Release(R)
    BY <1>0, <1>7, <2>2, <2>3 DEF Lease!Release
  <2> QED
    BY <2>4 DEF Lease!LeaseNext
<1>9. CASE A \in agents
  <2>1. /\ vpsOf'[A] = R /\ \A b \in Agents \ {A} : vpsOf'[b] = vpsOf[b]
    BY <1>0, <1>3, <1>9
  <2>2. LeaseOf(R)' = "held"
    BY <1>0, <1>1, <1>5, <2>1 DEF LeaseOf
  <2>3. ASSUME NEW x \in Vpses \ {R}
        PROVE  LeaseOf(x)' = IF LeaseOf(x) = "held" /\ vps[x].name = vps[R].name
                               THEN "released" ELSE LeaseOf(x)
    <3>1. vps[x] = NoRow \/ vps[x].name \in Agents
      BY DEF IInv, RowNamed
    <3>2. vpsOf[vps[x].name] = x /\ vps[x].name \in Agents => ~Awaits(x)
      BY <1>1 DEF Awaits
    <3>3. Awaits(x)' <=> Awaits(x)
      BY <1>6
    <3>4. CASE vps[x] # NoRow /\ vps[x].name = A
      BY <1>0, <1>1, <2>1, <3>1, <3>2, <3>3, <3>4 DEF LeaseOf, Awaits
    <3>5. CASE vps[x] # NoRow /\ vps[x].name # A
      BY <1>0, <1>1, <2>1, <3>1, <3>3, <3>5 DEF LeaseOf, Awaits
    <3>6. CASE vps[x] = NoRow
      BY <1>0, <3>6 DEF LeaseOf
    <3> QED
      BY <3>4, <3>5, <3>6
  <2>4. Lease!Hold(R)
    BY <1>0, <1>7, <2>2, <2>3 DEF Lease!Hold
  <2> QED
    BY <2>4 DEF Lease!LeaseNext
<1> QED
  BY <1>8, <1>9

\* A row that nobody awaits and that loses its agent is released.
LEMMA ReleaseReleases ==
  ASSUME IInv, IInv', NEW p \in Procs, Unassign(p) \/ DeleteAgentRow(p)
  PROVE  Lease!LeaseNext \/ UNCHANGED Lease!lvars
<1> USE ConstantsOK DEF Holds
<1>0. /\ h \in [Procs -> Handler] /\ vpsOf \in [Agents -> Vpses \cup {None}]
      /\ UNCHANGED vps
  BY DEF IInv, TypeInv, TypeOK, Unassign, DeleteAgentRow
<1>1. PICK a : vpsOf' = [vpsOf EXCEPT ![a] = None]
  BY DEF Unassign, DeleteAgentRow
<1>2. ASSUME NEW r \in Vpses PROVE Awaits(r)' <=> Awaits(r)
  <2>1. CASE Unassign(p)
    <3>1. PICK b \in h[p].holders : h' = [h EXCEPT ![p].holders = @ \ {b}]
      BY <2>1 DEF Unassign
    <3>2. Becomes(p, h[p].op, h[p].pc, h[p].agent, h[p].vps, h[p].vm, h[p].todo,
                  h[p].holders \ {b})
      BY <1>0, <3>1, FewerHoldersDoes
    <3> QED
      BY <3>2 DEF Awaits, Becomes
  <2>2. CASE DeleteAgentRow(p)
    <3>1. Becomes(p, "idle", "idle", None, None, None, {}, {}) /\ h[p].pc = "delete_agent"
      BY <1>0, <2>2, ReturnDoes DEF DeleteAgentRow
    <3> QED
      BY <3>1 DEF Awaits, Becomes
  <2> QED
    BY <2>1, <2>2
<1>3. ASSUME NEW r \in Vpses, a \notin Agents \/ vpsOf[a] # r
      PROVE  LeaseOf(r)' = LeaseOf(r)
  <2>1. vps[r] = NoRow \/ vps[r].name \in Agents
    BY DEF IInv, RowNamed
  <2>2. vps[r] # NoRow => (vpsOf'[vps[r].name] = r <=> vpsOf[vps[r].name] = r)
    BY <1>0, <1>1, <1>3, <2>1
  <2> QED
    BY <1>0, <1>2, <2>2 DEF LeaseOf, Awaits
<1>4. CASE a \in Agents /\ vpsOf[a] # None
  <2>1. PICK r \in Vpses : r = vpsOf[a]
    BY <1>0, <1>4
  <2>2. vps[r].name = a /\ vps[r] # NoRow /\ ~Awaits(r)
    BY <1>4, <2>1 DEF IInv, AttachedByName, NoRow, AssignsFresh, Awaits
  <2>3. LeaseOf(r) = "held"
    BY <2>1, <2>2 DEF LeaseOf
  <2>4. vpsOf'[a] = None
    BY <1>0, <1>1, <1>4
  <2>5. LeaseOf(r)' = "released"
    BY <1>0, <1>2, <2>2, <2>4 DEF LeaseOf, Awaits
  <2>6. \A x \in Vpses \ {r} : LeaseOf(x)' = LeaseOf(x)
    BY <1>3, <2>1
  <2>7. Lease!Release(r)
    BY <1>0, <2>3, <2>5, <2>6 DEF Lease!Release
  <2> QED
    BY <2>7 DEF Lease!LeaseNext
<1>5. CASE a \notin Agents \/ vpsOf[a] = None
  <2>1. \A r \in Vpses : LeaseOf(r)' = LeaseOf(r)
    BY <1>3, <1>5
  <2> QED
    BY <1>0, <2>1 DEF Lease!lvars
<1> QED
  BY <1>4, <1>5

\* A handler that is dropped before it assigned its row releases the row.
LEMMA AbortReleases ==
  ASSUME IInv, IInv', NEW p \in Procs, Abort(p), h[p].pc = "assign_vps"
  PROVE  Lease!LeaseNext
<1> USE ConstantsOK
<1>0. /\ h \in [Procs -> Handler] /\ UNCHANGED <<vps, vpsOf>> /\ Return(p)
      /\ h[p].vps \in Vpses /\ RowsInHand(p)
  BY DEF IInv, TypeInv, TypeOK, Abort, LocalsOK
<1>1. Becomes(p, "idle", "idle", None, None, None, {}, {})
  BY <1>0, ReturnDoes
<1>2. PICK r \in Vpses : r = h[p].vps
  BY <1>0
<1>3. /\ vps[r] # NoRow /\ vps[r].name \in Agents /\ vpsOf[vps[r].name] # r
      /\ \A q \in Procs \ {p} : h[q].pc = "assign_vps" => h[q].vps # r
  BY <1>0, <1>2 DEF IInv, RowsInHand, RowNamed, NoRow, AssignsFresh, BuildsAlone, Building
<1>4. /\ Awaits(r) /\ ~Awaits(r)'
      /\ \A x \in Vpses \ {r} : Awaits(x)' <=> Awaits(x)
  BY <1>1, <1>2, <1>3 DEF Awaits, Becomes
<1>5. LeaseOf(r) = "issued"
  BY <1>3, <1>4, LeaseCases
<1>6. LeaseOf(r)' = "released"
  BY <1>0, <1>3, <1>4 DEF LeaseOf, Awaits, Holds
<1>7. \A x \in Vpses \ {r} : LeaseOf(x)' = LeaseOf(x)
  BY <1>0, <1>4, LeaseSame
<1>8. Lease!Release(r)
  BY <1>0, <1>5, <1>6, <1>7 DEF Lease!Release
<1> QED
  BY <1>8 DEF Lease!LeaseNext

\* Every step of the handlers is a step of the lease, or none.
LEMMA StepOfLease ==
  ASSUME IInv, IInv', [Next]_vars
  PROVE  [Lease!LeaseNext]_Lease!lvars
<1>1. CASE UNCHANGED vars
  BY <1>1 DEF vars, LeaseOf, Holds, Lease!lvars
<1>2. ASSUME NEW p \in Procs, Elsewhere(p) /\ UNCHANGED vpsOf,
             \A q \in Procs : ~InsertVps(q)
      PROVE  UNCHANGED Lease!lvars
  <2>1. \A r \in Vpses : Awaits(r)' <=> Awaits(r)
    BY <1>2 DEF Elsewhere, Awaits
  <2>2. \A r \in Vpses : vps'[r].name = vps[r].name /\ (vps'[r] = NoRow <=> vps[r] = NoRow)
    BY <1>2, RowsKeepNames
  <2>3. \A r \in Vpses : LeaseOf(r)' = LeaseOf(r)
    BY <1>2, <2>1, <2>2, LeaseSame
  <2> QED
    BY <2>2, <2>3 DEF Lease!lvars
<1>3. CASE \E p \in Procs : InsertVps(p)
  BY <1>3, InsertIssues
<1>4. CASE \A q \in Procs : ~InsertVps(q)
  <2>1. ASSUME NEW p \in Procs, Request(p) \/ LookupFails(p) \/ MonitorWriteFails(p)
        PROVE  [Lease!LeaseNext]_Lease!lvars
    BY <1>2, <1>4, <2>1, OtherSteps
  <2>2. ASSUME NEW p \in Procs, Abort(p) PROVE [Lease!LeaseNext]_Lease!lvars
    BY <1>2, <1>4, <2>2, OtherSteps, AbortReleases
  <2>3. ASSUME NEW p \in Procs, Step(p) PROVE [Lease!LeaseNext]_Lease!lvars
    BY <1>2, <1>4, <2>3, OtherSteps, AssignHolds, ReleaseReleases
  <2> QED
    BY <1>1, <2>1, <2>2, <2>3 DEF Next
<1> QED
  BY <1>3, <1>4

\* However the handlers interleave and wherever they are dropped, rows and agents
\* behave as the lease says: a VPS is held at most once, by the agent it was
\* issued for, and never again after it was released.
THEOREM LeaseImplemented == Spec => ImplementsLease
<1>1. Init => Lease!LeaseInit
  BY DEF Init, Lease!LeaseInit, LeaseOf, NoRow
<1>2. IInv /\ IInv' /\ [Next]_vars => [Lease!LeaseNext]_Lease!lvars
  BY StepOfLease
<1> QED
  BY <1>1, <1>2, Inductive, PTL DEF Spec, ImplementsLease, Lease!LeaseSpec

-----------------------------------------------------------------------------
(* One handler at a time *)

\* There is one slot: a request enters when the handler before it is gone.
OneAtATime == \E p : Procs = {p}

Alive(r) == vps[r].state \notin {"absent", "destroyed"}

VmGone(r) == vps[r].vm # None => vm[vps[r].vm] = "gone"

Reviving ==
  {"assign_vps", "create_vm", "update_refs", "set_running", "start_vm", "stop_vm", "set_stopped"}

\* What the handler read is still so: the row it is going to set to running or stopped is
\* not destroyed, and its ids of VMs are those of the rows.
Current(p) ==
  /\ h[p].pc \in Reviving => Alive(h[p].vps)
  /\ h[p].op = "monitor" => /\ h[p].pc \in {"next_vps", "stop_vm", "set_stopped"}
                            /\ \A s \in h[p].todo : Alive(s.vps)
  /\ h[p].op = "provision" => h[p].todo = {}
  /\ h[p].pc \in {"create_vm", "update_refs"} => h[p].op = "provision"
  /\ \A s \in h[p].todo : vps[s.vps].vm = s.vm
  /\ h[p].pc \in {"start_vm", "stop_vm", "restart_stop", "restart_start", "destroy_vm"} =>
       vps[h[p].vps].vm = h[p].vm

AllCurrent == \A p \in Procs : Current(p)

\* Tables as they were: the handler's new locals decide.
LEMMA QuietCurrent ==
  ASSUME OneAtATime, NEW p \in Procs, UNCHANGED vps, Current(p)'
  PROVE  AllCurrent'
  BY DEF OneAtATime, AllCurrent

\* A handler that has returned holds nothing that could be stale.
LEMMA ReturnCurrent ==
  ASSUME OneAtATime, IInv, NEW p \in Procs, Return(p)
  PROVE  AllCurrent'
<1>1. Becomes(p, "idle", "idle", None, None, None, {}, {})
  BY ReturnDoes DEF IInv, TypeInv, TypeOK
<1> QED
  BY <1>1 DEF Becomes, AllCurrent, Current, OneAtATime, Reviving

\* A jump to a label at which nothing of a row is in hand any more, or what was.
LEMMA GoToCurrent ==
  ASSUME OneAtATime, IInv, AllCurrent, NEW p \in Procs,
         NEW l \in {"insert_vps", "delete_agent", "next_vps", "restart_start"},
         GoTo(p, l), \A r \in Vpses : vps'[r].vm = vps[r].vm /\ (Alive(r) => Alive(r)'),
         h[p].op = "monitor" => l = "next_vps",
         l = "restart_start" => h[p].pc = "restart_stop" /\ h[p].vps \in Vpses
  PROVE  AllCurrent'
<1>1. Becomes(p, h[p].op, l, h[p].agent, h[p].vps, h[p].vm, h[p].todo, h[p].holders)
  BY GoToDoes DEF IInv, TypeInv, TypeOK, Label
<1>2. Current(p)
  BY DEF AllCurrent
<1>3. \A s \in h[p].todo : s.vps \in Vpses
  BY DEF IInv, TypeInv, TypeOK, Handler, Snapshot
<1>4. Current(p)'
  BY <1>1, <1>2, <1>3 DEF Becomes, Current, Reviving
<1> QED
  BY <1>4 DEF AllCurrent, OneAtATime

\* The handler takes the VM its row names, or drops it, and nobody wrote to the row.
LEMMA WithVmCurrent ==
  ASSUME OneAtATime, IInv, AllCurrent, NEW p \in Procs, NEW v \in VMs \cup {None}, NEW l \in Label,
         WithVm(p, v, l), UNCHANGED vps,
         h[p].pc \in {"load", "create_vm", "start_vm", "stop_vm", "destroy_vm"},
         l \in Reviving => Alive(h[p].vps),
         h[p].op = "monitor" => l = "set_stopped",
         l = "create_vm" \/ l = "update_refs" => h[p].op = "provision",
         l \in {"start_vm", "stop_vm", "restart_stop", "destroy_vm"} => vps[h[p].vps].vm = v,
         l # "restart_start"
  PROVE  AllCurrent'
<1>1. Becomes(p, h[p].op, l, h[p].agent, h[p].vps, v, h[p].todo, h[p].holders)
  BY WithVmDoes DEF IInv, TypeInv, TypeOK
<1>2. Current(p)
  BY DEF AllCurrent
<1>4. Current(p)'
  BY <1>1, <1>2 DEF Becomes, Current, Alive
<1> QED
  BY <1>4 DEF AllCurrent, OneAtATime

\* What a request reads on its way in is what the rows say.
LEMMA RequestCurrent ==
  ASSUME OneAtATime, IInv, NEW p \in Procs, Request(p)
  PROVE  AllCurrent'
<1>0. h \in [Procs -> Handler] /\ vpsOf \in [Agents -> Vpses \cup {None}] /\ UNCHANGED vps
  BY DEF IInv, TypeInv, TypeOK, Request, CleanupStuck, EnforceLimits, ProvisionVps, DeleteAgent,
     UserOp, AdminOp
<1>1. ASSUME NEW o \in Op, NEW l \in {"count_vpses", "load", "delete_agent", "next_vps"},
             NEW a \in Agents \cup {None}, NEW x \in Vpses \cup {None}, NEW t \in SUBSET Snapshot,
             Enter(p, o, l, a, x, t),
             o = "monitor" => l = "next_vps" /\ \A s \in t : Alive(s.vps),
             o = "provision" => t = {}, \A s \in t : vps[s.vps].vm = s.vm
      PROVE  AllCurrent'
  <2>1. Becomes(p, o, l, a, x, None, t, {})
    <3>1. l \in Label
      BY DEF Label
    <3> QED
      BY <1>0, <1>1, <3>1, EnterDoes
  <2>2. Current(p)'
    BY <1>0, <1>1, <2>1 DEF Becomes, Current, Alive, Reviving
  <2> QED
    BY <2>2 DEF AllCurrent, OneAtATime
<1>2. CASE CleanupStuck(p)
  BY <1>1, <1>2, RowsInAreSnapshots DEF CleanupStuck, IInv, TypeInv, Op, VpsState
<1>3. CASE EnforceLimits(p)
  <2>1. PICK over \in SUBSET Users :
          Enter(p, "monitor", "next_vps", None, None,
                {s \in RowsIn("running") : Owner[vps[s.vps].name] \in over})
    BY <1>3 DEF EnforceLimits
  <2>2. RowsIn("running") \in SUBSET Snapshot
        /\ \A s \in RowsIn("running") : vps[s.vps].state = "running" /\ vps[s.vps].vm = s.vm
    BY RowsInAreSnapshots DEF IInv, TypeInv, VpsState
  <2> QED
    BY <1>1, <2>1, <2>2 DEF Op, Alive
<1>4. ASSUME NEW ag \in Agents, ProvisionVps(p, ag) PROVE AllCurrent'
  <2>1. Enter(p, "provision", "count_vpses", ag, None, {})
    BY <1>4 DEF ProvisionVps
  <2>2. "provision" \in Op /\ {} \in SUBSET Snapshot
    BY DEF Op
  <2> QED
    BY <1>1, <2>1, <2>2
<1>5. ASSUME NEW ag \in Agents, DeleteAgent(p, ag) PROVE AllCurrent'
  BY <1>0, <1>1, <1>5 DEF DeleteAgent, Op
<1>6. ASSUME NEW ag \in Agents, NEW op \in {"start", "stop", "restart", "destroy"},
             UserOp(p, op, ag)
      PROVE  AllCurrent'
  <2>1. vpsOf[ag] \in Vpses \cup {None} /\ op \in Op /\ op \notin {"monitor", "provision"}
    BY <1>0 DEF Op
  <2>2. Enter(p, op, "load", IF op = "destroy" THEN ag ELSE None, vpsOf[ag], {})
    BY <1>6 DEF UserOp
  <2>3. PICK who \in Agents \cup {None} : Enter(p, op, "load", who, vpsOf[ag], {})
    BY <2>2
  <2>4. {} \in SUBSET Snapshot /\ \A s \in {} : Alive(s.vps) /\ vps[s.vps].vm = s.vm
    OBVIOUS
  <2> QED
    BY <1>1, <2>1, <2>3, <2>4
<1>7. ASSUME NEW rw \in Vpses, NEW op \in {"stop", "admin_destroy"}, AdminOp(p, op, rw)
      PROVE  AllCurrent'
  BY <1>1, <1>7 DEF AdminOp, Op
<1> QED
  BY <1>2, <1>3, <1>4, <1>5, <1>6, <1>7 DEF Request

\* No step of the only handler makes what it read stale.
LEMMA StepCurrent ==
  ASSUME OneAtATime, IInv, AllCurrent, NEW p \in Procs, Step(p)
  PROVE  AllCurrent'
<1> USE ConstantsOK DEF Holds, At
<1>0. /\ h \in [Procs -> Handler] /\ vps \in [Vpses -> VpsRow]
      /\ LocalsOK(p) /\ RowsInHand(p) /\ Current(p)
      /\ \A s \in h[p].todo : s.vps \in Vpses
  BY DEF IInv, TypeInv, TypeOK, AllCurrent, Handler, Snapshot
<1>a. ASSUME UNCHANGED vps
      PROVE  \A r \in Vpses : vps'[r].vm = vps[r].vm /\ (Alive(r) => Alive(r)')
  BY <1>a DEF Alive
<1>1. CASE CountVpses(p) \/ PowerCallFails(p) \/ UnassignDone(p) \/ LoopDone(p)
           \/ CreateVmFails(p) \/ DeleteAgentRow(p)
           \/ RestartStopVm(p) \/ RestartStartVm(p) \/ RestartStartFails(p)
  BY <1>0, <1>1, <1>a, ReturnCurrent, GoToCurrent
     DEF CountVpses, PowerCallFails, UnassignDone, LoopDone, CreateVmFails, DeleteAgentRow,
         RestartStopVm, RestartStartVm, RestartStartFails, LocalsOK, Current
<1>2. CASE SetStopped(p) \/ SetRunning(p)
  <2>1. \A r \in Vpses : vps'[r].vm = vps[r].vm /\ (Alive(r) => Alive(r)')
    BY <1>0, <1>2 DEF SetStopped, SetRunning, VpsRow, Alive
  <2> QED
    BY <1>2, <2>1, ReturnCurrent, GoToCurrent DEF SetStopped, SetRunning
<1>3. CASE InsertVps(p)
  <2>1. PICK x \in Vpses : /\ vps[x] = NoRow /\ h' = [h EXCEPT ![p].vps = x, ![p].pc = "assign_vps"]
                           /\ vps' = [vps EXCEPT ![x] = [state |-> "provisioning", vm |-> None,
                                     name |-> h[p].agent]]
    BY <1>3 DEF InsertVps
  <2>2. Becomes(p, h[p].op, "assign_vps", h[p].agent, x, h[p].vm, h[p].todo, h[p].holders)
    BY <1>0, <2>1, WithVpsDoes DEF Label
  <2>3. h[p].op = "provision" /\ h[p].todo = {}
    BY <1>0, <1>3 DEF InsertVps, LocalsOK, Current
  <2>4. Current(p)'
    BY <1>0, <2>1, <2>2, <2>3 DEF Becomes, Current, Reviving, Alive
  <2> QED
    BY <2>4 DEF AllCurrent, OneAtATime
<1>4. CASE AssignVps(p)
  <2>1. CASE h' = [h EXCEPT ![p].agent = None, ![p].pc = "create_vm"]
    <3>1. Becomes(p, h[p].op, "create_vm", None, h[p].vps, h[p].vm, h[p].todo, h[p].holders)
      BY <1>0, <2>1, WithoutAgentDoes DEF Label
    <3>2. Current(p)'
      BY <1>0, <1>4, <3>1 DEF AssignVps, LocalsOK, Becomes, Current, Reviving, Alive
    <3> QED
      BY <3>2 DEF AllCurrent, OneAtATime
  <2> QED
    BY <1>4, <2>1, ReturnCurrent DEF AssignVps
<1>5. CASE CreateVm(p) \/ StartVm(p) \/ StopVm(p) \/ DestroyVm(p) \/ DestroyVmFails(p)
  <2>1. h[p].op = "monitor" => h[p].pc = "stop_vm"
    BY <1>0, <1>5 DEF CreateVm, StartVm, StopVm, DestroyVm, DestroyVmFails, Current
  <2>2. h[p].pc # "destroy_vm" => Alive(h[p].vps)
    BY <1>0, <1>5 DEF CreateVm, StartVm, StopVm, DestroyVm, DestroyVmFails, Current, Reviving
  <2> QED
    BY <1>0, <1>5, <2>1, <2>2, WithVmCurrent
       DEF CreateVm, StartVm, StopVm, DestroyVm, DestroyVmFails, DoneWithVm, Label, Reviving, Current
<1>6. CASE UpdateProviderRefs(p)
  <2>1. Becomes(p, h[p].op, "set_running", h[p].agent, h[p].vps, None, h[p].todo, h[p].holders)
    BY <1>0, <1>6, WithVmDoes DEF UpdateProviderRefs, DoneWithVm, Label
  <2>2. h[p].op = "provision" /\ h[p].todo = {} /\ Alive(h[p].vps) /\ h[p].vps \in Vpses
    BY <1>0, <1>6 DEF UpdateProviderRefs, Current, Reviving, LocalsOK
  <2>3. vps'[h[p].vps].state = vps[h[p].vps].state
    BY <1>0, <1>6, <2>2 DEF UpdateProviderRefs, VpsRow
  <2>4. Current(p)'
    BY <1>0, <2>1, <2>2, <2>3 DEF Becomes, Current, Reviving, Alive
  <2> QED
    BY <2>4 DEF AllCurrent, OneAtATime
<1>7. CASE LoadForStart(p) \/ LoadForStop(p) \/ LoadForRestart(p) \/ LoadForDestroy(p)
  <2>1. h[p].vps \in Vpses /\ vps[h[p].vps].vm \in VMs \cup {None} /\ h[p].op # "monitor"
    BY <1>0, <1>7 DEF LoadForStart, LoadForStop, LoadForRestart, LoadForDestroy, LocalsOK, VpsRow
  <2> QED
    BY <1>0, <1>7, <1>a, <2>1, ReturnCurrent, GoToCurrent, WithVmCurrent
       DEF LoadForStart, LoadForStop, LoadForRestart, LoadForDestroy, Label, Reviving, Alive
<1>8. CASE SetDestroyed(p)
  <2> DEFINE l == AfterDestroyed(h[p].op)
             k == IF h[p].op = "destroy" THEN {h[p].agent} ELSE {}
  <2>1. l \in {"unassign", "delete_agent", "list_agents"} /\ l \in Label
    BY DEF AfterDestroyed, Label
  <2>2. k \in SUBSET Agents
    BY <1>0, <1>8 DEF SetDestroyed, LocalsOK
  <2>3. Becomes(p, h[p].op, l, h[p].agent, h[p].vps, h[p].vm, h[p].todo, k)
    BY <1>0, <1>8, <2>1, <2>2, WithHoldersDoes DEF SetDestroyed
  <2> HIDE DEF l, k
  <2>4. \A r \in Vpses : vps'[r].vm = vps[r].vm
    BY <1>0, <1>8 DEF SetDestroyed, VpsRow
  <2>5. h[p].op # "monitor"
    BY <1>0, <1>8 DEF SetDestroyed, Current
  <2>6. Current(p)'
    BY <1>0, <2>1, <2>3, <2>4, <2>5 DEF Becomes, Current, Reviving
  <2> QED
    BY <2>6 DEF AllCurrent, OneAtATime
<1>9. CASE ListAgents(p) \/ Unassign(p)
  <2>1. /\ h'[p].op = h[p].op /\ h'[p].pc = "unassign" /\ h'[p].todo = h[p].todo
        /\ UNCHANGED vps /\ h[p].op # "monitor"
    BY <1>0, <1>9 DEF ListAgents, Unassign, Handler, Current
  <2>2. Current(p)'
    BY <1>0, <2>1 DEF Current, Reviving, Alive
  <2> QED
    BY <2>2 DEF AllCurrent, OneAtATime
<1>10. CASE NextVps(p)
  <2> DEFINE next(s) == IF h[p].op = "monitor"
                          THEN IF s.vm # None THEN "stop_vm" ELSE "next_vps"
                          ELSE IF s.vm # None THEN "destroy_vm" ELSE "set_destroyed"
  <2>1. PICK s \in h[p].todo :
          h' = [h EXCEPT ![p] = [Idle EXCEPT !.op = h[p].op, !.pc = next(s), !.vps = s.vps,
                                             !.vm = s.vm, !.todo = h[p].todo \ {s}]]
    BY <1>10 DEF NextVps
  <2>2. next(s) \in Label
    BY DEF Label
  <2>3. Becomes(p, h[p].op, next(s), None, s.vps, s.vm, h[p].todo \ {s}, {})
    BY <1>0, <2>1, <2>2, TakeVpsDoes
  <2>4. next(s) \in {"stop_vm", "next_vps", "destroy_vm", "set_destroyed"}
        /\ (IF h[p].op = "monitor" THEN next(s) \in {"stop_vm", "next_vps"} ELSE next(s) # "stop_vm")
    OBVIOUS
  <2>5. UNCHANGED vps /\ h[p].op # "provision"
    BY <1>0, <1>10 DEF NextVps, LocalsOK
  <2> HIDE DEF next
  <2>6. Current(p)'
    BY <1>0, <2>3, <2>4, <2>5 DEF Becomes, Current, Reviving, Alive
  <2> QED
    BY <2>6 DEF AllCurrent, OneAtATime
<1> QED
  BY <1>1, <1>2, <1>3, <1>4, <1>5, <1>6, <1>7, <1>8, <1>9, <1>10 DEF Step

\* Nor does any other step: nobody else writes to the tables.
LEMMA NextCurrent ==
  ASSUME OneAtATime, IInv, AllCurrent, [Next]_vars
  PROVE  AllCurrent'
<1>1. CASE UNCHANGED vars
  BY <1>1 DEF vars, AllCurrent, Current, Alive
<1>2. ASSUME NEW p \in Procs, Abort(p) \/ LookupFails(p) \/ MonitorWriteFails(p)
      PROVE  AllCurrent'
  <2>1. \A r \in Vpses : vps'[r].vm = vps[r].vm /\ (Alive(r) => Alive(r)')
    BY <1>2 DEF Abort, LookupFails, MonitorWriteFails, Alive
  <2> QED
    BY <1>2, <2>1, ReturnCurrent, GoToCurrent DEF Abort, LookupFails, MonitorWriteFails, At
<1> QED
  BY <1>1, <1>2, RequestCurrent, StepCurrent DEF Next

\* provision_vps counts the rows, and then inserts one.
Counted ==
  \A p \in Procs : h[p].pc = "insert_vps" => CountForUser(Owner[h[p].agent]) < MaxVpses

\* Only the count leads to the insertion, and only three steps to the last word of a
\* destruction.
LEMMA LabelsReached ==
  ASSUME IInv, NEW p \in Procs,
         Request(p) \/ Step(p) \/ Abort(p) \/ LookupFails(p) \/ MonitorWriteFails(p)
  PROVE  /\ h'[p].pc = "insert_vps" => CountVpses(p) /\ GoTo(p, "insert_vps")
         /\ h'[p].pc = "set_destroyed" =>
              LoadForDestroy(p) \/ DestroyVm(p) \/ DestroyVmFails(p) \/ NextVps(p)
<1> USE DEF Holds, At
<1>0. h \in [Procs -> Handler]
  BY DEF IInv, TypeInv, TypeOK
<1>1. ASSUME Return(p)
      PROVE  h'[p].pc \notin {"insert_vps", "set_destroyed"}
  BY <1>0, <1>1 DEF Return, Idle
<1>2. ASSUME NEW l, l \notin {"insert_vps", "set_destroyed"}, GoTo(p, l)
      PROVE  h'[p].pc \notin {"insert_vps", "set_destroyed"}
  BY <1>0, <1>2 DEF GoTo, Handler
<1>3. ASSUME NEW l, l \notin {"insert_vps", "set_destroyed"}, NEW v, WithVm(p, v, l)
      PROVE  h'[p].pc \notin {"insert_vps", "set_destroyed"}
  BY <1>0, <1>3 DEF WithVm, Handler
<1>4. ASSUME NEW o, NEW l, l \notin {"insert_vps", "set_destroyed"}, NEW a, NEW r, NEW t,
             Enter(p, o, l, a, r, t)
      PROVE  h'[p].pc \notin {"insert_vps", "set_destroyed"}
  BY <1>0, <1>4 DEF Enter, Idle
<1>5. CASE Request(p)
  BY <1>4, <1>5 DEF Request, CleanupStuck, EnforceLimits, ProvisionVps, DeleteAgent,
     UserOp, AdminOp
<1>6. CASE LookupFails(p) \/ MonitorWriteFails(p) \/ Abort(p)
  BY <1>1, <1>2, <1>6 DEF LookupFails, MonitorWriteFails, Abort
<1>7. CASE LoadForStart(p) \/ LoadForStop(p) \/ PowerCallFails(p)
           \/ UnassignDone(p) \/ LoopDone(p) \/ DeleteAgentRow(p) \/ LoadForRestart(p)
           \/ RestartStopVm(p) \/ RestartStartVm(p) \/ RestartStartFails(p)
  BY <1>1, <1>2, <1>3, <1>7 DEF LoadForStart, LoadForStop, LoadForRestart, RestartStopVm,
     RestartStartVm, RestartStartFails, PowerCallFails, UnassignDone, LoopDone, DeleteAgentRow
<1>8. CASE CreateVm(p) \/ CreateVmFails(p) \/ UpdateProviderRefs(p) \/ StartVm(p) \/ StopVm(p)
           \/ SetRunning(p) \/ SetStopped(p)
  BY <1>1, <1>2, <1>3, <1>8 DEF CreateVm, CreateVmFails, UpdateProviderRefs, StartVm, StopVm,
     DoneWithVm, SetRunning, SetStopped
<1>9. CASE SetDestroyed(p)
  <2>1. AfterDestroyed(h[p].op) \notin {"insert_vps", "set_destroyed"}
    BY DEF AfterDestroyed
  <2> QED
    BY <1>0, <1>9, <2>1 DEF SetDestroyed, Handler
<1>10. CASE ListAgents(p) \/ Unassign(p) \/ InsertVps(p)
  <2>1. CASE ListAgents(p)
    <3>1. h'[p].pc = "unassign"
      BY <1>0, <2>1 DEF ListAgents, Handler
    <3> QED
      BY <3>1
  <2>2. CASE Unassign(p)
    <3>1. PICK a \in h[p].holders : h' = [h EXCEPT ![p].holders = h[p].holders \ {a}]
      BY <2>2 DEF Unassign
    <3>2. h'[p].pc = h[p].pc
      BY <1>0, <3>1 DEF Handler
    <3> QED
      BY <2>2, <3>2 DEF Unassign
  <2>3. CASE InsertVps(p)
    <3>1. h'[p].pc = "assign_vps"
      BY <1>0, <2>3 DEF InsertVps, Handler
    <3> QED
      BY <3>1
  <2> QED
    BY <1>10, <2>1, <2>2, <2>3
<1>11. CASE AssignVps(p)
  <2>1. CASE h' = [h EXCEPT ![p].agent = None, ![p].pc = "create_vm"]
    BY <1>0, <2>1 DEF Handler
  <2> QED
    BY <1>1, <1>11, <2>1 DEF AssignVps
<1>12. CASE NextVps(p)
  <2>1. h'[p].pc # "insert_vps"
    BY <1>0, <1>12 DEF NextVps, Idle
  <2> QED
    BY <1>12, <2>1
<1>13. CASE CountVpses(p)
  <2>1. CASE GoTo(p, "insert_vps")
    <3>1. h'[p].pc = "insert_vps"
      BY <1>0, <2>1 DEF GoTo, Handler
    <3> QED
      BY <1>13, <2>1, <3>1
  <2> QED
    BY <1>1, <1>13, <2>1 DEF CountVpses
<1>14. CASE LoadForDestroy(p) \/ DestroyVm(p) \/ DestroyVmFails(p)
  <2>1. h'[p].pc # "insert_vps"
    BY <1>0, <1>14 DEF LoadForDestroy, DestroyVm, DestroyVmFails, DoneWithVm, WithVm, GoTo,
       Return, Idle, Handler
  <2> QED
    BY <1>14, <2>1
<1>15. CASE Step(p)
  BY <1>14, <1>7, <1>8, <1>9, <1>10, <1>11, <1>12, <1>13, <1>15, Zenon DEF Step
<1> QED
  BY <1>5, <1>6, <1>15

\* A user's live rows can be counted.
LEMMA LiveRowsFinite ==
  \A u : IsFiniteSet(LiveRows(u)) /\ CountForUser(u) \in Nat
  BY FinitelyMany, FS_Subset, FS_CardinalityType DEF LiveRows, CountForUser

\* Every statement but the insertion leaves a user no more rows than before.
LEMMA LiveRowsShrink ==
  ASSUME OneAtATime, IInv, AllCurrent, NEW p \in Procs,
         UNCHANGED vps \/ UpdateProviderRefs(p) \/ SetRunning(p) \/ SetStopped(p) \/ SetDestroyed(p)
  PROVE  \A u : CountForUser(u)' <= CountForUser(u)
<1>1. vps \in [Vpses -> VpsRow] /\ LocalsOK(p) /\ Current(p)
  BY DEF IInv, TypeInv, TypeOK, AllCurrent
<1>2. CASE UNCHANGED vps
  <2>1. \A u : LiveRows(u)' = LiveRows(u)
    BY <1>2 DEF LiveRows
  <2> QED
    BY <2>1, LiveRowsFinite DEF CountForUser
<1>3. CASE UpdateProviderRefs(p) \/ SetRunning(p) \/ SetStopped(p) \/ SetDestroyed(p)
  <2>1. /\ h[p].vps \in Vpses
        /\ SetRunning(p) \/ SetStopped(p) => Alive(h[p].vps)
    BY <1>1, <1>3 DEF UpdateProviderRefs, SetRunning, SetStopped, SetDestroyed, Holds,
       LocalsOK, Current, Reviving
  <2>2. \A r \in Vpses : /\ vps'[r].name = vps[r].name
                         /\ vps'[r].state \in {vps[r].state, "destroyed"} \/ Alive(r)
    BY <1>1, <1>3, <2>1 DEF UpdateProviderRefs, SetRunning, SetStopped, SetDestroyed, VpsRow
  <2>3. \A u : LiveRows(u)' \subseteq LiveRows(u)
    BY <2>2 DEF LiveRows, Alive
  <2> QED
    BY <2>3, LiveRowsFinite, FS_Subset DEF CountForUser
<1> QED
  BY <1>2, <1>3

\* The count that let the handler insert a row is still true when it does.
LEMMA InsertWithinPlan ==
  ASSUME OneAtATime, IInv, Counted, WithinPlan, NEW p \in Procs, InsertVps(p)
  PROVE  WithinPlan'
<1> SUFFICES ASSUME NEW u \in Users PROVE CountForUser(u)' <= MaxVpses
  BY DEF WithinPlan
<1>1. /\ vps \in [Vpses -> VpsRow] /\ h[p].agent \in Agents /\ MaxVpses \in Nat
      /\ CountForUser(u) <= MaxVpses /\ CountForUser(u) \in Nat
  BY ConstantsOK, LiveRowsFinite DEF IInv, TypeInv, TypeOK, LocalsOK, InsertVps, Holds, WithinPlan
<1>2. PICK x \in Vpses : vps' = [vps EXCEPT ![x] = [state |-> "provisioning", vm |-> None,
                                                    name |-> h[p].agent]]
  BY DEF InsertVps
<1>3. CASE Owner[h[p].agent] = u
  <2>1. CountForUser(u) < MaxVpses
    BY <1>3 DEF Counted, InsertVps, Holds
  <2>2. LiveRows(u)' \subseteq LiveRows(u) \cup {x}
    BY <1>1, <1>2 DEF LiveRows
  <2>3. /\ IsFiniteSet(LiveRows(u) \cup {x})
        /\ Cardinality(LiveRows(u) \cup {x}) <= CountForUser(u) + 1
    BY SMTT(30), <1>1, LiveRowsFinite, FS_AddElement DEF CountForUser
  <2>4. Cardinality(LiveRows(u) \cup {x}) \in Nat /\ Cardinality(LiveRows(u)') \in Nat
        /\ Cardinality(LiveRows(u)') <= Cardinality(LiveRows(u) \cup {x})
    BY <2>2, <2>3, FS_Subset, FS_CardinalityType
  <2> QED
    BY <1>1, <2>1, <2>3, <2>4 DEF CountForUser
<1>4. CASE Owner[h[p].agent] # u
  <2>1. LiveRows(u)' \subseteq LiveRows(u)
    BY <1>1, <1>2, <1>4 DEF LiveRows
  <2>2. Cardinality(LiveRows(u)') <= Cardinality(LiveRows(u)) /\ Cardinality(LiveRows(u)') \in Nat
    BY <2>1, LiveRowsFinite, FS_Subset, FS_CardinalityType
  <2> QED
    BY <1>1, <2>2 DEF CountForUser
<1> QED
  BY <1>3, <1>4

\* So the limit holds after every step.
LEMMA NextWithinPlan ==
  ASSUME OneAtATime, IInv, AllCurrent, Counted, WithinPlan, [Next]_vars
  PROVE  Counted' /\ WithinPlan'
<1>0. MaxVpses \in Nat /\ \A u : CountForUser(u) \in Nat /\ CountForUser(u)' \in Nat
  <2>1. \A u : CountForUser(u)' \in Nat
    BY FinitelyMany, FS_Subset, FS_CardinalityType DEF LiveRows, CountForUser
  <2> QED
    BY <2>1, ConstantsOK, LiveRowsFinite
<1>1. CASE UNCHANGED vars
  BY <1>1 DEF vars, Counted, WithinPlan, CountForUser, LiveRows
<1>2. ASSUME NEW p \in Procs,
             Request(p) \/ Step(p) \/ Abort(p) \/ LookupFails(p) \/ MonitorWriteFails(p)
      PROVE  Counted' /\ WithinPlan'
  <2>1. WithinPlan'
    <3>1. CASE InsertVps(p)
      BY <3>1, InsertWithinPlan
    <3>2. CASE ~InsertVps(p)
      <4>1. UNCHANGED vps \/ UpdateProviderRefs(p) \/ SetRunning(p) \/ SetStopped(p) \/ SetDestroyed(p)
        BY <1>2, <3>2, RowWriters DEF Next, OneAtATime
      <4>2. \A u : CountForUser(u)' <= CountForUser(u)
        BY <4>1, LiveRowsShrink
      <4> QED
        BY <1>0, <4>2 DEF WithinPlan
    <3> QED
      BY <3>1, <3>2
  <2>2. ASSUME h'[p].pc = "insert_vps" PROVE (CountForUser(Owner[h[p].agent]) < MaxVpses)'
    <3>1. CountVpses(p) /\ GoTo(p, "insert_vps")
      BY <1>2, <2>2, LabelsReached
    <3>2. /\ CountForUser(Owner[h[p].agent]) < MaxVpses /\ UNCHANGED vps
          /\ h'[p].agent = h[p].agent
      <4>1. h \in [Procs -> Handler]
        BY DEF IInv, TypeInv, TypeOK
      <4>2. Idle.pc # "insert_vps"
        BY DEF Idle
      <4> QED
        BY <2>2, <3>1, <4>1, <4>2 DEF CountVpses, GoTo, Return, Handler
    <3>3. \A u : LiveRows(u)' = LiveRows(u)
      BY <3>2 DEF LiveRows
    <3> QED
      BY <3>2, <3>3 DEF CountForUser
  <2>3. \A q \in Procs : q = p
    BY DEF OneAtATime
  <2> QED
    BY <2>1, <2>2, <2>3 DEF Counted
<1> QED
  BY <1>1, <1>2 DEF Next

\* Nobody has a row at first, and no handler is in flight.
LEMMA InitSerial == Init => AllCurrent /\ Counted /\ WithinPlan
<1> SUFFICES ASSUME Init PROVE AllCurrent /\ Counted /\ WithinPlan
  OBVIOUS
<1>1. \A p \in Procs : h[p] = Idle
  BY DEF Init
<1>2. AllCurrent /\ Counted
  BY <1>1 DEF AllCurrent, Current, Counted, Idle, Reviving
<1>3. \A u : LiveRows(u) = {}
  BY DEF Init, LiveRows, NoRow
<1> QED
  BY <1>2, <1>3, FS_EmptySet, ConstantsOK DEF WithinPlan, CountForUser

\* With one handler at a time the limit of the plan is exact.
THEOREM WithinPlanHolds == ASSUME OneAtATime PROVE Spec => []WithinPlan
<1>1. Init => IInv /\ AllCurrent /\ Counted /\ WithinPlan
  BY InitIInv, InitSerial
<1>2. IInv /\ AllCurrent /\ Counted /\ WithinPlan /\ [Next]_vars
        => (IInv /\ AllCurrent /\ Counted /\ WithinPlan)'
  BY StepIInv, NextCurrent, NextWithinPlan
<1> QED
  BY <1>1, <1>2, PTL DEF Spec

-----------------------------------------------------------------------------
\* A row is destroyed after its VM, if the provider never refuses.
DestroyedGone ==
  /\ \A p \in Procs : h[p].pc = "set_destroyed" => VmGone(h[p].vps)
  /\ \A r \in Vpses : vps[r].state = "destroyed" => VmGone(r)

\* A VM that is gone stays so.
LEMMA GoneStays ==
  ASSUME IInv, [Next]_vars
  PROVE  \A v \in VMs : vm[v] = "gone" => vm'[v] = "gone"
<1>0. vm \in [VMs -> {"unused", "on", "off", "gone"}]
  BY DEF IInv, TypeInv, TypeOK
<1>1. CASE UNCHANGED vm
  BY <1>1
<1>2. ASSUME NEW p \in Procs, \/ CreateVm(p) \/ CreateVmFails(p) \/ StartVm(p) \/ StopVm(p)
                               \/ RestartStopVm(p) \/ RestartStartVm(p) \/ DestroyVm(p)
      PROVE  \A v \in VMs : vm[v] = "gone" => vm'[v] = "gone"
  BY <1>0, <1>2 DEF CreateVm, CreateVmFails, StartVm, StopVm, RestartStopVm, RestartStartVm,
     DestroyVm, LiveVm
<1>3. ASSUME NEW p \in Procs, Request(p) PROVE UNCHANGED vm
  BY <1>3 DEF Request, CleanupStuck, EnforceLimits, ProvisionVps, DeleteAgent, UserOp, AdminOp
<1>4. ASSUME NEW p \in Procs, Step(p)
      PROVE  \/ UNCHANGED vm
             \/ CreateVm(p) \/ CreateVmFails(p) \/ StartVm(p) \/ StopVm(p)
             \/ RestartStopVm(p) \/ RestartStartVm(p) \/ DestroyVm(p)
  BY <1>4 DEF Step, CountVpses, InsertVps, AssignVps, UpdateProviderRefs, SetRunning, LoadForStart,
     LoadForStop, LoadForDestroy, PowerCallFails, SetStopped, LoadForRestart,
     RestartStartFails, DestroyVmFails, SetDestroyed, ListAgents, Unassign, UnassignDone, DeleteAgentRow, NextVps, LoopDone
<1>5. ASSUME NEW p \in Procs, Abort(p) \/ LookupFails(p) \/ MonitorWriteFails(p)
      PROVE  UNCHANGED vm
  BY <1>5 DEF Abort, LookupFails, MonitorWriteFails
<1> QED
  BY <1>1, <1>2, <1>3, <1>4, <1>5 DEF Next, vars

\* A destroyed row stays destroyed, and keeps the VM that is gone.
LEMMA NextDestroyedGone ==
  ASSUME OneAtATime, ~DestroyFails, IInv, IInv', AllCurrent, DestroyedGone, [Next]_vars
  PROVE  DestroyedGone'
<1> USE DEF Holds
<1>0. /\ vps \in [Vpses -> VpsRow] /\ h \in [Procs -> Handler]
      /\ vm \in [VMs -> {"unused", "on", "off", "gone"}]
      /\ \A v \in VMs : vm[v] = "gone" => vm'[v] = "gone"
      /\ \A r \in Vpses : vps[r].vm \in VMs \cup {None}
      /\ \A q \in Procs : LocalsOK(q) /\ Current(q)
  BY GoneStays DEF IInv, TypeInv, TypeOK, VpsRow, AllCurrent
<1>1. ASSUME NEW r \in Vpses, vps'[r].state = "destroyed" PROVE VmGone(r)'
  <2>1. CASE UNCHANGED vps
    BY <1>0, <1>1, <2>1 DEF VmGone, DestroyedGone
  <2>2. ASSUME NEW p \in Procs, InsertVps(p) PROVE VmGone(r)'
    BY <1>0, <1>1, <2>2 DEF InsertVps, VmGone, DestroyedGone
  <2>3. ASSUME NEW p \in Procs, UpdateProviderRefs(p) PROVE VmGone(r)'
    <3>1. h[p].vps \in Vpses /\ Alive(h[p].vps)
      BY <1>0, <2>3 DEF UpdateProviderRefs, LocalsOK, Current, Reviving
    <3>2. h[p].vps # r /\ vps'[r] = vps[r]
      BY <1>0, <1>1, <2>3, <3>1 DEF UpdateProviderRefs, Alive, VpsRow
    <3> QED
      BY <1>0, <1>1, <3>2 DEF VmGone, DestroyedGone
  <2>4. ASSUME NEW p \in Procs, SetRunning(p) \/ SetStopped(p) \/ SetDestroyed(p) PROVE VmGone(r)'
    <3>1. h[p].vps \in Vpses /\ vps'[r].vm = vps[r].vm
      BY <1>0, <2>4 DEF SetRunning, SetStopped, SetDestroyed, LocalsOK, VpsRow
    <3>2. VmGone(r)
      BY <1>0, <1>1, <2>4, <3>1 DEF SetRunning, SetStopped, SetDestroyed, DestroyedGone, VpsRow
    <3> QED
      BY <1>0, <3>1, <3>2 DEF VmGone
  <2> QED
    BY <2>1, <2>2, <2>3, <2>4, RowWriters
<1>2. ASSUME NEW p \in Procs, h'[p].pc = "set_destroyed" PROVE (VmGone(h[p].vps))'
  <2>1. CASE UNCHANGED vars
    BY <1>2, <2>1 DEF vars, VmGone, DestroyedGone
  <2>2. CASE LoadForDestroy(p)
    <3>1. h[p].vps \in Vpses /\ UNCHANGED <<vps, vm>>
      BY <1>0, <2>2 DEF LoadForDestroy, LocalsOK
    <3>2. vps[h[p].vps].vm = None /\ h'[p].vps = h[p].vps
      BY <1>0, <1>2, <2>2, <3>1 DEF LoadForDestroy, WithVm, GoTo, Return, Idle, Handler
    <3> QED
      BY <3>1, <3>2 DEF VmGone
  <2>3. CASE DestroyVm(p)
    <3>1. /\ h[p].vm \in VMs /\ vps[h[p].vps].vm = h[p].vm /\ UNCHANGED vps
          /\ vm'[h[p].vm] = "gone" /\ h'[p].vps = h[p].vps
      BY <1>0, <2>3 DEF DestroyVm, DoneWithVm, WithVm, LocalsOK, Current, Handler
    <3> QED
      BY <3>1 DEF VmGone
  <2>4. CASE DestroyVmFails(p)
    BY <2>4 DEF DestroyVmFails
  <2>5. CASE NextVps(p)
    <3>1. PICK s \in h[p].todo :
            h' = [h EXCEPT ![p] = [Idle EXCEPT !.op = h[p].op,
                     !.pc = IF h[p].op = "monitor"
                              THEN IF s.vm # None THEN "stop_vm" ELSE "next_vps"
                              ELSE IF s.vm # None THEN "destroy_vm" ELSE "set_destroyed",
                     !.vps = s.vps, !.vm = s.vm, !.todo = h[p].todo \ {s}]]
      BY <2>5 DEF NextVps
    <3>2. h'[p].vps = s.vps /\ s.vm = None
      BY <1>0, <1>2, <3>1 DEF Idle
    <3>3. vps[s.vps].vm = None /\ UNCHANGED vps
      BY <1>0, <2>5, <3>2 DEF Current, NextVps
    <3> QED
      BY <3>2, <3>3 DEF VmGone
  <2> QED
    BY <1>2, <2>1, <2>2, <2>3, <2>4, <2>5, LabelsReached DEF Next, OneAtATime
<1> QED
  BY <1>1, <1>2 DEF DestroyedGone

\* There is no destroyed row at first.
LEMMA InitDestroyedGone == Init => DestroyedGone
  BY DEF Init, DestroyedGone, Idle, NoRow

\* With one handler at a time and a provider that never refuses to destroy a VM, a handler
\* that is dropped half-way leaves no VM behind that nobody can act on: an administrator
\* can still destroy it by its row.
THEOREM VmReachableHolds == ASSUME OneAtATime, ~DestroyFails PROVE Spec => []VmReachable
<1>1. Init => IInv /\ AllCurrent /\ DestroyedGone
  BY InitIInv, InitSerial, InitDestroyedGone
<1>2. IInv /\ AllCurrent /\ DestroyedGone /\ [Next]_vars => (IInv /\ AllCurrent /\ DestroyedGone)'
  BY StepIInv, NextCurrent, NextDestroyedGone
<1>3. IInv /\ DestroyedGone => VmReachable
  <2> SUFFICES ASSUME IInv, DestroyedGone, NEW v \in VMs, LiveVm(v), v \notin lost,
                      NEW r \in Vpses, vps[r].vm = v
               PROVE  vps[r].state # "destroyed"
    BY DEF VmReachable, IInv, LiveVmKnown
  <2> QED
    BY ConstantsOK DEF DestroyedGone, VmGone, LiveVm
<1> QED
  BY <1>1, <1>2, <1>3, PTL DEF Spec

\* A row as it is to be found at rest, but for its VM when it is destroyed.
RowTidy(r) ==
  /\ Alive(r) => vpsOf[vps[r].name] = r
  /\ vps[r].state = "running" =>
       LiveVm(vps[r].vm) /\ (vm[vps[r].vm] = "on" \/ r \in dark)
  /\ vps[r].state = "stopped" => vm[vps[r].vm] = "off"
  /\ vps[r].state = "destroyed" => \A a \in Agents : vpsOf[a] # r

\* Half-way through what a handler does to its row.
Busy == {"assign_vps", "set_running", "set_stopped", "restart_start", "set_destroyed",
         "list_agents", "unassign", "delete_agent"}

Tidy(p) ==
  /\ \A r \in Vpses : RowTidy(r) \/ (h[p].pc \in Busy /\ h[p].vps = r)
  /\ h[p].pc \in {"count_vpses", "insert_vps", "assign_vps"} =>
       h[p].agent \in agents /\ vpsOf[h[p].agent] = None
  /\ h[p].pc = "update_refs" => vm[h[p].vm] = "on"
  /\ h[p].pc = "set_running" => vpsOf[vps[h[p].vps].name] = h[p].vps /\ vm[vps[h[p].vps].vm] = "on"
  /\ h[p].pc = "set_stopped" => vpsOf[vps[h[p].vps].name] = h[p].vps /\ vm[vps[h[p].vps].vm] = "off"
  /\ h[p].pc \in {"restart_stop", "restart_start"} =>
       /\ vps[h[p].vps].state = "running" /\ vpsOf[vps[h[p].vps].name] = h[p].vps
       /\ LiveVm(vps[h[p].vps].vm)
  /\ h[p].op \in {"destroy", "delete_agent"} /\ h[p].pc \in {"load", "destroy_vm", "set_destroyed"} =>
       h[p].agent \in Agents /\ vpsOf[h[p].agent] = h[p].vps
  /\ h[p].pc \in {"list_agents", "unassign"} => h[p].vps \in Vpses /\ vps[h[p].vps].state = "destroyed"
  /\ h[p].pc = "unassign" => h[p].holders = {a \in Agents : vpsOf[a] = h[p].vps}
  /\ h[p].pc = "delete_agent" =>
       /\ h[p].agent \in Agents /\ vpsOf[h[p].agent] = h[p].vps
       /\ h[p].vps # None => vps[h[p].vps].state = "destroyed"

\* Tables as they were, and the handler is not half-way through, or in the same row.
LEMMA QuietTidy ==
  ASSUME NEW p \in Procs, Tidy(p), NEW o, NEW l, NEW a, NEW r, NEW v, NEW t, NEW k,
         Becomes(p, o, l, a, r, v, t, k),
         UNCHANGED <<agents, vpsOf, vps, vm, dark>>,
         h[p].pc \notin Busy,
         l \notin {"assign_vps", "update_refs", "set_running", "set_stopped", "restart_start",
                  "list_agents", "unassign"},
         l = "restart_stop" => r \in Vpses /\ vps[r].state = "running",
         l \in {"count_vpses", "insert_vps"} => a \in agents /\ vpsOf[a] = None,
         o \in {"destroy", "delete_agent"} /\ l \in {"load", "destroy_vm", "set_destroyed"} =>
            a \in Agents /\ vpsOf[a] = r,
         l = "delete_agent" =>
           /\ a \in Agents /\ vpsOf[a] = r
           /\ r # None => vps[r].state = "destroyed"
  PROVE  Tidy(p)'
<1>1. \A x \in Vpses : RowTidy(x) /\ RowTidy(x)'
  BY DEF Tidy, RowTidy, Alive, LiveVm
<1> QED
  BY <1>1 DEF Tidy, Becomes, RowTidy, Alive, LiveVm

\* A request changes no table.
LEMMA RequestTidy ==
  ASSUME IInv, NEW p \in Procs, Tidy(p), Request(p)
  PROVE  Tidy(p)'
<1>0. /\ h \in [Procs -> Handler] /\ vpsOf \in [Agents -> Vpses \cup {None}] /\ agents \subseteq Agents
      /\ UNCHANGED <<agents, vpsOf, vps, vm, dark>>
  BY DEF IInv, TypeInv, TypeOK, Request, CleanupStuck, EnforceLimits, ProvisionVps, DeleteAgent,
     UserOp, AdminOp
<1>1. ASSUME NEW o \in Op, NEW l \in {"count_vpses", "load", "delete_agent", "next_vps"},
             NEW a \in Agents \cup {None}, NEW x \in Vpses \cup {None}, NEW t \in SUBSET Snapshot,
             Enter(p, o, l, a, x, t),
             l = "count_vpses" => a \in agents /\ vpsOf[a] = None,
             o \in {"destroy", "delete_agent"} /\ l = "load" => a \in Agents /\ vpsOf[a] = x,
             l = "delete_agent" => a \in Agents /\ vpsOf[a] = x /\ x = None
      PROVE  Tidy(p)'
  <2>1. Becomes(p, o, l, a, x, None, t, {})
    <3>1. l \in Label
      BY DEF Label
    <3> QED
      BY <1>0, <1>1, <3>1, EnterDoes
  <2>2. h[p].pc = "idle"
    BY <1>1 DEF Enter, Idle
  <2> QED
    BY <1>0, <1>1, <2>1, <2>2, QuietTidy DEF Busy
<1>2. CASE CleanupStuck(p)
  BY <1>1, <1>2, RowsInAreSnapshots DEF CleanupStuck, IInv, TypeInv, Op, VpsState
<1>3. CASE EnforceLimits(p)
  <2>1. PICK over \in SUBSET Users :
          Enter(p, "monitor", "next_vps", None, None,
                {s \in RowsIn("running") : Owner[vps[s.vps].name] \in over})
    BY <1>3 DEF EnforceLimits
  <2>2. {s \in RowsIn("running") : Owner[vps[s.vps].name] \in over} \in SUBSET Snapshot
    BY RowsInAreSnapshots DEF IInv, TypeInv, VpsState
  <2>3. "monitor" \in Op
    BY DEF Op
  <2> QED
    BY <1>1, <2>1, <2>2, <2>3
<1>4. ASSUME NEW ag \in Agents, ProvisionVps(p, ag) PROVE Tidy(p)'
  BY <1>1, <1>4 DEF ProvisionVps, Op
<1>5. ASSUME NEW ag \in Agents, DeleteAgent(p, ag) PROVE Tidy(p)'
  BY <1>0, <1>1, <1>5 DEF DeleteAgent, Op
<1>6. ASSUME NEW ag \in Agents, NEW op \in {"start", "stop", "restart", "destroy"},
             UserOp(p, op, ag)
      PROVE  Tidy(p)'
  <2>1. vpsOf[ag] \in Vpses \cup {None} /\ op \in Op /\ op # "delete_agent"
    BY <1>0 DEF Op
  <2>2. Enter(p, op, "load", IF op = "destroy" THEN ag ELSE None, vpsOf[ag], {})
    BY <1>6 DEF UserOp
  <2>3. PICK who \in Agents \cup {None} :
          Enter(p, op, "load", who, vpsOf[ag], {}) /\ (op = "destroy" => who = ag)
    BY <2>2
  <2>4. {} \in SUBSET Snapshot
    OBVIOUS
  <2> QED
    BY <1>1, <2>1, <2>3, <2>4
<1>7. ASSUME NEW rw \in Vpses, NEW op \in {"stop", "admin_destroy"}, AdminOp(p, op, rw)
      PROVE  Tidy(p)'
  BY <1>1, <1>7 DEF AdminOp, Op
<1> QED
  BY <1>2, <1>3, <1>4, <1>5, <1>6, <1>7 DEF Request

\* Nor does a read, a loop's next round or a failed call to start or stop.
LEMMA ReadTidy ==
  ASSUME IInv, AllCurrent, DestroyedGone, NEW p \in Procs, Tidy(p),
         \/ CountVpses(p) \/ LoadForStart(p) \/ LoadForStop(p) \/ LoadForRestart(p)
         \/ LoadForDestroy(p) \/ PowerCallFails(p) \/ NextVps(p) \/ LoopDone(p)
  PROVE  Tidy(p)'
<1> USE ConstantsOK DEF Holds, At
<1>0. /\ h \in [Procs -> Handler] /\ vps \in [Vpses -> VpsRow] /\ LocalsOK(p)
      /\ UNCHANGED <<agents, vpsOf, vps, vm, dark>> /\ h[p].pc \notin Busy
  BY DEF IInv, TypeInv, TypeOK, CountVpses, LoadForStart, LoadForStop, LoadForRestart,
         LoadForDestroy, PowerCallFails, NextVps, LoopDone, Busy
<1>1. ASSUME Return(p) PROVE Tidy(p)'
  <2>1. Becomes(p, "idle", "idle", None, None, None, {}, {})
    BY <1>0, <1>1, ReturnDoes
  <2> QED
    BY <1>0, <2>1, QuietTidy
<1>2. ASSUME NEW l \in {"insert_vps", "delete_agent", "next_vps"}, GoTo(p, l),
             l = "insert_vps" => h[p].pc = "count_vpses",
             l = "delete_agent" => h[p].op = "delete_agent" /\ h[p].pc = "load"
                                     /\ vps[h[p].vps].state = "destroyed"
      PROVE  Tidy(p)'
  <2>1. Becomes(p, h[p].op, l, h[p].agent, h[p].vps, h[p].vm, h[p].todo, h[p].holders)
    BY <1>0, <1>2, GoToDoes DEF Label
  <2>2. l = "insert_vps" => h[p].agent \in agents /\ vpsOf[h[p].agent] = None
    BY <1>2 DEF Tidy
  <2>3. l = "delete_agent" => /\ h[p].agent \in Agents /\ vpsOf[h[p].agent] = h[p].vps
                             /\ vps[h[p].vps].state = "destroyed"
    BY <1>2 DEF Tidy
  <2> QED
    BY <1>0, <2>1, <2>2, <2>3, QuietTidy
<1>3. ASSUME NEW v \in VMs \cup {None},
             NEW l \in {"start_vm", "stop_vm", "restart_stop", "destroy_vm", "set_destroyed"},
             WithVm(p, v, l), h[p].pc = "load",
             l = "restart_stop" => vps[h[p].vps].state = "running"
      PROVE  Tidy(p)'
  <2>1. Becomes(p, h[p].op, l, h[p].agent, h[p].vps, v, h[p].todo, h[p].holders)
    <3>1. l \in Label
      BY DEF Label
    <3> QED
      BY <1>0, <1>3, <3>1, WithVmDoes
  <2>2. h[p].vps \in Vpses
    BY <1>0, <1>3 DEF LocalsOK
  <2>3. h[p].op \in {"destroy", "delete_agent"} =>
          h[p].agent \in Agents /\ vpsOf[h[p].agent] = h[p].vps
    BY <1>3 DEF Tidy
  <2>4. /\ l \notin {"assign_vps", "update_refs", "set_running", "set_stopped", "restart_start",
                     "list_agents", "unassign", "count_vpses", "insert_vps", "delete_agent"}
        /\ UNCHANGED <<agents, vpsOf, vps, vm, dark>> /\ h[p].pc \notin Busy
    BY <1>0, <1>3
  <2> QED
    BY <1>3, <2>1, <2>2, <2>3, <2>4, QuietTidy
<1>4. CASE CountVpses(p) \/ PowerCallFails(p) \/ LoopDone(p)
  BY <1>1, <1>2, <1>4 DEF CountVpses, PowerCallFails, LoopDone
<1>5. CASE LoadForStart(p) \/ LoadForStop(p) \/ LoadForRestart(p) \/ LoadForDestroy(p)
  <2>1. h[p].vps \in Vpses /\ vps[h[p].vps].vm \in VMs \cup {None} /\ h[p].pc = "load"
    BY <1>0, <1>5 DEF LoadForStart, LoadForStop, LoadForRestart, LoadForDestroy, LocalsOK, VpsRow
  <2> QED
    BY <1>1, <1>2, <1>3, <1>5, <2>1
       DEF LoadForStart, LoadForStop, LoadForRestart, LoadForDestroy
<1>6. CASE NextVps(p)
  <2> DEFINE next(s) == IF h[p].op = "monitor"
                          THEN IF s.vm # None THEN "stop_vm" ELSE "next_vps"
                          ELSE IF s.vm # None THEN "destroy_vm" ELSE "set_destroyed"
  <2>1. PICK s \in h[p].todo :
          h' = [h EXCEPT ![p] = [Idle EXCEPT !.op = h[p].op, !.pc = next(s), !.vps = s.vps,
                                             !.vm = s.vm, !.todo = h[p].todo \ {s}]]
    BY <1>6 DEF NextVps
  <2>2. next(s) \in Label
    BY DEF Label
  <2>3. Becomes(p, h[p].op, next(s), None, s.vps, s.vm, h[p].todo \ {s}, {})
    BY <1>0, <2>1, <2>2, TakeVpsDoes
  <2>4. next(s) \in {"stop_vm", "next_vps", "destroy_vm", "set_destroyed"}
    OBVIOUS
  <2>5. h[p].op \in {"cleanup", "monitor"}
    BY <1>0, <1>6 DEF NextVps, LocalsOK
  <2> HIDE DEF next
  <2> QED
    BY <1>0, <2>3, <2>4, <2>5, QuietTidy
<1> QED
  BY <1>4, <1>5, <1>6

\* A row the handler does not have in hand, and the VM of that row, are as they were.
LEMMA OtherRowTidy ==
  ASSUME NEW p \in Procs, Tidy(p), NEW r \in Vpses, h[p].pc \notin Busy \/ h[p].vps # r,
         UNCHANGED <<vpsOf, vps[r]>>, r \in dark => r \in dark',
         vps[r].state \in {"running", "stopped"} => UNCHANGED vm[vps[r].vm]
  PROVE  RowTidy(r)'
  BY DEF Tidy, RowTidy, Alive, LiveVm

\* provision_vps, from the insertion of the row to the id of its VM.
LEMMA BuildTidy ==
  ASSUME IInv, AllCurrent, NEW p \in Procs, Tidy(p),
         \/ InsertVps(p) \/ AssignVps(p) \/ CreateVm(p) \/ CreateVmFails(p) \/ UpdateProviderRefs(p)
  PROVE  Tidy(p)'
<1> USE ConstantsOK DEF Holds
<1>0. /\ h \in [Procs -> Handler] /\ vps \in [Vpses -> VpsRow]
      /\ vpsOf \in [Agents -> Vpses \cup {None}]
      /\ vm \in [VMs -> {"unused", "on", "off", "gone"}]
      /\ LocalsOK(p) /\ Current(p)
      /\ \A r \in Vpses : vps[r].state \in {"running", "stopped"} =>
                            vps[r].vm \in VMs /\ vm[vps[r].vm] # "unused"
      /\ UNCHANGED dark
  BY DEF IInv, TypeInv, TypeOK, AllCurrent, PoweredRowHasVm, RowVmUsed, VpsRow,
     InsertVps, AssignVps, CreateVm, CreateVmFails, UpdateProviderRefs
<1>1. h[p].op = "provision"
  BY <1>0 DEF InsertVps, AssignVps, CreateVm, CreateVmFails, UpdateProviderRefs, LocalsOK, Current
<1>2. CASE InsertVps(p)
  <2>1. PICK x \in Vpses : /\ h' = [h EXCEPT ![p].vps = x, ![p].pc = "assign_vps"]
                           /\ vps' = [vps EXCEPT ![x] = [state |-> "provisioning", vm |-> None,
                                     name |-> h[p].agent]]
    BY <1>2 DEF InsertVps
  <2>2. Becomes(p, h[p].op, "assign_vps", h[p].agent, x, h[p].vm, h[p].todo, h[p].holders)
    BY <1>0, <2>1, WithVpsDoes DEF Label
  <2>3. \A r \in Vpses : r # x => RowTidy(r)'
    BY <1>0, <1>2, <2>1, OtherRowTidy DEF InsertVps, Busy
  <2>4. \A r \in Vpses : RowTidy(r)' \/ (h'[p].pc \in Busy /\ h'[p].vps = r)
    BY <2>2, <2>3 DEF Becomes, Busy
  <2>5. h[p].agent \in agents /\ vpsOf[h[p].agent] = None /\ UNCHANGED <<agents, vpsOf>>
    BY <1>2 DEF InsertVps, Tidy
  <2> QED
    BY <1>1, <2>2, <2>4, <2>5 DEF Becomes, Tidy
<1>3. CASE AssignVps(p)
  <2> DEFINE a == h[p].agent
             x == h[p].vps
  <2>1. /\ x \in Vpses /\ Alive(x) /\ a \in Agents /\ a \in agents /\ vpsOf[a] = None
        /\ vps[x].name = a /\ \A b \in Agents : vpsOf[b] # x
        /\ vps[x].state \notin {"running", "stopped"}
    BY <1>0, <1>3 DEF AssignVps, LocalsOK, Current, Reviving, Tidy, IInv, AssignsFresh, BuildsAlone,
       Building, PoweredRowHasVm
  <2>2. /\ vpsOf' = [vpsOf EXCEPT ![a] = x] /\ UNCHANGED <<agents, vps, vm>>
        /\ h' = [h EXCEPT ![p].agent = None, ![p].pc = "create_vm"]
    BY <1>3, <2>1 DEF AssignVps, UniqueOK
  <2>3. Becomes(p, "provision", "create_vm", None, x, h[p].vm, h[p].todo, h[p].holders)
    BY <1>0, <1>1, <2>2, WithoutAgentDoes DEF Label
  <2>4. ASSUME NEW r \in Vpses, r # x PROVE RowTidy(r)'
    <3>1. RowTidy(r)
      BY <2>4 DEF Tidy
    <3>2. Alive(r) => vps[r].name \in Agents
      BY DEF IInv, RowNamed, Alive
    <3> QED
      BY <1>0, <2>1, <2>2, <2>4, <3>1, <3>2 DEF RowTidy, Alive, LiveVm
  <2>5. RowTidy(x)'
    BY <1>0, <2>1, <2>2 DEF RowTidy, Alive
  <2> QED
    BY <2>3, <2>4, <2>5 DEF Becomes, Tidy
<1>4. CASE CreateVm(p) \/ CreateVmFails(p)
  <2>1. \A v \in VMs : vm[v] # "unused" => vm'[v] = vm[v]
    BY <1>0, <1>4 DEF CreateVm, CreateVmFails
  <2>2. \A r \in Vpses : RowTidy(r)'
    BY <1>0, <1>4, <2>1, OtherRowTidy DEF CreateVm, CreateVmFails, Busy
  <2>3. CASE CreateVm(p)
    <3>1. PICK v \in VMs : vm' = [vm EXCEPT ![v] = "on"] /\ WithVm(p, v, "update_refs")
      BY <2>3 DEF CreateVm
    <3>2. Becomes(p, "provision", "update_refs", h[p].agent, h[p].vps, v, h[p].todo, h[p].holders)
      BY <1>0, <1>1, <3>1, WithVmDoes DEF Label
    <3> QED
      BY <1>0, <2>2, <3>1, <3>2 DEF Becomes, Tidy
  <2>4. CASE CreateVmFails(p)
    <3>1. Becomes(p, "idle", "idle", None, None, None, {}, {})
      BY <1>0, <2>4, ReturnDoes DEF CreateVmFails
    <3> QED
      BY <2>2, <3>1 DEF Becomes, Tidy
  <2> QED
    BY <1>4, <2>3, <2>4
<1>5. CASE UpdateProviderRefs(p)
  <2> DEFINE x == h[p].vps
  <2>1. /\ x \in Vpses /\ h[p].vm \in VMs /\ vps' = [vps EXCEPT ![x].vm = h[p].vm]
        /\ UNCHANGED <<vpsOf, vm>> /\ vm[h[p].vm] = "on" /\ vpsOf[vps[x].name] = x
    BY <1>0, <1>5 DEF UpdateProviderRefs, LocalsOK, Tidy, RowTidy, Current, Reviving, Busy
  <2>2. vps'[x].name = vps[x].name /\ vps'[x].vm = h[p].vm
    BY <1>0, <2>1 DEF VpsRow
  <2>3. Becomes(p, "provision", "set_running", h[p].agent, x, None, h[p].todo, h[p].holders)
    BY <1>0, <1>1, <1>5, WithVmDoes DEF UpdateProviderRefs, DoneWithVm, Label
  <2>4. \A r \in Vpses : r # x => RowTidy(r)'
    BY <1>0, <2>1, OtherRowTidy
  <2> QED
    BY <2>1, <2>2, <2>3, <2>4 DEF Becomes, Tidy, Busy
<1> QED
  BY <1>2, <1>3, <1>4, <1>5

\* Start, stop and destroy: the call to the provider.
LEMMA PowerTidy ==
  ASSUME IInv, AllCurrent, NEW p \in Procs, Tidy(p), StartVm(p) \/ StopVm(p) \/ DestroyVm(p)
  PROVE  Tidy(p)'
<1> USE ConstantsOK DEF Holds
<1> DEFINE x == h[p].vps
<1>0. /\ h \in [Procs -> Handler] /\ vps \in [Vpses -> VpsRow]
      /\ vm \in [VMs -> {"unused", "on", "off", "gone"}]
      /\ LocalsOK(p) /\ Current(p)
  BY DEF IInv, TypeInv, TypeOK, AllCurrent
<1>1. /\ x \in Vpses /\ h[p].vm \in VMs /\ vps[x].vm = h[p].vm /\ UNCHANGED <<agents, vpsOf, vps>>
      /\ h[p].pc \in {"start_vm", "stop_vm", "destroy_vm"}
      /\ h[p].pc # "destroy_vm" => Alive(x)
  BY <1>0 DEF StartVm, StopVm, DestroyVm, LocalsOK, Current, Reviving
<1>2. ASSUME NEW r \in Vpses, r # x PROVE RowTidy(r)'
  <2>1. vps[r].state \in {"running", "stopped"} => vps[r].vm \in VMs /\ vps[r].vm # h[p].vm
    BY <1>0, <1>1, <1>2 DEF IInv, PoweredRowHasVm, VmOfOneRow, VpsRow
  <2>2. /\ \A v \in VMs : v # h[p].vm => vm'[v] = vm[v]
        /\ r \in dark => r \in dark'
    BY <1>0, <1>2 DEF StartVm, StopVm, DestroyVm
  <2> QED
    BY <1>1, <2>1, <2>2, OtherRowTidy, <1>2
<1>3. \A r \in Vpses : RowTidy(r)
  BY <1>1 DEF Tidy, Busy
<1>4. CASE StartVm(p)
  <2>1. Becomes(p, h[p].op, "set_running", h[p].agent, x, None, h[p].todo, h[p].holders)
    BY <1>0, <1>4, WithVmDoes DEF StartVm, DoneWithVm, Label
  <2>2. vm'[h[p].vm] = "on" /\ vpsOf[vps[x].name] = x
    BY <1>0, <1>1, <1>3, <1>4 DEF StartVm, RowTidy
  <2> QED
    BY <1>1, <1>2, <2>1, <2>2 DEF Becomes, Tidy, Busy
<1>5. CASE StopVm(p)
  <2>1. Becomes(p, h[p].op, "set_stopped", h[p].agent, x, None, h[p].todo, h[p].holders)
    BY <1>0, <1>5, WithVmDoes DEF StopVm, DoneWithVm, Label
  <2>2. vm'[h[p].vm] = "off" /\ vpsOf[vps[x].name] = x
    BY <1>0, <1>1, <1>3, <1>5 DEF StopVm, RowTidy
  <2> QED
    BY <1>1, <1>2, <2>1, <2>2 DEF Becomes, Tidy, Busy
<1>6. CASE DestroyVm(p)
  <2>1. Becomes(p, h[p].op, "set_destroyed", h[p].agent, x, None, h[p].todo, h[p].holders)
    BY <1>0, <1>6, WithVmDoes DEF DestroyVm, DoneWithVm, Label
  <2> QED
    BY <1>1, <1>2, <1>6, <2>1 DEF Becomes, Tidy, Busy, DestroyVm
<1> QED
  BY <1>4, <1>5, <1>6

\* The two calls of a restart: what it leaves switched off is dark.
LEMMA RestartTidy ==
  ASSUME IInv, AllCurrent, NEW p \in Procs, Tidy(p),
         RestartStopVm(p) \/ RestartStartVm(p) \/ RestartStartFails(p)
  PROVE  Tidy(p)'
<1> USE ConstantsOK DEF Holds
<1> DEFINE x == h[p].vps
           v == h[p].vm
<1>0. /\ h \in [Procs -> Handler] /\ vps \in [Vpses -> VpsRow]
      /\ vm \in [VMs -> {"unused", "on", "off", "gone"}]
      /\ LocalsOK(p) /\ Current(p)
  BY DEF IInv, TypeInv, TypeOK, AllCurrent
<1>1. /\ x \in Vpses /\ v \in VMs /\ vps[x].vm = v /\ UNCHANGED <<agents, vpsOf, vps>>
      /\ vps[x].state = "running" /\ vpsOf[vps[x].name] = x /\ LiveVm(v)
      /\ \A w \in VMs : w # v => vm'[w] = vm[w]
      /\ \A r \in Vpses : r # x /\ r \in dark => r \in dark'
  BY <1>0 DEF RestartStopVm, RestartStartVm, RestartStartFails, LocalsOK, Current, Tidy
<1>2. ASSUME NEW r \in Vpses, r # x PROVE RowTidy(r)'
  <2>1. vps[r].state \in {"running", "stopped"} => vps[r].vm \in VMs /\ vps[r].vm # v
    BY <1>0, <1>1, <1>2 DEF IInv, PoweredRowHasVm, VmOfOneRow, VpsRow
  <2> QED
    BY <1>1, <1>2, <2>1, OtherRowTidy
<1>3. CASE RestartStopVm(p)
  <2>1. Becomes(p, h[p].op, "restart_start", h[p].agent, x, v, h[p].todo, h[p].holders)
    BY <1>0, <1>3, GoToDoes DEF RestartStopVm, Label
  <2>2. vm'[v] \in {"on", "off"}
    BY <1>0, <1>1, <1>3 DEF RestartStopVm, LiveVm
  <2> QED
    BY <1>1, <1>2, <2>1, <2>2 DEF Becomes, Tidy, Busy, LiveVm
<1>4. CASE RestartStartVm(p) \/ RestartStartFails(p)
  <2>1. Becomes(p, "idle", "idle", None, None, None, {}, {})
    BY <1>0, <1>4, ReturnDoes DEF RestartStartVm, RestartStartFails
  <2>2. vm'[v] \in {"on", "off"} /\ (vm'[v] = "on" \/ x \in dark')
    BY <1>0, <1>1, <1>4 DEF RestartStartVm, RestartStartFails, LiveVm
  <2>3. ASSUME NEW r \in Vpses, r = x PROVE RowTidy(r)'
    BY <1>1, <2>2, <2>3 DEF RowTidy, LiveVm
  <2> QED
    BY <1>2, <2>1, <2>3 DEF Becomes, Tidy
<1> QED
  BY <1>3, <1>4

\* The statement that sets the state of the row.
LEMMA StatesTidy ==
  ASSUME IInv, AllCurrent, NEW p \in Procs, Tidy(p), SetRunning(p) \/ SetStopped(p) \/ SetDestroyed(p)
  PROVE  Tidy(p)'
<1> USE ConstantsOK DEF Holds
<1> DEFINE x == h[p].vps
<1>0. /\ h \in [Procs -> Handler] /\ vps \in [Vpses -> VpsRow]
      /\ LocalsOK(p) /\ Current(p)
  BY DEF IInv, TypeInv, TypeOK, AllCurrent
<1>1. /\ x \in Vpses /\ UNCHANGED <<agents, vpsOf, vm, dark>>
      /\ vps'[x].name = vps[x].name /\ vps'[x].vm = vps[x].vm
      /\ \A r \in Vpses : r # x => vps'[r] = vps[r]
  BY <1>0 DEF SetRunning, SetStopped, SetDestroyed, LocalsOK, VpsRow
<1>2. \A r \in Vpses : r # x => RowTidy(r)'
  BY <1>1, OtherRowTidy
<1>3. CASE SetRunning(p) \/ SetStopped(p)
  <2>1. ASSUME NEW r \in Vpses, r = x PROVE RowTidy(r)'
    <3>1. /\ vpsOf[vps[x].name] = x
          /\ SetRunning(p) => vm[vps[x].vm] = "on" /\ vps'[x].state = "running"
          /\ SetStopped(p) => vm[vps[x].vm] = "off" /\ vps'[x].state = "stopped"
      BY <1>0, <1>1, <1>3 DEF SetRunning, SetStopped, Tidy, VpsRow
    <3> QED
      BY <1>1, <1>3, <2>1, <3>1 DEF RowTidy, LiveVm
  <2>2. \A r \in Vpses : RowTidy(r)'
    BY <1>2, <2>1
  <2>3. CASE Return(p)
    <3>1. Becomes(p, "idle", "idle", None, None, None, {}, {})
      BY <1>0, <2>3, ReturnDoes
    <3> QED
      BY <2>2, <3>1 DEF Becomes, Tidy
  <2>4. CASE GoTo(p, "next_vps")
    <3>1. Becomes(p, h[p].op, "next_vps", h[p].agent, h[p].vps, h[p].vm, h[p].todo, h[p].holders)
      BY <1>0, <2>4, GoToDoes DEF Label
    <3> QED
      BY <2>2, <3>1 DEF Becomes, Tidy
  <2> QED
    BY <1>3, <2>3, <2>4 DEF SetRunning, SetStopped
<1>4. CASE SetDestroyed(p)
  <2> DEFINE l == AfterDestroyed(h[p].op)
             k == IF h[p].op = "destroy" THEN {h[p].agent} ELSE {}
  <2>1. /\ l \in {"unassign", "delete_agent", "list_agents"} /\ l \in Label
        /\ l = "unassign" => h[p].op = "destroy" /\ k = {h[p].agent}
        /\ l = "delete_agent" => h[p].op = "delete_agent"
    BY DEF AfterDestroyed, Label
  <2>2. k \in SUBSET Agents
    BY <1>0, <1>4 DEF SetDestroyed, LocalsOK
  <2>3. Becomes(p, h[p].op, l, h[p].agent, x, h[p].vm, h[p].todo, k)
    BY <1>0, <1>4, <2>1, <2>2, WithHoldersDoes DEF SetDestroyed
  <2>4. vps'[x].state = "destroyed"
    BY <1>0, <1>1, <1>4 DEF SetDestroyed, VpsRow
  <2>5. h[p].op \in {"destroy", "delete_agent"} => h[p].agent \in Agents /\ vpsOf[h[p].agent] = x
    BY <1>4 DEF SetDestroyed, Tidy
  <2>6. h[p].op = "destroy" => {h[p].agent} = {a \in Agents : vpsOf[a] = x}
    BY <1>1, <2>5 DEF IInv, AttachedByName
  <2> HIDE DEF l, k
  <2>7. \A r \in Vpses : RowTidy(r)' \/ (h'[p].pc \in Busy /\ h'[p].vps = r)
    BY <1>2, <2>1, <2>3 DEF Becomes, Busy
  <2> QED
    BY <1>1, <2>1, <2>3, <2>4, <2>5, <2>6, <2>7 DEF Becomes, Tidy
<1> QED
  BY <1>3, <1>4

\* What the destruction of a VPS does to the agents, in the end.
LEMMA ReleaseTidy ==
  ASSUME IInv, AllCurrent, NEW p \in Procs, Tidy(p),
         ListAgents(p) \/ Unassign(p) \/ UnassignDone(p) \/ DeleteAgentRow(p)
  PROVE  Tidy(p)'
<1> USE ConstantsOK DEF Holds
<1> DEFINE x == h[p].vps
<1>0. /\ h \in [Procs -> Handler] /\ vps \in [Vpses -> VpsRow] /\ h[p].holders \in SUBSET Agents
      /\ vpsOf \in [Agents -> Vpses \cup {None}]
      /\ LocalsOK(p) /\ Current(p) /\ UNCHANGED <<vps, vm, dark>>
      /\ \A a \in Agents : vpsOf[a] # None => a \in agents /\ vps[vpsOf[a]].name = a
  BY DEF IInv, TypeInv, TypeOK, AllCurrent, AttachedByName, Handler, ListAgents, Unassign,
     UnassignDone, DeleteAgentRow
<1>1. ASSUME NEW a \in Agents, vpsOf' = [vpsOf EXCEPT ![a] = None], vpsOf[a] \in {x, None},
             NEW r \in Vpses, r # x
      PROVE  RowTidy(r)'
  <2>1. RowTidy(r)
    BY <1>1 DEF Tidy
  <2>2. Alive(r) => vps[r].name \in Agents
    BY DEF IInv, RowNamed, Alive
  <2> QED
    BY <1>0, <1>1, <2>1, <2>2 DEF RowTidy, Alive, LiveVm
<1>2. CASE ListAgents(p)
  <2> DEFINE u == Owner[vps[x].name]
             k == {a \in AgentsOf(u) : vpsOf[a] = x}
  <2>1. /\ x \in Vpses /\ vps[x].state = "destroyed" /\ agents \subseteq Agents
        /\ UNCHANGED <<agents, vpsOf>>
    BY <1>0, <1>2 DEF ListAgents, LocalsOK, Tidy, IInv, TypeInv, TypeOK
  <2>2. k = {a \in Agents : vpsOf[a] = x}
    BY <1>0, <2>1 DEF AgentsOf
  <2>3. Becomes(p, h[p].op, "unassign", h[p].agent, x, h[p].vm, h[p].todo, k)
    BY <1>0, <1>2, <2>2, WithHoldersDoes DEF ListAgents, Label
  <2> HIDE DEF k
  <2>4. \A r \in Vpses : r # x => RowTidy(r)'
    BY <1>0, <1>2, OtherRowTidy DEF ListAgents
  <2> QED
    BY <1>0, <2>1, <2>2, <2>3, <2>4 DEF Becomes, Tidy, Busy
<1>3. CASE Unassign(p)
  <2>1. PICK a \in h[p].holders : /\ vpsOf' = [vpsOf EXCEPT ![a] = None]
                                  /\ h' = [h EXCEPT ![p].holders = @ \ {a}]
    BY <1>3 DEF Unassign
  <2>2. /\ a \in Agents /\ vpsOf[a] = x /\ h[p].holders = {b \in Agents : vpsOf[b] = x}
        /\ vps[x].state = "destroyed"
    BY <1>3, <2>1 DEF Unassign, Tidy
  <2>3. Becomes(p, h[p].op, h[p].pc, h[p].agent, x, h[p].vm, h[p].todo, h[p].holders \ {a})
    BY <1>0, <2>1, FewerHoldersDoes
  <2>4. \A r \in Vpses : r # x => RowTidy(r)'
    BY <1>1, <2>1, <2>2
  <2>5. h[p].holders \ {a} = {b \in Agents : vpsOf'[b] = x}
    <3>1. x # None
      BY <1>3 DEF Unassign, Tidy
    <3> QED
      BY <1>0, <2>1, <2>2, <3>1
  <2> QED
    BY <1>0, <1>3, <2>2, <2>3, <2>4, <2>5 DEF Unassign, Becomes, Tidy, Busy
<1>4. CASE UnassignDone(p)
  <2>1. /\ UNCHANGED <<agents, vpsOf>> /\ vps[x].state = "destroyed"
        /\ \A a \in Agents : vpsOf[a] # x
    BY <1>4 DEF UnassignDone, Tidy
  <2>2. \A r \in Vpses : RowTidy(r)'
    <3>1. \A r \in Vpses : r # x => RowTidy(r)'
      BY <1>0, <2>1, OtherRowTidy
    <3>2. ASSUME NEW r \in Vpses, r = x PROVE RowTidy(r)'
      BY <1>0, <2>1, <3>2 DEF RowTidy, Alive
    <3> QED
      BY <3>1, <3>2
  <2>3. CASE Return(p)
    <3>1. Becomes(p, "idle", "idle", None, None, None, {}, {})
      BY <1>0, <2>3, ReturnDoes
    <3> QED
      BY <2>2, <3>1 DEF Becomes, Tidy
  <2>4. CASE GoTo(p, "next_vps")
    <3>1. Becomes(p, h[p].op, "next_vps", h[p].agent, h[p].vps, h[p].vm, h[p].todo, h[p].holders)
      BY <1>0, <2>4, GoToDoes DEF Label
    <3> QED
      BY <2>2, <3>1 DEF Becomes, Tidy
  <2> QED
    BY <1>4, <2>3, <2>4 DEF UnassignDone
<1>5. CASE DeleteAgentRow(p)
  <2> DEFINE a == h[p].agent
  <2>1. /\ a \in Agents /\ vpsOf[a] = x /\ vpsOf' = [vpsOf EXCEPT ![a] = None]
        /\ x # None => vps[x].state = "destroyed"
    BY <1>5 DEF DeleteAgentRow, Tidy
  <2>2. \A r \in Vpses : RowTidy(r)'
    <3>1. \A r \in Vpses : r # x => RowTidy(r)'
      BY <1>1, <2>1
    <3>2. ASSUME NEW r \in Vpses, r = x PROVE RowTidy(r)'
      BY <1>0, <2>1, <3>2 DEF RowTidy, Alive
    <3> QED
      BY <3>1, <3>2
  <2>3. Becomes(p, "idle", "idle", None, None, None, {}, {})
    BY <1>0, <1>5, ReturnDoes DEF DeleteAgentRow
  <2> QED
    BY <2>2, <2>3 DEF Becomes, Tidy
<1> QED
  BY <1>2, <1>3, <1>4, <1>5

\* As long as nothing was cut short.
TidyInv == aborts = 0 => \A p \in Procs : Tidy(p)

\* Every step of a history in which nothing was cut short.
LEMMA NextTidy ==
  ASSUME OneAtATime, ~DestroyFails, IInv, AllCurrent, DestroyedGone, TidyInv, [Next]_vars
  PROVE  TidyInv'
<1> SUFFICES ASSUME aborts' = 0 PROVE \A p \in Procs : Tidy(p)'
  BY DEF TidyInv
<1>0. aborts \in Nat
  BY ConstantsOK DEF IInv, TypeInv, TypeOK
<1>1. CASE UNCHANGED vars
  BY <1>1 DEF vars, TidyInv, Tidy, RowTidy, Alive, LiveVm
<1>2. ASSUME NEW p \in Procs, Request(p) \/ Step(p) PROVE Tidy(p)'
  <2>1. UNCHANGED aborts
    BY <1>2 DEF Request, CleanupStuck, EnforceLimits, ProvisionVps, DeleteAgent, UserOp, AdminOp,
       Step, CountVpses, InsertVps, AssignVps, CreateVm, CreateVmFails, UpdateProviderRefs,
       SetRunning, LoadForStart, LoadForStop, LoadForDestroy, StartVm, StopVm, PowerCallFails,
       SetStopped, LoadForRestart, RestartStopVm, RestartStartVm, RestartStartFails, DestroyVm,
       DestroyVmFails, SetDestroyed, ListAgents, Unassign, UnassignDone, DeleteAgentRow, NextVps,
       LoopDone
  <2>2. Tidy(p)
    BY <2>1 DEF TidyInv
  <2>3. ~DestroyVmFails(p)
    BY DEF DestroyVmFails
  <2> QED
    BY <1>2, <2>2, <2>3, RequestTidy, ReadTidy, BuildTidy, PowerTidy, RestartTidy, StatesTidy,
       ReleaseTidy DEF Step
<1>3. ASSUME NEW p \in Procs, Abort(p) \/ LookupFails(p) \/ MonitorWriteFails(p) PROVE FALSE
  BY <1>0, <1>3 DEF Abort, LookupFails, MonitorWriteFails
<1> QED
  BY <1>1, <1>2, <1>3 DEF Next, OneAtATime

\* There are no rows at first.
LEMMA InitTidy == Init => TidyInv
  BY DEF Init, TidyInv, Tidy, RowTidy, Alive, Idle, NoRow, Busy

\* With one handler at a time, none of them cut short, and a provider that never refuses to
\* destroy a VM, the tables and the provider agree whenever no handler is in flight, but for
\* the VMs that a restart could not start again.
THEOREM AtRestConsistentHolds == ASSUME OneAtATime, ~DestroyFails PROVE Spec => []AtRestConsistent
<1>1. Init => IInv /\ AllCurrent /\ DestroyedGone /\ TidyInv
  BY InitIInv, InitSerial, InitDestroyedGone, InitTidy
<1>2. IInv /\ AllCurrent /\ DestroyedGone /\ TidyInv /\ [Next]_vars
        => (IInv /\ AllCurrent /\ DestroyedGone /\ TidyInv)'
  BY StepIInv, NextCurrent, NextDestroyedGone, NextTidy
<1>3. DestroyedGone /\ TidyInv => AtRestConsistent
  <2> SUFFICES ASSUME DestroyedGone, TidyInv, aborts = 0, \A p \in Procs : h[p] = Idle,
                      NEW r \in Vpses
               PROVE  RowTidy(r) /\ (vps[r].state = "destroyed" => VmGone(r))
    BY DEF AtRestConsistent, RowTidy, VmGone, Alive, LiveVm
  <2> QED
    BY DEF OneAtATime, DestroyedGone, TidyInv, Tidy, Idle, Busy
<1> QED
  BY <1>1, <1>2, <1>3, PTL DEF Spec

=============================================================================
