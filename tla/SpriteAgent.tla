---------------------------- MODULE SpriteAgent ----------------------------
(***************************************************************************)
(* The sprite of one agent: everything that calls the Sprites API for it.  *)
(* provision_vps builds it step by step and deletes it when a step fails   *)
(* (cb-infra/src/sprites.rs), update_config and restart_agent write to it  *)
(* and restart its service (routes/config.rs), stop_vps and start_vps stop *)
(* and start that, destroy_vps deletes it.                                 *)
(* A sprite is named after the agent and the name is the id of the VM: the *)
(* next VPS of the agent has a sprite of the same name, which a handler    *)
(* that is late with the last one cannot tell apart.                       *)
(*                                                                         *)
(* Each call to the API is a step, with its answer, an error, or an error  *)
(* after it took effect (the answer was lost); a handler can be dropped at *)
(* any of them.  The statements on the tables are those of VpsLifecycle,   *)
(* here one step for each handler's beginning and one for its end, and one *)
(* for the row that a creation inserts and gives to the agent.             *)
(***************************************************************************)
EXTENDS Integers, Sequences

CONSTANTS
  Jobs,      \* the handlers in flight at once
  None,
  MaxVpses,  \* VPSes the agent has, one after the other
  MaxJobs    \* handlers that run in all

Rows == 1..MaxVpses

\* What the sprite and the locals of a handler can be.
Sprites == [life : Rows, file : Nat, service : {"none", "off", "on"}, loaded : Nat]

JobRecords ==
  [kind : {"provision", "undo", "configure", "restart", "stop", "start", "destroy"}, row : Rows,
   at : 0..7, wrote : Nat, stopFailed : BOOLEAN]

ASSUME SpriteConstantsOK ==
  /\ MaxVpses \in Nat /\ MaxJobs \in Nat
  /\ None \notin Sprites /\ None \notin JobRecords

VARIABLES
  rows,      \* rows[v]: state of the v-th VPS, and whether it has a provider_vm_id
  vps,       \* the agent's vps_id, or None
  sprite,    \* the sprite of that name, or None
  job,       \* job[j]: the handler's locals, or None
  begun,     \* handlers so far
  writes,    \* configurations written so far: each is known by its number
  left,      \* VPSes whose creation was dropped, or its cleanup, or an answer lost
  troubled,  \* VPSes whose sprite saw another handler than its creation fail or be dropped,
             \* or a stop overlap with another stop or start, or come from an earlier VPS
  hit        \* VPSes whose sprite was deleted by a handler of another one

vars == <<rows, vps, sprite, job, begun, writes, left, troubled, hit>>
tables == <<rows, vps>>

Init ==
  /\ rows = <<>> /\ vps = None
  /\ sprite = None
  /\ job = [j \in Jobs |-> None]
  /\ begun = 0 /\ writes = 0
  /\ left = {} /\ troubled = {} /\ hit = {}

-----------------------------------------------------------------------------
(* What the calls do *)

\* file: the configuration on the disk; loaded: the one the service started with.
Created(row) == [life |-> row, file |-> 0, service |-> "none", loaded |-> 0]
Written == [sprite EXCEPT !.file = writes + 1]
Defined == [sprite EXCEPT !.service = IF @ = "none" THEN "off" ELSE @]
Stopped == [sprite EXCEPT !.service = "off"]

\* Starting a service that runs changes nothing.
Started == IF sprite.service = "off"
           THEN [sprite EXCEPT !.service = "on", !.loaded = sprite.file] ELSE sprite

\* A name that is taken is refused, and so is a call on a sprite or a service that
\* does not exist; but deleting what is gone counts as done (check_allow_404).
Accepted(call) ==
  CASE call = "create" -> sprite = None
    [] call = "delete" -> TRUE
    [] call \in {"start", "stop"} -> sprite # None /\ sprite.service # "none"
    [] OTHER -> sprite # None

After(call, row) ==
  CASE call = "create" -> Created(row)
    [] call = "write" -> Written
    [] call = "service" -> Defined
    [] call = "start" -> Started
    [] call = "stop" -> Stopped
    [] call = "delete" -> None
    [] OTHER -> sprite

-----------------------------------------------------------------------------
(* What the handlers call, one after the other *)

\* "install" and "write" stand for several commands each: docker and OpenClaw, the
\* files and the environment.
ProvisionCalls == <<"create", "install", "write", "service", "start", "get">>

\* Mutant: the service is stopped before the file is written.
ConfigureCallsStopFirst == <<"stop", "write", "start">>

ConfigureCalls == <<"write", "stop", "start">>

\* Mutant: in the other order.
RestartCallsReversed == <<"start", "stop">>

RestartCalls == <<"stop", "start">>

\* "undo" is the cleanup of a creation that failed.
Calls(kind) ==
  CASE kind = "provision" -> ProvisionCalls
    [] kind = "configure" -> ConfigureCalls
    [] kind = "restart" -> RestartCalls
    [] kind = "stop" -> <<"stop">>
    [] kind = "start" -> <<"start">>
    [] kind \in {"destroy", "undo"} -> <<"delete">>

Job(kind, row) == [kind |-> kind, row |-> row, at |-> 1, wrote |-> 0, stopFailed |-> FALSE]

Idle(j) == job[j] = None
AtEnd(j) == job[j] # None /\ job[j].at > Len(Calls(job[j].kind))
InCall(j) == job[j] # None /\ job[j].at > 0 /\ ~AtEnd(j)
Call(j) == Calls(job[j].kind)[job[j].at]

Begin(j, new) ==
  /\ Idle(j) /\ begun < MaxJobs
  /\ begun' = begun + 1
  /\ job' = [job EXCEPT ![j] = new]

\* provision_vps: the agent has no VPS, and this takes a row for one. Two of them may
\* both see that it has none.
Provision(j) ==
  /\ vps = None /\ Len(rows) < MaxVpses
  /\ Begin(j, [Job("provision", Len(rows) + 1) EXCEPT !.at = 0])
  /\ rows' = Append(rows, [state |-> "absent", vm |-> FALSE])
  /\ UNCHANGED <<vps, sprite, writes, left, troubled, hit>>

\* The row is inserted and assigned, in place of another that was meanwhile; nobody
\* here sees it in between.
Assign(j) ==
  /\ ~Idle(j) /\ job[j].at = 0
  /\ rows' = [rows EXCEPT ![job[j].row].state = "provisioning"]
  /\ vps' = job[j].row
  /\ job' = [job EXCEPT ![j].at = 1]
  /\ UNCHANGED <<sprite, begun, writes, left, troubled, hit>>

\* get_running_agent_vps, then update_config or restart_agent.
Configure(j, kind) ==
  /\ vps # None /\ rows[vps].state = "running"
  /\ Begin(j, Job(kind, vps))
  /\ UNCHANGED <<tables, sprite, writes, left, troubled, hit>>

Powers(j) == ~Idle(j) /\ job[j].kind \in {"stop", "start"}

\* get_agent_vps and the test of the state, then stop_vps or start_vps.
Power(j, kind) ==
  /\ vps # None /\ rows[vps].state = (IF kind = "stop" THEN "running" ELSE "stopped")
  /\ Begin(j, Job(kind, vps))
  /\ troubled' = IF \E k \in Jobs : Powers(k) /\ job[k].row = vps
                 THEN troubled \cup {vps} ELSE troubled
  /\ UNCHANGED <<tables, sprite, writes, left, hit>>

\* destroy_vps: a row without a VM id goes straight to the end.
Destroy(j) ==
  /\ vps # None /\ rows[vps].state # "destroyed"
  /\ Begin(j, [Job("destroy", vps) EXCEPT !.at = IF rows[vps].vm THEN 1 ELSE 2])
  /\ UNCHANGED <<tables, sprite, writes, left, troubled, hit>>

\* The call takes effect.
Effect(j) ==
  /\ Accepted(Call(j))
  /\ sprite' = After(Call(j), job[j].row)
  /\ writes' = IF Call(j) = "write" THEN writes + 1 ELSE writes
  /\ hit' = IF Call(j) = "delete" /\ sprite # None /\ sprite.life # job[j].row
            THEN hit \cup {sprite.life} ELSE hit

NoEffect == UNCHANGED <<sprite, writes, hit>>

\* A stop_vps that stops the sprite of a later VPS, which has the same name.
Strays(j) == job[j].kind = "stop" /\ sprite # None /\ sprite.life # job[j].row

Answer(j) ==
  /\ InCall(j)
  /\ Effect(j)
  /\ job' = [job EXCEPT ![j].at = @ + 1, ![j].wrote = IF Call(j) = "write" THEN writes + 1 ELSE @]
  /\ troubled' = IF Strays(j) THEN troubled \cup {sprite.life} ELSE troubled
  /\ UNCHANGED <<tables, begun, left>>

\* What the handler does about an error: provision_vps deletes what it has created,
\* a stop before a start and a delete may fail, anything else ends the handler.
\* Mutant: the name may be taken by what an earlier attempt left: clean that up too.
OnErrorCleansName(j) ==
  CASE job[j].kind = "provision" -> Job("undo", job[j].row)
    [] Call(j) = "stop" /\ job[j].kind # "stop" -> [job[j] EXCEPT !.at = @ + 1, !.stopFailed = TRUE]
    [] Call(j) = "delete" -> [job[j] EXCEPT !.at = @ + 1]
    [] OTHER -> None

\* Mutant: the last call is outside of what is cleaned up after.
OnErrorOfGet(j) ==
  CASE job[j].kind = "provision" /\ Call(j) \notin {"create", "get"} -> Job("undo", job[j].row)
    [] Call(j) = "stop" /\ job[j].kind # "stop" -> [job[j] EXCEPT !.at = @ + 1, !.stopFailed = TRUE]
    [] Call(j) = "delete" -> [job[j] EXCEPT !.at = @ + 1]
    [] OTHER -> None

OnError(j) ==
  CASE job[j].kind = "provision" /\ Call(j) # "create" -> Job("undo", job[j].row)
    [] Call(j) = "stop" /\ job[j].kind # "stop" -> [job[j] EXCEPT !.at = @ + 1, !.stopFailed = TRUE]
    [] Call(j) = "delete" -> [job[j] EXCEPT !.at = @ + 1]
    [] OTHER -> None

OnRunning(j) == job[j].kind \notin {"provision", "undo"}

Trouble(j) ==
  troubled' = IF OnRunning(j)
              THEN troubled \cup {job[j].row} \cup (IF sprite = None THEN {} ELSE {sprite.life})
              ELSE troubled

\* An error, after the call took effect or without.
Error(j) ==
  /\ InCall(j)
  /\ Effect(j) \/ NoEffect
  /\ job' = [job EXCEPT ![j] = OnError(j)]
  /\ left' = IF job[j].kind = "undo" \/ (Call(j) = "create" /\ sprite' # sprite)
             THEN left \cup {job[j].row} ELSE left
  /\ Trouble(j)
  /\ UNCHANGED <<tables, begun>>

\* The handler's future is dropped, or the process stops: during a call or after it.
Drop(j) ==
  /\ job[j] # None
  /\ NoEffect \/ (InCall(j) /\ Effect(j))
  /\ job' = [job EXCEPT ![j] = None]
  /\ left' = IF job[j].kind \in {"provision", "undo"} THEN left \cup {job[j].row} ELSE left
  /\ Trouble(j)
  /\ UNCHANGED <<tables, begun>>

\* Mutant: the row gets the state the provider reports.
FinishAsProvider(j) ==
  /\ AtEnd(j)
  /\ rows' = CASE job[j].kind = "provision" ->
                    [rows EXCEPT ![job[j].row] = [state |-> "warm", vm |-> TRUE]]
               [] job[j].kind = "stop" -> [rows EXCEPT ![job[j].row].state = "stopped"]
               [] job[j].kind = "start" -> [rows EXCEPT ![job[j].row].state = "running"]
               [] job[j].kind = "destroy" -> [rows EXCEPT ![job[j].row].state = "destroyed"]
               [] OTHER -> rows
  /\ vps' = IF job[j].kind = "destroy" THEN None ELSE vps
  /\ job' = [job EXCEPT ![j] = None]
  /\ UNCHANGED <<sprite, begun, writes, left, troubled, hit>>

\* The statements after the last call, and the answer: set_state tests nothing.
Finish(j) ==
  /\ AtEnd(j)
  /\ rows' = CASE job[j].kind = "provision" ->
                    [rows EXCEPT ![job[j].row] = [state |-> "running", vm |-> TRUE]]
               [] job[j].kind = "stop" -> [rows EXCEPT ![job[j].row].state = "stopped"]
               [] job[j].kind = "start" -> [rows EXCEPT ![job[j].row].state = "running"]
               [] job[j].kind = "destroy" -> [rows EXCEPT ![job[j].row].state = "destroyed"]
               [] OTHER -> rows
  /\ vps' = IF job[j].kind = "destroy" THEN None ELSE vps
  /\ job' = [job EXCEPT ![j] = None]
  /\ UNCHANGED <<sprite, begun, writes, left, troubled, hit>>

Next ==
  \E j \in Jobs :
    \/ Provision(j) \/ Assign(j) \/ Destroy(j)
    \/ \E kind \in {"configure", "restart"} : Configure(j, kind)
    \/ \E kind \in {"stop", "start"} : Power(j, kind)
    \/ Answer(j) \/ Error(j) \/ Drop(j) \/ Finish(j)

Spec == Init /\ [][Next]_vars

-----------------------------------------------------------------------------
(* Properties *)

\* Rows, the sprite and the handlers' locals keep their types.
TypeOK ==
  /\ rows \in Seq([state : {"absent", "provisioning", "running", "stopped", "destroyed"}, vm : BOOLEAN])
  /\ vps \in {None} \cup (1..Len(rows))
  /\ sprite \in {None} \cup Sprites
  /\ \A j \in Jobs : job[j] \in {None} \cup JobRecords
  /\ left \subseteq Rows /\ troubled \subseteq Rows /\ hit \subseteq Rows

\* When nothing is in flight, the agent's running VPS has its own sprite, and its service
\* runs with the configuration that is on its disk: however restarts and updates of it
\* interleaved with each other, with a stop or a start, and with the last VPS's leftovers.
\* Not if one of them failed or was dropped, with or without effect; if a stop overlapped
\* with another stop or start, as each writes its state when its call has returned; or once
\* the name led an earlier VPS's destroy or stop to this one's sprite.
RunningIsOn ==
  LET settled == (\A j \in Jobs : Idle(j)) /\ hit = {} /\ vps # None /\ vps \notin troubled
  IN  settled /\ rows[vps].state = "running" =>
        sprite = [life |-> vps, file |-> writes, service |-> "on", loaded |-> writes]

\* "On any failure, clean up the sprite": there is no sprite that no row leads to and
\* no handler is about to record or delete, unless an answer was lost, the handler was
\* dropped or the cleanup failed too.
SpriteAccounted ==
  sprite # None =>
    \/ rows[sprite.life].vm
    \/ sprite.life \in left
    \/ \E j \in Jobs : ~Idle(j) /\ job[j].kind \in {"provision", "undo"} /\ job[j].row = sprite.life

\* A creation cleans up what it created and nothing else, although two of them go by
\* the same name: the sprite it deletes is another VPS's only if its own was deleted
\* from under it by a late destroy.
CleansUpOwn ==
  [][\A j \in Jobs :
       ~Idle(j) /\ job[j].kind = "undo" /\ job'[j] # job[j] /\ hit' # hit => job[j].row \in hit]_vars

\* When an update is answered and its stop did not fail, the service runs with what it
\* wrote or with something newer, whoever started it. Nothing is said of a service that
\* is off by then, and again not once a late destroy hit the wrong sprite.
AnsweredConfigIsLoaded ==
  [][\A j \in Jobs :
       AtEnd(j) /\ job[j].kind = "configure" /\ ~job[j].stopFailed /\ Idle(j)'
         /\ hit = {} /\ sprite # None /\ sprite.service = "on" => sprite.loaded >= job[j].wrote]_vars

=============================================================================
