------------------------------ MODULE Accounts ------------------------------
(***************************************************************************)
(* What a request is let in on, and what it then does to the tables: the   *)
(* status of one user and the plan that comes with it, the agents the plan *)
(* allows, their messaging channels, and the VPS configurations that the   *)
(* administrators keep and VPSes are made from (routes/admin.rs,           *)
(* agents.rs, channels.rs, vps.rs, auth.rs, and the statements and         *)
(* constraints of cb-db they use).                                         *)
(*                                                                         *)
(* A handler is a step for each statement it awaits, but for reads whose   *)
(* result cannot change (a user is never deleted, nor is a plan).  The     *)
(* plan is "demo", which the seed migration creates.                       *)
(***************************************************************************)
EXTENDS Integers, FiniteSets

CONSTANTS
  Jobs,        \* the handlers in flight at once
  None,
  MaxAgents,   \* the plan's limit
  ValidKinds, Kinds,  \* VALID_CHANNEL_KINDS, and what requests name
  Providers, Sizes,
  MaxCreated,  \* rows inserted into each table in all
  MaxJobs      \* handlers that run in all

ASSUME AccountsConstantsOK ==
  /\ IsFiniteSet(Jobs) /\ Jobs # {} /\ MaxAgents \in Nat /\ MaxJobs \in Nat
  /\ None # "demo"
  /\ MaxCreated \in [{"agents", "channels", "configs", "vpses"} -> Nat]
  /\ ValidKinds \subseteq Kinds

VARIABLES
  user,      \* [status, plan]
  agents,    \* the agents the user has
  channels,  \* agent_channels, each [id, agent, kind]
  configs,   \* vps_configs, each [id, provider, size]
  vpses,     \* vpses, each [id, config, at]: where its VM was made, None before
  created,   \* rows inserted into each table so far
  job,       \* job[j]: what it does next and its locals, or None
  begun      \* handlers so far

vars == <<user, agents, channels, configs, vpses, created, job, begun>>
tables == <<user, agents, channels, configs, vpses, created>>

Statuses == {"pending", "active", "frozen"}

\* users.status and users.plan_id as the table creates them.
Init ==
  /\ user = [status |-> "pending", plan |-> None]
  /\ agents = {} /\ channels = {} /\ configs = {} /\ vpses = {}
  /\ created = [agents |-> 0, channels |-> 0, configs |-> 0, vpses |-> 0]
  /\ job = [j \in Jobs |-> None]
  /\ begun = 0

\* arg: what the request names (a status, an agent and kind, a configuration);
\* read: what the handler has read of it.
Job(at, arg, read) == [at |-> at, arg |-> arg, read |-> read]

Go(j, next) == job' = [job EXCEPT ![j] = next]
At(j, at) == job[j] # None /\ job[j].at = at

Begin(j, next) ==
  /\ job[j] = None /\ begun < MaxJobs
  /\ begun' = begun + 1
  /\ Go(j, next)

\* The id of the next row of a table.
Fresh(table) == created[table] + 1

Insert(table) ==
  /\ created[table] < MaxCreated[table]
  /\ created' = [created EXCEPT ![table] = Fresh(table)]

-----------------------------------------------------------------------------
(* The status of the user, which administrators set *)

\* set_user_status: for "active" the plan is looked at first.
SetUserStatus(j, status) ==
  /\ Begin(j, Job(IF status = "active" THEN "plan" ELSE "status", status, None))
  /\ UNCHANGED tables

\* Mutant: the plan comes with the first activation.
ReadPlanOfPending(j) ==
  /\ At(j, "plan")
  /\ Go(j, Job(IF user.plan = None /\ user.status = "pending" THEN "set_plan" ELSE "status",
               job[j].arg, None))
  /\ UNCHANGED <<tables, begun>>

ReadPlan(j) ==
  /\ At(j, "plan")
  /\ Go(j, Job(IF user.plan = None THEN "set_plan" ELSE "status", job[j].arg, None))
  /\ UNCHANGED <<tables, begun>>

SetPlan(j) ==
  /\ At(j, "set_plan")
  /\ user' = [user EXCEPT !.plan = "demo"]
  /\ Go(j, Job("status", job[j].arg, None))
  /\ UNCHANGED <<agents, channels, configs, vpses, created, begun>>

SetStatus(j) ==
  /\ At(j, "status")
  /\ user' = [user EXCEPT !.status = job[j].arg]
  /\ Go(j, None)
  /\ UNCHANGED <<agents, channels, configs, vpses, created, begun>>

\* auth_middleware and status_middleware: what is let in before the user is frozen
\* runs to its end.
LetIn == user.status = "active"

-----------------------------------------------------------------------------
(* Agents *)

CreateAgent(j) ==
  /\ LetIn
  /\ Begin(j, Job("user", None, None))
  /\ UNCHANGED tables

\* Without a plan: "user has no plan".
ReadUser(j) ==
  /\ At(j, "user")
  /\ Go(j, IF user.plan = None THEN None ELSE Job("count", None, None))
  /\ UNCHANGED <<tables, begun>>

\* Mutant: one too many.
CountAgentsOffByOne(j) ==
  /\ At(j, "count")
  /\ Go(j, IF Cardinality(agents) > MaxAgents THEN None ELSE Job("agent", None, None))
  /\ UNCHANGED <<tables, begun>>

CountAgents(j) ==
  /\ At(j, "count")
  /\ Go(j, IF Cardinality(agents) >= MaxAgents THEN None ELSE Job("agent", None, None))
  /\ UNCHANGED <<tables, begun>>

InsertAgent(j) ==
  /\ At(j, "agent")
  /\ Insert("agents")
  /\ agents' = agents \cup {Fresh("agents")}
  /\ Go(j, None)
  /\ UNCHANGED <<user, channels, configs, vpses, begun>>

\* delete_agent, of which VpsLifecycle has the rest: the channels go with the agent
\* (ON DELETE CASCADE).
DeleteAgent(a) ==
  /\ LetIn
  /\ agents' = agents \ {a}
  /\ channels' = {c \in channels : c.agent # a}
  /\ UNCHANGED <<user, configs, vpses, created, job, begun>>

-----------------------------------------------------------------------------
(* Channels *)

\* Mutant: any kind of channel.
AddChannelOfAnyKind(j, a, kind) ==
  /\ LetIn
  /\ Begin(j, Job("lookup", [agent |-> a, kind |-> kind], None))
  /\ UNCHANGED tables

AddChannel(j, a, kind) ==
  /\ LetIn
  /\ kind \in ValidKinds
  /\ Begin(j, Job("lookup", [agent |-> a, kind |-> kind], None))
  /\ UNCHANGED tables

ChannelsLike(arg) == {c \in channels : c.agent = arg.agent /\ c.kind = arg.kind}

\* get_by_agent_and_kind(..).is_ok(): any error, too, counts as not found.
LookupChannel(j) ==
  /\ At(j, "lookup")
  /\ \E error \in BOOLEAN :
       Go(j, IF ChannelsLike(job[j].arg) # {} /\ ~error THEN None
             ELSE [job[j] EXCEPT !.at = "channel"])
  /\ UNCHANGED <<tables, begun>>

NewChannel(arg) == [id |-> Fresh("channels"), agent |-> arg.agent, kind |-> arg.kind]

\* The constraints of agent_channels decide: UNIQUE (agent_id, channel_kind), and
\* agent_id REFERENCES agents.
InsertChannel(j) ==
  /\ At(j, "channel")
  /\ IF job[j].arg.agent \in agents /\ ChannelsLike(job[j].arg) = {}
     THEN Insert("channels") /\ channels' = channels \cup {NewChannel(job[j].arg)}
     ELSE UNCHANGED <<channels, created>>
  /\ Go(j, None)
  /\ UNCHANGED <<user, agents, configs, vpses, begun>>

RemoveChannel(arg) ==
  /\ LetIn
  /\ channels' = channels \ ChannelsLike(arg)
  /\ UNCHANGED <<user, agents, configs, vpses, created, job, begun>>

-----------------------------------------------------------------------------
(* VPS configurations, and what is made from them *)

CreateVpsConfig(provider, size) ==
  /\ Insert("configs")
  /\ configs' = configs \cup {[id |-> Fresh("configs"), provider |-> provider, size |-> size]}
  /\ UNCHANGED <<user, agents, channels, vpses, job, begun>>

\* Mutant: the provider can be changed like the rest.
UpdateVpsConfigProvider(config, size) ==
  /\ \E provider \in Providers :
       configs' = (configs \ {config}) \cup {[config EXCEPT !.size = size, !.provider = provider]}
  /\ UNCHANGED <<user, agents, channels, vpses, created, job, begun>>

\* Name, image, location and size, of which one stands for all.
UpdateVpsConfig(config, size) ==
  /\ configs' = (configs \ {config}) \cup {[config EXCEPT !.size = size]}
  /\ UNCHANGED <<user, agents, channels, vpses, created, job, begun>>

\* vpses.vps_config_id REFERENCES vps_configs: refused while a VPS is made from it.
DeleteVpsConfig(config) ==
  /\ \A v \in vpses : v.config # config.id
  /\ configs' = configs \ {config}
  /\ UNCHANGED <<user, agents, channels, vpses, created, job, begun>>

\* provision_vps as far as the configuration goes: it is read once, with its provider.
\* Which of them a plan lists (plan_vps_configs) is what SQL makes it: here, all.
ReadVpsConfig(j, config) ==
  /\ LetIn
  /\ Begin(j, Job("vps", config, None))
  /\ UNCHANGED tables

InsertVps(j) ==
  /\ At(j, "vps")
  /\ IF \E c \in configs : c.id = job[j].arg.id
     THEN /\ Insert("vpses")
          /\ vpses' = vpses \cup {[id |-> Fresh("vpses"), config |-> job[j].arg.id, at |-> None]}
          /\ Go(j, Job("vm", job[j].arg, Fresh("vpses")))
     ELSE Go(j, None) /\ UNCHANGED <<vpses, created>>
  /\ UNCHANGED <<user, agents, channels, configs, begun>>

\* create_vps at the provider that was read.
CreateVm(j) ==
  /\ At(j, "vm")
  /\ vpses' = {IF v.id = job[j].read THEN [v EXCEPT !.at = job[j].arg.provider] ELSE v : v \in vpses}
  /\ Go(j, None)
  /\ UNCHANGED <<user, agents, channels, configs, created, begun>>

\* A statement fails, or the handler is dropped.
Fail(j) ==
  /\ job[j] # None
  /\ Go(j, None)
  /\ UNCHANGED <<tables, begun>>

StatusStep(j) == ReadPlan(j) \/ SetPlan(j) \/ SetStatus(j)
AgentStep(j) == ReadUser(j) \/ CountAgents(j) \/ InsertAgent(j)
ChannelStep(j) == LookupChannel(j) \/ InsertChannel(j)
VpsStep(j) == InsertVps(j) \/ CreateVm(j)

Next ==
  \/ \E j \in Jobs :
       \/ \E status \in Statuses : SetUserStatus(j, status)
       \/ CreateAgent(j)
       \/ \E a \in agents, kind \in Kinds : AddChannel(j, a, kind)
       \/ \E config \in configs : ReadVpsConfig(j, config)
       \/ StatusStep(j) \/ AgentStep(j) \/ ChannelStep(j) \/ VpsStep(j) \/ Fail(j)
  \/ \E a \in agents : DeleteAgent(a)
  \/ \E c \in channels : RemoveChannel(c)
  \/ \E provider \in Providers, size \in Sizes : CreateVpsConfig(provider, size)
  \/ \E config \in configs, size \in Sizes : UpdateVpsConfig(config, size)
  \/ \E config \in configs : DeleteVpsConfig(config)

Spec == Init /\ [][Next]_vars

-----------------------------------------------------------------------------
(* Properties *)

Ids(table) == 1..created[table]

\* The tables keep their types; the kinds of channels are the valid ones.
TypeOK ==
  /\ user \in [status : Statuses, plan : {None, "demo"}]
  /\ agents \subseteq Ids("agents")
  /\ channels \subseteq [id : Ids("channels"), agent : Ids("agents"), kind : ValidKinds]
  /\ configs \subseteq [id : Ids("configs"), provider : Providers, size : Sizes]
  /\ vpses \subseteq [id : Ids("vpses"), config : Ids("configs"), at : Providers \cup {None}]
  /\ \A table \in DOMAIN created : created[table] \in 0..MaxCreated[table]
  /\ \A j \in Jobs : job[j] # None =>
       job[j].at \in {"plan", "set_plan", "status", "user", "count", "agent", "lookup",
                      "channel", "vps", "vm"}

\* A request that the status middleware lets in finds a plan: no order of activations,
\* whichever of them is cut short, leaves a user active without one.
LetInHasPlan ==
  \A j \in Jobs : At(j, "user") => user.plan # None

\* The agents are counted in one statement and inserted in another: the plan's limit
\* can be exceeded, but by no more than the other requests in flight.
AgentOverrun ==
  Cardinality(agents) <= MaxAgents + Cardinality(Jobs) - 1

\* A VM was made at the provider its configuration names, which is where start, stop
\* and destroy look for it (provider_for_vps), whatever administrators did to the
\* configuration in the meantime.
VmAtItsProvider ==
  \A v \in vpses :
    \E c \in configs : c.id = v.config /\ v.at \in {None, c.provider}

=============================================================================
