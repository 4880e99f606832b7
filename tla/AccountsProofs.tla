-------------------------- MODULE AccountsProofs --------------------------
(***************************************************************************)
(* What TLC checks of Accounts on two handlers, proved for any number of   *)
(* handlers, rows, providers and kinds, and any limit of the plan.         *)
(***************************************************************************)
EXTENDS Accounts, FiniteSetTheorems, TLAPS

(* The inductive invariant, in named parts. *)

Tables == {"agents", "channels", "configs", "vpses"}
ConfigRows == [id : Ids("configs"), provider : Providers, size : Sizes]

\* A user who is active, or is about to be, has a plan; so has one who was when a
\* request of theirs was let in.
PlanComesFirst ==
  /\ user.status = "active" => user.plan # None
  /\ \A j \in Jobs :
       /\ At(j, "plan") \/ At(j, "set_plan") \/ At(j, "status") => job[j].arg \in Statuses
       /\ At(j, "status") /\ job[j].arg = "active" => user.plan # None
       /\ At(j, "user") => user.plan # None

\* What add_channel is about to insert is of a valid kind, for an agent that existed.
ChannelJobs ==
  \A j \in Jobs :
    At(j, "lookup") \/ At(j, "channel") =>
      /\ job[j] = Job(job[j].at, job[j].arg, job[j].read)
      /\ job[j].arg \in [agent : Ids("agents"), kind : ValidKinds]

\* A configuration keeps the provider with which a handler read it for as long as it
\* is there; once a VPS is made from it, it stays.
ConfigJobs ==
  /\ \A c, d \in configs : c.id = d.id => c = d
  /\ \A j \in Jobs :
       /\ At(j, "vps") => /\ job[j].arg \in ConfigRows
                          /\ \A c \in configs :
                               c.id = job[j].arg.id => c.provider = job[j].arg.provider
       /\ At(j, "vm") => /\ job[j].read \in Ids("vpses")
                         /\ job[j].arg \in ConfigRows
                         /\ \A v \in vpses :
                              v.id = job[j].read =>
                                \E c \in configs :
                                  c.id = v.config /\ c.provider = job[j].arg.provider

Types ==
  /\ TypeOK
  /\ created \in [Tables -> Nat]
  /\ DOMAIN job = Jobs

IInv == Types /\ PlanComesFirst /\ ChannelJobs /\ ConfigJobs /\ VmAtItsProvider

\* Nothing has happened yet.
LEMMA InitIInv == Init => IInv
  BY AccountsConstantsOK
     DEF Init, IInv, Types, TypeOK, Tables, PlanComesFirst, ChannelJobs,
         ConfigJobs, VmAtItsProvider, At, Ids, Statuses

\* A handler that goes on leaves the others where they are.
LEMMA GoLemma ==
  ASSUME DOMAIN job = Jobs, NEW j \in Jobs, NEW next, Go(j, next)
  PROVE  /\ DOMAIN job' = Jobs
         /\ job'[j] = next
         /\ \A k \in Jobs \ {j} : job'[k] = job[k]
  BY DEF Go

\* The places a handler can be at.
Places == {"plan", "set_plan", "status", "user", "count", "agent", "lookup", "channel",
           "vps", "vm"}

\* A handler that begins, or goes on without writing a table, keeps the invariant if
\* what it takes along is what the place it comes to asks for.
LEMMA MovesKeepIInv ==
  ASSUME IInv, UNCHANGED tables, NEW j \in Jobs, NEW next, Go(j, next),
         next # None =>
           /\ next.at \in Places
           /\ next.at \in {"plan", "set_plan", "status"} => next.arg \in Statuses
           /\ next.at = "status" /\ next.arg = "active" => user.plan # None
           /\ next.at = "user" => user.plan # None
           /\ next.at \in {"lookup", "channel"} =>
                next = Job(next.at, next.arg, next.read)
                /\ next.arg \in [agent : Ids("agents"), kind : ValidKinds]
           /\ next.at = "vps" => next.arg \in configs
           /\ next.at # "vm"
  PROVE  IInv'
<1>1. /\ DOMAIN job' = Jobs /\ job'[j] = next
      /\ \A k \in Jobs \ {j} : job'[k] = job[k]
  BY GoLemma DEF IInv, Types
<1> USE DEF tables, IInv
<1>2. Types'
  BY <1>1 DEF Types, TypeOK, Places, Ids
<1>3. PlanComesFirst'
  BY <1>1 DEF PlanComesFirst, At
<1>4. ChannelJobs'
  BY <1>1 DEF ChannelJobs, At, Ids
<1>5. ConfigJobs'
  BY <1>1 DEF ConfigJobs, At, Ids, Types, TypeOK, ConfigRows
<1>6. VmAtItsProvider'
  BY DEF VmAtItsProvider
<1> QED
  BY <1>2, <1>3, <1>4, <1>5, <1>6

\* The handlers that read.
LEMMA ReadersKeepIInv ==
  ASSUME IInv, NEW j \in Jobs,
         \/ \E status \in Statuses : SetUserStatus(j, status)
         \/ CreateAgent(j)
         \/ \E a \in agents, kind \in Kinds : AddChannel(j, a, kind)
         \/ \E config \in configs : ReadVpsConfig(j, config)
         \/ ReadPlan(j) \/ ReadUser(j) \/ CountAgents(j) \/ LookupChannel(j) \/ Fail(j)
  PROVE  IInv'
<1> USE DEF Job, Places, Begin
<1>1. ASSUME NEW status \in Statuses, SetUserStatus(j, status) PROVE IInv'
  BY <1>1, MovesKeepIInv DEF SetUserStatus
<1>2. CASE CreateAgent(j)
  BY <1>2, MovesKeepIInv DEF CreateAgent, LetIn, IInv, PlanComesFirst
<1>3. ASSUME NEW a \in agents, NEW kind \in Kinds, AddChannel(j, a, kind) PROVE IInv'
  BY <1>3, MovesKeepIInv DEF AddChannel, IInv, Types, TypeOK
<1>4. ASSUME NEW config \in configs, ReadVpsConfig(j, config) PROVE IInv'
  BY <1>4, MovesKeepIInv DEF ReadVpsConfig
<1>5. CASE ReadPlan(j)
  BY <1>5, MovesKeepIInv DEF ReadPlan, At, IInv, PlanComesFirst
<1>6. CASE ReadUser(j)
  BY <1>6, MovesKeepIInv DEF ReadUser
<1>7. CASE CountAgents(j)
  BY <1>7, MovesKeepIInv DEF CountAgents
<1>8. CASE LookupChannel(j)
  <2>1. /\ job[j] = Job("lookup", job[j].arg, job[j].read)
        /\ job[j].arg \in [agent : Ids("agents"), kind : ValidKinds]
    BY <1>8 DEF LookupChannel, At, IInv, ChannelJobs
  <2>2. [job[j] EXCEPT !.at = "channel"] = Job("channel", job[j].arg, job[j].read)
    BY <2>1
  <2>3. /\ UNCHANGED tables
        /\ Go(j, None) \/ Go(j, Job("channel", job[j].arg, job[j].read))
    BY <1>8, <2>2 DEF LookupChannel
  <2>4. Go(j, None) => IInv'
    BY <2>3, MovesKeepIInv
  <2> QED
    BY <2>1, <2>3, <2>4, MovesKeepIInv
<1>9. CASE Fail(j)
  BY <1>9, MovesKeepIInv DEF Fail
<1> QED
  BY <1>1, <1>2, <1>3, <1>4, <1>5, <1>6, <1>7, <1>8, <1>9

-----------------------------------------------------------------------------
(* The statements that write *)

\* A plan, once set, stays; and a status is written after it.
LEMMA UserKeepsIInv ==
  ASSUME IInv, NEW j \in Jobs, SetPlan(j) \/ SetStatus(j)
  PROVE  IInv'
<1> USE AccountsConstantsOK DEF IInv
<1>1. /\ DOMAIN job' = Jobs
      /\ \A k \in Jobs \ {j} : job'[k] = job[k]
      /\ job'[j] = None \/ (SetPlan(j) /\ job'[j] = Job("status", job[j].arg, None))
  BY GoLemma DEF SetPlan, SetStatus, Types
<1>2. /\ UNCHANGED <<agents, channels, configs, vpses, created>>
      /\ user' \in [status : Statuses, plan : {None, "demo"}]
      /\ user.plan # None => user'.plan # None
      /\ SetPlan(j) => user'.plan # None /\ user'.status = user.status
      /\ SetStatus(j) => user'.status = job[j].arg /\ user'.plan = user.plan /\ At(j, "status")
  BY DEF SetPlan, SetStatus, Types, TypeOK, PlanComesFirst
<1>3. Types'
  BY <1>1, <1>2 DEF Types, TypeOK, Ids, Job
<1>4. PlanComesFirst'
  BY <1>1, <1>2 DEF PlanComesFirst, At, Job, SetPlan
<1>5. ChannelJobs' /\ ConfigJobs'
  <2>1. \A k \in Jobs : job'[k] = job[k] \/ ~(At(k, "lookup") \/ At(k, "channel")
                                              \/ At(k, "vps") \/ At(k, "vm"))'
    BY <1>1 DEF At, Job
  <2> QED
    BY <1>2, <2>1 DEF ChannelJobs, ConfigJobs, At, Ids, ConfigRows
<1>6. VmAtItsProvider'
  BY <1>2 DEF VmAtItsProvider
<1> QED
  BY <1>3, <1>4, <1>5, <1>6

\* An agent is inserted with an id of its own; one that is deleted takes its channels along.
LEMMA AgentsKeepIInv ==
  ASSUME IInv, (\E j \in Jobs : InsertAgent(j)) \/ (\E a \in agents : DeleteAgent(a))
  PROVE  IInv'
<1> USE DEF IInv
<1>1. /\ DOMAIN job' = Jobs
      /\ \A k \in Jobs : job'[k] \in {None, job[k]}
  BY GoLemma DEF InsertAgent, DeleteAgent, Types
<1>2. /\ UNCHANGED <<user, configs, vpses>>
      /\ created' \in [Tables -> Nat]
      /\ \A t \in Tables : created[t] <= created'[t] /\ created'[t] <= MaxCreated[t]
      /\ \A t \in Tables \ {"agents"} : created'[t] = created[t]
      /\ channels' \subseteq channels
      /\ agents' \subseteq Ids("agents")'
  <2>1. CASE \E j \in Jobs : InsertAgent(j)
    <3>1. /\ created' = [created EXCEPT !["agents"] = Fresh("agents")]
          /\ created["agents"] < MaxCreated["agents"]
          /\ agents' = agents \cup {Fresh("agents")}
          /\ UNCHANGED <<user, configs, vpses, channels>>
      BY <2>1 DEF InsertAgent, Insert
    <3>2. /\ created' \in [Tables -> Nat]
          /\ created'["agents"] = created["agents"] + 1
          /\ \A t \in Tables \ {"agents"} : created'[t] = created[t]
      BY <3>1 DEF Fresh, Types, Tables
    <3>3. \A t \in Tables : created[t] <= created'[t] /\ created'[t] <= MaxCreated[t]
      BY <3>1, <3>2, AccountsConstantsOK DEF Types, TypeOK, Tables
    <3>4. agents' \subseteq Ids("agents")'
      <4>1. agents \subseteq 1..created["agents"] /\ created["agents"] \in Nat
        BY DEF Types, TypeOK, Ids, Tables
      <4>2. \A n \in Nat : 1..n \subseteq 1..(n + 1) /\ n + 1 \in 1..(n + 1)
        OBVIOUS
      <4>3. agents \cup {created["agents"] + 1} \subseteq 1..(created["agents"] + 1)
        BY <4>1, <4>2
      <4>4. agents' = agents \cup {created["agents"] + 1}
        BY <3>1 DEF Fresh
      <4> QED
        BY <3>2, <4>3, <4>4 DEF Ids
    <3> QED
      BY <3>1, <3>2, <3>3, <3>4
  <2>2. CASE \E a \in agents : DeleteAgent(a)
    BY <2>2 DEF DeleteAgent, Types, TypeOK, Ids, Tables
  <2> QED
    BY <2>1, <2>2
<1>3. Types'
  BY <1>1, <1>2 DEF Types, TypeOK, Ids, Tables
<1>4. PlanComesFirst' /\ ChannelJobs' /\ ConfigJobs'
  BY <1>1, <1>2 DEF PlanComesFirst, ChannelJobs, ConfigJobs, At, Ids, Job, ConfigRows, Tables, Types
<1>5. VmAtItsProvider'
  BY <1>2 DEF VmAtItsProvider
<1> QED
  BY <1>3, <1>4, <1>5

\* The constraints of agent_channels see to the channel that is inserted.
LEMMA ChannelsKeepIInv ==
  ASSUME IInv, (\E j \in Jobs : InsertChannel(j)) \/ (\E c \in channels : RemoveChannel(c))
  PROVE  IInv'
<1> USE DEF IInv
<1>1. /\ DOMAIN job' = Jobs
      /\ \A k \in Jobs : job'[k] \in {None, job[k]}
  BY GoLemma DEF InsertChannel, RemoveChannel, Types
<1>2. /\ UNCHANGED <<user, agents, configs, vpses>>
      /\ created' \in [Tables -> Nat]
      /\ \A t \in Tables : created[t] <= created'[t] /\ created'[t] <= MaxCreated[t]
      /\ \A t \in Tables \ {"channels"} : created'[t] = created[t]
  BY AccountsConstantsOK
     DEF InsertChannel, RemoveChannel, Insert, Fresh, Types, TypeOK, Tables
<1>3. channels' \subseteq [id : Ids("channels")', agent : Ids("agents"), kind : ValidKinds]
  <2>1. ASSUME NEW j \in Jobs, InsertChannel(j),
               ~(job[j].arg.agent \in agents /\ ChannelsLike(job[j].arg) = {})
        PROVE  UNCHANGED <<channels, agents, created>>
    BY <2>1 DEF InsertChannel
  <2>2. ASSUME NEW j \in Jobs, InsertChannel(j),
               job[j].arg.agent \in agents, ChannelsLike(job[j].arg) = {}
        PROVE  <1>3
    <3>1. job[j].arg \in [agent : Ids("agents"), kind : ValidKinds]
      BY <2>2 DEF InsertChannel, ChannelJobs
    <3>2. /\ channels' = channels \cup {NewChannel(job[j].arg)}
          /\ created'["channels"] = created["channels"] + 1
      BY <2>2 DEF InsertChannel, Insert, Fresh, Types, Tables
    <3> QED
      BY <3>1, <3>2 DEF NewChannel, Types, TypeOK, Ids, Fresh, Tables
  <2>3. ASSUME NEW c \in channels, RemoveChannel(c)
        PROVE  channels' \subseteq channels /\ UNCHANGED created
    BY <2>3 DEF RemoveChannel
  <2> QED
    BY <1>2, <2>1, <2>2, <2>3 DEF Types, TypeOK, Ids
<1>4. Types'
  BY <1>1, <1>2, <1>3 DEF Types, TypeOK, Ids, Tables
<1>5. PlanComesFirst' /\ ChannelJobs' /\ ConfigJobs'
  BY <1>1, <1>2 DEF PlanComesFirst, ChannelJobs, ConfigJobs, At, Ids, Job, ConfigRows, Tables, Types
<1>6. VmAtItsProvider'
  BY <1>2 DEF VmAtItsProvider
<1> QED
  BY <1>3, <1>4, <1>5, <1>6

\* A configuration keeps its provider, and is not deleted while a VPS is made from it.
LEMMA ConfigsKeepIInv ==
  ASSUME IInv,
         \/ \E provider \in Providers, size \in Sizes : CreateVpsConfig(provider, size)
         \/ \E config \in configs, size \in Sizes : UpdateVpsConfig(config, size)
         \/ \E config \in configs : DeleteVpsConfig(config)
  PROVE  IInv'
<1> USE DEF IInv
<1>1. /\ UNCHANGED <<user, agents, channels, vpses, job>>
      /\ created' \in [Tables -> Nat]
      /\ \A t \in Tables : created[t] <= created'[t] /\ created'[t] <= MaxCreated[t]
      /\ \A t \in Tables \ {"configs"} : created'[t] = created[t]
  BY AccountsConstantsOK
     DEF CreateVpsConfig, UpdateVpsConfig, DeleteVpsConfig, Insert, Fresh, Types, TypeOK, Tables
<1>2. /\ configs' \subseteq ConfigRows'
      /\ \A c, d \in configs' : c.id = d.id => c = d
      /\ \A c \in configs' :
           \/ c.id \notin Ids("configs")
           \/ \E d \in configs : d.id = c.id /\ d.provider = c.provider
      /\ \A v \in vpses, c \in configs :
           c.id = v.config => \E d \in configs' : d.id = c.id /\ d.provider = c.provider
  <2>1. ASSUME NEW provider \in Providers, NEW size \in Sizes, CreateVpsConfig(provider, size)
        PROVE  <1>2
    <3>1. /\ configs' = configs \cup {[id |-> Fresh("configs"), provider |-> provider, size |-> size]}
          /\ created'["configs"] = Fresh("configs")
      BY <2>1 DEF CreateVpsConfig, Insert, Types, Tables
    <3> QED
      BY <3>1 DEF Types, TypeOK, Tables, Ids, ConfigRows, Fresh, ConfigJobs
  <2>2. ASSUME NEW config \in configs, NEW size \in Sizes, UpdateVpsConfig(config, size)
        PROVE  <1>2
    <3>1. /\ configs' = (configs \ {config}) \cup {[config EXCEPT !.size = size]}
          /\ created' = created
      BY <2>2 DEF UpdateVpsConfig
    <3>2. config \in ConfigRows
      BY DEF Types, TypeOK, ConfigRows
    <3>3. /\ [config EXCEPT !.size = size] \in ConfigRows
          /\ [config EXCEPT !.size = size].id = config.id
          /\ [config EXCEPT !.size = size].provider = config.provider
      BY <3>2 DEF ConfigRows
    <3> QED
      BY <3>1, <3>3 DEF Types, TypeOK, Ids, ConfigRows, ConfigJobs
  <2>3. ASSUME NEW config \in configs, DeleteVpsConfig(config)
        PROVE  <1>2
    BY <2>3 DEF DeleteVpsConfig, Types, TypeOK, Ids, ConfigRows, ConfigJobs
  <2> QED
    BY <2>1, <2>2, <2>3
<1>3. Types'
  BY <1>1, <1>2 DEF Types, TypeOK, Ids, Tables, ConfigRows
<1>4. PlanComesFirst' /\ ChannelJobs'
  BY <1>1 DEF PlanComesFirst, ChannelJobs, At, Ids, Tables
<1>5. ConfigJobs'
  BY <1>1, <1>2 DEF ConfigJobs, ConfigRows, At, Ids, Tables, Types
<1>6. VmAtItsProvider'
  BY <1>1, <1>2 DEF VmAtItsProvider
<1> QED
  BY <1>3, <1>4, <1>5, <1>6

\* A VPS is inserted for a configuration that is there.
LEMMA InsertVpsKeepsIInv ==
  ASSUME IInv, NEW j \in Jobs, InsertVps(j)
  PROVE  IInv'
<1> USE DEF IInv
<1>1. CASE ~\E c \in configs : c.id = job[j].arg.id
  BY <1>1, MovesKeepIInv DEF InsertVps, tables
<1>2. CASE \E c \in configs : c.id = job[j].arg.id
  <2> DEFINE row == [id |-> Fresh("vpses"), config |-> job[j].arg.id, at |-> None]
             next == Job("vm", job[j].arg, Fresh("vpses"))
  <2>1. /\ UNCHANGED <<user, agents, channels, configs>>
        /\ Insert("vpses") /\ vpses' = vpses \cup {row}
        /\ Go(j, next) /\ At(j, "vps")
    BY <1>2 DEF InsertVps
  <2>2. /\ DOMAIN job' = Jobs /\ job'[j] = next
        /\ \A k \in Jobs \ {j} : job'[k] = job[k]
    BY <2>1, GoLemma DEF Types
  <2>3. /\ created' \in [Tables -> Nat]
        /\ created'["vpses"] = Fresh("vpses") /\ Fresh("vpses") <= MaxCreated["vpses"]
        /\ \A t \in Tables \ {"vpses"} : created'[t] = created[t]
    BY <2>1, AccountsConstantsOK DEF Insert, Fresh, Types, Tables
  <2>4. /\ job[j].arg \in ConfigRows
        /\ \A c \in configs : c.id = job[j].arg.id => c.provider = job[j].arg.provider
    BY <2>1 DEF ConfigJobs
  <2>5. Types'
    <3>1. row \in [id : Ids("vpses")', config : Ids("configs")', at : Providers \cup {None}]
      BY <2>3, <2>4 DEF Types, Tables, Ids, Fresh, ConfigRows
    <3>2. vpses' \subseteq [id : Ids("vpses")', config : Ids("configs")', at : Providers \cup {None}]
      BY <2>1, <2>3, <3>1 DEF Types, TypeOK, Tables, Ids, Fresh
    <3>3. \A k \in Jobs : job'[k] # None => job'[k].at \in Places
      BY <2>2 DEF Types, TypeOK, Places, Job
    <3> QED
      <4>1. \A t \in Tables : created'[t] \in 0..MaxCreated[t] /\ DOMAIN created' = Tables
        BY <2>3, AccountsConstantsOK DEF Types, TypeOK, Tables, Fresh
      <4>2. /\ agents' \subseteq Ids("agents")'
            /\ channels' \subseteq [id : Ids("channels")', agent : Ids("agents")', kind : ValidKinds]
            /\ configs' \subseteq [id : Ids("configs")', provider : Providers, size : Sizes]
        BY <2>1, <2>3 DEF Types, TypeOK, Tables, Ids
      <4> QED
        BY <2>1, <2>2, <2>3, <3>2, <3>3, <4>1, <4>2 DEF Types, TypeOK, Places, Ids
  <2>6. PlanComesFirst' /\ ChannelJobs'
    <3>1. \A k \in Jobs : job'[k] = job[k] \/ ~(At(k, "plan") \/ At(k, "set_plan")
             \/ At(k, "status") \/ At(k, "user") \/ At(k, "lookup") \/ At(k, "channel"))'
      BY <2>2 DEF At, Job
    <3>2. Ids("agents")' = Ids("agents")
      BY <2>3 DEF Ids, Tables
    <3> QED
      BY <2>1, <3>1, <3>2 DEF PlanComesFirst, ChannelJobs, At
  <2>7. ConfigJobs'
    <3>1. \A v \in vpses : v.id # Fresh("vpses")
      BY DEF Types, TypeOK, Ids, Fresh, Tables
    <3>2. \A k \in Jobs \ {j} : At(k, "vm") => job[k].read # Fresh("vpses")
      BY DEF ConfigJobs, Types, Ids, Fresh, Tables
    <3>3. \E c \in configs : c.id = row.config /\ c.provider = job[j].arg.provider
      BY <1>2, <2>4
    <3> QED
      BY <2>1, <2>2, <2>3, <2>4, <3>1, <3>2, <3>3
         DEF ConfigJobs, ConfigRows, At, Ids, Tables, Job, Types, Fresh
  <2>8. VmAtItsProvider'
    BY <1>2, <2>1 DEF VmAtItsProvider
  <2> QED
    BY <2>5, <2>6, <2>7, <2>8
<1> QED
  BY <1>1, <1>2

\* The VM is made where the configuration still says.
LEMMA CreateVmKeepsIInv ==
  ASSUME IInv, NEW j \in Jobs, CreateVm(j)
  PROVE  IInv'
<1> USE DEF IInv
<1> DEFINE made(v) == IF v.id = job[j].read THEN [v EXCEPT !.at = job[j].arg.provider] ELSE v
<1>1. /\ At(j, "vm") /\ Go(j, None)
      /\ vpses' = {made(v) : v \in vpses}
      /\ UNCHANGED <<user, agents, channels, configs, created>>
  BY DEF CreateVm
<1>2. /\ DOMAIN job' = Jobs
      /\ \A k \in Jobs : job'[k] \in {None, job[k]}
  BY <1>1, GoLemma DEF Types
<1>3. \A v \in vpses :
        /\ made(v) \in [id : Ids("vpses"), config : Ids("configs"), at : Providers \cup {None}]
        /\ made(v).id = v.id /\ made(v).config = v.config
        /\ made(v).at = IF v.id = job[j].read THEN job[j].arg.provider ELSE v.at
  BY <1>1 DEF Types, TypeOK, ConfigJobs, ConfigRows
<1> HIDE DEF made
<1>4. Types'
  BY <1>1, <1>2, <1>3 DEF Types, TypeOK, Ids
<1>5. PlanComesFirst' /\ ChannelJobs'
  BY <1>1, <1>2 DEF PlanComesFirst, ChannelJobs, At, Ids
<1>6. ConfigJobs'
  BY <1>1, <1>2, <1>3 DEF ConfigJobs, ConfigRows, At, Ids
<1>7. VmAtItsProvider'
  BY <1>1, <1>3 DEF VmAtItsProvider, ConfigJobs
<1> QED
  BY <1>4, <1>5, <1>6, <1>7

-----------------------------------------------------------------------------
(* How far the limit can be exceeded *)

\* Handlers that have counted the agents and not inserted theirs.
Inserting == {j \in Jobs : At(j, "agent")}

\* Whoever counts finds room for one more; all others may be about to insert.
OverrunInv ==
  /\ DOMAIN job = Jobs
  /\ IsFiniteSet(agents)
  /\ Cardinality(agents) + Cardinality(Inserting) <= MaxAgents + Cardinality(Jobs) - 1

\* At first there are no agents and nobody makes one.
LEMMA InitOverrun == Init => OverrunInv
<1> SUFFICES ASSUME Init PROVE OverrunInv
  OBVIOUS
<1>1. Inserting = {} /\ agents = {} /\ DOMAIN job = Jobs
  BY DEF Init, Inserting, At
<1>2. Cardinality(Jobs) \in Nat /\ Cardinality(Jobs) # 0
  BY AccountsConstantsOK, FS_CardinalityType, FS_EmptySet
<1> QED
  BY <1>1, <1>2, FS_EmptySet, AccountsConstantsOK DEF OverrunInv

\* Sets of handlers are finite.
LEMMA JobSets ==
  ASSUME NEW S \in SUBSET Jobs
  PROVE  /\ IsFiniteSet(S) /\ Cardinality(S) \in Nat
         /\ Cardinality(S) <= Cardinality(Jobs) /\ Cardinality(Jobs) \in Nat
  BY AccountsConstantsOK, FS_CardinalityType, FS_Subset

\* No agent more, and no handler more that is going to insert one.
LEMMA FewerInserting ==
  ASSUME OverrunInv, DOMAIN job' = Jobs, agents' \subseteq agents,
         \A k \in Jobs : At(k, "agent")' => At(k, "agent")
  PROVE  OverrunInv'
<1>1. Inserting' \subseteq Inserting /\ Inserting \subseteq Jobs
  BY DEF Inserting
<1>2. Cardinality(Inserting') <= Cardinality(Inserting)
  BY <1>1, JobSets, FS_Subset
<1>3. IsFiniteSet(agents') /\ Cardinality(agents') <= Cardinality(agents)
  BY FS_Subset DEF OverrunInv
<1>4. /\ Cardinality(Inserting) \in Nat /\ Cardinality(Inserting') \in Nat
      /\ Cardinality(agents) \in Nat /\ Cardinality(agents') \in Nat
      /\ Cardinality(Jobs) \in Nat
  BY <1>1, <1>3, JobSets, FS_CardinalityType DEF OverrunInv
<1> QED
  BY <1>2, <1>3, <1>4, AccountsConstantsOK DEF OverrunInv

\* The count finds fewer agents than the limit, whoever else has counted.
LEMMA CountKeepsOverrun ==
  ASSUME OverrunInv, NEW j \in Jobs, CountAgents(j)
  PROVE  OverrunInv'
<1>1. DOMAIN job' = Jobs /\ UNCHANGED agents
  BY GoLemma DEF CountAgents, OverrunInv, tables
<1>2. CASE Cardinality(agents) >= MaxAgents
  BY <1>1, <1>2, FewerInserting, GoLemma DEF CountAgents, OverrunInv, At
<1>3. CASE ~(Cardinality(agents) >= MaxAgents)
  <2>1. Inserting' \in SUBSET Jobs
    BY DEF Inserting
  <2>2. Cardinality(agents) \in Nat
    BY FS_CardinalityType DEF OverrunInv
  <2> QED
    BY <1>1, <1>3, <2>1, <2>2, JobSets, AccountsConstantsOK DEF OverrunInv
<1> QED
  BY <1>2, <1>3

\* An insert makes an agent of a handler that was about to.
LEMMA InsertKeepsOverrun ==
  ASSUME OverrunInv, NEW j \in Jobs, InsertAgent(j)
  PROVE  OverrunInv'
<1>1. /\ DOMAIN job' = Jobs /\ job'[j] = None
      /\ \A k \in Jobs \ {j} : job'[k] = job[k]
      /\ At(j, "agent")
      /\ agents' = agents \cup {Fresh("agents")}
  BY GoLemma DEF InsertAgent, OverrunInv
<1>2. Inserting' = Inserting \ {j} /\ j \in Inserting /\ Inserting \in SUBSET Jobs
  BY <1>1 DEF Inserting, At
<1>3. Cardinality(Inserting') = Cardinality(Inserting) - 1
  BY <1>2, JobSets, FS_RemoveElement
<1>4. /\ IsFiniteSet(agents')
      /\ Cardinality(agents') <= Cardinality(agents) + 1
      /\ Cardinality(agents) \in Nat /\ Cardinality(agents') \in Nat
  <2>1. /\ IsFiniteSet(agents) /\ Cardinality(agents) \in Nat
    BY FS_CardinalityType DEF OverrunInv
  <2>2. /\ IsFiniteSet(agents')
        /\ Cardinality(agents') = IF Fresh("agents") \in agents THEN Cardinality(agents)
                                                               ELSE Cardinality(agents) + 1
    BY <1>1, <2>1, FS_AddElement
  <2> QED
    BY <2>1, <2>2
<1> QED
  BY <1>1, <1>2, <1>3, <1>4, JobSets, AccountsConstantsOK DEF OverrunInv

\* A handler that has counted is in the sum until it has inserted or failed.
LEMMA StepOverrun == OverrunInv /\ [Next]_vars => OverrunInv'
<1> SUFFICES ASSUME OverrunInv, [Next]_vars PROVE OverrunInv'
  OBVIOUS
<1>1. CASE \E j \in Jobs : CountAgents(j)
  BY <1>1, CountKeepsOverrun
<1>2. CASE \E j \in Jobs : InsertAgent(j)
  BY <1>2, InsertKeepsOverrun
<1>3. CASE ~\E j \in Jobs : CountAgents(j) \/ InsertAgent(j)
  <2>1. ASSUME NEW j \in Jobs, NEW next, Go(j, next),
               next = None \/ next.at # "agent" \/ next.at = job[j].at,
               job[j] # None \/ next = None \/ next.at # "agent",
               UNCHANGED agents
        PROVE  OverrunInv'
    BY <2>1, GoLemma, FewerInserting DEF OverrunInv, At
  <2>2. ASSUME UNCHANGED job, agents' \subseteq agents PROVE OverrunInv'
    BY <2>2, FewerInserting DEF OverrunInv, At
  <2>3. UNCHANGED vars => UNCHANGED <<job, agents>>
    BY DEF vars
  <2>4. ASSUME NEW j \in Jobs, StatusStep(j) PROVE OverrunInv'
    BY <2>1, <2>4 DEF StatusStep, ReadPlan, SetPlan, SetStatus, Job, tables
  <2>5. ASSUME NEW j \in Jobs, ReadUser(j) PROVE OverrunInv'
    BY <2>1, <2>5 DEF ReadUser, Job, tables
  <2>6. ASSUME NEW j \in Jobs, InsertChannel(j) \/ VpsStep(j) \/ Fail(j) PROVE OverrunInv'
    BY <2>1, <2>6 DEF InsertChannel, VpsStep, InsertVps, CreateVm, Fail, Job, tables
  <2>7. ASSUME NEW j \in Jobs, LookupChannel(j) PROVE OverrunInv'
    <3>1. \A e : e = [job[j] EXCEPT !.at = "channel"] => e.at \in {"channel", job[j].at}
      OBVIOUS
    <3> QED
      BY <2>1, <2>7, <3>1 DEF LookupChannel, At, tables
  <2>8. ASSUME NEW j \in Jobs,
               \/ \E status \in Statuses : SetUserStatus(j, status)
               \/ CreateAgent(j)
               \/ \E a \in agents, kind \in Kinds : AddChannel(j, a, kind)
               \/ \E config \in configs : ReadVpsConfig(j, config)
        PROVE  OverrunInv'
    BY <2>1, <2>8 DEF SetUserStatus, CreateAgent, AddChannel, ReadVpsConfig, Begin, Job, tables
  <2>9. ASSUME \/ \E a \in agents : DeleteAgent(a)
               \/ \E c \in channels : RemoveChannel(c)
               \/ \E provider \in Providers, size \in Sizes : CreateVpsConfig(provider, size)
               \/ \E config \in configs, size \in Sizes : UpdateVpsConfig(config, size)
               \/ \E config \in configs : DeleteVpsConfig(config)
        PROVE  OverrunInv'
    BY <2>2, <2>9 DEF DeleteAgent, RemoveChannel, CreateVpsConfig, UpdateVpsConfig, DeleteVpsConfig
  <2> QED
    BY <1>3, <2>2, <2>3, <2>4, <2>5, <2>6, <2>7, <2>8, <2>9 DEF Next, AgentStep, ChannelStep
<1> QED
  BY <1>1, <1>2, <1>3

\* With n requests in flight the plan's limit is exceeded by n - 1 agents at most.
THEOREM AgentOverrunHolds == Spec => []AgentOverrun
<1>1. OverrunInv => AgentOverrun
  <2> SUFFICES ASSUME OverrunInv PROVE AgentOverrun
    OBVIOUS
  <2>1. Inserting \in SUBSET Jobs /\ Cardinality(agents) \in Nat
    BY FS_CardinalityType DEF Inserting, OverrunInv
  <2> QED
    BY <2>1, JobSets, AccountsConstantsOK DEF OverrunInv, AgentOverrun
<1> QED
  BY <1>1, InitOverrun, StepOverrun, PTL DEF Spec

-----------------------------------------------------------------------------
(* The theorems *)

\* Every statement, alone or between those of other handlers, keeps the invariant.
LEMMA StepIInv == IInv /\ [Next]_vars => IInv'
<1> SUFFICES ASSUME IInv, [Next]_vars PROVE IInv'
  OBVIOUS
<1>1. CASE UNCHANGED vars
  BY <1>1 DEF IInv, Types, TypeOK, PlanComesFirst, ChannelJobs, ConfigJobs,
     ConfigRows, VmAtItsProvider, At, Ids, vars
<1> QED
  BY <1>1, ReadersKeepIInv, UserKeepsIInv, AgentsKeepIInv, ChannelsKeepIInv, ConfigsKeepIInv,
     InsertVpsKeepsIInv, CreateVmKeepsIInv
     DEF Next, StatusStep, AgentStep, ChannelStep, VpsStep

\* The inductive invariant holds in every state.
LEMMA IInvHolds == Spec => []IInv
  BY InitIInv, StepIInv, PTL DEF Spec

\* The tables keep their types, and hold channels of valid kinds only.
THEOREM AccountsTypeCorrect == Spec => []TypeOK
<1>1. IInv => TypeOK
  BY DEF IInv, Types
<1> QED
  BY <1>1, IInvHolds, PTL

\* A request that was let in finds a plan.
THEOREM LetInHasPlanHolds == Spec => []LetInHasPlan
<1>1. IInv => LetInHasPlan
  BY DEF IInv, PlanComesFirst, LetInHasPlan
<1> QED
  BY <1>1, IInvHolds, PTL

\* A VM is at the provider its configuration names.
THEOREM VmAtItsProviderHolds == Spec => []VmAtItsProvider
<1>1. IInv => VmAtItsProvider
  BY DEF IInv
<1> QED
  BY <1>1, IInvHolds, PTL

=============================================================================
