------------------------- MODULE SpriteAgentProofs -------------------------
(***************************************************************************)
(* What TLC checks of SpriteAgent on three handlers and three VPSes,       *)
(* proved for any number of them.                                          *)
(***************************************************************************)
EXTENDS SpriteAgent, SequenceTheorems, TLAPS

(* The inductive invariant, in named parts. *)

RowRecords == [state : {"absent", "provisioning", "running", "stopped", "destroyed"}, vm : BOOLEAN]

\* Where a handler can be, and that the rows that handlers and the sprite name exist.
Shape ==
  /\ DOMAIN job = Jobs /\ writes \in Nat
  /\ Len(rows) <= MaxVpses
  /\ sprite # None => sprite.life \in 1..Len(rows)
  /\ \A j \in Jobs : job[j] # None =>
       /\ job[j].row \in 1..Len(rows)
       /\ job[j].wrote <= writes
       /\ job[j].kind # "provision" => job[j].at >= 1
       /\ job[j].kind = "configure" => job[j].at <= 4
       /\ job[j].kind = "restart" => job[j].at <= 3
       /\ job[j].kind \in {"destroy", "undo", "stop", "start"} => job[j].at <= 2

Types == TypeOK /\ Shape

\* A creation, or its cleanup.
Builds(j) == job[j] # None /\ job[j].kind \in {"provision", "undo"}

\* A VPS is created by one handler, and has an id when that one is done; only then
\* can it be destroyed at the provider.
BuildsAlone ==
  /\ \A j, k \in Jobs : Builds(j) /\ Builds(k) /\ j # k => job[j].row # job[k].row
  /\ \A j \in Jobs : Builds(j) => ~rows[job[j].row].vm
  /\ \A j \in Jobs : job[j] # None /\ job[j].kind = "destroy" /\ job[j].at = 1 => rows[job[j].row].vm

\* The sprite is the one of VPS r.
IsOf(r) == sprite # None /\ sprite.life = r

\* Before its first call a creation has no sprite, and after its cleanup it has none,
\* unless that failed; in between it has, unless some other handler deleted it.
Owns ==
  \A j \in Jobs : Builds(j) =>
    /\ job[j].kind = "provision" /\ job[j].at <= 1 => ~IsOf(job[j].row)
    /\ job[j].kind = "undo" /\ job[j].at = 2 => job[j].row \in left \/ ~IsOf(job[j].row)
    /\ \/ job[j].kind = "provision" /\ job[j].at >= 2
       \/ job[j].kind = "undo" /\ job[j].at = 1
       => job[j].row \in hit \/ IsOf(job[j].row)

\* A file that was written after a handler's is newer.
FileIsNew ==
  \A j \in Jobs :
    job[j] # None /\ job[j].kind = "configure" /\ sprite # None /\ sprite.file > 0 =>
      sprite.file >= job[j].wrote

\* A service that is defined has a file.
HasFile ==
  sprite # None =>
    /\ sprite.service # "none" => sprite.file > 0
    /\ \A j \in Jobs : job[j] # None /\ job[j].kind = "provision" /\ job[j].at >= 4 => sprite.file > 0

\* One that was stopped after the file was written has loaded it since.
HasLoaded ==
  sprite # None =>
    \A j \in Jobs : job[j] # None /\ job[j].kind = "configure" /\ job[j].at >= 3
                      /\ ~job[j].stopFailed /\ sprite.service = "on" => sprite.loaded >= job[j].wrote

\* The last two are of a sprite no late destroy deleted.
Loads == FileIsNew /\ (hit = {} => HasFile /\ HasLoaded)

IInv == Types /\ BuildsAlone /\ Owns /\ SpriteAccounted /\ Loads

\* The invariant holds at first: there is no sprite and no handler.
LEMMA InitIInv == Init => IInv
<1> SUFFICES ASSUME Init PROVE IInv
  OBVIOUS
<1>1. rows \in Seq(RowRecords) /\ Len(rows) = 0
  BY DEF Init
<1>2. TypeOK /\ Shape
  BY <1>1, SpriteConstantsOK DEF Init, TypeOK, Shape, RowRecords
<1> QED
  BY <1>2 DEF Init, IInv, Types, BuildsAlone, Builds, Owns, SpriteAccounted, Loads, FileIsNew, HasFile, HasLoaded

-----------------------------------------------------------------------------
(* What a call does *)

\* Which call a handler is at.
LEMMA Where ==
  ASSUME Types, NEW j \in Jobs, job[j] # None
  PROVE  /\ job[j] \in JobRecords /\ job[j].row \in 1..Len(rows)
         /\ job[j].kind = "provision" =>
              /\ AtEnd(j) <=> job[j].at = 7
              /\ InCall(j) => job[j].at \in 1..6
              /\ InCall(j) => /\ Call(j) = "create" <=> job[j].at = 1
                              /\ Call(j) = "write" <=> job[j].at = 3
                              /\ Call(j) = "service" <=> job[j].at = 4
                              /\ Call(j) \in {"create", "install", "write", "service", "start", "get"}
         /\ job[j].kind = "configure" =>
              /\ AtEnd(j) <=> job[j].at = 4
              /\ InCall(j) => /\ Call(j) = "write" <=> job[j].at = 1
                              /\ Call(j) = "stop" <=> job[j].at = 2
                              /\ Call(j) = "start" <=> job[j].at = 3
                              /\ Call(j) \in {"write", "stop", "start"}
         /\ job[j].kind = "restart" =>
              /\ AtEnd(j) <=> job[j].at = 3
              /\ InCall(j) => Call(j) \in {"stop", "start"}
         /\ job[j].kind \in {"destroy", "undo"} =>
              /\ AtEnd(j) <=> job[j].at = 2
              /\ InCall(j) => Call(j) = "delete"
         /\ job[j].kind \in {"stop", "start"} =>
              /\ AtEnd(j) <=> job[j].at = 2
              /\ InCall(j) => Call(j) = job[j].kind
<1>1. job[j] \in JobRecords /\ job[j].row \in 1..Len(rows)
  BY DEF Types, TypeOK, Shape, JobRecords
<1>2. job[j].at \in 0..7
  BY <1>1 DEF JobRecords
<1>3. CASE job[j].kind = "provision"
  BY <1>1, <1>2, <1>3 DEF AtEnd, InCall, Call, Calls, ProvisionCalls
<1>4. CASE job[j].kind = "configure"
  BY <1>1, <1>2, <1>4 DEF AtEnd, InCall, Call, Calls, ConfigureCalls, Types, Shape
<1>5. CASE job[j].kind = "restart"
  BY <1>1, <1>2, <1>5 DEF AtEnd, InCall, Call, Calls, RestartCalls, Types, Shape
<1>6. CASE job[j].kind \in {"destroy", "undo"}
  BY <1>1, <1>2, <1>6 DEF AtEnd, InCall, Call, Calls, Types, Shape
<1>7. CASE job[j].kind \in {"stop", "start"}
  <2>1. Calls(job[j].kind) = <<job[j].kind>>
    BY <1>7 DEF Calls
  <2>2. job[j].at \in 1..2
    BY <1>2, <1>7 DEF Types, Shape
  <2> QED
    BY <1>1, <1>7, <2>1, <2>2 DEF AtEnd, InCall, Call
<1> QED
  BY <1>1, <1>3, <1>4, <1>5, <1>6, <1>7 DEF JobRecords

\* What becomes of the sprite: it goes, it comes, or it changes.
Deletes(j) ==
  /\ InCall(j) /\ Call(j) = "delete"
  /\ sprite' = None /\ writes' = writes
  /\ hit' = IF sprite # None /\ sprite.life # job[j].row THEN hit \cup {sprite.life} ELSE hit

Creates(j) ==
  /\ InCall(j) /\ Call(j) = "create"
  /\ sprite = None /\ sprite' = Created(job[j].row)
  /\ UNCHANGED <<writes, hit>>

Alters(call) ==
  /\ call \notin {"create", "delete"}
  /\ sprite # None /\ sprite' \in Sprites /\ sprite'.life = sprite.life
  /\ hit' = hit
  /\ IF call = "write" THEN sprite'.file = writes + 1 /\ writes' = writes + 1
                       ELSE sprite'.file = sprite.file /\ writes' = writes
  /\ call = "stop" => sprite'.service = "off"
  /\ call = "start" => sprite'.service = "on"
  /\ call = "service" => sprite'.service # "none"
  /\ \/ sprite'.service = sprite.service /\ sprite'.loaded = sprite.loaded
     \/ call = "service" /\ sprite'.service = "off" /\ sprite'.loaded = sprite.loaded
     \/ call = "stop" /\ sprite.service # "none" /\ sprite'.loaded = sprite.loaded
     \/ call = "start" /\ sprite.service = "off" /\ sprite'.loaded = sprite.file

\* An effect is one of these.
LEMMA EffectCases ==
  ASSUME Types, NEW j \in Jobs, InCall(j), Effect(j)
  PROVE  Deletes(j) \/ Creates(j) \/ Alters(Call(j))
<1>1. job[j] # None /\ Call(j) \in {"create", "install", "write", "service", "start", "get", "stop", "delete"}
  BY Where DEF InCall, JobRecords
<1>2. sprite # None => sprite \in Sprites
  BY DEF Types, TypeOK, Sprites
<1>3. writes \in Nat
  BY DEF Types, Shape
<1>4. CASE Call(j) = "delete"
  BY <1>4 DEF Effect, After, Deletes
<1>5. CASE Call(j) = "create"
  BY <1>5 DEF Effect, After, Accepted, Creates
<1>6. CASE Call(j) = "write"
  BY <1>2, <1>3, <1>6 DEF Effect, After, Accepted, Alters, Written, Sprites
<1>7. CASE Call(j) = "service"
  BY <1>2, <1>7 DEF Effect, After, Accepted, Alters, Defined, Sprites
<1>8. CASE Call(j) = "stop"
  BY <1>2, <1>8 DEF Effect, After, Accepted, Alters, Stopped, Sprites
<1>9. CASE Call(j) = "start"
  BY <1>2, <1>9 DEF Effect, After, Accepted, Alters, Started, Sprites
<1>10. CASE Call(j) \in {"install", "get"}
  BY <1>2, <1>10 DEF Effect, After, Accepted, Alters
<1> QED
  BY <1>1, <1>4, <1>5, <1>6, <1>7, <1>8, <1>9, <1>10

-----------------------------------------------------------------------------
(* What becomes of a handler *)

\* It goes on behind the call, turns to the cleanup, or ends.
GoesOn(j) ==
  /\ InCall(j)
  /\ job'[j] # None /\ job'[j] \in JobRecords
  /\ job'[j].kind = job[j].kind /\ job'[j].row = job[j].row /\ job'[j].at = job[j].at + 1
  /\ \/ /\ Deletes(j) \/ Creates(j) \/ Alters(Call(j))
        /\ job'[j].wrote = IF Call(j) = "write" THEN writes' ELSE job[j].wrote
        /\ job'[j].stopFailed = job[j].stopFailed
     \/ /\ Deletes(j) \/ Alters(Call(j)) \/ NoEffect
        /\ Call(j) \in {"stop", "delete"} /\ job[j].kind \notin {"stop", "start"}
        /\ Call(j) = "stop" => job'[j].stopFailed
        /\ job'[j].wrote = job[j].wrote
        /\ job[j].kind = "undo" => job[j].row \in left'

TurnsBack(j) ==
  /\ InCall(j) /\ job[j].kind = "provision" /\ Call(j) # "create"
  /\ job'[j] # None /\ job'[j] = Job("undo", job[j].row)
  /\ Alters(Call(j)) \/ NoEffect

GivesUp(j) ==
  /\ job'[j] = None
  /\ NoEffect \/ Deletes(j) \/ Creates(j) \/ (InCall(j) /\ Alters(Call(j)))
  /\ Builds(j) => job[j].row \in left' \/ (Call(j) = "create" /\ InCall(j) /\ NoEffect)

\* The handlers but j stay, and so do the tables.
Others(j) ==
  /\ DOMAIN job' = Jobs /\ UNCHANGED tables
  /\ \A k \in Jobs \ {j} : job'[k] = job[k]
  /\ left \subseteq left' /\ left' \subseteq Rows /\ troubled' \subseteq Rows

\* The VPS of a handler is one the agent can have.
LEMMA RowsAreRows == ASSUME Types, NEW j \in Jobs, job[j] # None PROVE job[j].row \in Rows
  BY Where DEF JobRecords

\* What a failure troubles are VPSes.
LEMMA TroubleType == ASSUME Types, NEW j \in Jobs, job[j] # None, Trouble(j) PROVE troubled' \subseteq Rows
<1>1. sprite # None => sprite.life \in Rows
  BY DEF Types, TypeOK, Sprites
<1> QED
  BY <1>1, RowsAreRows DEF Trouble, Types, TypeOK

\* Nor does a stop that strays trouble anything else.
LEMMA StrayType ==
  ASSUME Types, NEW j \in Jobs, troubled' = IF Strays(j) THEN troubled \cup {sprite.life} ELSE troubled
  PROVE  troubled' \subseteq Rows
<1>1. sprite # None => sprite.life \in Rows
  BY DEF Types, TypeOK, Sprites
<1> QED
  BY <1>1 DEF Strays, Types, TypeOK

\* A call that is answered: the handler goes on, the others stay.
LEMMA AnswerMoves ==
  ASSUME Types, NEW j \in Jobs, Answer(j)
  PROVE  Others(j) /\ GoesOn(j)
<1>1. job[j] # None /\ job[j] \in JobRecords /\ InCall(j) /\ Effect(j) /\ writes \in Nat
  BY Where DEF Answer, InCall, Types, Shape
<1>2. Deletes(j) \/ Creates(j) \/ Alters(Call(j))
  BY <1>1, EffectCases
<1>3. job[j].at + 1 \in 0..7
  BY <1>1, Where DEF JobRecords, InCall, Types, Shape
<1>4. writes' = IF Call(j) = "write" THEN writes + 1 ELSE writes
  BY <1>1 DEF Effect
<1>5. Others(j)
  <2>1. troubled' \subseteq Rows
    BY StrayType DEF Answer
  <2> QED
    BY <2>1 DEF Answer, Others, Types, TypeOK, Shape, tables
<1>6. /\ job'[j] \in JobRecords
      /\ job'[j].kind = job[j].kind /\ job'[j].row = job[j].row /\ job'[j].at = job[j].at + 1
      /\ job'[j].wrote = IF Call(j) = "write" THEN writes' ELSE job[j].wrote
      /\ job'[j].stopFailed = job[j].stopFailed
  <2> DEFINE wrote == IF Call(j) = "write" THEN writes + 1 ELSE job[j].wrote
  <2>1. job'[j] = [job[j] EXCEPT !.at = @ + 1, !.wrote = wrote]
    BY DEF Answer, Types, Shape
  <2>2. wrote \in Nat
    BY <1>1 DEF JobRecords
  <2>3. wrote = IF Call(j) = "write" THEN writes' ELSE job[j].wrote
    BY <1>4
  <2> HIDE DEF wrote
  <2> QED
    BY <1>1, <1>3, <2>1, <2>2, <2>3 DEF JobRecords
<1> QED
  BY <1>1, <1>2, <1>5, <1>6, SpriteConstantsOK DEF GoesOn

\* One that fails: it goes on, cleans up or ends.
LEMMA ErrorMoves ==
  ASSUME Types, NEW j \in Jobs, Error(j)
  PROVE  Others(j) /\ (GoesOn(j) \/ TurnsBack(j) \/ GivesUp(j))
<1>1. job[j] # None /\ job[j] \in JobRecords /\ InCall(j) /\ writes \in Nat
  BY Where DEF Error, InCall, Types, Shape
<1>2. NoEffect \/ Deletes(j) \/ Creates(j) \/ Alters(Call(j))
  BY <1>1, EffectCases DEF Error
<1>3. job'[j] = OnError(j) /\ DOMAIN job' = Jobs /\ \A k \in Jobs \ {j} : job'[k] = job[k]
  BY DEF Error, Types, Shape
<1>4. Others(j)
  <2>1. left' \subseteq Rows /\ left \subseteq left'
    BY <1>1, RowsAreRows DEF Error, Types, TypeOK
  <2>2. troubled' \subseteq Rows
    BY <1>1, TroubleType DEF Error
  <2> QED
    BY <1>3, <2>1, <2>2 DEF Error, Others, tables
<1>5. CASE job[j].kind = "provision" /\ Call(j) # "create"
  <2>1. OnError(j) = Job("undo", job[j].row)
    <3>1. Call(j) \notin {"stop", "delete"}
      BY <1>1, <1>5, Where
    <3> QED
      BY <1>5, <3>1 DEF OnError
  <2>2. Job("undo", job[j].row) \in JobRecords
    BY <1>1, RowsAreRows DEF Job, JobRecords
  <2>3. Call(j) # "delete"
    BY <1>1, <1>5, Where
  <2>4. Alters(Call(j)) \/ NoEffect
    BY <1>2, <1>5, <2>3 DEF Deletes, Creates
  <2> QED
    BY <1>1, <1>3, <1>4, <1>5, <2>1, <2>2, <2>4, SpriteConstantsOK DEF TurnsBack
<1>6. CASE Call(j) = "stop" /\ job[j].kind # "stop"
  <2>1. job[j].kind \in {"configure", "restart"} /\ job[j].at + 1 \in 0..7
    BY <1>1, <1>6, Where DEF JobRecords, Types, Shape
  <2>2. job'[j] = [job[j] EXCEPT !.at = @ + 1, !.stopFailed = TRUE]
    BY <1>3, <1>6, <2>1 DEF OnError
  <2>3. /\ job'[j] \in JobRecords /\ job'[j].stopFailed /\ job'[j].wrote = job[j].wrote
        /\ job'[j].kind = job[j].kind /\ job'[j].row = job[j].row /\ job'[j].at = job[j].at + 1
    BY <1>1, <2>1, <2>2 DEF JobRecords
  <2>4. Alters(Call(j)) \/ NoEffect
    BY <1>2, <1>6 DEF Deletes, Creates
  <2> QED
    BY <1>1, <1>4, <1>6, <2>1, <2>3, <2>4, SpriteConstantsOK DEF GoesOn
<1>7. CASE Call(j) = "delete"
  <2>1. job[j].kind \in {"destroy", "undo"} /\ job[j].at + 1 \in 0..7
    BY <1>1, <1>7, Where DEF JobRecords, Types, Shape
  <2>2. job'[j] = [job[j] EXCEPT !.at = @ + 1]
    BY <1>3, <1>7, <2>1 DEF OnError
  <2>3. /\ job'[j] \in JobRecords /\ job'[j].wrote = job[j].wrote
        /\ job'[j].kind = job[j].kind /\ job'[j].row = job[j].row /\ job'[j].at = job[j].at + 1
    BY <1>1, <2>1, <2>2 DEF JobRecords
  <2>4. Deletes(j) \/ Alters(Call(j)) \/ NoEffect
    BY <1>2, <1>7 DEF Creates
  <2>5. job[j].kind = "undo" => job[j].row \in left'
    BY DEF Error
  <2> QED
    BY <1>1, <1>4, <1>7, <2>1, <2>3, <2>4, <2>5, SpriteConstantsOK DEF GoesOn
<1>8. CASE /\ ~(job[j].kind = "provision" /\ Call(j) # "create")
           /\ Call(j) # "delete" /\ ~(Call(j) = "stop" /\ job[j].kind # "stop")
  <2>1. job'[j] = None
    BY <1>3, <1>8 DEF OnError
  <2>2. Builds(j) => Call(j) = "create"
    BY <1>1, <1>8, Where DEF Builds
  <2>3. ASSUME Call(j) = "create", ~NoEffect PROVE job[j].row \in left'
    <3>1. Effect(j) /\ sprite = None /\ sprite' = Created(job[j].row)
      BY <2>3 DEF Error, Effect, Accepted, After
    <3>2. Created(job[j].row) \in Sprites
      BY <1>1, RowsAreRows DEF Created, Sprites
    <3>3. sprite' # sprite
      BY <3>1, <3>2, SpriteConstantsOK
    <3> QED
      BY <2>3, <3>3 DEF Error
  <2> QED
    BY <1>1, <1>2, <1>4, <2>1, <2>2, <2>3 DEF GivesUp
<1> QED
  BY <1>5, <1>6, <1>7, <1>8

\* One that is dropped: it ends.
LEMMA DropMoves ==
  ASSUME Types, NEW j \in Jobs, Drop(j)
  PROVE  Others(j) /\ GivesUp(j)
<1>1. job[j] # None /\ job'[j] = None
  BY DEF Drop, Types, Shape
<1>2. NoEffect \/ Deletes(j) \/ Creates(j) \/ (InCall(j) /\ Alters(Call(j)))
  BY <1>1, EffectCases DEF Drop
<1>3. troubled' \subseteq Rows /\ left' \subseteq Rows
  BY <1>1, TroubleType, RowsAreRows DEF Drop, Types, TypeOK
<1>4. Others(j)
  BY <1>3 DEF Drop, Others, Types, Shape, tables
<1>5. Builds(j) => job[j].row \in left'
  BY DEF Drop, Builds
<1> QED
  BY <1>1, <1>2, <1>4, <1>5 DEF GivesUp

-----------------------------------------------------------------------------
(* A handler's call keeps the invariant *)

\* What one call of handler j does, answered or not.
Moves(j) ==
  /\ job[j] # None
  /\ Others(j)
  /\ GoesOn(j) \/ TurnsBack(j) \/ GivesUp(j)

\* In all cases the sprite is treated in one of four ways.
Touch(j) == NoEffect \/ Deletes(j) \/ Creates(j) \/ (InCall(j) /\ Alters(Call(j)))

\* A move touches the sprite in one of these ways.
LEMMA MovesTouch ==
  ASSUME NEW j \in Jobs, Moves(j) PROVE Touch(j)
  BY DEF Moves, GoesOn, TurnsBack, GivesUp, Touch

\* A new sprite has no file and no service.
LEMMA CreatedFacts ==
  ASSUME NEW r \in Rows
  PROVE  /\ Created(r) \in Sprites /\ Created(r) # None /\ Created(r).life = r
         /\ Created(r).file = 0 /\ Created(r).service = "none" /\ Created(r).loaded = 0
<1>1. Created(r) \in Sprites
  BY DEF Created, Sprites
<1> QED
  BY <1>1, SpriteConstantsOK DEF Created

\* Whatever is done to the sprite, it is one of a VPS that exists.
LEMMA TouchTypes ==
  ASSUME Types, NEW j \in Jobs, job[j] # None, Touch(j)
  PROVE  /\ sprite' \in {None} \cup Sprites /\ writes' \in Nat /\ writes' >= writes
         /\ sprite' # None => sprite'.life \in 1..Len(rows)
         /\ hit' \subseteq Rows /\ hit \subseteq hit'
<1>1. job[j].row \in Rows /\ job[j].row \in 1..Len(rows) /\ writes \in Nat
  BY RowsAreRows, Where DEF Types, Shape
<1>2. CASE NoEffect
  BY <1>1, <1>2 DEF NoEffect, Types, TypeOK, Shape
<1>3. CASE Deletes(j)
  <2>1. sprite # None => sprite.life \in Rows
    BY DEF Types, TypeOK, Sprites
  <2> QED
    BY <1>1, <1>3, <2>1 DEF Deletes, Types, TypeOK
<1>4. CASE Creates(j)
  BY <1>1, <1>4, CreatedFacts DEF Creates, Types, TypeOK
<1>5. CASE Alters(Call(j))
  BY <1>1, <1>5 DEF Alters, Types, TypeOK, Shape
<1> QED
  BY <1>2, <1>3, <1>4, <1>5 DEF Touch

\* A move keeps the types and where handlers can be.
LEMMA MovesKeepTypes ==
  ASSUME Types, NEW j \in Jobs, Moves(j)
  PROVE  Types'
<1>1. Touch(j) /\ job[j] # None
  BY MovesTouch DEF Moves
<1>2. /\ sprite' \in {None} \cup Sprites /\ writes' \in Nat /\ writes' >= writes
      /\ sprite' # None => sprite'.life \in 1..Len(rows)
      /\ hit' \subseteq Rows
  BY <1>1, TouchTypes
<1>3. job[j] \in JobRecords /\ job[j].row \in Rows /\ job[j].row \in 1..Len(rows)
  BY <1>1, Where, RowsAreRows
<1>4. job'[j] # None =>
        /\ job'[j] \in JobRecords /\ job'[j].row = job[j].row
        /\ job'[j].wrote <= writes'
        /\ job'[j].kind # "provision" => job'[j].at >= 1
        /\ job'[j].kind = "configure" => job'[j].at <= 4
        /\ job'[j].kind = "restart" => job'[j].at <= 3
        /\ job'[j].kind \in {"destroy", "undo", "stop", "start"} => job'[j].at <= 2
  <2>1. CASE GoesOn(j)
    <3>1. job[j].wrote <= writes /\ job[j].wrote \in Nat /\ writes \in Nat
      BY <1>1, <1>3 DEF Types, Shape, JobRecords
    <3>2. job'[j].wrote \in {job[j].wrote, writes'}
      BY <2>1 DEF GoesOn
    <3>3. job[j].at \in 0..7 /\ job'[j].at = job[j].at + 1 /\ job'[j].kind = job[j].kind
      BY <1>3, <2>1 DEF GoesOn, JobRecords
    <3>4. ~AtEnd(j)
      BY <2>1 DEF GoesOn, InCall
    <3>5. /\ job[j].kind = "configure" => job[j].at < 4
          /\ job[j].kind = "restart" => job[j].at < 3
          /\ job[j].kind \in {"destroy", "undo", "stop", "start"} => job[j].at < 2
      BY <1>1, <3>3, <3>4, Where DEF Types, Shape
    <3>6. job'[j].wrote <= writes'
      BY <1>2, <3>1, <3>2
    <3>7. /\ job'[j].kind # "provision" => job'[j].at >= 1
          /\ job'[j].kind = "configure" => job'[j].at <= 4
          /\ job'[j].kind = "restart" => job'[j].at <= 3
          /\ job'[j].kind \in {"destroy", "undo", "stop", "start"} => job'[j].at <= 2
      BY <3>3, <3>5
    <3> QED
      BY <2>1, <3>6, <3>7 DEF GoesOn
  <2>2. CASE TurnsBack(j)
    <3>1. job'[j] = Job("undo", job[j].row) /\ writes' \in Nat
      BY <1>2, <2>2 DEF TurnsBack
    <3> QED
      BY <1>3, <3>1 DEF Job, JobRecords
  <2>3. CASE GivesUp(j)
    BY <2>3 DEF GivesUp
  <2> QED
    BY <2>1, <2>2, <2>3 DEF Moves
<1>5. TypeOK'
  BY <1>2, <1>4 DEF Moves, Others, tables, Types, TypeOK
<1>6. Shape'
  <2>1. \A k \in Jobs \ {j} : job'[k] = job[k]
    BY DEF Moves, Others
  <2>2. \A k \in Jobs \ {j} : job[k] # None => job[k].wrote \in Nat
    BY Where DEF JobRecords
  <2> QED
    BY <1>2, <1>3, <1>4, <2>1, <2>2 DEF Moves, Others, tables, Types, Shape
<1> QED
  BY <1>5, <1>6 DEF Types


\* The other handlers build what they built, and j builds what it did or nothing.
LEMMA MovesBuild ==
  ASSUME Types, NEW j \in Jobs, Moves(j)
  PROVE  /\ \A k \in Jobs : Builds(k)' => Builds(k) /\ job'[k].row = job[k].row
         /\ \A k \in Jobs : Builds(k) /\ ~Builds(k)' => k = j /\ GivesUp(j)
<1>1. \A k \in Jobs \ {j} : job'[k] = job[k]
  BY DEF Moves, Others
<1>2. CASE GoesOn(j)
  BY <1>1, <1>2 DEF GoesOn, Builds, Moves
<1>3. CASE TurnsBack(j)
  BY <1>1, <1>3 DEF TurnsBack, Builds, Moves, Job
<1>4. CASE GivesUp(j)
  BY <1>1, <1>4 DEF GivesUp, Builds
<1> QED
  BY <1>2, <1>3, <1>4 DEF Moves

\* Who calls create, and who deletes.
LEMMA Callers ==
  ASSUME Types, NEW j \in Jobs, job[j] # None
  PROVE  /\ Creates(j) => job[j].kind = "provision" /\ job[j].at = 1
         /\ Deletes(j) => job[j].kind \in {"destroy", "undo"} /\ job[j].at = 1
<1>1. job[j].kind \in {"provision", "undo", "configure", "restart", "stop", "start", "destroy"} /\ job[j].at \in 0..7
  BY Where DEF JobRecords
<1>2. ASSUME Creates(j) PROVE job[j].kind = "provision" /\ job[j].at = 1
  BY <1>1, <1>2, Where DEF Creates
<1>3. ASSUME Deletes(j) PROVE job[j].kind \in {"destroy", "undo"} /\ job[j].at = 1
  <2>1. job[j].kind \in {"destroy", "undo"}
    BY <1>1, <1>3, Where DEF Deletes
  <2>2. job[j].at >= 1 /\ job[j].at <= 2 /\ job[j].at # 2
    BY <1>3, <2>1, Where DEF Deletes, InCall, Types, Shape
  <2> QED
    BY <1>1, <2>1, <2>2
<1> QED
  BY <1>2, <1>3

\* A move turns no handler into a creation or a destruction.
LEMMA MovesKeepBuildsAlone ==
  ASSUME Types, BuildsAlone, NEW j \in Jobs, Moves(j)
  PROVE  BuildsAlone'
<1>1. rows' = rows /\ \A k \in Jobs \ {j} : job'[k] = job[k]
  BY DEF Moves, Others, tables
<1>2. \A k \in Jobs : Builds(k)' => Builds(k) /\ job'[k].row = job[k].row
  BY MovesBuild
<1>3. job'[j] # None /\ job'[j].kind = "destroy" => job'[j].at # 1
  <2>1. job[j].at \in 0..7 /\ (job[j].kind # "provision" => job[j].at >= 1)
    BY Where DEF Moves, JobRecords, Types, Shape
  <2> QED
    BY <2>1 DEF Moves, GoesOn, TurnsBack, GivesUp, Job
<1>4. (\A i, k \in Jobs : Builds(i) /\ Builds(k) /\ i # k => job[i].row # job[k].row)'
  BY <1>2 DEF BuildsAlone
<1>5. (\A i \in Jobs : Builds(i) => ~rows[job[i].row].vm)'
  BY <1>1, <1>2 DEF BuildsAlone
<1>6. (\A i \in Jobs : job[i] # None /\ job[i].kind = "destroy" /\ job[i].at = 1 => rows[job[i].row].vm)'
  BY <1>1, <1>3 DEF BuildsAlone
<1> QED
  BY <1>4, <1>5, <1>6 DEF BuildsAlone

\* Another's call leaves a creation its sprite, or that VPS is hit.
LEMMA MovesKeepOthers ==
  ASSUME Types, BuildsAlone, NEW j \in Jobs, Moves(j), NEW k \in Jobs, k # j, Builds(k)
  PROVE  /\ ~IsOf(job[k].row) => ~IsOf(job[k].row)'
         /\ job[k].row \in hit \/ IsOf(job[k].row) => job[k].row \in hit' \/ IsOf(job[k].row)'
<1>1. Touch(j) /\ job[j] # None /\ job'[k] = job[k] /\ rows' = rows
  BY MovesTouch DEF Moves, Others, tables
<1>2. CASE NoEffect
  BY <1>1, <1>2 DEF NoEffect, IsOf
<1>3. CASE Deletes(j)
  <2>1. job[j].row # job[k].row
    BY <1>1, <1>3, Callers DEF BuildsAlone, Builds
  <2> QED
    BY <1>1, <1>3, <2>1 DEF Deletes, IsOf
<1>4. CASE Creates(j)
  <2>1. job[j].row # job[k].row /\ job[j].row \in Rows
    BY <1>1, <1>4, Callers, RowsAreRows DEF BuildsAlone, Builds
  <2> QED
    BY <1>1, <1>4, <2>1, CreatedFacts DEF Creates, IsOf
<1>5. CASE Alters(Call(j))
  <2>1. sprite' # None
    BY <1>5, SpriteConstantsOK DEF Alters
  <2> QED
    BY <1>1, <1>5, <2>1 DEF Alters, IsOf
<1> QED
  BY <1>1, <1>2, <1>3, <1>4, <1>5 DEF Touch

\* A move keeps to each creation the sprite it made.
LEMMA MovesKeepOwns ==
  ASSUME Types, BuildsAlone, Owns, NEW j \in Jobs, Moves(j)
  PROVE  Owns'
<1>1. SUFFICES ASSUME NEW k \in Jobs, Builds(k)'
      PROVE  (/\ job[k].kind = "provision" /\ job[k].at <= 1 => ~IsOf(job[k].row)
              /\ job[k].kind = "undo" /\ job[k].at = 2 => job[k].row \in left \/ ~IsOf(job[k].row)
              /\ \/ job[k].kind = "provision" /\ job[k].at >= 2
                 \/ job[k].kind = "undo" /\ job[k].at = 1
                 => job[k].row \in hit \/ IsOf(job[k].row))'
  BY DEF Owns
<1>2. Builds(k) /\ job'[k].row = job[k].row /\ left \subseteq left'
  BY <1>1, MovesBuild DEF Moves, Others
<1>3. CASE k # j
  <2>1. job'[k] = job[k]
    BY <1>3 DEF Moves, Others
  <2> QED
    BY <1>2, <1>3, <2>1, MovesKeepOthers DEF Owns, IsOf
<1>4. CASE k = j
  <2>1. /\ job[j] # None /\ job[j].at \in 0..7 /\ job[j].row \in Rows /\ Builds(j)
        /\ job[j].kind # "provision" => job[j].at >= 1
    BY <1>2, <1>4, Where, RowsAreRows DEF Builds, JobRecords, Types, Shape
  <2>2. CASE GoesOn(j) /\ Deletes(j)
    <3>1. sprite' = None /\ job[j].kind = "undo" /\ job'[j].at = 2 /\ job'[j].kind = "undo"
      BY <2>1, <2>2, Callers DEF Deletes, GoesOn, Builds
    <3> QED
      BY <1>4, <3>1 DEF IsOf
  <2>3. CASE GoesOn(j) /\ Creates(j)
    <3>1. /\ sprite' = Created(job[j].row) /\ job'[j].row = job[j].row
          /\ job'[j].kind = "provision" /\ job'[j].at = 2
      BY <2>1, <2>3, Callers DEF Creates, GoesOn
    <3> QED
      BY <1>4, <2>1, <3>1, CreatedFacts DEF IsOf
  <2>4. CASE GoesOn(j) /\ Alters(Call(j))
    <3>1. sprite' # None /\ sprite # None /\ sprite'.life = sprite.life /\ hit' = hit
      BY <2>4, SpriteConstantsOK DEF Alters
    <3>2. CASE job[j].kind = "provision"
      <4>1. job[j].at >= 2
        BY <2>1, <2>4, <3>2, Where DEF Alters, GoesOn
      <4> QED
        BY <1>2, <1>4, <2>1, <2>4, <3>1, <3>2, <4>1 DEF Owns, IsOf, GoesOn
    <3>3. CASE job[j].kind = "undo"
      BY <2>1, <2>4, <3>3, Where DEF GoesOn, Alters
    <3> QED
      BY <2>1, <3>2, <3>3 DEF Builds
  <2>5. CASE GoesOn(j) /\ ~Deletes(j) /\ ~Creates(j) /\ ~Alters(Call(j))
    <3>1. /\ Call(j) \in {"stop", "delete"}
          /\ job[j].kind = "undo" => job[j].row \in left'
          /\ job'[j].kind = job[j].kind /\ job'[j].at = job[j].at + 1
      BY <2>5 DEF GoesOn
    <3>2. job[j].kind = "undo"
      BY <2>1, <2>5, <3>1, Where DEF GoesOn, Builds
    <3> QED
      BY <1>2, <1>4, <2>1, <3>1, <3>2
  <2>6. CASE TurnsBack(j)
    <3>1. job[j].kind = "provision" /\ job[j].at >= 2
      BY <2>1, <2>6, Where DEF TurnsBack
    <3>2. job[j].row \in hit \/ IsOf(job[j].row)
      BY <2>1, <3>1 DEF Owns
    <3>3. IsOf(job[j].row)' <=> IsOf(job[j].row)
      BY <1>2, <1>4, <2>6, SpriteConstantsOK DEF TurnsBack, Alters, NoEffect, IsOf
    <3>4. hit' = hit /\ job'[j].kind = "undo" /\ job'[j].at = 1
      BY <2>6 DEF TurnsBack, Alters, NoEffect, Job
    <3> QED
      BY <1>2, <1>4, <3>2, <3>3, <3>4
  <2>7. CASE GivesUp(j)
    BY <1>1, <1>4, <2>7 DEF GivesUp, Builds
  <2> QED
    BY <2>2, <2>3, <2>4, <2>5, <2>6, <2>7 DEF Moves, GoesOn
<1> QED
  BY <1>3, <1>4

\* A move leaves no sprite unaccounted for.
LEMMA MovesKeepAccounted ==
  ASSUME Types, BuildsAlone, Owns, SpriteAccounted, NEW j \in Jobs, Moves(j)
  PROVE  SpriteAccounted'
<1> SUFFICES ASSUME sprite' # None
             PROVE  (\/ rows[sprite.life].vm
                     \/ sprite.life \in left
                     \/ \E k \in Jobs : Builds(k) /\ job[k].row = sprite.life)'
  BY DEF SpriteAccounted, Builds, Idle
<1>1. Touch(j) /\ job[j] # None /\ rows' = rows /\ left \subseteq left'
  BY MovesTouch DEF Moves, Others, tables
<1>2. CASE sprite # None /\ sprite'.life = sprite.life
  <2>1. CASE rows[sprite.life].vm \/ sprite.life \in left
    BY <1>1, <1>2, <2>1
  <2>2. ASSUME NEW k \in Jobs, Builds(k), job[k].row = sprite.life
        PROVE  sprite.life \in left' \/ (Builds(k)' /\ job'[k].row = sprite.life)
    <3>1. CASE Builds(k)'
      BY <2>2, <3>1, MovesBuild
    <3>2. CASE ~Builds(k)'
      <4>1. k = j /\ GivesUp(j)
        BY <2>2, <3>2, MovesBuild
      <4>2. CASE Call(j) = "create" /\ InCall(j)
        <5>1. job[j].kind = "provision" /\ job[j].at = 1
          BY <1>1, <2>2, <4>1, <4>2, Where DEF Builds
        <5> QED
          BY <1>2, <2>2, <4>1, <5>1 DEF Owns, IsOf
      <4> QED
        BY <2>2, <4>1, <4>2 DEF GivesUp
    <3> QED
      BY <3>1, <3>2
  <2> QED
    BY <1>2, <2>1, <2>2 DEF SpriteAccounted, Builds, Idle
<1>3. CASE Creates(j)
  <2>1. /\ sprite'.life = job[j].row /\ job[j].kind = "provision"
        /\ sprite # sprite'
    BY <1>1, <1>3, Callers, RowsAreRows, CreatedFacts DEF Creates
  <2>2. CASE Builds(j)'
    BY <2>1, <2>2, MovesBuild
  <2>3. CASE ~Builds(j)'
    BY <1>1, <2>1, <2>3, MovesBuild DEF Builds, GivesUp, NoEffect
  <2> QED
    BY <2>2, <2>3
<1>4. CASE Deletes(j)
  BY <1>4 DEF Deletes
<1>5. CASE NoEffect \/ Alters(Call(j))
  BY <1>2, <1>5 DEF NoEffect, Alters
<1> QED
  BY <1>1, <1>3, <1>4, <1>5 DEF Touch

\* What is done to a sprite that stays keeps what a configuration needs of it, whoever
\* does it.
LEMMA AltersFacts ==
  ASSUME Types, Loads, NEW call, Alters(call), hit = {}
  PROVE  /\ sprite.file > 0 => sprite'.file > 0
         /\ sprite'.service = "on" => sprite.service = "on" \/ call = "start"
         /\ sprite'.service = "on" =>
              \/ sprite.service = "on" /\ sprite'.loaded = sprite.loaded
              \/ sprite.service = "off" /\ sprite'.loaded = sprite.file /\ sprite.file > 0
<1>1. sprite \in Sprites /\ sprite' \in Sprites /\ writes \in Nat
  BY DEF Types, TypeOK, Shape, Alters
<1>2. sprite.file \in Nat /\ sprite'.file \in Nat
  BY <1>1 DEF Sprites
<1>3. sprite.service # "none" => sprite.file > 0
  BY DEF Loads, FileIsNew, HasFile, HasLoaded, Alters
<1> QED
  BY <1>1, <1>2, <1>3 DEF Alters

\* What the handlers are after a move of j, and how much of it they have written.
LEMMA MovesJobs ==
  ASSUME Types, NEW j \in Jobs, Moves(j), NEW k \in Jobs, job'[k] # None
  PROVE  /\ job[k] # None /\ job[k].at \in 0..7 /\ job[k].wrote \in Nat /\ job[k].wrote <= writes
         /\ writes \in Nat
         /\ k # j => job'[k] = job[k]
         /\ k = j => GoesOn(j) \/ TurnsBack(j)
<1>1. job[k] # None
  BY DEF Moves, Others
<1>2. job[k] \in JobRecords /\ job[k].wrote <= writes /\ writes \in Nat
  BY <1>1, Where DEF Types, Shape
<1> QED
  BY <1>1, <1>2 DEF Moves, Others, GivesUp, JobRecords

\* A move writes only newer files.
LEMMA MovesKeepFileIsNew ==
  ASSUME Types, FileIsNew, NEW j \in Jobs, Moves(j)
  PROVE  FileIsNew'
<1> SUFFICES ASSUME NEW k \in Jobs, job'[k] # None, job'[k].kind = "configure",
                    sprite' # None, sprite'.file > 0
             PROVE  sprite'.file >= job'[k].wrote
  BY DEF FileIsNew
<1>1. Touch(j) /\ Types'
  BY MovesTouch, MovesKeepTypes
<1>2. /\ job[k] # None /\ job[k].wrote \in Nat /\ job[k].wrote <= writes /\ writes \in Nat
      /\ job'[k].wrote <= writes'
  BY <1>1, MovesJobs DEF Types, Shape
<1>3. sprite'.file \in Nat
  BY <1>1 DEF Types, TypeOK, Sprites
<1>4. CASE Call(j) = "write" /\ Alters(Call(j))
  BY <1>2, <1>3, <1>4 DEF Alters
<1>5. CASE Creates(j)
  <2>1. job[j].row \in Rows
    BY RowsAreRows DEF Moves
  <2> QED
    BY <1>5, <2>1, CreatedFacts DEF Creates
<1>6. CASE (Call(j) # "write" /\ Alters(Call(j))) \/ NoEffect
  <2>1. sprite # None /\ sprite'.file = sprite.file
    BY <1>6 DEF Alters, NoEffect
  <2>2. job[k].kind = "configure" /\ job'[k].wrote = job[k].wrote
    <3>1. CASE k # j
      BY <3>1, MovesJobs
    <3>2. CASE k = j
      <4>1. GoesOn(j)
        <5>1. job'[j] # None /\ job'[j].kind = "configure"
          BY <3>2
        <5>2. GoesOn(j) \/ TurnsBack(j)
          BY <5>1, MovesJobs
        <5> QED
          BY <5>1, <5>2 DEF TurnsBack, Job
      <4>2. Call(j) # "write"
        BY <1>2, <1>6, <3>2, <4>1, Where DEF GoesOn, NoEffect, Alters, Deletes, Creates
      <4> QED
        BY <3>2, <4>1, <4>2 DEF GoesOn
    <3> QED
      BY <3>1, <3>2
  <2> QED
    BY <1>2, <2>1, <2>2 DEF FileIsNew
<1>7. CASE Deletes(j)
  BY <1>7 DEF Deletes
<1> QED
  BY <1>1, <1>4, <1>5, <1>6, <1>7 DEF Touch

\* A move starts no service without a file: its own creation wrote one before.
LEMMA MovesKeepHasFile ==
  ASSUME Types, BuildsAlone, Owns, Loads, NEW j \in Jobs, Moves(j), hit' = {}
  PROVE  HasFile'
<1> SUFFICES ASSUME sprite' # None
             PROVE  /\ sprite'.service # "none" => sprite'.file > 0
                    /\ \A k \in Jobs : job'[k] # None /\ job'[k].kind = "provision"
                                         /\ job'[k].at >= 4 => sprite'.file > 0
  BY DEF HasFile
<1>1. Touch(j) /\ job[j] # None /\ hit = {} /\ writes \in Nat
  BY MovesTouch, TouchTypes DEF Moves, Types, Shape
<1>2. \A k \in Jobs : job'[k] # None /\ job'[k].kind = "provision" /\ job'[k].at >= 4 =>
        \/ job[k] # None /\ job[k].kind = "provision" /\ job[k].at >= 4
        \/ k = j /\ Call(j) = "write" /\ Alters(Call(j))
  <2> SUFFICES ASSUME NEW k \in Jobs, job'[k] # None, job'[k].kind = "provision", job'[k].at >= 4
               PROVE  \/ job[k] # None /\ job[k].kind = "provision" /\ job[k].at >= 4
                      \/ k = j /\ Call(j) = "write" /\ Alters(Call(j))
    OBVIOUS
  <2>1. CASE k # j
    BY <2>1, MovesJobs
  <2>2. CASE k = j
    <3>1. GoesOn(j)
      <4>1. job'[j] # None /\ job'[j].kind = "provision"
        BY <2>2
      <4>2. GoesOn(j) \/ TurnsBack(j)
        BY <4>1, MovesJobs
      <4> QED
        BY <4>1, <4>2 DEF TurnsBack, Job
    <3>2. job[j].kind = "provision" /\ job[j].at \in 0..7 /\ job'[j].at = job[j].at + 1
      BY <1>1, <2>2, <3>1, MovesJobs DEF GoesOn
    <3>3. job[j].at = 3 => Call(j) = "write"
      BY <1>1, <3>1, <3>2, Where DEF GoesOn
    <3>4. Call(j) \notin {"stop", "delete"}
      BY <1>1, <3>1, <3>2, Where DEF GoesOn
    <3> QED
      BY <1>1, <2>2, <3>1, <3>2, <3>3, <3>4 DEF GoesOn, Deletes, Creates
  <2> QED
    BY <2>1, <2>2
<1>3. CASE Deletes(j)
  BY <1>3 DEF Deletes
<1>4. CASE Creates(j)
  <2>1. /\ sprite = None /\ job[j].row \in Rows
        /\ sprite' = Created(job[j].row) /\ sprite'.service = "none"
    BY <1>1, <1>4, RowsAreRows, CreatedFacts DEF Creates
  <2>2. Call(j) = "create"
    BY <1>4 DEF Creates
  <2>3. ASSUME NEW k \in Jobs, job[k] # None, job[k].kind = "provision", job[k].at >= 4 PROVE FALSE
    <3>1. job[k].at >= 2
      BY <2>3, Where DEF JobRecords
    <3> QED
      BY <1>1, <2>1, <2>3, <3>1 DEF Owns, IsOf, Builds
  <2> QED
    BY <1>2, <2>1, <2>2, <2>3
<1>5. CASE NoEffect
  BY <1>1, <1>2, <1>5 DEF NoEffect, Loads, FileIsNew, HasFile, HasLoaded, Alters
<1>6. CASE Call(j) = "write" /\ Alters(Call(j))
  BY <1>1, <1>6 DEF Alters
<1>7. CASE Call(j) # "write" /\ Alters(Call(j))
  <2>1. sprite # None /\ sprite'.file = sprite.file
    BY <1>7 DEF Alters
  <2>2. \A k \in Jobs : job'[k] # None /\ job'[k].kind = "provision" /\ job'[k].at >= 4 =>
          sprite.file > 0
    BY <1>1, <1>2, <1>7, <2>1 DEF Loads, FileIsNew, HasFile, HasLoaded
  <2>3. sprite'.service # "none" => sprite.file > 0
    <3>1. CASE sprite.service # "none"
      BY <1>1, <2>1, <3>1 DEF Loads, FileIsNew, HasFile, HasLoaded
    <3>2. CASE sprite.service = "none" /\ sprite'.service # "none"
      <4>1. Call(j) = "service"
        BY <1>7, <3>2 DEF Alters
      <4>2. InCall(j)
        BY <1>1, <1>7, <3>2, <4>1 DEF Touch, NoEffect, Deletes, Creates
      <4> QED
        BY <1>1, <2>1, <4>1, <4>2, Where DEF Loads, FileIsNew, HasFile, HasLoaded, JobRecords
    <3> QED
      BY <3>1, <3>2
  <2> QED
    BY <2>1, <2>2, <2>3
<1> QED
  BY <1>1, <1>3, <1>4, <1>5, <1>6, <1>7 DEF Touch

\* A move that starts the service loads the newest file, after any stop of a configuration.
LEMMA MovesKeepHasLoaded ==
  ASSUME Types, Loads, NEW j \in Jobs, Moves(j), hit' = {}
  PROVE  HasLoaded'
<1> SUFFICES ASSUME sprite' # None, sprite'.service = "on",
                    NEW k \in Jobs, job'[k] # None, job'[k].kind = "configure",
                    job'[k].at >= 3, ~job'[k].stopFailed
             PROVE  sprite'.loaded >= job'[k].wrote
  BY DEF HasLoaded
<1>1. Touch(j) /\ job[j] # None /\ hit = {}
  BY MovesTouch, TouchTypes DEF Moves
<1>2. /\ job[k] # None /\ job[k].at \in 0..7 /\ job[k].wrote \in Nat
      /\ k # j => job'[k] = job[k]
      /\ k = j => GoesOn(j) \/ TurnsBack(j)
  BY MovesJobs
<1>3. /\ job[k].kind = "configure" /\ job'[k].wrote = job[k].wrote
      /\ job[k].at >= 3 /\ ~job[k].stopFailed
  <2>1. CASE k # j
    BY <1>2, <2>1
  <2>2. CASE k = j
    <3>1. GoesOn(j)
      BY <1>2, <2>2 DEF TurnsBack, Job
    <3>2. job[j].kind = "configure" /\ job'[j].at = job[j].at + 1
      BY <2>2, <3>1 DEF GoesOn
    <3>3. Call(j) # "stop"
      <4>1. ASSUME Call(j) = "stop" PROVE FALSE
        <5>1. Alters("stop")
          BY <2>2, <3>1, <4>1 DEF GoesOn, Deletes, Creates
        <5> QED
          BY <5>1 DEF Alters
      <4> QED
        BY <4>1
    <3>4. job[j].at >= 3
      BY <1>1, <1>2, <2>2, <3>1, <3>2, <3>3, Where DEF GoesOn
    <3>5. Call(j) \notin {"write", "delete"}
      BY <1>1, <3>1, <3>2, <3>4, Where DEF GoesOn
    <3> QED
      BY <2>2, <3>1, <3>2, <3>3, <3>4, <3>5 DEF GoesOn
  <2> QED
    BY <2>1, <2>2
<1>4. CASE NoEffect
  BY <1>1, <1>2, <1>3, <1>4 DEF NoEffect, Loads, FileIsNew, HasFile, HasLoaded
<1>5. CASE Deletes(j)
  BY <1>5 DEF Deletes
<1>6. CASE Creates(j)
  BY <1>1, <1>6, RowsAreRows, CreatedFacts DEF Creates
<1>7. CASE Alters(Call(j))
  <2>1. sprite # None
    BY <1>7 DEF Alters
  <2>2. CASE sprite.service = "on" /\ sprite'.loaded = sprite.loaded
    BY <1>1, <1>2, <1>3, <2>1, <2>2 DEF Loads, HasLoaded
  <2>3. CASE sprite.service = "off" /\ sprite'.loaded = sprite.file /\ sprite.file > 0
    BY <1>1, <1>2, <1>3, <2>1, <2>3 DEF Loads, FileIsNew, HasFile, HasLoaded
  <2> QED
    BY <1>1, <1>7, <2>2, <2>3, AltersFacts
<1> QED
  BY <1>1, <1>4, <1>5, <1>6, <1>7 DEF Touch

\* A move keeps the invariant.
LEMMA MovesKeepIInv ==
  ASSUME IInv, NEW j \in Jobs, Moves(j)
  PROVE  IInv'
<1>1. Types' /\ BuildsAlone' /\ Owns' /\ SpriteAccounted'
  BY MovesKeepTypes, MovesKeepBuildsAlone, MovesKeepOwns, MovesKeepAccounted DEF IInv
<1>2. Loads'
  BY MovesKeepFileIsNew, MovesKeepHasFile, MovesKeepHasLoaded DEF IInv, Loads
<1> QED
  BY <1>1, <1>2 DEF IInv

-----------------------------------------------------------------------------
(* The other steps keep the invariant *)

\* A handler begins: it has called nothing and written nothing.
LEMMA JobFacts ==
  ASSUME NEW kind \in {"provision", "undo", "configure", "restart", "stop", "start", "destroy"},
         NEW row \in Rows
  PROVE  /\ Job(kind, row) \in JobRecords /\ Job(kind, row) # None
         /\ Job(kind, row).kind = kind /\ Job(kind, row).row = row
         /\ Job(kind, row).at = 1 /\ Job(kind, row).wrote = 0
<1>1. Job(kind, row) \in JobRecords
  BY DEF Job, JobRecords
<1> QED
  BY <1>1, SpriteConstantsOK DEF Job

\* A creation begins, on a VPS no other handler is at.
LEMMA ProvisionKeepsIInv ==
  ASSUME IInv, NEW j \in Jobs, Provision(j)
  PROVE  IInv'
<1> DEFINE new == Len(rows) + 1
           row == [state |-> "absent", vm |-> FALSE]
<1>1. /\ rows \in Seq(RowRecords) /\ Len(rows) \in Nat /\ new \in Rows /\ writes \in Nat
      /\ Len(rows) < MaxVpses /\ row \in RowRecords
  BY LenProperties, SpriteConstantsOK DEF IInv, Types, TypeOK, Shape, Provision, RowRecords, Rows
<1>2. /\ rows' = Append(rows, row) /\ rows' \in Seq(RowRecords) /\ Len(rows') = new
      /\ rows'[new] = row
      /\ \A v \in 1..Len(rows) : rows'[v] = rows[v]
  BY <1>1, AppendProperties DEF Provision
<1>3. UNCHANGED <<sprite, writes, left, troubled, hit>> /\ vps' = vps
  BY DEF Provision
<1>4. /\ job[j] = None /\ DOMAIN job' = Jobs
      /\ \A k \in Jobs \ {j} : job'[k] = job[k]
  BY DEF Provision, Begin, Idle, IInv, Types, Shape
<1>5. /\ job'[j] \in JobRecords /\ job'[j] # None
      /\ job'[j].kind = "provision" /\ job'[j].row = new /\ job'[j].at = 0 /\ job'[j].wrote = 0
  <2> DEFINE job0 == [kind |-> "provision", row |-> new, at |-> 0, wrote |-> 0, stopFailed |-> FALSE]
  <2>1. job'[j] = job0
    BY DEF Provision, Begin, Job, IInv, Types, Shape
  <2>2. job0 \in JobRecords
    BY <1>1 DEF JobRecords
  <2>3. job'[j] # None
    BY <2>1, <2>2, SpriteConstantsOK
  <2> QED
    BY <2>1, <2>2, <2>3
<1>6. /\ sprite # None => sprite.life \in 1..Len(rows)
      /\ \A k \in Jobs \ {j} : job[k] # None => job[k].row \in 1..Len(rows)
  BY DEF IInv, Types, Shape
<1> HIDE DEF new, row
<1>7. TypeOK'
  <2>1. vps' \in {None} \cup 1..Len(rows')
    BY <1>1, <1>2, <1>3 DEF IInv, Types, TypeOK, new
  <2> QED
    BY <1>2, <1>3, <1>4, <1>5, <2>1 DEF IInv, Types, TypeOK, RowRecords
<1>8. Shape'
  <2>1. \A k \in Jobs : job'[k] # None =>
          /\ job'[k].row \in 1..new
          /\ job'[k].wrote <= writes
          /\ job'[k].kind # "provision" => job'[k].at >= 1
          /\ job'[k].kind = "configure" => job'[k].at <= 4
          /\ job'[k].kind = "restart" => job'[k].at <= 3
          /\ job'[k].kind \in {"destroy", "undo", "stop", "start"} => job'[k].at <= 2
    <3>1. new \in 1..new /\ \A v \in 1..Len(rows) : v \in 1..new
      BY <1>1 DEF new
    <3>2. \A k \in Jobs \ {j} : job'[k] # None => job'[k].row \in 1..new
      BY <1>4, <1>6, <3>1
    <3>3. \A k \in Jobs \ {j} : job'[k] # None =>
            /\ job'[k].wrote <= writes
            /\ job'[k].kind # "provision" => job'[k].at >= 1
            /\ job'[k].kind = "configure" => job'[k].at <= 4
            /\ job'[k].kind = "restart" => job'[k].at <= 3
            /\ job'[k].kind \in {"destroy", "undo", "stop", "start"} => job'[k].at <= 2
      BY <1>4 DEF IInv, Types, Shape
    <3> QED
      BY <1>1, <1>5, <3>1, <3>2, <3>3
  <2>2. new <= MaxVpses /\ (sprite # None => sprite.life \in 1..new)
    BY <1>1, <1>6, SpriteConstantsOK DEF new
  <2> QED
    BY <1>1, <1>2, <1>3, <1>4, <2>1, <2>2 DEF Shape
<1>9. \A k \in Jobs : job[k] # None => job[k].row # new
  BY <1>1, <1>4, <1>6 DEF new
<1>10. rows'[new].vm = FALSE
  BY <1>2 DEF row
<1>11. BuildsAlone'
  BY <1>2, <1>4, <1>5, <1>6, <1>9, <1>10 DEF IInv, BuildsAlone, Builds
<1>12. Owns'
  <2>1. ~IsOf(new)
    BY <1>1, <1>6 DEF IsOf, new
  <2> QED
    BY <1>3, <1>4, <1>5, <2>1 DEF IInv, Owns, Builds, IsOf
<1>13. SpriteAccounted'
  BY <1>2, <1>3, <1>4, <1>6 DEF IInv, SpriteAccounted, Idle
<1>14. Loads'
  BY <1>3, <1>4, <1>5 DEF IInv, Loads, FileIsNew, HasFile, HasLoaded
<1> QED
  BY <1>7, <1>8, <1>11, <1>12, <1>13, <1>14 DEF IInv, Types

\* Its row is inserted and becomes the agent's: the sprite and the other handlers are as
\* they were.
LEMMA AssignKeepsIInv ==
  ASSUME IInv, NEW j \in Jobs, Assign(j)
  PROVE  IInv'
<1>1. /\ rows \in Seq(RowRecords) /\ Len(rows) \in Nat
      /\ job[j] # None /\ job[j] \in JobRecords /\ job[j].row \in 1..Len(rows)
      /\ job[j].at = 0 /\ job[j].kind = "provision"
  BY Where, LenProperties DEF IInv, Types, TypeOK, Shape, Assign, Idle, RowRecords
<1>2. /\ UNCHANGED <<sprite, writes, left, troubled, hit>> /\ vps' = job[j].row
      /\ DOMAIN job' = Jobs /\ \A k \in Jobs \ {j} : job'[k] = job[k]
  BY DEF Assign, IInv, Types, Shape
<1>3. /\ job'[j] \in JobRecords /\ job'[j] # None
      /\ job'[j].kind = "provision" /\ job'[j].row = job[j].row /\ job'[j].at = 1
      /\ job'[j].wrote = job[j].wrote
  <2>1. job'[j] = [job[j] EXCEPT !.at = 1]
    BY DEF Assign, IInv, Types, Shape
  <2>2. job'[j] \in JobRecords
    BY <1>1, <2>1 DEF JobRecords
  <2> QED
    BY <1>1, <2>1, <2>2, SpriteConstantsOK DEF JobRecords
<1>4. /\ rows' \in Seq(RowRecords) /\ Len(rows') = Len(rows)
      /\ \A v \in 1..Len(rows) : rows'[v].vm = rows[v].vm
  <2> DEFINE row == [rows[job[j].row] EXCEPT !.state = "provisioning"]
  <2>1. rows[job[j].row] \in RowRecords
    BY <1>1, ElementOfSeq
  <2>2. row \in RowRecords /\ row.vm = rows[job[j].row].vm
    BY <2>1 DEF RowRecords
  <2>3. rows' = [rows EXCEPT ![job[j].row] = row]
    BY DEF Assign
  <2> HIDE DEF row
  <2> QED
    BY <1>1, <2>2, <2>3, ExceptSeq
<1>5. TypeOK'
  BY <1>1, <1>2, <1>3, <1>4 DEF IInv, Types, TypeOK, RowRecords
<1>6. Shape'
  BY <1>1, <1>2, <1>3, <1>4 DEF IInv, Types, Shape
<1>7. BuildsAlone'
  <2>1. \A k \in Jobs : Builds(k)' <=> Builds(k)
    BY <1>1, <1>2, <1>3 DEF Builds
  <2>2. \A k \in Jobs : job[k] # None => job'[k].row = job[k].row /\ job[k].row \in 1..Len(rows)
    BY <1>2, <1>3 DEF IInv, Types, Shape
  <2>3. (\A i, k \in Jobs : Builds(i) /\ Builds(k) /\ i # k => job[i].row # job[k].row)'
    BY <2>1, <2>2 DEF IInv, BuildsAlone, Builds
  <2>4. (\A k \in Jobs : Builds(k) => ~rows[job[k].row].vm)'
    BY <1>4, <2>1, <2>2 DEF IInv, BuildsAlone, Builds
  <2>5. (\A k \in Jobs : job[k] # None /\ job[k].kind = "destroy" /\ job[k].at = 1
                           => rows[job[k].row].vm)'
    BY <1>2, <1>3, <1>4, <2>2 DEF IInv, BuildsAlone
  <2> QED
    BY <2>3, <2>4, <2>5 DEF BuildsAlone
<1>8. Owns'
  BY <1>1, <1>2, <1>3 DEF IInv, Owns, Builds, IsOf
<1>9. SpriteAccounted'
  BY <1>1, <1>2, <1>3, <1>4 DEF IInv, SpriteAccounted, Idle, Types, Shape
<1>10. Loads'
  BY <1>1, <1>2, <1>3 DEF IInv, Loads, FileIsNew, HasFile, HasLoaded
<1> QED
  BY <1>5, <1>6, <1>7, <1>8, <1>9, <1>10 DEF IInv, Types

\* A handler begins on a VPS that exists, to do something else than to build it.
LEMMA BeginsKeepsIInv ==
  ASSUME IInv, NEW j \in Jobs, NEW kind \in {"configure", "restart", "stop", "start", "destroy"},
         job[j] = None, UNCHANGED <<rows, vps, sprite, writes, left, hit>>, troubled' \subseteq Rows,
         DOMAIN job' = Jobs, \A k \in Jobs \ {j} : job'[k] = job[k],
         job'[j] \in JobRecords, job'[j].kind = kind, job'[j].row \in 1..Len(rows),
         job'[j].wrote = 0, job'[j].at \in {1, 2},
         kind # "destroy" => job'[j].at = 1,
         kind = "destroy" /\ job'[j].at = 1 => rows[job'[j].row].vm
  PROVE  IInv'
<1>1. job'[j] # None /\ writes \in Nat
  BY SpriteConstantsOK DEF IInv, Types, Shape
<1>2. TypeOK' /\ Shape'
  BY <1>1 DEF IInv, Types, TypeOK, Shape
<1>3. BuildsAlone'
  BY DEF IInv, BuildsAlone, Builds
<1>4. Owns'
  BY DEF IInv, Owns, Builds, IsOf
<1>5. SpriteAccounted'
  BY DEF IInv, SpriteAccounted, Idle
<1>6. Loads'
  <2>1. sprite # None => sprite.file \in Nat
    BY DEF IInv, Types, TypeOK, Sprites
  <2> QED
    BY <1>1, <2>1 DEF IInv, Loads, FileIsNew, HasFile, HasLoaded
<1> QED
  BY <1>2, <1>3, <1>4, <1>5, <1>6 DEF IInv, Types

\* An update or a restart begins.
LEMMA ConfigureKeepsIInv ==
  ASSUME IInv, NEW j \in Jobs, NEW kind \in {"configure", "restart"}, Configure(j, kind)
  PROVE  IInv'
<1>1. vps \in 1..Len(rows) /\ vps \in Rows
  BY SpriteConstantsOK, LenProperties DEF Configure, IInv, Types, TypeOK, Shape, Rows
<1>2. job'[j] = Job(kind, vps) /\ DOMAIN job' = Jobs /\ \A k \in Jobs \ {j} : job'[k] = job[k]
  BY DEF Configure, Begin, IInv, Types, Shape
<1> QED
  <2>1. troubled' \subseteq Rows
    BY DEF Configure, IInv, Types, TypeOK
  <2>2. /\ job'[j] \in JobRecords /\ job'[j].kind = kind /\ job'[j].row = vps
        /\ job'[j].wrote = 0 /\ job'[j].at = 1
    BY <1>1, <1>2, JobFacts
  <2>3. job[j] = None /\ UNCHANGED <<rows, vps, sprite, writes, left, hit>>
    BY DEF Configure, Begin, Idle, tables
  <2> QED
    BY <1>1, <1>2, <2>1, <2>2, <2>3, BeginsKeepsIInv

\* A stop or a start begins.
LEMMA PowerKeepsIInv ==
  ASSUME IInv, NEW j \in Jobs, NEW kind \in {"stop", "start"}, Power(j, kind)
  PROVE  IInv'
<1>1. vps \in 1..Len(rows) /\ vps \in Rows
  BY SpriteConstantsOK, LenProperties DEF Power, IInv, Types, TypeOK, Shape, Rows
<1>2. job'[j] = Job(kind, vps) /\ DOMAIN job' = Jobs /\ \A k \in Jobs \ {j} : job'[k] = job[k]
  BY DEF Power, Begin, IInv, Types, Shape
<1>3. troubled' \subseteq Rows
  BY <1>1 DEF Power, IInv, Types, TypeOK
<1>4. /\ job'[j] \in JobRecords /\ job'[j].kind = kind /\ job'[j].row = vps
      /\ job'[j].wrote = 0 /\ job'[j].at = 1
  BY <1>1, <1>2, JobFacts
<1>5. job[j] = None /\ UNCHANGED <<rows, vps, sprite, writes, left, hit>>
  BY DEF Power, Begin, Idle, tables
<1> QED
  BY <1>1, <1>2, <1>3, <1>4, <1>5, BeginsKeepsIInv

\* A destruction begins: at its call, if the VPS has an id.
LEMMA DestroyKeepsIInv ==
  ASSUME IInv, NEW j \in Jobs, Destroy(j)
  PROVE  IInv'
<1>1. vps \in 1..Len(rows) /\ vps \in Rows
  BY SpriteConstantsOK, LenProperties DEF Destroy, IInv, Types, TypeOK, Shape, Rows
<1>2. /\ job'[j] = [Job("destroy", vps) EXCEPT !.at = IF rows[vps].vm THEN 1 ELSE 2]
      /\ DOMAIN job' = Jobs /\ \A k \in Jobs \ {j} : job'[k] = job[k]
  BY DEF Destroy, Begin, IInv, Types, Shape
<1>3. /\ job'[j] \in JobRecords /\ job'[j].kind = "destroy" /\ job'[j].row = vps
      /\ job'[j].wrote = 0 /\ job'[j].at \in {1, 2}
      /\ job'[j].at = 1 => rows[vps].vm
  <2>1. job'[j] = [kind |-> "destroy", row |-> vps, at |-> IF rows[vps].vm THEN 1 ELSE 2,
                   wrote |-> 0, stopFailed |-> FALSE]
    BY <1>2 DEF Job
  <2> QED
    BY <1>1, <2>1 DEF JobRecords
<1> QED
  <2>1. troubled' \subseteq Rows
    BY DEF Destroy, IInv, Types, TypeOK
  <2> QED
    BY <1>1, <1>2, <1>3, <2>1, BeginsKeepsIInv DEF Destroy, Begin, Idle, tables

\* A handler ends: a creation's VPS gets its id, a destroyed one keeps it.
LEMMA FinishKeepsIInv ==
  ASSUME IInv, NEW j \in Jobs, Finish(j)
  PROVE  IInv'
<1>1. /\ rows \in Seq(RowRecords) /\ Len(rows) \in Nat
      /\ job[j] # None /\ job[j] \in JobRecords /\ job[j].row \in 1..Len(rows)
  BY Where, LenProperties DEF IInv, Types, TypeOK, Finish, AtEnd, RowRecords
<1>2. /\ UNCHANGED <<sprite, writes, left, troubled, hit>>
      /\ job'[j] = None /\ DOMAIN job' = Jobs /\ \A k \in Jobs \ {j} : job'[k] = job[k]
  BY DEF Finish, IInv, Types, Shape
<1>3. /\ rows' \in Seq(RowRecords) /\ Len(rows') = Len(rows)
      /\ \A v \in 1..Len(rows) : v # job[j].row => rows'[v].vm = rows[v].vm
      /\ rows[job[j].row].vm => rows'[job[j].row].vm
      /\ job[j].kind = "provision" => rows'[job[j].row].vm
      /\ job[j].kind # "provision" => rows'[job[j].row].vm = rows[job[j].row].vm
  <2>1. rows[job[j].row] \in RowRecords
    BY <1>1, ElementOfSeq
  <2>2. CASE job[j].kind = "provision"
    <3>1. rows' = [rows EXCEPT ![job[j].row] = [state |-> "running", vm |-> TRUE]]
      BY <2>2 DEF Finish
    <3>2. [state |-> "running", vm |-> TRUE] \in RowRecords
      BY DEF RowRecords
    <3> QED
      BY <1>1, <2>2, <3>1, <3>2, ExceptSeq
  <2>3. ASSUME NEW state \in {"stopped", "running", "destroyed"},
               rows' = [rows EXCEPT ![job[j].row].state = state], job[j].kind # "provision"
        PROVE  /\ rows' \in Seq(RowRecords) /\ Len(rows') = Len(rows)
               /\ \A v \in 1..Len(rows) : rows'[v].vm = rows[v].vm
    <3> DEFINE row == [rows[job[j].row] EXCEPT !.state = state]
    <3>1. rows' = [rows EXCEPT ![job[j].row] = row]
      BY <2>3
    <3>2. row \in RowRecords /\ row.vm = rows[job[j].row].vm
      BY <2>1 DEF RowRecords
    <3> HIDE DEF row
    <3> QED
      BY <1>1, <3>1, <3>2, ExceptSeq
  <2>4. CASE job[j].kind \in {"stop", "start", "destroy"}
    BY <1>1, <2>3, <2>4 DEF Finish
  <2>5. CASE job[j].kind \notin {"provision", "stop", "start", "destroy"}
    BY <1>1, <2>5 DEF Finish
  <2> QED
    BY <2>2, <2>4, <2>5
<1>4. \A v \in 1..Len(rows) : rows[v].vm => rows'[v].vm
  BY <1>3
<1>5. TypeOK'
  BY <1>1, <1>2, <1>3 DEF IInv, Types, TypeOK, RowRecords, Finish
<1>6. Shape'
  BY <1>2, <1>3 DEF IInv, Types, Shape
<1>7. BuildsAlone'
  <2>1. (\A i, k \in Jobs : Builds(i) /\ Builds(k) /\ i # k => job[i].row # job[k].row)'
    BY <1>2 DEF IInv, BuildsAlone, Builds
  <2>2. ASSUME NEW k \in Jobs, Builds(k)' PROVE ~rows'[job'[k].row].vm
    <3>1. k # j /\ job'[k] = job[k] /\ Builds(k) /\ job[k].row \in 1..Len(rows)
      BY <1>2, <2>2 DEF Builds, IInv, Types, Shape
    <3>2. ~rows[job[k].row].vm
      BY <3>1 DEF IInv, BuildsAlone
    <3>3. CASE job[k].row # job[j].row
      BY <1>3, <3>1, <3>2, <3>3
    <3>4. CASE job[k].row = job[j].row
      <4>1. job[j].kind \notin {"provision", "undo"}
        BY <1>1, <3>1, <3>4 DEF IInv, BuildsAlone, Builds
      <4>2. rows'[job[j].row].vm = rows[job[j].row].vm
        BY <1>3, <4>1
      <4> QED
        BY <3>1, <3>2, <3>4, <4>2
    <3> QED
      BY <3>3, <3>4
  <2>3. (\A k \in Jobs : job[k] # None /\ job[k].kind = "destroy" /\ job[k].at = 1
                           => rows[job[k].row].vm)'
    BY <1>2, <1>4 DEF IInv, Types, Shape, BuildsAlone
  <2> QED
    BY <2>1, <2>2, <2>3 DEF BuildsAlone
<1>8. Owns'
  BY <1>2 DEF IInv, Owns, Builds, IsOf
<1>9. SpriteAccounted'
  <2> SUFFICES ASSUME sprite # None
               PROVE  \/ rows'[sprite.life].vm
                      \/ sprite.life \in left
                      \/ \E k \in Jobs : Builds(k)' /\ job'[k].row = sprite.life
    BY <1>2 DEF SpriteAccounted, Builds, Idle
  <2>1. CASE rows[sprite.life].vm
    BY <1>4, <2>1 DEF IInv, Types, Shape
  <2>2. CASE sprite.life \in left
    BY <2>2
  <2>3. ASSUME NEW k \in Jobs, Builds(k), job[k].row = sprite.life
        PROVE  rows'[sprite.life].vm \/ sprite.life \in left \/ (Builds(k)' /\ job'[k].row = sprite.life)
    <3>1. CASE k # j
      BY <1>2, <2>3, <3>1 DEF Builds
    <3>2. CASE k = j /\ job[j].kind = "provision"
      BY <1>3, <2>3, <3>2
    <3>3. CASE k = j /\ job[j].kind = "undo"
      <4>1. job[j].at = 2
        BY <1>1, <3>3, Where DEF Finish, IInv
      <4> QED
        BY <2>3, <3>3, <4>1 DEF IInv, Owns, IsOf
    <3> QED
      BY <2>3, <3>1, <3>2, <3>3 DEF Builds
  <2> QED
    BY <2>1, <2>2, <2>3 DEF IInv, SpriteAccounted, Builds, Idle
<1>10. Loads'
  BY <1>2 DEF IInv, Loads, FileIsNew, HasFile, HasLoaded
<1> QED
  BY <1>5, <1>6, <1>7, <1>8, <1>9, <1>10 DEF IInv, Types

\* Every step of the specification keeps the invariant.
LEMMA StepIInv == IInv /\ [Next]_vars => IInv'
<1> SUFFICES ASSUME IInv, [Next]_vars PROVE IInv'
  OBVIOUS
<1>1. ASSUME NEW j \in Jobs, Provision(j) PROVE IInv'
  BY <1>1, ProvisionKeepsIInv
<1>2. ASSUME NEW j \in Jobs, Destroy(j) PROVE IInv'
  BY <1>2, DestroyKeepsIInv
<1>3. ASSUME NEW j \in Jobs, NEW kind \in {"configure", "restart"}, Configure(j, kind) PROVE IInv'
  BY <1>3, ConfigureKeepsIInv
<1>4. ASSUME NEW j \in Jobs, Answer(j) PROVE IInv'
  BY <1>4, AnswerMoves, MovesKeepIInv DEF Answer, InCall, Moves, IInv
<1>5. ASSUME NEW j \in Jobs, Error(j) PROVE IInv'
  BY <1>5, ErrorMoves, MovesKeepIInv DEF Error, InCall, Moves, IInv
<1>6. ASSUME NEW j \in Jobs, Drop(j) PROVE IInv'
  BY <1>6, DropMoves, MovesKeepIInv DEF Drop, Moves, IInv
<1>7. ASSUME NEW j \in Jobs, Finish(j) PROVE IInv'
  BY <1>7, FinishKeepsIInv
<1>8. ASSUME UNCHANGED vars PROVE IInv'
  BY <1>8 DEF vars, IInv, Types, TypeOK, Shape, BuildsAlone, Builds, Owns, IsOf,
              SpriteAccounted, Idle, Loads, FileIsNew, HasFile, HasLoaded
<1> QED
  BY <1>1, <1>2, <1>3, <1>4, <1>5, <1>6, <1>7, <1>8, AssignKeepsIInv, PowerKeepsIInv DEF Next

-----------------------------------------------------------------------------
(* The theorems *)

\* So the invariant holds in every reachable state.
LEMMA InvHolds == Spec => []IInv
  BY InitIInv, StepIInv, PTL DEF Spec

\* Rows, the sprite and the locals of the handlers keep their types, whatever the API
\* answers and whichever handlers are dropped.
THEOREM SpriteTypeCorrect == Spec => []TypeOK
<1>1. IInv => TypeOK
  BY DEF IInv, Types
<1> QED
  BY <1>1, InvHolds, PTL

\* A sprite no row leads to has a handler that will record or delete it, unless an
\* answer was lost, that handler was dropped or its cleanup failed (provision_vps,
\* sprites.rs).
THEOREM SpriteAccountedHolds == Spec => []SpriteAccounted
<1>1. IInv => SpriteAccounted
  BY DEF IInv
<1> QED
  BY <1>1, InvHolds, PTL

\* The cleanup of a creation deletes what that creation made, although the agent's next
\* sprite has the same name.
THEOREM CleansUpOwnHolds == Spec => CleansUpOwn
<1> DEFINE CleansUp == \A j \in Jobs : ~Idle(j) /\ job[j].kind = "undo" /\ job'[j] # job[j]
                                         /\ hit' # hit => job[j].row \in hit
<1>1. IInv /\ [Next]_vars => [CleansUp]_vars
  <2> SUFFICES ASSUME IInv, [Next]_vars, NEW j \in Jobs, job[j] # None, job[j].kind = "undo",
                      job'[j] # job[j], hit' # hit
               PROVE  job[j].row \in hit
    BY DEF Idle
  <2>1. Moves(j)
    <3>1. Next
      BY DEF vars
    <3>2. PICK k \in Jobs : Answer(k) \/ Error(k) \/ Drop(k)
      BY <3>1 DEF Next, Provision, Assign, Destroy, Configure, Power, Finish
    <3>3. Moves(k)
      BY <3>2, AnswerMoves, ErrorMoves, DropMoves DEF IInv, Answer, Error, Drop, InCall, Moves
    <3> QED
      BY <3>3 DEF Moves, Others
  <2>2. Deletes(j)
    BY <2>1, MovesTouch, Callers DEF Touch, NoEffect, Creates, Alters
  <2>3. job[j].at = 1
    BY <2>2, Callers DEF IInv
  <2>4. job[j].row \in hit \/ IsOf(job[j].row)
    BY <2>3 DEF IInv, Owns, Builds
  <2> QED
    BY <2>2, <2>4 DEF Deletes, IsOf
<1> QED
  BY <1>1, InvHolds, PTL DEF Spec, CleansUpOwn

\* When an update of the configuration is answered, the service runs with what it wrote
\* or with something newer (update_config, routes/config.rs).
THEOREM AnsweredConfigIsLoadedHolds == Spec => AnsweredConfigIsLoaded
<1> DEFINE Loaded == \A j \in Jobs :
             AtEnd(j) /\ job[j].kind = "configure" /\ ~job[j].stopFailed /\ Idle(j)'
               /\ hit = {} /\ sprite # None /\ sprite.service = "on" => sprite.loaded >= job[j].wrote
<1>1. IInv => Loaded
  <2> SUFFICES ASSUME IInv, NEW j \in Jobs, AtEnd(j), job[j].kind = "configure",
                      ~job[j].stopFailed, hit = {}, sprite # None, sprite.service = "on"
               PROVE  sprite.loaded >= job[j].wrote
    OBVIOUS
  <2>1. job[j] # None /\ job[j].at >= 3
    BY Where DEF IInv, AtEnd
  <2> QED
    BY <2>1 DEF IInv, Loads, HasLoaded
<1> QED
  BY <1>1, InvHolds, PTL DEF Spec, AnsweredConfigIsLoaded

-----------------------------------------------------------------------------
(* The running VPS *)

\* A handler of a kind, and between which calls it is.
Stage(j, kind, at) == job[j] # None /\ job[j].kind = kind /\ job[j].at \in at

\* A sprite has no file yet, or the last one that was written.
FileIsLast == sprite # None => sprite.file \in {0, writes}

\* Only a creation that is done makes a row running, which is then stopped and started.
PoweredHasVm ==
  /\ \A r \in 1..Len(rows) : rows[r].state \in {"running", "stopped"} => rows[r].vm
  /\ \A j \in Jobs : Powers(j) => rows[job[j].row].vm

\* Stops and starts of one VPS are in flight one at a time, or it is troubled.
PowersAlone ==
  \A j, k \in Jobs : Powers(j) /\ Powers(k) /\ j # k /\ job[j].row = job[k].row =>
    job[j].row \in troubled

\* The agent's VPS, once it is created, has its sprite until it is destroyed.
Standing ==
  vps # None /\ vps \notin troubled /\ rows[vps].vm =>
    IsOf(vps) \/ \E j \in Jobs : Stage(j, "destroy", {2}) /\ job[j].row = vps

\* Only the creation defines the service,
NoService ==
  sprite # None => \A j \in Jobs : Stage(j, "provision", 2..4) => sprite.service = "none"

\* and from then on there is one.
HasService ==
  \A r \in 1..Len(rows) :
    /\ IsOf(r)
    /\ \/ rows[r].vm
       \/ \E j \in Jobs : Stage(j, "provision", 5..7) /\ job[j].row = r
    => sprite.service # "none"

\* A service that runs with another file than that on the disk is about to be stopped.
Restarts ==
  sprite # None /\ sprite.life \notin troubled /\ sprite.service = "on"
    /\ sprite.loaded # sprite.file => \E j \in Jobs : Stage(j, "configure", {2})

\* One that is stopped although its VPS runs, or is about to, is about to be started, or
\* the VPS is about to be stopped.
ToRun ==
  \/ rows[vps].state = "running"
  \/ \E j \in Jobs : Stage(j, "provision", {6, 7}) /\ job[j].row = vps
  \/ \E j \in Jobs : Stage(j, "start", {2}) /\ job[j].row = vps

Starting(j) ==
  \/ Stage(j, "configure", {3}) \/ Stage(j, "restart", {2})
  \/ Stage(j, "stop", {2}) /\ job[j].row = vps

Starts ==
  vps # None /\ IsOf(vps) /\ vps \notin troubled /\ sprite.service = "off" /\ ToRun =>
    \E j \in Jobs : Starting(j)

Serving == Standing /\ NoService /\ HasService /\ Restarts /\ Starts

ServingInv == FileIsLast /\ PoweredHasVm /\ PowersAlone /\ (hit = {} => Serving)

\* A call that is answered.
Answered(j) ==
  /\ GoesOn(j) /\ troubled' = IF Strays(j) THEN troubled \cup {sprite.life} ELSE troubled
  /\ Deletes(j) \/ Creates(j) \/ Alters(Call(j))

\* One that fails, or is the last of a handler that is dropped.
Fails(j) ==
  /\ Trouble(j)
  /\ job'[j] # None => job'[j].kind # "provision"

\* Every call is the one or the other.
LEMMA AnsweredOrFails ==
  ASSUME Types, NEW j \in Jobs, Answer(j) \/ Error(j) \/ Drop(j)
  PROVE  Moves(j) /\ (Answered(j) \/ Fails(j))
<1>1. CASE Answer(j)
  <2>1. Deletes(j) \/ Creates(j) \/ Alters(Call(j))
    BY <1>1, EffectCases DEF Answer
  <2> QED
    BY <1>1, <2>1, AnswerMoves DEF Answer, Moves, InCall, Answered
<1>2. CASE Error(j)
  <2>1. Moves(j)
    BY <1>2, ErrorMoves DEF Error, InCall, Moves
  <2>2. job'[j] = OnError(j) /\ job[j] # None /\ InCall(j) /\ job[j] \in JobRecords
    BY <1>2, Where DEF Error, InCall, Types, Shape
  <2>3. ASSUME job'[j] # None PROVE job'[j].kind # "provision"
    <3>1. GoesOn(j) \/ TurnsBack(j)
      BY <2>1, <2>3 DEF Moves, GivesUp
    <3>2. CASE TurnsBack(j)
      BY <3>2 DEF TurnsBack, Job
    <3>3. CASE GoesOn(j)
      <4>1. ASSUME job[j].kind = "provision" PROVE FALSE
        <5>1. Call(j) \notin {"stop", "delete"}
          BY <2>2, <4>1, Where
        <5>2. CASE Call(j) = "create"
          BY <2>2, <2>3, <4>1, <5>2 DEF OnError
        <5>3. CASE Call(j) # "create"
          <6>1. job'[j] = Job("undo", job[j].row)
            BY <2>2, <4>1, <5>1, <5>3 DEF OnError
          <6> QED
            BY <3>3, <4>1, <6>1 DEF GoesOn, Job
        <5> QED
          BY <5>2, <5>3
      <4> QED
        BY <3>3, <4>1 DEF GoesOn
    <3> QED
      BY <3>1, <3>2, <3>3
  <2> QED
    BY <1>2, <2>1, <2>3 DEF Error, Fails
<1>3. CASE Drop(j)
  <2>1. Moves(j)
    BY <1>3, DropMoves DEF Drop, Moves
  <2>2. job'[j] = None
    BY <1>3 DEF Drop, Types, Shape
  <2> QED
    BY <1>3, <2>1, <2>2 DEF Drop, Fails
<1> QED
  BY <1>1, <1>2, <1>3

\* As long as no late destroy hit a sprite, the sprite a creation works on is its own.
LEMMA BuilderOwns ==
  ASSUME IInv, hit = {}, NEW j \in Jobs, Stage(j, "provision", 2..7)
  PROVE  /\ IsOf(job[j].row) /\ ~rows[job[j].row].vm
         /\ \A k \in Jobs : Stage(k, "provision", 2..7) => k = j
<1>1. \A k \in Jobs : Stage(k, "provision", 2..7) => Builds(k) /\ IsOf(job[k].row)
  BY DEF IInv, Owns, Stage, Builds
<1> QED
  BY <1>1 DEF IInv, BuildsAlone, IsOf

\* Only the call that defines the service makes one of none, and no call undoes it.
LEMMA AltersService ==
  ASSUME NEW call, Alters(call)
  PROVE  /\ sprite # None /\ sprite' # None /\ sprite'.life = sprite.life
         /\ sprite.service # "none" => sprite'.service # "none"
         /\ call # "service" /\ sprite.service = "none" => sprite'.service = "none"
  BY SpriteConstantsOK DEF Alters

\* What a move leaves: the jobs but one, the tables, and no more troubles than there were.
LEMMA MovesLeave ==
  ASSUME IInv, NEW j \in Jobs, Moves(j), Answered(j) \/ Fails(j)
  PROVE  /\ \A k \in Jobs \ {j} : job'[k] = job[k]
         /\ UNCHANGED <<rows, vps>> /\ troubled \subseteq troubled' /\ hit \subseteq hit'
         /\ job[j] # None /\ job[j].row \in Rows /\ job[j].at \in 0..7
         /\ job[j].kind \in {"provision", "undo", "configure", "restart", "stop", "start", "destroy"}
         /\ Touch(j)
<1>1. job[j] \in JobRecords /\ job[j].row \in Rows /\ Touch(j)
  BY Where, RowsAreRows, MovesTouch DEF IInv, Moves
<1>2. hit \subseteq hit'
  BY <1>1, TouchTypes DEF IInv, Moves
<1> QED
  BY <1>1, <1>2 DEF Moves, Others, tables, Answered, Fails, Trouble, OnRunning, JobRecords

\* A move writes the last file, and gives no row a state.
LEMMA MovesKeepFileIsLast ==
  ASSUME IInv, FileIsLast, NEW j \in Jobs, Moves(j)
  PROVE  FileIsLast'
<1>1. Touch(j) /\ job[j].row \in Rows
  BY MovesTouch, RowsAreRows DEF IInv, Moves
<1> QED
  BY <1>1, CreatedFacts DEF Touch, NoEffect, Deletes, Creates, Alters, FileIsLast

\* A move takes the sprite from the agent's VPS only to destroy it.
LEMMA MovesKeepStanding ==
  ASSUME IInv, PoweredHasVm, Serving, NEW j \in Jobs, Moves(j), Answered(j) \/ Fails(j), hit' = {}
  PROVE  Standing'
<1> SUFFICES ASSUME vps' # None, vps' \notin troubled', rows'[vps'].vm, ~IsOf(vps)'
             PROVE  \E k \in Jobs : Stage(k, "destroy", {2})' /\ job'[k].row = vps'
  BY DEF Standing
<1>1. /\ \A k \in Jobs \ {j} : job'[k] = job[k]
      /\ UNCHANGED <<rows, vps>> /\ troubled \subseteq troubled' /\ hit = {}
      /\ job[j] # None /\ job[j].row \in Rows /\ job[j].at \in 0..7 /\ Touch(j)
  BY MovesLeave
<1>2. vps \in 1..Len(rows) /\ rows[vps].vm
  BY <1>1 DEF IInv, Types, TypeOK
<1>3. \/ IsOf(vps)
      \/ \E k \in Jobs : Stage(k, "destroy", {2}) /\ job[k].row = vps
  BY <1>1 DEF Serving, Standing
<1>4. ASSUME NEW k \in Jobs, Stage(k, "destroy", {2}), job[k].row = vps, k = j
      PROVE  FALSE
  <2>1. ~InCall(j)
    BY <1>4, Where DEF IInv, Stage, InCall
  <2>2. Fails(j)
    BY <2>1 DEF Answered, GoesOn
  <2> QED
    BY <1>1, <1>4, <2>2 DEF Fails, Trouble, OnRunning, Stage
<1>5. ASSUME IsOf(vps), Fails(j), job[j].kind \in {"configure", "restart", "stop", "start", "destroy"} PROVE FALSE
  BY <1>1, <1>5 DEF Fails, Trouble, OnRunning, IsOf
<1>6. CASE IsOf(vps)
  <2>1. Deletes(j)
    BY <1>1, <1>6, AltersService DEF Touch, NoEffect, Creates, IsOf
  <2>2. job[j].kind \in {"destroy", "undo"} /\ job[j].at = 1 /\ job[j].row = vps
    BY <1>1, <1>6, <2>1, Callers DEF IInv, Deletes, IsOf
  <2>3. job[j].kind = "destroy"
    BY <1>1, <1>2, <2>2 DEF IInv, BuildsAlone, Builds
  <2>4. Answered(j)
    BY <1>5, <1>6, <2>3
  <2>5. Stage(j, "destroy", {2})' /\ job'[j].row = vps'
    BY <1>1, <2>2, <2>3, <2>4 DEF Answered, GoesOn, Stage
  <2> QED
    BY <2>5
<1>7. CASE ~IsOf(vps)
  <2>1. PICK k \in Jobs : Stage(k, "destroy", {2}) /\ job[k].row = vps /\ k # j
    BY <1>3, <1>4, <1>7
  <2> QED
    BY <1>1, <2>1 DEF Stage
<1> QED
  BY <1>6, <1>7

\* A creation after the move was one before it.
LEMMA StillProvision ==
  ASSUME IInv, NEW j \in Jobs, Moves(j), Answered(j) \/ Fails(j), NEW k \in Jobs,
         NEW at, Stage(k, "provision", at)'
  PROVE  /\ job[k] # None /\ job[k].kind = "provision" /\ job'[k].row = job[k].row
         /\ job[k].at \in 0..7
         /\ k # j => Stage(k, "provision", at)
         /\ k = j => Answered(j) /\ InCall(j) /\ job'[j].at = job[j].at + 1
<1>1. CASE k # j
  <2>1. job'[k] = job[k] /\ job[k] # None
    BY <1>1, MovesLeave DEF Stage
  <2> QED
    BY <1>1, <2>1, Where DEF IInv, Stage, JobRecords
<1>2. CASE k = j
  <2>1. Answered(j)
    BY <1>2 DEF Fails, Stage
  <2> QED
    BY <1>2, <2>1, MovesLeave DEF Answered, GoesOn, Stage
<1> QED
  BY <1>1, <1>2

\* Before the creation defines the service nobody can.
LEMMA MovesKeepNoService ==
  ASSUME IInv, Serving, NEW j \in Jobs, Moves(j), Answered(j) \/ Fails(j), hit' = {}
  PROVE  NoService'
<1> SUFFICES ASSUME sprite' # None, NEW k \in Jobs, Stage(k, "provision", 2..4)'
             PROVE  sprite'.service = "none"
  BY DEF NoService
<1>1. /\ hit = {} /\ job[j] # None /\ job[j].row \in Rows /\ Touch(j) /\ job[j].at \in 0..7
      /\ job'[k].at \in 2..4
  BY MovesLeave DEF Stage
<1>2. /\ job[k] # None /\ job[k].kind = "provision" /\ job[k].at \in 0..7
      /\ k # j => Stage(k, "provision", 2..4)
      /\ k = j => InCall(j) /\ job[k].at \in 1..3
  BY <1>1, StillProvision
<1>3. CASE Creates(j)
  BY <1>1, <1>3, CreatedFacts DEF Creates
<1>4. CASE Deletes(j)
  BY <1>4 DEF Deletes
<1>5. CASE NoEffect \/ (InCall(j) /\ Alters(Call(j)))
  <2>1. sprite # None
    BY <1>5 DEF NoEffect, Alters
  <2>2. Stage(k, "provision", 2..4)
    <3>1. CASE k # j
      BY <1>2, <3>1
    <3>2. CASE k = j
      <4>1. Answered(j)
        BY <3>2, StillProvision
      <4>2. Call(j) # "create"
        BY <2>1, <4>1 DEF Answered, Alters, Creates, Deletes
      <4>3. job[j].at # 1
        BY <1>2, <3>2, <4>2, Where DEF IInv
      <4> QED
        BY <1>2, <3>2, <4>3 DEF Stage
    <3> QED
      BY <3>1, <3>2
  <2>3. sprite.service = "none"
    BY <1>1, <2>1, <2>2 DEF Serving, NoService
  <2>4. CASE NoEffect
    BY <2>3, <2>4 DEF NoEffect
  <2>5. CASE InCall(j) /\ Alters(Call(j))
    <3>1. ASSUME Call(j) = "service" PROVE FALSE
      <4>1. job[j].kind = "provision" /\ job[j].at = 4
        BY <1>1, <2>5, <3>1, Where DEF IInv, JobRecords
      <4>2. Stage(j, "provision", 2..7) /\ Stage(k, "provision", 2..7)
        BY <1>1, <2>2, <4>1 DEF Stage
      <4>3. k = j
        BY <1>1, <4>2, BuilderOwns
      <4> QED
        BY <1>2, <4>1, <4>3
    <3> QED
      BY <2>3, <2>5, <3>1, AltersService
  <2> QED
    BY <1>5, <2>4, <2>5
<1> QED
  BY <1>1, <1>3, <1>4, <1>5 DEF Touch

\* Once it is defined nobody removes it from the sprite.
LEMMA MovesKeepHasService ==
  ASSUME IInv, PoweredHasVm, Serving, NEW j \in Jobs, Moves(j), Answered(j) \/ Fails(j), hit' = {}
  PROVE  HasService'
<1>0. /\ hit = {} /\ job[j] # None /\ job[j].row \in Rows /\ Touch(j) /\ job[j].at \in 0..7
      /\ rows' = rows
  BY MovesLeave
<1> SUFFICES ASSUME NEW r \in 1..Len(rows), IsOf(r)',
                    \/ rows[r].vm
                    \/ \E k \in Jobs : Stage(k, "provision", 5..7)' /\ job'[k].row = r
             PROVE  sprite'.service # "none"
  BY <1>0 DEF HasService
<1>1. CASE Creates(j)
  <2>1. job[j].row = r /\ job[j].kind = "provision" /\ job[j].at = 1 /\ Builds(j)
    BY <1>0, <1>1, CreatedFacts, Callers DEF IInv, Creates, IsOf, Builds
  <2>2. ~rows[r].vm
    BY <2>1 DEF IInv, BuildsAlone
  <2>3. PICK k \in Jobs : Stage(k, "provision", 5..7)' /\ job'[k].row = r
    BY <2>2
  <2>4. Builds(k) /\ job[k].row = r
    BY <2>3, StillProvision DEF Builds
  <2>5. k = j
    BY <2>1, <2>4 DEF IInv, BuildsAlone
  <2>6. job'[j].at = 2
    BY <2>1, <2>3, <2>5, StillProvision
  <2> QED
    BY <2>3, <2>5, <2>6 DEF Stage
<1>2. CASE Deletes(j)
  BY <1>2 DEF Deletes, IsOf
<1>3. CASE NoEffect \/ (InCall(j) /\ Alters(Call(j)))
  <2>1. IsOf(r)
    BY <1>3, AltersService DEF NoEffect, IsOf
  <2>2. sprite.service # "none" => sprite'.service # "none"
    BY <1>3, AltersService DEF NoEffect
  <2>3. CASE rows[r].vm
    BY <1>0, <2>1, <2>2, <2>3 DEF Serving, HasService
  <2>4. ASSUME NEW k \in Jobs, Stage(k, "provision", 5..7)', job'[k].row = r
        PROVE  sprite'.service # "none"
    <3>1. /\ job[k].kind = "provision" /\ job[k].row = r /\ job[k] # None /\ job[k].at \in 0..7
          /\ k # j => Stage(k, "provision", 5..7)
          /\ k = j => Answered(j) /\ InCall(j) /\ job'[j].at = job[j].at + 1
      BY <2>4, StillProvision
    <3>2. CASE Stage(k, "provision", 5..7)
      BY <1>0, <2>1, <2>2, <3>1, <3>2 DEF Serving, HasService
    <3>3. CASE ~Stage(k, "provision", 5..7)
      <4>1. k = j /\ job[j].at = 4
        BY <2>4, <3>1, <3>3 DEF Stage
      <4>2. Call(j) = "service"
        BY <3>1, <4>1, Where DEF IInv
      <4>3. Alters("service")
        BY <3>1, <4>1, <4>2 DEF Answered, Deletes, Creates
      <4> QED
        BY <4>3 DEF Alters
    <3> QED
      BY <3>2, <3>3
  <2> QED
    BY <2>3, <2>4
<1> QED
  BY <1>0, <1>1, <1>2, <1>3 DEF Touch

\* A configuration that was written under a running service is going to be loaded.
LEMMA MovesKeepRestarts ==
  ASSUME IInv, Serving, NEW j \in Jobs, Moves(j), Answered(j) \/ Fails(j), hit' = {}
  PROVE  Restarts'
<1> SUFFICES ASSUME sprite' # None, sprite'.life \notin troubled', sprite'.service = "on",
                    sprite'.loaded # sprite'.file
             PROVE  \E k \in Jobs : Stage(k, "configure", {2})'
  BY DEF Restarts
<1>1. /\ \A k \in Jobs \ {j} : job'[k] = job[k]
      /\ troubled \subseteq troubled' /\ hit = {}
      /\ job[j] # None /\ job[j].row \in Rows /\ job[j].at \in 0..7 /\ Touch(j)
      /\ job[j].kind \in {"provision", "undo", "configure", "restart", "stop", "start", "destroy"}
  BY MovesLeave
<1>2. CASE Creates(j)
  BY <1>1, <1>2, CreatedFacts DEF Creates
<1>3. CASE Deletes(j)
  BY <1>3 DEF Deletes
<1>4. CASE NoEffect \/ (InCall(j) /\ Alters(Call(j)))
  <2>1. sprite # None /\ sprite'.life = sprite.life
    BY <1>4 DEF NoEffect, Alters
  <2>2. sprite.life \notin troubled /\ ~(Fails(j) /\ job[j].kind \in {"configure", "restart", "stop", "start", "destroy"})
    BY <1>1, <2>1 DEF Fails, Trouble, OnRunning
  <2>3. ASSUME sprite.service = "on", sprite.loaded # sprite.file
        PROVE  \E k \in Jobs : Stage(k, "configure", {2})'
    <3>1. PICK k \in Jobs : Stage(k, "configure", {2})
      BY <1>1, <2>1, <2>2, <2>3 DEF Serving, Restarts
    <3>2. CASE k # j
      BY <1>1, <3>1, <3>2 DEF Stage
    <3>3. CASE k = j
      <4>1. Answered(j)
        BY <2>2, <3>1, <3>3 DEF Stage
      <4>2. Call(j) = "stop"
        BY <3>1, <3>3, <4>1, Where DEF IInv, Stage, Answered, GoesOn
      <4>3. Alters("stop")
        BY <4>1, <4>2 DEF Answered, Deletes, Creates
      <4> QED
        BY <4>3 DEF Alters
    <3> QED
      BY <3>2, <3>3
  <2>4. CASE NoEffect
    BY <2>3, <2>4 DEF NoEffect
  <2>5. CASE InCall(j) /\ Alters(Call(j)) /\ Call(j) = "write"
    <3>1. sprite.service = "on"
      BY <2>5 DEF Alters
    <3>2. job[j].kind # "provision"
      <4>1. ASSUME job[j].kind = "provision" PROVE FALSE
        <5>1. Stage(j, "provision", 2..4)
          BY <1>1, <2>5, <4>1, Where DEF IInv, Stage
        <5> QED
          BY <1>1, <2>1, <3>1, <5>1 DEF Serving, NoService
      <4> QED
        BY <4>1
    <3>3. job[j].kind = "configure" /\ job[j].at = 1
      BY <1>1, <2>5, <3>2, Where DEF IInv
    <3>4. Answered(j)
      BY <2>2, <3>3
    <3>5. Stage(j, "configure", {2})'
      BY <3>3, <3>4 DEF Answered, GoesOn, Stage
    <3> QED
      BY <3>5
  <2>6. CASE InCall(j) /\ Alters(Call(j)) /\ Call(j) # "write"
    <3>1. sprite'.file = sprite.file
      BY <2>6 DEF Alters
    <3>2. sprite.service = "on" /\ sprite'.loaded = sprite.loaded
      BY <2>6, <3>1 DEF Alters
    <3> QED
      BY <2>3, <3>1, <3>2
  <2> QED
    BY <1>4, <2>4, <2>5, <2>6
<1> QED
  BY <1>1, <1>2, <1>3, <1>4 DEF Touch

\* Whoever stops the service is going to start it.
LEMMA MovesKeepStarts ==
  ASSUME IInv, PoweredHasVm, Serving, NEW j \in Jobs, Moves(j), Answered(j) \/ Fails(j), hit' = {}
  PROVE  Starts'
<1>1. /\ \A k \in Jobs \ {j} : job'[k] = job[k]
      /\ UNCHANGED <<rows, vps>> /\ troubled \subseteq troubled' /\ hit = {}
      /\ job[j] # None /\ job[j].row \in Rows /\ job[j].at \in 0..7 /\ Touch(j)
      /\ job[j].kind \in {"provision", "undo", "configure", "restart", "stop", "start", "destroy"}
  BY MovesLeave
<1> SUFFICES ASSUME vps # None, IsOf(vps)', vps \notin troubled', sprite'.service = "off",
                    ToRun'
             PROVE  \E k \in Jobs : Starting(k)'
  BY <1>1 DEF Starts, IsOf
<1>2. CASE Creates(j)
  BY <1>1, <1>2, CreatedFacts DEF Creates
<1>3. CASE Deletes(j)
  BY <1>3 DEF Deletes, IsOf
<1>4. CASE NoEffect \/ (InCall(j) /\ Alters(Call(j)))
  <2>1. /\ IsOf(vps) /\ vps \notin troubled /\ vps \in 1..Len(rows)
        /\ ~(Fails(j) /\ job[j].kind \in {"configure", "restart", "stop", "start", "destroy"})
        /\ ~(Answered(j) /\ Strays(j))
    BY <1>1, <1>4, AltersService
       DEF NoEffect, IsOf, Fails, Answered, Trouble, OnRunning, IInv, Types, TypeOK
  <2>2. \/ ToRun
        \/ Stage(j, "provision", {5}) /\ Answered(j)
        \/ Stage(j, "start", {1}) /\ Answered(j)
    <3>1. CASE rows'[vps'].state = "running"
      BY <1>1, <3>1 DEF ToRun
    <3>2. ASSUME NEW k \in Jobs, Stage(k, "provision", {6, 7})', job'[k].row = vps
          PROVE  ToRun \/ (Stage(j, "provision", {5}) /\ Answered(j))
      <4>1. /\ job[k] # None /\ job[k].kind = "provision" /\ job[k].row = vps /\ job[k].at \in 0..7
            /\ k # j => Stage(k, "provision", {6, 7})
            /\ k = j => Answered(j) /\ InCall(j) /\ job'[j].at = job[j].at + 1
        BY <3>2, StillProvision
      <4> QED
        BY <3>2, <4>1 DEF Stage, ToRun
    <3>3. ASSUME NEW k \in Jobs, Stage(k, "start", {2})', job'[k].row = vps
          PROVE  ToRun \/ (Stage(j, "start", {1}) /\ Answered(j))
      <4>1. CASE k # j
        BY <1>1, <3>3, <4>1 DEF Stage, ToRun
      <4>2. CASE k = j
        <5>1. GoesOn(j)
          <6>1. job'[j] # None /\ job'[j].kind = "start"
            BY <3>3, <4>2 DEF Stage
          <6>2. GoesOn(j) \/ TurnsBack(j)
            BY <6>1, MovesJobs DEF IInv
          <6> QED
            BY <6>1, <6>2 DEF TurnsBack, Job
        <5>2. job[j].kind = "start" /\ job[j].at = 1
          BY <1>1, <3>3, <4>2, <5>1 DEF GoesOn, Stage
        <5> QED
          BY <1>1, <2>1, <5>2 DEF Stage
      <4> QED
        BY <4>1, <4>2
    <3> QED
      BY <1>1, <3>1, <3>2, <3>3 DEF ToRun
  <2>3. ASSUME Call(j) = "start", Alters(Call(j)) PROVE FALSE
    BY <2>3 DEF Alters
  <2>4. ~(Stage(j, "provision", {5}) /\ Answered(j))
    <3> SUFFICES ASSUME Stage(j, "provision", {5}), Answered(j) PROVE FALSE
      OBVIOUS
    <3>1. Call(j) \notin {"create", "delete"} /\ InCall(j)
      BY Where DEF IInv, Stage, Answered, GoesOn
    <3>2. Call(j) = "start"
      BY <3>1 DEF Stage, InCall, Call, Calls, ProvisionCalls
    <3> QED
      BY <2>3, <3>1, <3>2 DEF Answered, Deletes, Creates
  <2>5. ~(Stage(j, "start", {1}) /\ Answered(j))
    <3> SUFFICES ASSUME Stage(j, "start", {1}), Answered(j) PROVE FALSE
      OBVIOUS
    <3>1. InCall(j) /\ Call(j) = "start"
      BY Where DEF IInv, Stage, Answered, GoesOn
    <3> QED
      BY <2>3, <3>1 DEF Answered, Deletes, Creates
  <2>6. ToRun
    BY <2>2, <2>4, <2>5
  <2>7. ASSUME sprite.service = "off"
        PROVE  \E k \in Jobs : Starting(k)'
    <3>1. PICK k \in Jobs : Starting(k)
      BY <1>1, <2>1, <2>6, <2>7 DEF Serving, Starts
    <3>2. CASE k # j
      BY <1>1, <3>1, <3>2 DEF Starting, Stage
    <3>3. CASE k = j
      <4>1. Answered(j)
        BY <2>1, <3>1, <3>3 DEF Starting, Stage
      <4>2. InCall(j)
        BY <4>1 DEF Answered, GoesOn
      <4>3. Stage(j, "configure", {3}) \/ Stage(j, "restart", {2})
        BY <3>1, <3>3, <4>2, Where DEF IInv, Starting, Stage, InCall
      <4>4. Call(j) = "start"
        BY <4>2, <4>3 DEF Stage, InCall, AtEnd, Call, Calls, ConfigureCalls, RestartCalls
      <4> QED
        BY <2>3, <4>1, <4>4 DEF Answered, Deletes, Creates
    <3> QED
      BY <3>2, <3>3
  <2>8. CASE NoEffect
    BY <2>7, <2>8 DEF NoEffect
  <2>9. CASE InCall(j) /\ Alters(Call(j)) /\ sprite.service # "off"
    <3>1. Call(j) \in {"service", "stop"}
      BY <2>9 DEF Alters
    <3>2. Call(j) # "service"
      <4> SUFFICES ASSUME Call(j) = "service" PROVE FALSE
        OBVIOUS
      <4>1. Stage(j, "provision", 2..7) /\ job[j].at = 4
        BY <1>1, <2>9, Where DEF IInv, Stage
      <4>2. job[j].row = vps /\ ~rows[vps].vm
            /\ \A k \in Jobs : Stage(k, "provision", 2..7) => k = j
        BY <1>1, <2>1, <4>1, BuilderOwns DEF IsOf
      <4>3. rows[vps].state # "running"
        BY <2>1, <4>2 DEF PoweredHasVm
      <4>4. ASSUME NEW k \in Jobs, Stage(k, "start", {2}), job[k].row = vps PROVE FALSE
        BY <4>2, <4>4 DEF PoweredHasVm, Powers, Idle, Stage
      <4>5. PICK k \in Jobs : Stage(k, "provision", {6, 7})
        BY <2>6, <4>3, <4>4 DEF ToRun
      <4>6. Stage(k, "provision", 2..7)
        BY <4>5 DEF Stage
      <4> QED
        BY <4>1, <4>2, <4>5, <4>6 DEF Stage
    <3>3. Call(j) = "stop"
      BY <3>1, <3>2
    <3>4. job[j].kind \in {"configure", "restart", "stop"}
      BY <1>1, <2>9, <3>3, Where DEF IInv
    <3>5. Answered(j)
      BY <2>1, <3>4
    <3>6. /\ job[j].kind = "configure" => job[j].at = 2
          /\ job[j].kind \in {"restart", "stop"} => job[j].at = 1
      BY <1>1, <2>9, <3>3 DEF InCall, AtEnd, Call, Calls, ConfigureCalls, RestartCalls
    <3>7. job[j].kind = "stop" => job[j].row = vps
      BY <2>1, <3>5 DEF Strays, IsOf
    <3>8. Starting(j)'
      BY <1>1, <3>4, <3>5, <3>6, <3>7 DEF Answered, GoesOn, Starting, Stage
    <3> QED
      BY <3>8
  <2> QED
    BY <1>4, <2>7, <2>8, <2>9
<1> QED
  BY <1>1, <1>2, <1>3, <1>4 DEF Touch

\* A stop or a start after the move was one before it.
LEMMA MovesPower ==
  ASSUME IInv, NEW j \in Jobs, Moves(j), NEW k \in Jobs, Powers(k)'
  PROVE  Powers(k) /\ job'[k].row = job[k].row
<1>1. job[k] # None /\ (k # j => job'[k] = job[k]) /\ (k = j => GoesOn(j) \/ TurnsBack(j))
  BY MovesJobs DEF IInv, Powers, Idle
<1> QED
  BY <1>1 DEF Powers, Idle, GoesOn, TurnsBack, Job

\* So calls keep the running VPS serving.
LEMMA MovesKeepServing ==
  ASSUME IInv, ServingInv, NEW j \in Jobs, Moves(j), Answered(j) \/ Fails(j)
  PROVE  ServingInv'
<1>1. FileIsLast'
  BY MovesKeepFileIsLast DEF ServingInv
<1>2. PoweredHasVm' /\ PowersAlone'
  <2>1. \A k \in Jobs : Powers(k)' => Powers(k) /\ job'[k].row = job[k].row
    BY MovesPower
  <2>2. PoweredHasVm'
    BY <2>1, MovesLeave DEF ServingInv, PoweredHasVm
  <2>3. PowersAlone'
    BY <2>1, MovesLeave DEF ServingInv, PowersAlone
  <2> QED
    BY <2>2, <2>3
<1>3. ASSUME hit' = {} PROVE Serving'
  <2>1. hit = {}
    BY <1>3, MovesLeave
  <2> QED
    BY <1>3, <2>1, MovesKeepStanding, MovesKeepNoService, MovesKeepHasService, MovesKeepRestarts,
       MovesKeepStarts DEF ServingInv, Serving
<1> QED
  BY <1>1, <1>2, <1>3 DEF ServingInv

\* A handler that begins disturbs nothing yet.
LEMMA BeginsKeepsServing ==
  ASSUME IInv, ServingInv, NEW j \in Jobs, job[j] = None,
         UNCHANGED <<rows, vps, sprite, writes, hit>>, troubled \subseteq troubled',
         \A k \in Jobs \ {j} : job'[k] = job[k],
         job'[j] # None => job'[j].kind # "provision",
         Powers(j)' =>
           /\ job'[j].at = 1 /\ rows[job'[j].row].vm
           /\ \A k \in Jobs : Powers(k) /\ job[k].row = job'[j].row => job[k].row \in troubled'
  PROVE  ServingInv'
<1>1. FileIsLast' /\ PoweredHasVm' /\ PowersAlone'
  <2>1. \A k \in Jobs \ {j} : (Powers(k)' <=> Powers(k)) /\ job'[k] = job[k]
    BY DEF Powers, Idle
  <2> QED
    BY <2>1 DEF ServingInv, FileIsLast, PoweredHasVm, PowersAlone
<1>2. ASSUME Serving PROVE Serving'
  <2>1. \A k \in Jobs : \A kind, at : Stage(k, kind, at) => Stage(k, kind, at)' /\ job'[k].row = job[k].row
    BY DEF Stage
  <2>2. \A k \in Jobs : \A at : Stage(k, "provision", at)' => Stage(k, "provision", at) /\ job'[k].row = job[k].row
    BY DEF Stage
  <2>3. \A k \in Jobs : Stage(k, "start", {2})' => Stage(k, "start", {2}) /\ job'[k].row = job[k].row
    BY DEF Stage, Powers, Idle
  <2>4. Standing'
    BY <1>2, <2>1 DEF Serving, Standing, IsOf
  <2>5. NoService' /\ HasService'
    BY <1>2, <2>2 DEF Serving, NoService, HasService, IsOf
  <2>6. Restarts'
    BY <1>2, <2>1 DEF Serving, Restarts
  <2>7. Starts'
    <3>1. ToRun' => ToRun
      BY <2>2, <2>3 DEF ToRun
    <3>2. \A k \in Jobs : Starting(k) => Starting(k)'
      BY <2>1 DEF Starting
    <3> QED
      BY <1>2, <3>1, <3>2 DEF Serving, Starts, IsOf
  <2> QED
    BY <2>4, <2>5, <2>6, <2>7 DEF Serving
<1> QED
  BY <1>1, <1>2 DEF ServingInv

\* A creation begins: its VPS has no sprite yet.
LEMMA ProvisionKeepsServing ==
  ASSUME IInv, ServingInv, NEW j \in Jobs, Provision(j)
  PROVE  ServingInv'
<1> DEFINE new == Len(rows) + 1
           row == [state |-> "absent", vm |-> FALSE]
<1>1. /\ rows \in Seq(RowRecords) /\ Len(rows) \in Nat /\ row \in RowRecords
  BY LenProperties DEF IInv, Types, TypeOK, RowRecords
<1>2. /\ rows' = Append(rows, row) /\ Len(rows') = new /\ rows'[new] = row
      /\ \A v \in 1..Len(rows) : rows'[v] = rows[v]
  BY <1>1, AppendProperties DEF Provision
<1>3. UNCHANGED <<sprite, writes, troubled, hit>> /\ vps' = vps
  BY DEF Provision
<1>4. /\ job[j] = None /\ job'[j].at = 0 /\ job'[j].kind = "provision"
      /\ \A k \in Jobs \ {j} : job'[k] = job[k]
  <2>1. job'[j] = [kind |-> "provision", row |-> new, at |-> 0, wrote |-> 0, stopFailed |-> FALSE]
    BY DEF Provision, Begin, Job, IInv, Types, Shape
  <2> QED
    BY <2>1 DEF Provision, Begin, Idle, IInv, Types, Shape
<1>5. rows'[new].state = "absent" /\ rows'[new].vm = FALSE
  BY <1>2
<1>6. 1..new = (1..Len(rows)) \cup {new} /\ new \notin 1..Len(rows)
  BY <1>1
<1>7. sprite # None => sprite.life \in 1..Len(rows)
  BY DEF IInv, Types, Shape
<1> HIDE DEF new, row
<1>8. FileIsLast' /\ PoweredHasVm' /\ PowersAlone'
  <2>1. \A k \in Jobs : Powers(k)' => Powers(k) /\ job'[k].row = job[k].row /\ job[k].row \in 1..Len(rows)
    BY <1>4 DEF Powers, Idle, IInv, Types, Shape
  <2> QED
    BY <1>2, <1>3, <1>5, <1>6, <2>1 DEF ServingInv, FileIsLast, PoweredHasVm, PowersAlone
<1>9. ASSUME Serving PROVE Serving'
  <2>1. \A k \in Jobs : \A kind, at : Stage(k, kind, at) => Stage(k, kind, at)' /\ job'[k].row = job[k].row
    BY <1>4 DEF Stage
  <2>2. \A k \in Jobs : \A at : Stage(k, "provision", at)' /\ 0 \notin at =>
          Stage(k, "provision", at) /\ job'[k].row = job[k].row
    BY <1>4 DEF Stage
  <2>3. ~IsOf(new)
    BY <1>6, <1>7 DEF IsOf
  <2>4. vps # None => vps \in 1..Len(rows)
    BY DEF IInv, Types, TypeOK
  <2>5. Standing'
    BY <1>2, <1>3, <1>9, <2>1, <2>4 DEF Serving, Standing, IsOf
  <2>6. NoService'
    BY <1>3, <1>9, <2>2 DEF Serving, NoService
  <2>7. HasService'
    BY <1>2, <1>3, <1>6, <1>9, <2>2, <2>3 DEF Serving, HasService, IsOf
  <2>8. Restarts'
    BY <1>3, <1>9, <2>1 DEF Serving, Restarts
  <2>9. Starts'
    <3>1. \A k \in Jobs : Stage(k, "start", {2})' => Stage(k, "start", {2}) /\ job'[k].row = job[k].row
      BY <1>4 DEF Stage
    <3>2. ASSUME vps # None PROVE ToRun' => ToRun
      BY <1>2, <1>3, <2>2, <2>4, <3>1, <3>2 DEF ToRun
    <3>3. \A k \in Jobs : Starting(k) => Starting(k)'
      BY <1>3, <2>1 DEF Starting
    <3> QED
      BY <1>3, <1>9, <3>2, <3>3 DEF Serving, Starts, IsOf
  <2> QED
    BY <2>5, <2>6, <2>7, <2>8, <2>9 DEF Serving
<1> QED
  BY <1>3, <1>8, <1>9 DEF ServingInv

\* The row of a creation becomes the agent's; it has no VM yet.
LEMMA AssignKeepsServing ==
  ASSUME IInv, ServingInv, NEW j \in Jobs, Assign(j)
  PROVE  ServingInv'
<1>1. /\ rows \in Seq(RowRecords) /\ Len(rows) \in Nat /\ job[j] # None
      /\ job[j].at = 0 /\ job[j].kind = "provision" /\ job[j].row \in 1..Len(rows)
      /\ Builds(j)
  BY Where, LenProperties DEF IInv, Types, TypeOK, Shape, Assign, Idle, RowRecords, Builds
<1>2. /\ UNCHANGED <<sprite, writes, troubled, hit>> /\ vps' = job[j].row
      /\ job'[j] = [job[j] EXCEPT !.at = 1]
      /\ \A k \in Jobs \ {j} : job'[k] = job[k]
  BY DEF Assign, IInv, Types, Shape
<1>3. job[j] \in JobRecords
  BY <1>1, Where DEF IInv
<1>4. job'[j].kind = "provision" /\ job'[j].row = job[j].row /\ job'[j].at = 1
  BY <1>1, <1>2, <1>3 DEF JobRecords
<1>5. /\ Len(rows') = Len(rows)
      /\ \A v \in 1..Len(rows) : rows'[v].vm = rows[v].vm
      /\ \A v \in 1..Len(rows) : rows'[v].state \in {"running", "stopped"} =>
                                   rows[v].state \in {"running", "stopped"}
      /\ rows'[job[j].row].state = "provisioning"
  <2> DEFINE row == [rows[job[j].row] EXCEPT !.state = "provisioning"]
  <2>1. rows[job[j].row] \in RowRecords
    BY <1>1, ElementOfSeq
  <2>2. row \in RowRecords /\ row.vm = rows[job[j].row].vm /\ row.state = "provisioning"
    BY <2>1 DEF RowRecords
  <2>3. rows' = [rows EXCEPT ![job[j].row] = row]
    BY DEF Assign
  <2> HIDE DEF row
  <2> QED
    BY <1>1, <2>2, <2>3, ExceptSeq
<1>6. ~rows[job[j].row].vm /\ ~IsOf(job[j].row)
  BY <1>1 DEF IInv, BuildsAlone, Owns
<1>7. FileIsLast' /\ PoweredHasVm' /\ PowersAlone'
  <2>1. \A k \in Jobs : Powers(k)' => Powers(k) /\ job'[k].row = job[k].row /\ job[k].row \in 1..Len(rows)
    BY <1>2, <1>4 DEF Powers, Idle, IInv, Types, Shape
  <2> QED
    BY <1>2, <1>5, <2>1 DEF ServingInv, FileIsLast, PoweredHasVm, PowersAlone
<1>8. ASSUME Serving PROVE Serving'
  <2>1. \A k \in Jobs : \A at : Stage(k, "configure", at) => Stage(k, "configure", at)'
    BY <1>1, <1>2 DEF Stage
  <2>2. \A k \in Jobs : \A at : Stage(k, "provision", at)' /\ 1 \notin at =>
          Stage(k, "provision", at) /\ job'[k].row = job[k].row
    BY <1>2, <1>4 DEF Stage
  <2>3. Standing'
    BY <1>1, <1>2, <1>5, <1>6 DEF Standing
  <2>4. NoService'
    BY <1>2, <1>8, <2>2 DEF Serving, NoService
  <2>5. HasService'
    BY <1>2, <1>5, <1>8, <2>2 DEF Serving, HasService, IsOf
  <2>6. Restarts'
    BY <1>2, <1>8, <2>1 DEF Serving, Restarts
  <2>7. Starts'
    BY <1>2, <1>6 DEF Starts, IsOf
  <2> QED
    BY <2>3, <2>4, <2>5, <2>6, <2>7 DEF Serving
<1> QED
  BY <1>2, <1>7, <1>8 DEF ServingInv

\* A creation that ends leaves a row that runs, with its sprite; a destruction detaches it.
LEMMA FinishKeepsServing ==
  ASSUME IInv, ServingInv, NEW j \in Jobs, Finish(j)
  PROVE  ServingInv'
<1>1. /\ rows \in Seq(RowRecords) /\ Len(rows) \in Nat
      /\ job[j] # None /\ job[j] \in JobRecords /\ job[j].row \in 1..Len(rows)
      /\ job[j].kind \in {"provision", "undo", "configure", "restart", "stop", "start", "destroy"}
      /\ job[j].at \in 0..7
  BY Where, LenProperties DEF IInv, Types, TypeOK, Finish, AtEnd, RowRecords, JobRecords
<1>2. /\ UNCHANGED <<sprite, writes, troubled, hit>>
      /\ job'[j] = None /\ \A k \in Jobs \ {j} : job'[k] = job[k]
      /\ vps' = IF job[j].kind = "destroy" THEN None ELSE vps
  BY DEF Finish, IInv, Types, Shape
<1>3. /\ job[j].kind = "provision" => job[j].at = 7
      /\ job[j].kind = "configure" => job[j].at = 4
      /\ job[j].kind = "restart" => job[j].at = 3
      /\ job[j].kind \in {"stop", "start"} => job[j].at = 2 /\ Powers(j) /\ rows[job[j].row].vm
  BY <1>1, Where DEF IInv, Finish, Powers, Idle, ServingInv, PoweredHasVm
<1>4. /\ Len(rows') = Len(rows)
      /\ \A v \in 1..Len(rows) :
           \/ rows'[v] = rows[v]
           \/ v = job[j].row /\ job[j].kind = "provision" /\ rows'[v].state = "running" /\ rows'[v].vm
           \/ /\ v = job[j].row /\ rows'[v].vm = rows[v].vm
              /\ \/ job[j].kind = "stop" /\ rows'[v].state = "stopped"
                 \/ job[j].kind = "start" /\ rows'[v].state = "running"
                 \/ job[j].kind = "destroy" /\ rows'[v].state = "destroyed"
  <2>1. rows[job[j].row] \in RowRecords
    BY <1>1, ElementOfSeq
  <2>2. CASE job[j].kind = "provision"
    <3>1. rows' = [rows EXCEPT ![job[j].row] = [state |-> "running", vm |-> TRUE]]
      BY <2>2 DEF Finish
    <3>2. [state |-> "running", vm |-> TRUE] \in RowRecords
      BY DEF RowRecords
    <3> QED
      BY <1>1, <2>2, <3>1, <3>2, ExceptSeq
  <2>3. ASSUME NEW state \in {"stopped", "running", "destroyed"},
               rows' = [rows EXCEPT ![job[j].row].state = state]
        PROVE  /\ Len(rows') = Len(rows)
               /\ rows'[job[j].row].state = state /\ rows'[job[j].row].vm = rows[job[j].row].vm
               /\ \A v \in 1..Len(rows) : v # job[j].row => rows'[v] = rows[v]
    <3> DEFINE row == [rows[job[j].row] EXCEPT !.state = state]
    <3>1. rows' = [rows EXCEPT ![job[j].row] = row]
      BY <2>3
    <3>2. row \in RowRecords /\ row.state = state /\ row.vm = rows[job[j].row].vm
      BY <2>1 DEF RowRecords
    <3> HIDE DEF row
    <3> QED
      BY <1>1, <3>1, <3>2, ExceptSeq
  <2>4. CASE job[j].kind \in {"stop", "start", "destroy"}
    BY <1>1, <2>3, <2>4 DEF Finish
  <2>5. CASE job[j].kind \notin {"provision", "stop", "start", "destroy"}
    BY <1>1, <2>5 DEF Finish
  <2> QED
    BY <2>2, <2>4, <2>5
<1>5. FileIsLast' /\ PoweredHasVm' /\ PowersAlone'
  <2>1. \A k \in Jobs : Powers(k)' => Powers(k) /\ job'[k].row = job[k].row /\ job[k].row \in 1..Len(rows)
    BY <1>2 DEF Powers, Idle, IInv, Types, Shape
  <2>2. \A v \in 1..Len(rows) : /\ rows[v].vm => rows'[v].vm
                                /\ rows'[v].state \in {"running", "stopped"} => rows'[v].vm
    BY <1>3, <1>4 DEF ServingInv, PoweredHasVm
  <2> QED
    BY <1>2, <1>4, <2>1, <2>2 DEF ServingInv, FileIsLast, PoweredHasVm, PowersAlone
<1>6. ASSUME Serving, hit = {} PROVE Serving'
  <2>1. \A k \in Jobs : \A at : Stage(k, "provision", at)' => Stage(k, "provision", at) /\ job'[k].row = job[k].row
    BY <1>2 DEF Stage
  <2>2. \A k \in Jobs : Stage(k, "configure", {2}) \/ Stage(k, "configure", {3}) \/ Stage(k, "restart", {2})
                          => job'[k] = job[k]
    BY <1>2, <1>3 DEF Stage
  <2>3. job[j].kind = "provision" => Stage(j, "provision", {6, 7}) /\ Stage(j, "provision", 5..7)
                                     /\ IsOf(job[j].row)
    <3> SUFFICES ASSUME job[j].kind = "provision"
                 PROVE  Stage(j, "provision", {6, 7}) /\ Stage(j, "provision", 5..7) /\ IsOf(job[j].row)
      OBVIOUS
    <3>1. Stage(j, "provision", 2..7)
      BY <1>1, <1>3 DEF Stage
    <3> QED
      BY <1>1, <1>3, <1>6, <3>1, BuilderOwns DEF Stage
  <2>4. Standing'
    <3> SUFFICES ASSUME vps' # None, vps' \notin troubled', rows'[vps'].vm, ~IsOf(vps)'
                 PROVE  \E k \in Jobs : Stage(k, "destroy", {2})' /\ job'[k].row = vps'
      BY DEF Standing
    <3>1. vps' = vps /\ job[j].kind # "destroy" /\ ~IsOf(vps)
      BY <1>2 DEF IsOf
    <3>2. vps \in 1..Len(rows)
      BY <3>1 DEF IInv, Types, TypeOK
    <3>3. rows[vps].vm
      BY <1>4, <2>3, <3>1, <3>2
    <3>4. PICK k \in Jobs : Stage(k, "destroy", {2}) /\ job[k].row = vps
      BY <1>2, <1>6, <3>1, <3>3 DEF Serving, Standing
    <3>5. k # j
      BY <3>1, <3>4 DEF Stage
    <3> QED
      BY <1>2, <3>1, <3>4, <3>5 DEF Stage
  <2>5. NoService'
    BY <1>2, <1>6, <2>1 DEF Serving, NoService
  <2>6. HasService'
    <3> SUFFICES ASSUME NEW r \in 1..Len(rows), IsOf(r),
                        \/ rows'[r].vm
                        \/ \E k \in Jobs : Stage(k, "provision", 5..7)' /\ job'[k].row = r
                 PROVE  sprite.service # "none"
      BY <1>2, <1>4 DEF HasService, IsOf
    <3>1. \/ rows[r].vm
          \/ \E k \in Jobs : Stage(k, "provision", 5..7) /\ job[k].row = r
      BY <1>4, <2>1, <2>3
    <3> QED
      BY <1>6, <3>1 DEF Serving, HasService
  <2>7. Restarts'
    BY <1>2, <1>6, <2>2 DEF Serving, Restarts, Stage
  <2>8. job[j].kind = "stop" => rows'[job[j].row].state = "stopped"
    <3> SUFFICES ASSUME job[j].kind = "stop" PROVE rows'[job[j].row].state = "stopped"
      OBVIOUS
    <3>1. rows' = [rows EXCEPT ![job[j].row].state = "stopped"]
      BY DEF Finish
    <3>2. rows[job[j].row] \in RowRecords
      BY <1>1, ElementOfSeq
    <3> QED
      BY <1>1, <3>1, <3>2 DEF RowRecords
  <2>9. Starts'
    <3> SUFFICES ASSUME vps' # None, IsOf(vps)', vps' \notin troubled', sprite'.service = "off", ToRun'
                 PROVE  \E k \in Jobs : Starting(k)'
      BY DEF Starts
    <3>1. /\ vps' = vps /\ IsOf(vps) /\ vps \in 1..Len(rows) /\ vps \notin troubled
          /\ job[j].kind # "destroy" /\ sprite.service = "off"
      BY <1>2 DEF IsOf, IInv, Types, TypeOK
    <3>2. \A k \in Jobs \ {j} : Stage(k, "start", {2})' => Stage(k, "start", {2})
      BY <1>2 DEF Stage
    <3>3. Stage(j, "start", {2})' <=> FALSE
      BY <1>2 DEF Stage
    <3>4. job[j].kind = "start" => Stage(j, "start", {2})
      BY <1>1, <1>3 DEF Stage
    <3>5. ToRun
      <4>1. CASE rows'[vps].state = "running"
        BY <1>4, <2>3, <3>1, <3>4, <4>1 DEF ToRun
      <4>2. CASE rows'[vps].state # "running"
        BY <1>2, <2>1, <3>1, <3>2, <3>3, <4>2 DEF ToRun
      <4> QED
        BY <4>1, <4>2
    <3>6. PICK k \in Jobs : Starting(k)
      BY <1>6, <3>1, <3>5 DEF Serving, Starts
    <3>7. CASE k # j
      BY <1>2, <3>1, <3>6, <3>7 DEF Starting, Stage
    <3>8. CASE k = j
      <4>1. job[j].kind = "stop" /\ job[j].row = vps /\ Powers(j) /\ rows[vps].vm
        BY <1>3, <3>6, <3>8 DEF Starting, Stage
      <4>2. rows'[vps].state = "stopped"
        BY <3>1, <4>1, <2>8
      <4>3. ASSUME NEW i \in Jobs, Stage(i, "provision", {6, 7}), job[i].row = vps PROVE FALSE
        BY <4>1, <4>3 DEF IInv, BuildsAlone, Builds, Stage
      <4>4. ASSUME NEW i \in Jobs, Stage(i, "start", {2}), job[i].row = vps PROVE FALSE
        <5>1. Powers(i) /\ i # j
          BY <4>1, <4>4 DEF Powers, Idle, Stage
        <5> QED
          BY <3>1, <4>1, <4>4, <5>1 DEF ServingInv, PowersAlone
      <4> QED
        BY <1>2, <2>1, <3>1, <3>2, <3>3, <4>2, <4>3, <4>4 DEF ToRun
    <3> QED
      BY <3>7, <3>8
  <2> QED
    BY <2>4, <2>5, <2>6, <2>7, <2>9 DEF Serving
<1> QED
  BY <1>2, <1>5, <1>6 DEF ServingInv

\* Every step keeps it.
LEMMA StepServing == IInv /\ ServingInv /\ [Next]_vars => ServingInv'
<1> SUFFICES ASSUME IInv, ServingInv, [Next]_vars PROVE ServingInv'
  OBVIOUS
<1>1. ASSUME NEW j \in Jobs, Configure(j, "configure") \/ Configure(j, "restart") \/ Destroy(j)
      PROVE  ServingInv'
  <2>1. /\ job[j] = None /\ UNCHANGED <<rows, vps, sprite, writes, troubled, hit>>
        /\ \A k \in Jobs \ {j} : job'[k] = job[k]
        /\ job'[j].kind \in {"configure", "restart", "destroy"}
    BY <1>1 DEF Configure, Destroy, Begin, Idle, Job, tables, IInv, Types, Shape
  <2> QED
    BY <2>1, BeginsKeepsServing DEF Powers
<1>4. ASSUME NEW j \in Jobs, NEW kind \in {"stop", "start"}, Power(j, kind)
      PROVE  ServingInv'
  <2>1. /\ job[j] = None /\ UNCHANGED <<rows, vps, sprite, writes, hit>>
        /\ troubled' = IF \E k \in Jobs : Powers(k) /\ job[k].row = vps
                       THEN troubled \cup {vps} ELSE troubled
        /\ \A k \in Jobs \ {j} : job'[k] = job[k]
        /\ job'[j] = Job(kind, vps)
        /\ vps \in 1..Len(rows) /\ rows[vps].state \in {"running", "stopped"}
    BY <1>4 DEF Power, Begin, Idle, tables, IInv, Types, TypeOK, Shape
  <2>2. job'[j].kind = kind /\ job'[j].row = vps /\ job'[j].at = 1
    BY <2>1 DEF Job
  <2>3. rows[vps].vm
    BY <2>1 DEF ServingInv, PoweredHasVm
  <2> QED
    BY <2>1, <2>2, <2>3, BeginsKeepsServing
<1>2. ASSUME NEW j \in Jobs, Answer(j) \/ Error(j) \/ Drop(j) PROVE ServingInv'
  BY <1>2, AnsweredOrFails, MovesKeepServing DEF IInv
<1>3. ASSUME UNCHANGED vars PROVE ServingInv'
  BY <1>3 DEF vars, ServingInv, FileIsLast, PoweredHasVm, PowersAlone, Powers, Idle, Serving,
     Standing, NoService, HasService, Restarts, Starts, ToRun, Starting, Stage, IsOf
<1> QED
  BY <1>1, <1>2, <1>3, <1>4, ProvisionKeepsServing, AssignKeepsServing, FinishKeepsServing DEF Next

\* Nothing runs at first.
LEMMA InitServing == Init => ServingInv
<1> SUFFICES ASSUME Init PROVE ServingInv
  OBVIOUS
<1>1. Len(rows) = 0 /\ sprite = None /\ vps = None
  BY DEF Init
<1>2. 1..Len(rows) = {}
  BY <1>1
<1> QED
  <2>1. \A j \in Jobs : ~Powers(j)
    BY DEF Init, Powers, Idle
  <2> QED
    BY <1>1, <1>2, <2>1 DEF ServingInv, FileIsLast, PoweredHasVm, PowersAlone, Serving, Standing,
       NoService, HasService, Restarts, Starts, IsOf

\* When nothing is in flight, the agent's running VPS has its own sprite, whose service runs
\* with the configuration on its disk, unless a call on it failed or a stop overlapped with
\* another stop or start, or came from an earlier VPS (routes/config.rs, routes/vps.rs).
THEOREM RunningIsOnHolds == Spec => []RunningIsOn
<1>1. IInv /\ ServingInv => RunningIsOn
  <2> SUFFICES ASSUME IInv, ServingInv, \A j \in Jobs : Idle(j), hit = {}, vps # None,
                      vps \notin troubled, rows[vps].state = "running"
               PROVE  sprite = [life |-> vps, file |-> writes, service |-> "on", loaded |-> writes]
    BY DEF RunningIsOn
  <2>0. rows[vps].vm
    BY DEF ServingInv, PoweredHasVm, IInv, Types, TypeOK
  <2>1. \A j \in Jobs : \A kind, at : ~Stage(j, kind, at)
    BY DEF Stage, Idle
  <2>2. Serving /\ FileIsLast
    BY DEF ServingInv
  <2>3. IsOf(vps)
    BY <2>0, <2>1, <2>2 DEF Serving, Standing
  <2>4. sprite \in Sprites /\ sprite # None /\ sprite.life = vps /\ vps \in 1..Len(rows)
    BY <2>3 DEF IsOf, IInv, Types, TypeOK
  <2>5. sprite.service # "none"
    BY <2>0, <2>2, <2>3, <2>4 DEF Serving, HasService
  <2>6. sprite.service # "off"
    BY <2>1, <2>2, <2>3 DEF Serving, Starts, ToRun, Starting
  <2>7. sprite.service = "on"
    BY <2>4, <2>5, <2>6 DEF Sprites
  <2>8. sprite.loaded = sprite.file
    BY <2>1, <2>2, <2>4, <2>7 DEF Serving, Restarts
  <2>9. sprite.file > 0
    BY <2>4, <2>5 DEF IInv, Loads, HasFile
  <2>10. sprite.file = writes
    BY <2>2, <2>4, <2>9 DEF FileIsLast
  <2> QED
    BY <2>4, <2>7, <2>8, <2>10 DEF Sprites
<1> QED
  BY <1>1, InvHolds, InitServing, InitIInv, StepIInv, StepServing, PTL DEF Spec

=============================================================================
