---------------------------- MODULE ProxyTunnel ----------------------------
(***************************************************************************)
(* One CONNECT tunnel of the forward proxy (proxy.rs, tunnel): a task per  *)
(* direction that reads, counts and writes, on threads of their own, and   *)
(* the task that waits for the first of them to end, aborts the other,     *)
(* reads the two counters and books the sum.                               *)
(*                                                                         *)
(* abort() ends a task at its next await that has to wait; a task that is  *)
(* running when it is aborted goes on until then, beside the reading of    *)
(* the counters.  Chunks are what one read() returns, and have one byte.   *)
(***************************************************************************)
EXTENDS Integers

CONSTANTS None, MaxChunks  \* chunks per direction

ASSUME TunnelConstantsOK == MaxChunks \in Nat /\ None \notin Nat \cup {"out", "in"}

\* out: client to target, in: target to client.
Dirs == {"out", "in"}

Other(d) == IF d = "out" THEN "in" ELSE "out"

VARIABLES
  sent,       \* sent[d]: chunks its source has sent
  closed,     \* directions whose source has closed
  broken,     \* directions whose sink takes no more
  task,       \* task[d]: "read", "count", "write" (what comes next), or "ended"
  read,       \* read[d]: chunks read() returned
  count,      \* count[d]: the atomic counter
  delivered,  \* delivered[d]: chunks the sink took
  late,       \* late[d]: chunks counted after count[d] was loaded, for the properties
  aborted,    \* the direction the main task aborted, or None
  main,       \* "select", "load_in", "load_out", "book", "done", "failed"
  total,      \* what the main task has read of the counters
  booked,     \* what add_bandwidth added, None before (and after a failure)
  atEnd       \* chunks delivered when the first direction ended, for the properties

vars == <<sent, closed, broken, task, read, count, delivered, late, aborted, main, total,
          booked, atEnd>>

taskVars == <<task, read, count, delivered, late>>
mainVars == <<aborted, main, total, booked, atEnd>>

Zero == [d \in Dirs |-> 0]

Both(f) == f["out"] + f["in"]

Init ==
  /\ sent = Zero
  /\ closed = {}
  /\ broken = {}
  /\ task = [d \in Dirs |-> "read"]
  /\ read = Zero
  /\ count = Zero
  /\ delivered = Zero
  /\ late = Zero
  /\ aborted = None
  /\ main = "select"
  /\ total = 0
  /\ booked = None
  /\ atEnd = 0

-----------------------------------------------------------------------------
(* Client and target *)

Send(d) ==
  /\ d \notin closed
  /\ sent[d] < MaxChunks
  /\ sent' = [sent EXCEPT ![d] = @ + 1]
  /\ UNCHANGED <<closed, broken, taskVars, mainVars>>

\* A side closes its half (out is the client's); it may still take what comes.
CloseHalf(d) ==
  /\ d \notin closed
  /\ closed' = closed \cup {d}
  /\ UNCHANGED <<sent, broken, taskVars, mainVars>>

\* A side is gone: it sends nothing more in d, and takes nothing of the other.
Disconnect(d) ==
  /\ Other(d) \notin broken
  /\ closed' = closed \cup {d}
  /\ broken' = broken \cup {Other(d)}
  /\ UNCHANGED <<sent, taskVars, mainVars>>

-----------------------------------------------------------------------------
(* The loop of direction d *)

\* Mutant: a read that fails is taken for a chunk.
ReadPastEnd(d) ==
  /\ task[d] = "read"
  /\ read[d] < sent[d] \/ d \in closed
  /\ read' = [read EXCEPT ![d] = @ + 1]
  /\ task' = [task EXCEPT ![d] = "count"]
  /\ UNCHANGED <<sent, closed, broken, count, delivered, late, mainVars>>

Read(d) ==
  /\ task[d] = "read"
  /\ read[d] < sent[d]
  /\ read' = [read EXCEPT ![d] = @ + 1]
  /\ task' = [task EXCEPT ![d] = "count"]
  /\ UNCHANGED <<sent, closed, broken, count, delivered, late, mainVars>>

\* Ok(0) or Err.
ReadEnds(d) ==
  /\ task[d] = "read"
  /\ d \in closed
  /\ read[d] = sent[d]
  /\ task' = [task EXCEPT ![d] = "ended"]
  /\ UNCHANGED <<sent, closed, broken, read, count, delivered, late, mainVars>>

\* The main task has read the counter of d.
Loaded(d) == main \in {"book", "done", "failed"} \/ (main = "load_out" /\ d = "in")

\* Mutant: the chunk is counted twice.
CountTwice(d) ==
  /\ task[d] = "count"
  /\ count' = [count EXCEPT ![d] = @ + 2]
  /\ late' = [late EXCEPT ![d] = @ + (IF Loaded(d) THEN 1 ELSE 0)]
  /\ task' = [task EXCEPT ![d] = "write"]
  /\ UNCHANGED <<sent, closed, broken, read, delivered, mainVars>>

\* fetch_add, before the write.
Count(d) ==
  /\ task[d] = "count"
  /\ count' = [count EXCEPT ![d] = @ + 1]
  /\ late' = [late EXCEPT ![d] = @ + (IF Loaded(d) THEN 1 ELSE 0)]
  /\ task' = [task EXCEPT ![d] = "write"]
  /\ UNCHANGED <<sent, closed, broken, read, delivered, mainVars>>

Write(d) ==
  /\ task[d] = "write"
  /\ d \notin broken
  /\ delivered' = [delivered EXCEPT ![d] = @ + 1]
  /\ task' = [task EXCEPT ![d] = "read"]
  /\ UNCHANGED <<sent, closed, broken, read, count, late, mainVars>>

\* Mutant: a chunk that could not be written is not charged.
WriteFailsUncounts(d) ==
  /\ task[d] = "write"
  /\ d \in broken
  /\ count' = [count EXCEPT ![d] = @ - 1]
  /\ task' = [task EXCEPT ![d] = "ended"]
  /\ UNCHANGED <<sent, closed, broken, read, delivered, late, mainVars>>

WriteFails(d) ==
  /\ task[d] = "write"
  /\ d \in broken
  /\ task' = [task EXCEPT ![d] = "ended"]
  /\ UNCHANGED <<sent, closed, broken, read, count, delivered, late, mainVars>>

\* abort() has its effect, at an await.
AbortTakesEffect(d) ==
  /\ aborted = d
  /\ task[d] \in {"read", "write"}
  /\ task' = [task EXCEPT ![d] = "ended"]
  /\ UNCHANGED <<sent, closed, broken, read, count, delivered, late, mainVars>>

-----------------------------------------------------------------------------
(* tunnel() itself *)

\* Mutant: the other direction is not aborted.
SelectWithoutAbort(d) ==
  /\ main = "select"
  /\ task[d] = "ended"
  /\ main' = "load_in"
  /\ atEnd' = Both(delivered)
  /\ UNCHANGED <<sent, closed, broken, taskVars, aborted, total, booked>>

\* select!: one JoinHandle is ready; the other task is told to stop.
Select(d) ==
  /\ main = "select"
  /\ task[d] = "ended"
  /\ aborted' = Other(d)
  /\ main' = "load_in"
  /\ atEnd' = Both(delivered)
  /\ UNCHANGED <<sent, closed, broken, taskVars, total, booked>>

LoadIn ==
  /\ main = "load_in"
  /\ total' = count["in"]
  /\ main' = "load_out"
  /\ UNCHANGED <<sent, closed, broken, taskVars, aborted, booked, atEnd>>

\* Mutant: only what leaves the agent is charged.
LoadOutOnly ==
  /\ main = "load_out"
  /\ total' = count["out"]
  /\ main' = "book"
  /\ UNCHANGED <<sent, closed, broken, taskVars, aborted, booked, atEnd>>

LoadOut ==
  /\ main = "load_out"
  /\ total' = total + count["out"]
  /\ main' = "book"
  /\ UNCHANGED <<sent, closed, broken, taskVars, aborted, booked, atEnd>>

\* add_bandwidth, unless there is nothing to add.
Book ==
  /\ main = "book"
  /\ booked' = IF total > 0 THEN total ELSE None
  /\ main' = "done"
  /\ UNCHANGED <<sent, closed, broken, taskVars, aborted, total, atEnd>>

\* The statement fails: an error is logged and the count is gone.
BookFails ==
  /\ main = "book"
  /\ total > 0
  /\ main' = "failed"
  /\ UNCHANGED <<sent, closed, broken, taskVars, aborted, total, booked, atEnd>>

\* Nothing is left to do.
Rest ==
  /\ main \in {"done", "failed"}
  /\ \A d \in Dirs : task[d] = "ended"
  /\ UNCHANGED vars

TaskStep(d) == Read(d) \/ ReadEnds(d) \/ Count(d) \/ WriteFails(d) \/ AbortTakesEffect(d)

MainStep == LoadIn \/ LoadOut \/ Book \/ BookFails \/ \E d \in Dirs : Select(d)

Next ==
  \/ \E d \in Dirs : Send(d) \/ CloseHalf(d) \/ Disconnect(d)
  \/ \E d \in Dirs : TaskStep(d) \/ Write(d)
  \/ MainStep
  \/ Rest

Spec == Init /\ [][Next]_vars

\* tokio runs the tasks.  A write is not fair: a sink that does not read its end
\* keeps write_all waiting for as long as it likes.
FairSpec ==
  /\ Spec
  /\ WF_vars(MainStep)
  /\ \A d \in Dirs : WF_vars(TaskStep(d))

-----------------------------------------------------------------------------
(* Properties *)

\* The tasks' locals keep their types, and no counter passes what its source sent.
TypeOK ==
  /\ sent \in [Dirs -> 0..MaxChunks]
  /\ closed \subseteq Dirs
  /\ broken \subseteq Dirs
  /\ task \in [Dirs -> {"read", "count", "write", "ended"}]
  /\ read \in [Dirs -> 0..MaxChunks]
  /\ count \in [Dirs -> 0..MaxChunks]
  /\ delivered \in [Dirs -> 0..MaxChunks]
  /\ late \in [Dirs -> 0..MaxChunks]
  /\ aborted \in Dirs \cup {None}
  /\ main \in {"select", "load_in", "load_out", "book", "done", "failed"}
  /\ total \in Nat
  /\ booked \in Nat \cup {None}
  /\ atEnd \in Nat

\* Although the counters are read one after the other while the aborted task may
\* still be running, every chunk that was delivered by the time the first side
\* ended is booked: what goes uncharged is only what passed in that moment.
DeliveredIsBooked == main = "done" => atEnd <= IF booked = None THEN 0 ELSE booked

\* The side that ended has nothing in flight any more: what is booked is all that
\* was read of it, and of the other all but what was counted after its counter was
\* loaded.
EndedSideBookedInFull ==
  main = "done" =>
    (IF booked = None THEN 0 ELSE booked) =
      read[Other(aborted)] + (count[aborted] - late[aborted])

\* A tunnel is a session: each byte is counted once, the count booked once.
Session == INSTANCE MeteredSession WITH
             received <- Both(read), counted <- Both(count), booked <- booked

ImplementsSession == Session!SessionSpec

\* Once either side has ended, the tunnel is booked and both tasks are gone in the
\* end: none of them outlives the tunnel, even if its sink never reads again.
TunnelEnds ==
  \A d \in Dirs :
    task[d] = "ended" ~> main \in {"done", "failed"} /\ task[Other(d)] = "ended"

=============================================================================
