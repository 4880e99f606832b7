------------------------- MODULE ProxyTunnelProofs -------------------------
(***************************************************************************)
(* What TLC checks of ProxyTunnel on two chunks each way, proved for any   *)
(* number of chunks.                                                       *)
(***************************************************************************)
EXTENDS ProxyTunnel, TLAPS

(* The inductive invariant, in named parts. *)

\* What is in a task's hands is what lies between its counters: the chunk it has
\* read and not counted, and the one it has counted and not written.
InHand ==
  \A d \in Dirs :
    /\ read[d] <= sent[d]
    /\ read[d] = count[d] + (IF task[d] = "count" THEN 1 ELSE 0)
    /\ delivered[d] + (IF task[d] = "write" THEN 1 ELSE 0) <= count[d]

\* The main task goes on because a direction has ended, and aborts the other.
AbortsOther ==
  IF main = "select" THEN aborted = None
                     ELSE aborted \in Dirs /\ task[Other(aborted)] = "ended"

\* What was counted after the load of its counter is what the load has missed; of the
\* direction that ended nothing is.
LateIsMissing ==
  /\ \A d \in Dirs : late[d] <= count[d] /\ (~Loaded(d) => late[d] = 0)
  /\ main # "select" => late[Other(aborted)] = 0
  /\ main = "load_out" => total = count["in"] - late["in"]
  /\ main \in {"book", "done", "failed"} =>
       total = (count["in"] - late["in"]) + (count["out"] - late["out"])

\* The part of the sum that is not read yet can only have grown, and the counter
\* of the direction that ended stays what it is.
SumInTime ==
  /\ main = "load_in" => atEnd <= Both(count)
  /\ main = "load_out" =>
       /\ total <= count["in"] /\ atEnd <= total + count["out"]
       /\ aborted = "out" => total = count["in"]
  /\ main \in {"book", "done"} =>
       total <= Both(count) /\ atEnd <= total /\ count[Other(aborted)] <= total
  /\ booked = IF main = "done" /\ total > 0 THEN total ELSE None

IInv == TypeOK /\ InHand /\ AbortsOther /\ LateIsMissing /\ SumInTime

\* At the start nothing is in hand.
LEMMA InitIInv == Init => IInv
  BY TunnelConstantsOK DEF Init, IInv, TypeOK, InHand, AbortsOther, LateIsMissing, Loaded, SumInTime, Zero, Dirs

\* The client, the target and the tasks: they leave the main task's locals alone,
\* and counters only grow.
LEMMA SourceStep ==
  ASSUME IInv, NEW d \in Dirs, Send(d) \/ CloseHalf(d) \/ Disconnect(d)
  PROVE  IInv'
<1> USE TunnelConstantsOK DEF IInv, TypeOK, InHand, AbortsOther, LateIsMissing, Loaded, SumInTime, Dirs, Other, Both,
          taskVars, mainVars
<1>1. CASE Send(d)
  BY <1>1 DEF Send
<1>2. CASE CloseHalf(d)
  BY <1>2 DEF CloseHalf
<1>3. CASE Disconnect(d)
  BY <1>3 DEF Disconnect
<1> QED
  BY <1>1, <1>2, <1>3

\* A task that reads, counts or writes passes one chunk on.
LEMMA TaskKeepsIInv ==
  ASSUME IInv, NEW d \in Dirs, TaskStep(d) \/ Write(d)
  PROVE  IInv'
<1> USE TunnelConstantsOK DEF IInv, TypeOK, InHand, AbortsOther, LateIsMissing, Loaded, SumInTime, Dirs, Other, Both, mainVars
<1>1. CASE Read(d)
  BY <1>1 DEF Read
<1>2. CASE ReadEnds(d)
  BY <1>2 DEF ReadEnds
<1>3. CASE Count(d)
  BY <1>3 DEF Count
<1>4. CASE Write(d)
  BY <1>4 DEF Write
<1>5. CASE WriteFails(d)
  BY <1>5 DEF WriteFails
<1>6. CASE AbortTakesEffect(d)
  BY <1>6 DEF AbortTakesEffect
<1> QED
  BY <1>1, <1>2, <1>3, <1>4, <1>5, <1>6 DEF TaskStep

\* The main task leaves the tasks alone.
LEMMA MainKeepsIInv ==
  ASSUME IInv, MainStep
  PROVE  IInv'
<1> USE TunnelConstantsOK DEF IInv, TypeOK, InHand, AbortsOther, LateIsMissing, Loaded, SumInTime, Dirs, Other, Both, taskVars
<1>1. ASSUME NEW d \in Dirs, Select(d) PROVE IInv'
  BY <1>1 DEF Select
<1>2. CASE LoadIn
  BY <1>2 DEF LoadIn
<1>3. CASE LoadOut
  BY <1>3 DEF LoadOut
<1>4. CASE Book
  BY <1>4 DEF Book
<1>5. CASE BookFails
  BY <1>5 DEF BookFails
<1> QED
  BY <1>1, <1>2, <1>3, <1>4, <1>5 DEF MainStep

\* Every step of the tunnel keeps the invariant.
LEMMA StepIInv == IInv /\ [Next]_vars => IInv'
<1> SUFFICES ASSUME IInv, [Next]_vars PROVE IInv'
  OBVIOUS
<1>1. CASE UNCHANGED vars
  BY <1>1 DEF IInv, TypeOK, InHand, AbortsOther, LateIsMissing, Loaded, SumInTime, Both, vars
<1>2. CASE Rest
  BY <1>1, <1>2 DEF Rest
<1> QED
  BY <1>1, <1>2, SourceStep, TaskKeepsIInv, MainKeepsIInv DEF Next

\* The inductive invariant holds in every state.
LEMMA IInvHolds == Spec => []IInv
  BY InitIInv, StepIInv, PTL DEF Spec

\* The tunnel's state keeps its types, for any number of chunks.
THEOREM TunnelTypeCorrect == Spec => []TypeOK
<1>1. IInv => TypeOK
  BY DEF IInv
<1> QED
  BY <1>1, IInvHolds, PTL

\* Every chunk delivered by the time the first side ended is booked.
THEOREM DeliveredIsBookedHolds == Spec => []DeliveredIsBooked
<1>1. IInv => DeliveredIsBooked
  BY TunnelConstantsOK DEF IInv, TypeOK, SumInTime, DeliveredIsBooked
<1> QED
  BY <1>1, IInvHolds, PTL

\* The direction that ended is booked in full, the other but for what its counter
\* got after it was loaded.
THEOREM EndedSideBookedInFullHolds == Spec => []EndedSideBookedInFull
<1>1. IInv => EndedSideBookedInFull
  <2> SUFFICES ASSUME IInv, main = "done"
               PROVE  (IF booked = None THEN 0 ELSE booked) =
                        read[Other(aborted)] + (count[aborted] - late[aborted])
    BY DEF EndedSideBookedInFull
  <2>1. /\ aborted \in Dirs /\ Other(aborted) \in Dirs
        /\ read[Other(aborted)] = count[Other(aborted)] /\ late[Other(aborted)] = 0
    BY DEF IInv, InHand, AbortsOther, LateIsMissing, TypeOK, Dirs, Other
  <2>2. (IF booked = None THEN 0 ELSE booked) = total
    BY TunnelConstantsOK DEF IInv, TypeOK, SumInTime
  <2>3. total = (count["in"] - late["in"]) + (count["out"] - late["out"])
    BY DEF IInv, LateIsMissing
  <2>4. \A d \in Dirs : count[d] \in Int /\ late[d] \in Int
    BY TunnelConstantsOK DEF IInv, TypeOK
  <2> QED
    BY <2>1, <2>2, <2>3, <2>4 DEF Dirs, Other
<1> QED
  BY <1>1, IInvHolds, PTL

-----------------------------------------------------------------------------
(* The tunnel is a session *)

\* A step of a task or of a side is a Carry of the session, or nothing.
LEMMA CarriesOrRests ==
  ASSUME IInv, IInv', UNCHANGED booked,
         \A d \in Dirs : read'[d] >= read[d] /\ count'[d] >= count[d]
  PROVE  Session!Carry
  BY DEF IInv, TypeOK, InHand, Session!Carry, Both, Dirs

\* Every step of the tunnel is one of the session.
LEMMA StepsAreSession ==
  ASSUME IInv, IInv', [Next]_vars
  PROVE  [Session!Carry \/ Session!Book]_<<Both(read), Both(count), booked>>
<1>1. CASE Book
  BY <1>1, TunnelConstantsOK
     DEF Book, IInv, TypeOK, SumInTime, Session!Book, taskVars, Both, Dirs
<1>2. CASE UNCHANGED vars \/ Rest
  BY <1>2 DEF vars, Rest, Both
<1>3. CASE LoadIn \/ LoadOut \/ BookFails \/ \E d \in Dirs : Select(d)
  BY <1>3 DEF LoadIn, LoadOut, BookFails, Select, taskVars, Both
<1>4. ASSUME NEW d \in Dirs, Send(d) \/ CloseHalf(d) \/ Disconnect(d)
      PROVE  UNCHANGED <<Both(read), Both(count), booked>>
  BY <1>4 DEF Send, CloseHalf, Disconnect, taskVars, mainVars, Both
<1>5. ASSUME NEW d \in Dirs, TaskStep(d) \/ Write(d)
      PROVE  Session!Carry
  <2>1. UNCHANGED booked
    BY <1>5 DEF TaskStep, Read, ReadEnds, Count, Write, WriteFails, AbortTakesEffect, mainVars
  <2>2. \A e \in Dirs : read'[e] >= read[e] /\ count'[e] >= count[e]
    BY <1>5 DEF IInv, TypeOK, TaskStep, Read, ReadEnds, Count, Write, WriteFails, AbortTakesEffect
  <2> QED
    BY <2>1, <2>2, CarriesOrRests
<1> QED
  BY <1>1, <1>2, <1>3, <1>4, <1>5 DEF Next, MainStep

\* The tunnel implements the session: each chunk is counted once at most, the count
\* is booked once at most, whatever the abort does to the tasks.
THEOREM SessionImplemented == Spec => ImplementsSession
<1>1. Init => Session!SessionInit
  BY DEF Init, Session!SessionInit, Both, Zero, Dirs
<1>2. IInv /\ IInv' /\ [Next]_vars => [Session!Carry \/ Session!Book]_Session!svars
  BY StepsAreSession DEF Session!svars
<1> QED
  BY <1>1, <1>2, IInvHolds, PTL DEF Spec, ImplementsSession, Session!SessionSpec

=============================================================================
