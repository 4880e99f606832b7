------------------------ MODULE GatewayRelayProofs ------------------------
(***************************************************************************)
(* What TLC checks of GatewayRelay on two messages each way and a channel  *)
(* for one, proved for any number of messages and any capacity.            *)
(***************************************************************************)
EXTENDS GatewayRelay, FiniteSetTheorems, SequenceTheorems, TLAPS

(* The inductive invariant, in named parts. *)

\* A task that is about to send has a message, of its own side but for the writer.
Hands ==
  /\ task["writer"] = "send" => hand["writer"] \in Messages
  /\ task["upstream_reader"] = "send" =>
       hand["upstream_reader"] \in Messages /\ hand["upstream_reader"].from = "upstream"
  /\ task["client_reader"] \in {"send", "reply"} =>
       hand["client_reader"] \in Messages /\ hand["client_reader"].from = "client"

\* Bytes are counted as they are received, loaded after that and booked in the end.
Metered ==
  /\ received = bandwidth
  /\ main \in {"select", "load", "book"} => booked = None
  /\ main = "book" => total \in 1..bandwidth

State == TypeOK /\ Hands /\ Metered

\* No connect has gone to upstream.
NoConnect == \A i \in 1..Len(toUpstream) : ~IsConnect(toUpstream[i].kind)

\* The flag is set before the first connect leaves the reader's hand, and only
\* that one can have the token.
TokenOnce ==
  /\ ~hsDone => NoConnect
  /\ task["client_reader"] = "send" =>
       /\ ~hsDone => ~IsConnect(hand["client_reader"].kind)
       /\ hand["client_reader"].token => NoConnect
  /\ TokenInFirstConnect

\* The messages of upstream in s are number lo + 1 to number hi, in this order.
Run(s, lo, hi) ==
  /\ \A i \in 1..Len(s) : FromUpstream(s, i) => s[i].n \in (lo + 1)..hi
  /\ \A i, k \in 1..Len(s) : FromUpstream(s, i) /\ FromUpstream(s, k) /\ i < k => s[i].n < s[k].n
  /\ \A n \in (lo + 1)..hi : \E i \in 1..Len(s) : FromUpstream(s, i) /\ s[i].n = n

\* The writer has upstream's message in hand.
Carries == task["writer"] = "send" /\ hand["writer"].from = "upstream"

\* While the writer can still deliver, what upstream sent lies one after the other
\* with the client, in the writer's hand, in the channel and in the reader's hand.
Line(a, c) ==
  /\ Run(toClient, 0, a)
  /\ Carries => hand["writer"].n = a + 1
  /\ Run(channel, IF Carries THEN a + 1 ELSE a, c)
  /\ (IF Carries THEN a + 1 ELSE a) <= c
  /\ IF task["upstream_reader"] = "send"
     THEN upstreamRead = c + 1 /\ hand["upstream_reader"].n = c + 1
     ELSE upstreamRead = c

Pipeline ==
  "client" \notin gone /\ task["writer"] # "ended" => \E a, c \in Nat : Line(a, c)

-----------------------------------------------------------------------------
(* Lemmas about runs of messages *)

\* A message that is put at the end.
LEMMA RunAppend ==
  ASSUME NEW s \in Seq(Messages), NEW m \in Messages, NEW lo \in Nat, NEW hi \in Nat,
         Run(s, lo, hi), lo <= hi
  PROVE  /\ m.from = "upstream" /\ m.n = hi + 1 => Run(Append(s, m), lo, hi + 1)
         /\ m.from # "upstream" => Run(Append(s, m), lo, hi)
<1> DEFINE t == Append(s, m)
<1>1. /\ Len(t) = Len(s) + 1 /\ Len(s) \in Nat
      /\ \A i \in 1..Len(s) : t[i] = s[i]
      /\ t[Len(s) + 1] = m
  OBVIOUS
<1>2. \A i \in 1..Len(s) : FromUpstream(t, i) <=> FromUpstream(s, i)
  BY <1>1 DEF FromUpstream
<1>3. FromUpstream(t, Len(s) + 1) <=> m.from = "upstream"
  BY <1>1 DEF FromUpstream
<1>4. \A i \in 1..Len(t) : i \in 1..Len(s) \/ i = Len(s) + 1
  BY <1>1
<1> HIDE DEF t
<1>5. ASSUME m.from = "upstream", m.n = hi + 1 PROVE Run(t, lo, hi + 1)
  <2>1. \A i \in 1..Len(t) : FromUpstream(t, i) => t[i].n \in (lo + 1)..(hi + 1)
    BY <1>1, <1>2, <1>4, <1>5 DEF Run
  <2>2. ASSUME NEW i \in 1..Len(t), NEW k \in 1..Len(t), FromUpstream(t, i), FromUpstream(t, k), i < k
        PROVE  t[i].n < t[k].n
    <3>1. i \in 1..Len(s)
      BY <1>1, <2>2
    <3>2. CASE k \in 1..Len(s)
      BY <1>1, <1>2, <2>2, <3>1, <3>2 DEF Run
    <3>3. CASE k = Len(s) + 1
      BY <1>1, <1>2, <1>5, <2>2, <3>1, <3>3 DEF Run
    <3> QED
      BY <1>4, <3>2, <3>3
  <2>3. ASSUME NEW n \in (lo + 1)..(hi + 1)
        PROVE  \E i \in 1..Len(t) : FromUpstream(t, i) /\ t[i].n = n
    <3>1. CASE n = hi + 1
      BY <1>1, <1>3, <1>5, <3>1
    <3>2. CASE n \in (lo + 1)..hi
      BY <1>1, <1>2, <3>2 DEF Run
    <3> QED
      BY <3>1, <3>2
  <2> QED
    BY <2>1, <2>2, <2>3 DEF Run
<1>6. ASSUME m.from # "upstream" PROVE Run(t, lo, hi)
  <2>1. \A i \in 1..Len(t) : FromUpstream(t, i) =>
          i \in 1..Len(s) /\ FromUpstream(s, i) /\ t[i] = s[i]
    BY <1>1, <1>2, <1>3, <1>4, <1>6
  <2>2. \A i \in 1..Len(s) : FromUpstream(s, i) =>
          i \in 1..Len(t) /\ FromUpstream(t, i) /\ t[i] = s[i]
    BY <1>1, <1>2
  <2> QED
    BY <2>1, <2>2 DEF Run
<1> QED
  BY <1>5, <1>6 DEF t

\* The message that is taken from the front.
LEMMA RunTail ==
  ASSUME NEW s \in Seq(Messages), s # <<>>, NEW lo \in Nat, NEW hi \in Nat,
         Run(s, lo, hi), lo <= hi
  PROVE  /\ Head(s).from = "upstream" =>
              Head(s).n = lo + 1 /\ lo + 1 <= hi /\ Run(Tail(s), lo + 1, hi)
         /\ Head(s).from # "upstream" => Run(Tail(s), lo, hi)
<1> DEFINE t == Tail(s)
<1>1. /\ Len(s) \in Nat /\ Len(s) >= 1 /\ Len(t) = Len(s) - 1
      /\ \A i \in 1..Len(t) : t[i] = s[i + 1]
      /\ Head(s) = s[1]
  BY HeadTailProperties, EmptySeq
<1>2. \A i \in 1..Len(t) : FromUpstream(t, i) <=> FromUpstream(s, i + 1)
  BY <1>1 DEF FromUpstream
<1>3. \A i \in 1..Len(s) : i = 1 \/ i - 1 \in 1..Len(t)
  BY <1>1
<1> HIDE DEF t
<1>4. \A i, k \in 1..Len(t) : FromUpstream(t, i) /\ FromUpstream(t, k) /\ i < k => t[i].n < t[k].n
  <2>1. ASSUME NEW i \in 1..Len(t), NEW k \in 1..Len(t), FromUpstream(t, i), FromUpstream(t, k), i < k
        PROVE  t[i].n < t[k].n
    <3>1. i + 1 \in 1..Len(s) /\ k + 1 \in 1..Len(s) /\ i + 1 < k + 1
      BY <1>1, <2>1
    <3> QED
      BY <1>1, <1>2, <2>1, <3>1 DEF Run
  <2> QED
    BY <2>1
<1>5. ASSUME Head(s).from = "upstream"
      PROVE  Head(s).n = lo + 1 /\ lo + 1 <= hi /\ Run(t, lo + 1, hi)
  <2>1. FromUpstream(s, 1) /\ s[1].n \in (lo + 1)..hi /\ 1 \in 1..Len(s)
    BY <1>1, <1>5 DEF Run, FromUpstream
  <2>2. lo + 1 \in (lo + 1)..hi
    BY <2>1
  <2>3. PICK i \in 1..Len(s) : FromUpstream(s, i) /\ s[i].n = lo + 1
    BY <2>2 DEF Run
  <2>4. s[1].n = lo + 1
    BY <2>1, <2>3 DEF Run
  <2>5. ASSUME NEW k \in 1..Len(t), FromUpstream(t, k) PROVE t[k].n \in (lo + 2)..hi
    <3>1. k + 1 \in 1..Len(s) /\ 1 < k + 1 /\ FromUpstream(s, k + 1) /\ t[k] = s[k + 1]
      BY <1>1, <1>2, <2>5
    <3>2. s[1].n < s[k + 1].n /\ s[k + 1].n \in (lo + 1)..hi
      BY <2>1, <3>1 DEF Run
    <3> QED
      BY <2>4, <3>1, <3>2
  <2>6. ASSUME NEW n \in (lo + 2)..hi
        PROVE  \E k \in 1..Len(t) : FromUpstream(t, k) /\ t[k].n = n
    <3>1. n \in (lo + 1)..hi
      OBVIOUS
    <3>2. PICK k \in 1..Len(s) : FromUpstream(s, k) /\ s[k].n = n
      BY <3>1 DEF Run
    <3>3. k # 1
      BY <2>4, <3>2
    <3>4. k - 1 \in 1..Len(t) /\ (k - 1) + 1 = k
      BY <1>3, <3>3
    <3> QED
      BY <1>1, <1>2, <3>2, <3>4
  <2>7. /\ \A k \in 1..Len(t) : FromUpstream(t, k) => t[k].n \in ((lo + 1) + 1)..hi
        /\ \A n \in ((lo + 1) + 1)..hi : \E k \in 1..Len(t) : FromUpstream(t, k) /\ t[k].n = n
    <3>1. (lo + 1) + 1 = lo + 2
      OBVIOUS
    <3> QED
      BY <2>5, <2>6, <3>1
  <2>8. Run(t, lo + 1, hi)
    BY <1>4, <2>7 DEF Run
  <2>9. lo + 1 <= hi
    BY <2>2
  <2> QED
    BY <1>1, <2>4, <2>8, <2>9
<1>6. ASSUME Head(s).from # "upstream" PROVE Run(t, lo, hi)
  <2>1. ~FromUpstream(s, 1)
    BY <1>1, <1>6 DEF FromUpstream
  <2>2. ASSUME NEW k \in 1..Len(t), FromUpstream(t, k) PROVE t[k].n \in (lo + 1)..hi
    <3>1. k + 1 \in 1..Len(s) /\ FromUpstream(s, k + 1) /\ t[k] = s[k + 1]
      BY <1>1, <1>2, <2>2
    <3> QED
      BY <3>1 DEF Run
  <2>3. ASSUME NEW n \in (lo + 1)..hi
        PROVE  \E k \in 1..Len(t) : FromUpstream(t, k) /\ t[k].n = n
    <3>1. PICK k \in 1..Len(s) : FromUpstream(s, k) /\ s[k].n = n
      BY DEF Run
    <3>2. k # 1
      BY <2>1, <3>1
    <3>3. k - 1 \in 1..Len(t) /\ (k - 1) + 1 = k
      BY <1>3, <3>2
    <3> QED
      BY <1>1, <1>2, <3>1, <3>3
  <2> QED
    BY <1>4, <2>2, <2>3 DEF Run
<1> QED
  BY <1>5, <1>6 DEF t

\* NoGap of any sequence.
NoGapIn(s) ==
  \A i \in 1..Len(s) : FromUpstream(s, i) =>
    /\ \A k \in 1..(i - 1) : FromUpstream(s, k) => s[k].n < s[i].n
    /\ \A n \in 1..(s[i].n - 1) : \E k \in 1..(i - 1) : FromUpstream(s, k) /\ s[k].n = n

\* A run from the first message on has no gap.
LEMMA RunHasNoGap ==
  ASSUME NEW s \in Seq(Messages), NEW a \in Nat, Run(s, 0, a)
  PROVE  NoGapIn(s)
<1> SUFFICES ASSUME NEW i \in 1..Len(s), FromUpstream(s, i)
             PROVE  /\ \A k \in 1..(i - 1) :
                         FromUpstream(s, k) => s[k].n < s[i].n
                    /\ \A n \in 1..(s[i].n - 1) :
                         \E k \in 1..(i - 1) : FromUpstream(s, k) /\ s[k].n = n
  BY DEF NoGapIn
<1>1. s[i].n \in 1..a /\ Len(s) \in Nat
  BY DEF Run
<1>2. \A k \in 1..(i - 1) : k \in 1..Len(s) /\ k < i
  BY <1>1
<1>3. ASSUME NEW n \in 1..(s[i].n - 1)
      PROVE  \E k \in 1..(i - 1) : FromUpstream(s, k) /\ s[k].n = n
  <2>1. PICK k \in 1..Len(s) : FromUpstream(s, k) /\ s[k].n = n
    BY <1>1 DEF Run
  <2>2. ~(i < k) /\ k # i
    BY <1>1, <2>1 DEF Run
  <2> QED
    BY <1>1, <2>1, <2>2
<1> QED
  BY <1>2, <1>3 DEF Run

-----------------------------------------------------------------------------
(* Types, hands and the meter *)

\* A task that goes on leaves the other two alone.
LEMMA GoLemma ==
  ASSUME State, NEW t \in Tasks, NEW what, NEW msg, Go(t, what, msg)
  PROVE  /\ task'[t] = what /\ hand'[t] = msg
         /\ \A u \in Tasks \ {t} : task'[u] = task[u] /\ hand'[u] = hand[u]
         /\ what \in {"next", "send", "reply", "ended"} =>
              task' \in [Tasks -> {"next", "send", "reply", "ended"}]
         /\ msg \in Messages \cup {None} => hand' \in [Tasks -> Messages \cup {None}]
  BY DEF State, TypeOK, Go

\* The two sides add to what they have sent.
LEMMA PeersKeepState ==
  ASSUME State,
         \/ \E kind \in ClientSays : ClientSends(kind)
         \/ \E kind \in UpstreamSays : UpstreamSends(kind)
         \/ \E side \in {"client", "upstream"} : Leaves(side)
  PROVE  State'
<1> USE RelayConstantsOK DEF State, TypeOK, Hands, Metered, meter, mainVars
<1>1. ASSUME NEW kind \in ClientSays, ClientSends(kind) PROVE State'
  BY <1>1 DEF ClientSends
<1>2. ASSUME NEW kind \in UpstreamSays, UpstreamSends(kind) PROVE State'
  BY <1>2 DEF UpstreamSends
<1>3. ASSUME NEW side \in {"client", "upstream"}, Leaves(side) PROVE State'
  BY <1>3 DEF Leaves
<1> QED
  BY <1>1, <1>2, <1>3

\* Nothing is sent, read, counted or booked.
Quiet ==
  /\ UNCHANGED <<clientSent, upstreamSent, gone, clientRead, upstreamRead, hsDone, received,
                 bandwidth, stopped, main, total, had, booked>>
  /\ shut' \in BOOLEAN

\* All steps of the tasks but the reads are quiet.
LEMMA QuietSteps ==
  ASSUME State,
         \/ WriterStep \/ WriterSends \/ UpstreamEnds \/ QueueForClient
         \/ ClientEnds \/ Forward \/ ForwardLost \/ Reply
  PROVE  Quiet
<1>1. shut \in BOOLEAN
  BY DEF State, TypeOK
<1>2. CASE UpstreamEnds
  <2>1. shut' \in BOOLEAN
    BY <1>2 DEF UpstreamEnds
  <2> QED
    BY <1>2, <2>1 DEF UpstreamEnds, Quiet, peers, meter, mainVars
<1>3. CASE WriterStep \/ WriterSends
  BY <1>1, <1>3 DEF WriterStep, WriterTakes, WriterSends, WriterFails, WriterEnds, Quiet, peers,
     meter, mainVars
<1>4. CASE QueueForClient \/ ClientEnds \/ Forward \/ ForwardLost \/ Reply
  BY <1>1, <1>4 DEF QueueForClient, ClientEnds, Forward, ForwardLost, Reply, Quiet, peers, meter,
     mainVars
<1> QED
  BY <1>2, <1>3, <1>4

\* A task that takes a step which neither counts nor books keeps State if the
\* message it then has in hand is one of its side.
LEMMA GoKeepsState ==
  ASSUME State, NEW t \in Tasks, NEW what, NEW msg, Go(t, what, msg),
         \/ what \in {"next", "ended"} /\ msg = None
         \/ t = "writer" /\ what = "send" /\ msg \in Messages,
         Quiet,
         channel' \in Seq(Messages) /\ Len(channel') <= Capacity,
         toClient' \in Seq(Messages), toUpstream' \in Seq(Messages)
  PROVE  State'
<1>1. TypeOK'
  BY GoLemma DEF State, TypeOK, Quiet
<1>2. Hands'
  BY GoLemma DEF State, Hands, Tasks
<1>3. Metered'
  BY DEF State, Metered, Quiet
<1> QED
  BY <1>1, <1>2, <1>3 DEF State

\* The writer.
LEMMA WriterKeepsState ==
  ASSUME State, WriterStep \/ WriterSends
  PROVE  State'
<1> USE DEF Tasks
<1>1. CASE WriterTakes
  <2>1. /\ Head(channel) \in Messages /\ Tail(channel) \in Seq(Messages)
        /\ Len(Tail(channel)) <= Capacity
    BY <1>1, HeadTailProperties, EmptySeq, RelayConstantsOK DEF WriterTakes, State, TypeOK
  <2>2. Quiet
    BY <1>1, QuietSteps DEF WriterStep
  <2>3. Go("writer", "send", Head(channel)) /\ channel' = Tail(channel)
    BY <1>1 DEF WriterTakes
  <2>4. toClient' \in Seq(Messages) /\ toUpstream' \in Seq(Messages)
    BY <1>1 DEF WriterTakes, State, TypeOK
  <2> QED
    BY <2>1, <2>2, <2>3, <2>4, GoKeepsState
<1>2. CASE WriterSends
  <2>1. Append(toClient, hand["writer"]) \in Seq(Messages)
    BY <1>2 DEF WriterSends, State, TypeOK, Hands
  <2>2. Quiet
    BY <1>2, QuietSteps
  <2>3. Go("writer", "next", None) /\ toClient' = Append(toClient, hand["writer"])
    BY <1>2 DEF WriterSends
  <2>4. channel' \in Seq(Messages) /\ Len(channel') <= Capacity /\ toUpstream' \in Seq(Messages)
    BY <1>2 DEF WriterSends, State, TypeOK
  <2> QED
    BY <2>1, <2>2, <2>3, <2>4, GoKeepsState
<1>3. CASE WriterFails
  <2>1. PICK next \in {"next", "ended"} : Go("writer", next, None)
    BY <1>3 DEF WriterFails
  <2>2. Quiet
    BY <1>3, QuietSteps DEF WriterStep
  <2>3. /\ channel' \in Seq(Messages) /\ Len(channel') <= Capacity
        /\ toClient' \in Seq(Messages) /\ toUpstream' \in Seq(Messages)
    BY <1>3 DEF WriterFails, State, TypeOK
  <2> QED
    BY <2>1, <2>2, <2>3, GoKeepsState
<1>4. CASE WriterEnds
  <2>1. <<>> \in Seq(Messages) /\ Len(<<>>) <= Capacity
    BY RelayConstantsOK
  <2>2. Quiet
    BY <1>4, QuietSteps DEF WriterStep
  <2>3. Go("writer", "ended", None) /\ channel' = <<>>
    BY <1>4 DEF WriterEnds
  <2>4. toClient' \in Seq(Messages) /\ toUpstream' \in Seq(Messages)
    BY <1>4 DEF WriterEnds, State, TypeOK
  <2> QED
    BY <2>1, <2>2, <2>3, <2>4, GoKeepsState
<1> QED
  BY <1>1, <1>2, <1>3, <1>4 DEF WriterStep

\* The readers count what they read.
LEMMA ReadersCount ==
  ASSUME State, NEW kind, Arrives(kind)
  PROVE  /\ received' \in Nat /\ bandwidth' \in Nat /\ received' = bandwidth'
         /\ received' >= received /\ bandwidth' >= bandwidth
  BY DEF State, TypeOK, Metered, Arrives, meter

\* upstream_reader.
LEMMA UpstreamKeepsState ==
  ASSUME State, UpstreamStep
  PROVE  State'
<1> USE DEF Tasks
<1>1. CASE ReadUpstream
  <2> DEFINE kind == upstreamSent[upstreamRead + 1]
             msg  == Msg("upstream", upstreamRead + 1, kind)
  <2>1. kind \in UpstreamKinds /\ upstreamRead + 1 \in 1..Len(upstreamSent)
    BY <1>1 DEF ReadUpstream, State, TypeOK
  <2>2. msg \in Messages /\ msg.from = "upstream"
    BY <2>1 DEF Msg, Messages
  <2>3. Go("upstream_reader", "send", msg) /\ Arrives(kind)
    BY <1>1 DEF ReadUpstream
  <2> HIDE DEF msg, kind
  <2>4. TypeOK'
    <3>1. shut' \in BOOLEAN
      BY <1>1 DEF ReadUpstream
    <3>2. /\ task' \in [Tasks -> {"next", "send", "reply", "ended"}]
          /\ hand' \in [Tasks -> Messages \cup {None}]
      BY <2>2, <2>3, GoLemma
    <3>3. received' \in Nat /\ bandwidth' \in Nat
      BY <2>3, ReadersCount
    <3>4. upstreamRead' \in 0..Len(upstreamSent')
      BY <1>1 DEF ReadUpstream, State, TypeOK, peers
    <3> QED
      BY <1>1, <3>1, <3>2, <3>3, <3>4 DEF ReadUpstream, State, TypeOK, peers, mainVars
  <2>5. Hands'
    BY <2>2, <2>3, GoLemma DEF State, Hands
  <2>6. Metered'
    <3>1. /\ received' = bandwidth' /\ bandwidth' >= bandwidth
          /\ bandwidth \in Nat /\ bandwidth' \in Nat /\ total \in Nat
      BY <2>3, ReadersCount DEF State, TypeOK
    <3>2. UNCHANGED <<main, total, booked>>
      BY <1>1 DEF ReadUpstream, mainVars
    <3> QED
      BY <3>1, <3>2 DEF State, Metered
  <2> QED
    BY <2>4, <2>5, <2>6 DEF State
<1>2. CASE UpstreamEnds
  <2>1. Quiet
    BY <1>2, QuietSteps
  <2>2. Go("upstream_reader", "ended", None) /\ UNCHANGED <<channel, toClient, toUpstream>>
    BY <1>2 DEF UpstreamEnds
  <2>3. /\ channel' \in Seq(Messages) /\ Len(channel') <= Capacity
        /\ toClient' \in Seq(Messages) /\ toUpstream' \in Seq(Messages)
    BY <2>2 DEF State, TypeOK
  <2> QED
    BY <2>1, <2>2, <2>3, GoKeepsState
<1>3. CASE QueueForClient
  <2>1. hand["upstream_reader"] \in Messages
    BY <1>3 DEF QueueForClient, State, Hands
  <2>2. channel' \in Seq(Messages) /\ Len(channel') <= Capacity
    BY <1>3, <2>1, RelayConstantsOK DEF QueueForClient, State, TypeOK
  <2>3. Quiet
    BY <1>3, QuietSteps
  <2>4. \E what \in {"next", "ended"} : Go("upstream_reader", what, None)
    BY <1>3 DEF QueueForClient
  <2>5. toClient' \in Seq(Messages) /\ toUpstream' \in Seq(Messages)
    BY <1>3 DEF QueueForClient, State, TypeOK
  <2> QED
    BY <2>2, <2>3, <2>4, <2>5, GoKeepsState
<1> QED
  BY <1>1, <1>2, <1>3 DEF UpstreamStep

\* What ReadClient takes into its hand, if it is not refused.
LEMMA ClientMessage ==
  ASSUME State, ReadClient
  PROVE  \E msg \in Messages, what \in {"send", "reply", "next", "ended"}, kind \in ClientKinds :
           /\ Go("client_reader", what, IF what \in {"reply", "send"} THEN msg ELSE None)
           /\ Arrives(kind)
           /\ msg.from = "client" /\ msg.kind = kind
           /\ msg.token => IsConnect(kind) /\ ~hsDone
           /\ hsDone' = (hsDone \/ (IsConnect(kind) /\ ~hsDone))
<1> DEFINE kind  == clientSent[clientRead + 1]
           token == (IsConnect(kind) /\ ~hsDone) /\ kind = "connect"
           msg   == [Msg("client", clientRead + 1, kind) EXCEPT !.token = token]
<1>1. kind \in ClientKinds /\ clientRead + 1 \in Nat
  BY DEF ReadClient, State, TypeOK
<1>2. token \in BOOLEAN
  OBVIOUS
<1>3. msg = [from |-> "client", n |-> clientRead + 1, kind |-> kind, token |-> token]
  BY DEF Msg
<1>4. msg \in Messages /\ msg.from = "client" /\ msg.kind = kind /\ msg.token = token
  BY <1>1, <1>2, <1>3 DEF Messages
<1>5. /\ Go("client_reader", Passed(kind), IF Passed(kind) \in {"reply", "send"} THEN msg ELSE None)
      /\ Arrives(kind) /\ hsDone' = (hsDone \/ (IsConnect(kind) /\ ~hsDone))
  BY DEF ReadClient
<1>6. Passed(kind) \in {"send", "reply", "next", "ended"}
  BY DEF Passed
<1> HIDE DEF msg
<1> QED
  BY <1>1, <1>4, <1>5, <1>6

\* client_reader.
LEMMA ClientKeepsState ==
  ASSUME State, ClientStep \/ Forward
  PROVE  State'
<1> USE DEF Tasks
<1>1. CASE ReadClient
  <2>1. PICK msg \in Messages, what \in {"send", "reply", "next", "ended"}, kind \in ClientKinds :
          /\ Go("client_reader", what, IF what \in {"reply", "send"} THEN msg ELSE None)
          /\ Arrives(kind) /\ msg.from = "client"
    BY <1>1, ClientMessage
  <2>2. hsDone' \in BOOLEAN
    BY <1>1 DEF ReadClient
  <2>3. TypeOK'
    <3>1. /\ task' \in [Tasks -> {"next", "send", "reply", "ended"}]
          /\ hand' \in [Tasks -> Messages \cup {None}]
      BY <2>1, GoLemma
    <3>2. received' \in Nat /\ bandwidth' \in Nat
      BY <2>1, ReadersCount
    <3>3. clientRead' \in 0..Len(clientSent')
      BY <1>1 DEF ReadClient, State, TypeOK, peers
    <3> QED
      BY <1>1, <2>2, <3>1, <3>2, <3>3 DEF ReadClient, State, TypeOK, peers, mainVars
  <2>4. Hands'
    BY <2>1, GoLemma DEF State, Hands
  <2>5. Metered'
    <3>1. /\ received' = bandwidth' /\ bandwidth' >= bandwidth
          /\ bandwidth \in Nat /\ bandwidth' \in Nat /\ total \in Nat
      BY <2>1, ReadersCount DEF State, TypeOK
    <3>2. UNCHANGED <<main, total, booked>>
      BY <1>1 DEF ReadClient, mainVars
    <3> QED
      BY <3>1, <3>2 DEF State, Metered
  <2> QED
    BY <2>3, <2>4, <2>5 DEF State
<1>2. CASE ClientEnds
  <2>1. Quiet
    BY <1>2, QuietSteps
  <2>2. Go("client_reader", "ended", None) /\ UNCHANGED <<channel, toClient, toUpstream>>
    BY <1>2 DEF ClientEnds
  <2>3. /\ channel' \in Seq(Messages) /\ Len(channel') <= Capacity
        /\ toClient' \in Seq(Messages) /\ toUpstream' \in Seq(Messages)
    BY <2>2 DEF State, TypeOK
  <2> QED
    BY <2>1, <2>2, <2>3, GoKeepsState
<1>3. CASE Forward
  <2>1. hand["client_reader"] \in Messages
    BY <1>3 DEF Forward, State, Hands
  <2>2. toUpstream' \in Seq(Messages)
    BY <1>3, <2>1 DEF Forward, State, TypeOK
  <2>3. \E what \in {"next", "ended"} : Go("client_reader", what, None)
    BY <1>3 DEF Forward
  <2>4. Quiet
    BY <1>3, QuietSteps
  <2>5. channel' \in Seq(Messages) /\ Len(channel') <= Capacity /\ toClient' \in Seq(Messages)
    BY <1>3 DEF Forward, State, TypeOK
  <2> QED
    BY <2>2, <2>3, <2>4, <2>5, GoKeepsState
<1>4. CASE Reply
  <2>1. [hand["client_reader"] EXCEPT !.kind = "error"] \in Messages
    BY <1>4 DEF Reply, State, Hands, Messages
  <2>2. channel' \in Seq(Messages) /\ Len(channel') <= Capacity
    BY <1>4, <2>1, RelayConstantsOK DEF Reply, State, TypeOK
  <2>3. Quiet
    BY <1>4, QuietSteps
  <2>4. Go("client_reader", "next", None)
    BY <1>4 DEF Reply
  <2>5. toClient' \in Seq(Messages) /\ toUpstream' \in Seq(Messages)
    BY <1>4 DEF Reply, State, TypeOK
  <2> QED
    BY <2>2, <2>3, <2>4, <2>5, GoKeepsState
<1>5. CASE ForwardLost
  <2>1. \E what \in {"next", "ended"} : Go("client_reader", what, None)
    BY <1>5 DEF ForwardLost
  <2>2. Quiet
    BY <1>5, QuietSteps
  <2>3. /\ channel' \in Seq(Messages) /\ Len(channel') <= Capacity
        /\ toClient' \in Seq(Messages) /\ toUpstream' \in Seq(Messages)
    BY <1>5 DEF ForwardLost, State, TypeOK
  <2> QED
    BY <2>1, <2>2, <2>3, GoKeepsState
<1> QED
  BY <1>1, <1>2, <1>3, <1>4, <1>5 DEF ClientStep

\* The bytes in a sequence of messages.
Load(s) == Cardinality(Weighed(s))

\* The load of a sequence is a number.
LEMMA LoadType ==
  ASSUME NEW s \in Seq(Messages)
  PROVE  IsFiniteSet(Weighed(s)) /\ Load(s) \in Nat
<1>1. IsFiniteSet(1..Len(s))
  BY FS_Interval
<1>2. IsFiniteSet(Weighed(s))
  BY <1>1, FS_Subset DEF Weighed
<1> QED
  BY <1>2, FS_CardinalityType DEF Load

\* What is delivered is a number.
LEMMA DeliveredType == State => Delivered \in Nat
  BY LoadType DEF State, TypeOK, Delivered, Load

\* Every step keeps State.
LEMMA StepState == State /\ [Next]_vars => State'
<1> SUFFICES ASSUME State, [Next]_vars PROVE State'
  OBVIOUS
<1>1. CASE UNCHANGED vars
  BY <1>1 DEF vars, State, TypeOK, Hands, Metered, meter, mainVars, peers
<1>2. CASE Select
  BY <1>2 DEF Select, State, TypeOK, Hands, Metered, meter, peers
<1>3. CASE Book
  BY <1>3 DEF Book, State, TypeOK, Hands, Metered, meter, peers
<1>4. CASE LoadTotal
  <2>1. Delivered \in Nat
    BY DeliveredType
  <2>2. bandwidth \in Nat /\ (bandwidth > 0 => bandwidth \in 1..bandwidth)
    BY DEF State, TypeOK
  <2> QED
    BY <1>4, <2>1, <2>2 DEF LoadTotal, State, TypeOK, Hands, Metered, meter, peers
<1> QED
  BY <1>1, <1>2, <1>3, <1>4, PeersKeepState, WriterKeepsState, UpstreamKeepsState, ClientKeepsState DEF Next

\* At first nothing is sent, in hand or counted.
LEMMA InitState == Init => State
<1> SUFFICES ASSUME Init PROVE State
  OBVIOUS
<1>1. \A S : <<>> \in Seq(S)
  OBVIOUS
<1>2. Len(channel) = 0 /\ Len(clientSent) = 0 /\ Len(upstreamSent) = 0
  BY DEF Init
<1>3. task \in [Tasks -> {"next", "send", "reply", "ended"}] /\ hand \in [Tasks -> Messages \cup {None}]
  BY DEF Init
<1>4. TypeOK
  <2>1. /\ clientSent \in Seq(ClientKinds) /\ upstreamSent \in Seq(UpstreamKinds)
        /\ channel \in Seq(Messages) /\ toClient \in Seq(Messages) /\ toUpstream \in Seq(Messages)
    BY <1>1 DEF Init
  <2>2. /\ clientRead \in 0..Len(clientSent) /\ upstreamRead \in 0..Len(upstreamSent)
        /\ Len(channel) <= Capacity
    BY <1>2, RelayConstantsOK DEF Init
  <2>3. /\ gone \subseteq {"client", "upstream"}
        /\ shut \in BOOLEAN /\ hsDone \in BOOLEAN /\ stopped \in BOOLEAN
        /\ received \in Nat /\ bandwidth \in Nat /\ total \in Nat /\ had \in Nat
        /\ main \in {"select", "load", "book", "done", "failed"} /\ booked \in Nat \cup {None}
    BY DEF Init
  <2> QED
    BY <1>3, <2>1, <2>2, <2>3 DEF TypeOK
<1> QED
  BY <1>4 DEF Init, State, Hands, Metered, Tasks

-----------------------------------------------------------------------------
(* The token *)

\* Steps of other tasks do not touch what TokenOnce is about.
LEMMA OthersKeepToken ==
  ASSUME TokenOnce, UNCHANGED <<toUpstream, hsDone>>,
         task'["client_reader"] = "send" =>
           task["client_reader"] = "send" /\ hand'["client_reader"] = hand["client_reader"]
  PROVE  TokenOnce'
  BY DEF TokenOnce, NoConnect, TokenInFirstConnect

\* A message that is forwarded goes behind what has been.
LEMMA ForwardKeepsToken ==
  ASSUME State, TokenOnce, Forward
  PROVE  TokenOnce'
<1> DEFINE msg == hand["client_reader"]
<1>1. task'["client_reader"] # "send" /\ hsDone' = hsDone
  BY GoLemma DEF Forward, Tasks
<1>2. CASE toUpstream' = toUpstream
  BY <1>1, <1>2, OthersKeepToken
<1>3. CASE toUpstream' = Append(toUpstream, msg)
  <2>1. /\ Len(toUpstream) \in Nat /\ Len(toUpstream') = Len(toUpstream) + 1
        /\ \A i \in 1..Len(toUpstream) : toUpstream'[i] = toUpstream[i]
        /\ toUpstream'[Len(toUpstream) + 1] = msg
    BY <1>3 DEF State, TypeOK
  <2>2. task["client_reader"] = "send"
    BY DEF Forward
  <2>3. (~hsDone => NoConnect)'
    BY <1>1, <2>1, <2>2 DEF TokenOnce, NoConnect
  <2>4. TokenInFirstConnect'
    <3> SUFFICES ASSUME NEW i \in 1..Len(toUpstream'), toUpstream'[i].token,
                        NEW j \in 1..(i - 1)
                 PROVE  ~IsConnect(toUpstream'[j].kind)
      BY DEF TokenInFirstConnect
    <3>1. j \in 1..Len(toUpstream) /\ j < i
      BY <2>1
    <3>2. CASE i \in 1..Len(toUpstream)
      BY <2>1, <3>1, <3>2 DEF TokenOnce, TokenInFirstConnect
    <3>3. CASE i = Len(toUpstream) + 1
      BY <2>1, <2>2, <3>1, <3>3 DEF TokenOnce, NoConnect
    <3> QED
      BY <2>1, <3>2, <3>3
  <2> QED
    BY <1>1, <2>3, <2>4 DEF TokenOnce
<1> QED
  BY <1>2, <1>3 DEF Forward

\* The first connect finds the flag down, and with it no connect sent.
LEMMA ReadClientKeepsToken ==
  ASSUME State, TokenOnce, ReadClient
  PROVE  TokenOnce'
<1>1. PICK msg \in Messages, what \in {"send", "reply", "next", "ended"}, kind \in ClientKinds :
        /\ Go("client_reader", what, IF what \in {"reply", "send"} THEN msg ELSE None)
        /\ msg.kind = kind
        /\ msg.token => IsConnect(kind) /\ ~hsDone
        /\ hsDone' = (hsDone \/ (IsConnect(kind) /\ ~hsDone))
  BY ClientMessage
<1>2. /\ task'["client_reader"] = "send" => hand'["client_reader"] = msg
      /\ UNCHANGED toUpstream
  BY <1>1, GoLemma DEF ReadClient, Tasks
<1>3. ~hsDone' => ~hsDone /\ ~IsConnect(kind)
  BY <1>1
<1>4. TokenInFirstConnect' /\ NoConnect' = NoConnect
  BY <1>2 DEF TokenOnce, TokenInFirstConnect, NoConnect
<1> QED
  BY <1>1, <1>2, <1>3, <1>4 DEF TokenOnce

\* Every step keeps TokenOnce: only the client's reader touches what it is about.
LEMMA StepToken == State /\ TokenOnce /\ [Next]_vars => TokenOnce'
<1> SUFFICES ASSUME State, TokenOnce, [Next]_vars PROVE TokenOnce'
  OBVIOUS
<1>1. CASE UNCHANGED vars
  BY <1>1, OthersKeepToken DEF vars
<1>2. CASE Forward
  BY <1>2, ForwardKeepsToken
<1>3. CASE ReadClient
  BY <1>3, ReadClientKeepsToken
<1>4. CASE ClientEnds \/ ForwardLost \/ Reply
  BY <1>4, GoLemma, OthersKeepToken DEF ClientEnds, ForwardLost, Reply, Tasks
<1>5. CASE WriterStep \/ WriterSends
  BY <1>5, GoLemma, OthersKeepToken
     DEF WriterStep, WriterTakes, WriterSends, WriterFails, WriterEnds, Tasks
<1>6. CASE UpstreamStep
  BY <1>6, GoLemma, OthersKeepToken
     DEF UpstreamStep, ReadUpstream, UpstreamEnds, QueueForClient, Tasks
<1>7. CASE Select \/ LoadTotal \/ Book
  BY <1>7, OthersKeepToken DEF Select, LoadTotal, Book
<1>8. ASSUME \/ \E kind \in ClientSays : ClientSends(kind)
             \/ \E kind \in UpstreamSays : UpstreamSends(kind)
             \/ \E side \in {"client", "upstream"} : Leaves(side)
      PROVE  TokenOnce'
  BY <1>8, OthersKeepToken DEF ClientSends, UpstreamSends, Leaves
<1> QED
  BY <1>1, <1>2, <1>3, <1>4, <1>5, <1>6, <1>7, <1>8 DEF Next, ClientStep

-----------------------------------------------------------------------------
(* The line of messages from upstream to the client *)

\* The number of the last message that has left the channel.
Taken(a) == IF Carries THEN a + 1 ELSE a

\* Steps that leave the line and its tasks where they are.
LEMMA LineStays ==
  ASSUME UNCHANGED <<toClient, channel, upstreamRead>>, gone \subseteq gone', Pipeline,
         \A t \in {"writer", "upstream_reader"} : UNCHANGED <<task[t], hand[t]>>
  PROVE  Pipeline'
<1>1. Carries' = Carries
  BY DEF Carries
<1>2. \A a, c \in Nat : Line(a, c) => Line(a, c)'
  BY <1>1 DEF Line, Run, FromUpstream
<1> QED
  BY <1>2 DEF Pipeline

\* The writer takes the next message out of the channel.
LEMMA TakeKeepsPipeline ==
  ASSUME State, Pipeline, WriterTakes
  PROVE  Pipeline'
<1> SUFFICES ASSUME "client" \notin gone PROVE \E a, c \in Nat : Line(a, c)'
  BY DEF Pipeline, WriterTakes, peers
<1>1. PICK a, c \in Nat : Line(a, c)
  BY DEF Pipeline, WriterTakes
<1>2. /\ task'["writer"] = "send" /\ hand'["writer"] = Head(channel)
      /\ UNCHANGED <<task["upstream_reader"], hand["upstream_reader"]>>
      /\ channel' = Tail(channel)
      /\ UNCHANGED <<toClient, upstreamRead>>
  BY GoLemma DEF WriterTakes, Tasks
<1>3. ~Carries /\ Run(channel, a, c) /\ a <= c /\ channel \in Seq(Messages) /\ channel # <<>>
  BY <1>1 DEF Carries, Line, WriterTakes, State, TypeOK
<1>4. Carries' <=> Head(channel).from = "upstream"
  BY <1>2 DEF Carries
<1>5. Run(toClient, 0, a)'
  BY <1>1, <1>2 DEF Line, Run, FromUpstream
<1>6. CASE Head(channel).from = "upstream"
  <2>1. Head(channel).n = a + 1 /\ a + 1 <= c /\ Run(Tail(channel), a + 1, c)
    BY <1>3, <1>6, RunTail
  <2>2. Run(channel, a + 1, c)'
    BY <1>2, <2>1 DEF Run, FromUpstream
  <2> QED
    BY <1>1, <1>2, <1>4, <1>5, <1>6, <2>1, <2>2 DEF Line
<1>7. CASE Head(channel).from # "upstream"
  <2>1. Run(Tail(channel), a, c)
    BY <1>3, <1>7, RunTail
  <2>2. Run(channel, a, c)'
    BY <1>2, <2>1 DEF Run, FromUpstream
  <2> QED
    BY <1>1, <1>2, <1>3, <1>4, <1>5, <1>7, <2>2 DEF Line
<1> QED
  BY <1>6, <1>7

\* The writer hands it to the client.
LEMMA SendKeepsPipeline ==
  ASSUME State, Pipeline, WriterSends
  PROVE  \E a, c \in Nat : Line(a, c)'
<1> DEFINE msg == hand["writer"]
<1>1. PICK a, c \in Nat : Line(a, c)
  BY DEF Pipeline, WriterSends
<1>2. /\ task'["writer"] = "next"
      /\ UNCHANGED <<task["upstream_reader"], hand["upstream_reader"]>>
      /\ toClient' = Append(toClient, msg)
      /\ UNCHANGED <<channel, upstreamRead>>
  BY GoLemma DEF WriterSends, Tasks
<1>3. msg \in Messages /\ toClient \in Seq(Messages) /\ ~Carries'
  BY <1>2 DEF WriterSends, State, Hands, TypeOK, Carries
<1>4. CASE msg.from = "upstream"
  <2>1. Carries /\ msg.n = a + 1 /\ Run(channel, a + 1, c) /\ a + 1 <= c /\ Run(toClient, 0, a)
    BY <1>1, <1>4 DEF Carries, Line, WriterSends
  <2>2. Run(Append(toClient, msg), 0, a + 1)
    <3> HIDE DEF msg
    <3>1. 0 <= a /\ a \in Nat /\ 0 \in Nat
      OBVIOUS
    <3> QED
      BY <1>3, <1>4, <2>1, <3>1, RunAppend
  <2>3. Run(toClient, 0, a + 1)' /\ Run(channel, a + 1, c)'
    <3>1. Run(toClient, 0, a + 1)'
      BY <1>2, <2>2 DEF Run, FromUpstream
    <3>2. Run(channel, a + 1, c)'
      BY <1>2, <2>1 DEF Run, FromUpstream
    <3> QED
      BY <3>1, <3>2
  <2>4. Line(a + 1, c)'
    BY <1>1, <1>2, <1>3, <2>1, <2>3 DEF Line
  <2> QED
    BY <2>4
<1>5. CASE msg.from # "upstream"
  <2>1. ~Carries /\ Run(channel, a, c) /\ a <= c /\ Run(toClient, 0, a)
    BY <1>1, <1>5 DEF Carries, Line
  <2>2. Run(Append(toClient, msg), 0, a)
    BY <1>3, <1>5, <2>1, RunAppend
  <2>3. Run(toClient, 0, a)' /\ Run(channel, a, c)'
    BY <1>2, <2>1, <2>2 DEF Run, FromUpstream
  <2>4. Line(a, c)'
    BY <1>1, <1>2, <1>3, <2>1, <2>3 DEF Line
  <2> QED
    BY <2>4
<1> QED
  BY <1>4, <1>5

\* A writer that has failed or ended delivers nothing more.
LEMMA WriterStopsPipeline ==
  ASSUME State, WriterFails \/ WriterEnds
  PROVE  Pipeline'
<1>1. CASE WriterFails
  BY <1>1 DEF WriterFails, Pipeline, peers
<1>2. CASE WriterEnds
  <2>1. task'["writer"] = "ended"
    BY <1>2, GoLemma DEF WriterEnds, Tasks
  <2> QED
    BY <2>1 DEF Pipeline
<1> QED
  BY <1>1, <1>2

\* The reader takes the next message from upstream.
LEMMA ReadKeepsPipeline ==
  ASSUME State, Pipeline, ReadUpstream
  PROVE  Pipeline'
<1> DEFINE msg == Msg("upstream", upstreamRead + 1, upstreamSent[upstreamRead + 1])
<1>1. Go("upstream_reader", "send", msg)
  BY DEF ReadUpstream
<1>2. msg.n = upstreamRead + 1
  BY DEF Msg
<1> HIDE DEF msg
<1>3. /\ task["upstream_reader"] # "send"
      /\ task'["upstream_reader"] = "send" /\ hand'["upstream_reader"] = msg
      /\ UNCHANGED <<task["writer"], hand["writer"]>>
      /\ UNCHANGED <<gone, toClient, channel>> /\ upstreamRead' = upstreamRead + 1
  BY <1>1, GoLemma DEF ReadUpstream, Tasks, peers
<1>4. Carries' = Carries
  BY <1>3 DEF Carries
<1>5. \A a, c \in Nat : Line(a, c) => Line(a, c)'
  BY <1>2, <1>3, <1>4 DEF Line, Run, FromUpstream
<1> QED
  BY <1>3, <1>5 DEF Pipeline

\* A message that is put into the channel, by either reader.
LEMMA QueueKeepsPipeline ==
  ASSUME State, Pipeline, QueueForClient \/ Reply
  PROVE  Pipeline'
<1> SUFFICES ASSUME "client" \notin gone, task'["writer"] # "ended"
             PROVE  \E a, c \in Nat : Line(a, c)'
  BY DEF Pipeline, QueueForClient, Reply, peers
<1>1. UNCHANGED <<task["writer"], hand["writer"], toClient, upstreamRead>>
  BY GoLemma DEF QueueForClient, Reply, Tasks
<1>2. PICK a, c \in Nat : Line(a, c)
  BY <1>1 DEF Pipeline
<1>3. Carries' = Carries /\ Taken(a) \in Nat /\ Taken(a) <= c /\ Run(channel, Taken(a), c)
  BY <1>1, <1>2 DEF Carries, Taken, Line
<1>4. Run(toClient, 0, a)' /\ channel \in Seq(Messages)
  BY <1>1, <1>2 DEF Line, Run, FromUpstream, State, TypeOK
<1>5. CASE QueueForClient
  <2> DEFINE msg == hand["upstream_reader"]
  <2>1. /\ msg \in Messages /\ msg.from = "upstream" /\ msg.n = c + 1 /\ upstreamRead = c + 1
        /\ channel' = Append(channel, msg)
    BY <1>1, <1>2, <1>5 DEF QueueForClient, State, Hands, RxClosed, Line
  <2>2. task'["upstream_reader"] # "send"
    BY <1>5, GoLemma DEF QueueForClient, Tasks
  <2>3. Run(Append(channel, msg), Taken(a), c + 1)
    BY <1>3, <1>4, <2>1, RunAppend
  <2>4. Run(channel, Taken(a), c + 1)'
    BY <1>3, <2>1, <2>3 DEF Run, FromUpstream, Taken
  <2>5. Line(a, c + 1)'
    BY <1>1, <1>2, <1>3, <1>4, <2>1, <2>2, <2>4 DEF Line, Taken
  <2> QED
    BY <2>5
<1>6. CASE Reply
  <2> DEFINE msg == [hand["client_reader"] EXCEPT !.kind = "error"]
  <2>1. /\ msg \in Messages /\ msg.from # "upstream"
    BY <1>6 DEF Reply, State, Hands, Messages
  <2>2. channel' = Append(channel, msg)
    BY <1>1, <1>6 DEF Reply, RxClosed
  <2> HIDE DEF msg
  <2>3. UNCHANGED <<task["upstream_reader"], hand["upstream_reader"]>>
    BY <1>6, GoLemma DEF Reply, Tasks
  <2>4. Run(Append(channel, msg), Taken(a), c)
    BY <1>3, <1>4, <2>1, RunAppend
  <2>5. Run(channel, Taken(a), c)'
    BY <1>3, <2>2, <2>4 DEF Run, FromUpstream, Taken
  <2>6. Line(a, c)'
    BY <1>1, <1>2, <1>3, <1>4, <2>3, <2>5 DEF Line, Taken
  <2> QED
    BY <2>6
<1> QED
  BY <1>5, <1>6

\* Every step keeps the line, or ends it for good.
LEMMA StepPipeline == State /\ Pipeline /\ [Next]_vars => Pipeline'
<1> SUFFICES ASSUME State, Pipeline, [Next]_vars PROVE Pipeline'
  OBVIOUS
<1>1. CASE UNCHANGED vars
  BY <1>1, LineStays DEF vars
<1>2. CASE WriterStep \/ WriterSends
  BY <1>2, TakeKeepsPipeline, SendKeepsPipeline, WriterStopsPipeline DEF WriterStep, Pipeline
<1>3. CASE ReadUpstream \/ QueueForClient \/ Reply
  BY <1>3, ReadKeepsPipeline, QueueKeepsPipeline
<1>4. CASE UpstreamEnds
  <2>1. /\ UNCHANGED <<toClient, channel, upstreamRead, gone, task["writer"], hand["writer"]>>
        /\ task["upstream_reader"] # "send" /\ task'["upstream_reader"] # "send"
    BY <1>4, GoLemma DEF UpstreamEnds, Tasks, peers
  <2>2. Carries' = Carries
    BY <2>1 DEF Carries
  <2>3. \A a, c \in Nat : Line(a, c) => Line(a, c)'
    BY <2>1, <2>2 DEF Line, Run, FromUpstream
  <2> QED
    BY <2>1, <2>3 DEF Pipeline
<1>5. CASE ReadClient \/ ClientEnds \/ Forward \/ ForwardLost
  <2>1. \A t \in {"writer", "upstream_reader"} : UNCHANGED <<task[t], hand[t]>>
    BY <1>5, GoLemma DEF ReadClient, ClientEnds, Forward, ForwardLost, Tasks
  <2> QED
    BY <1>5, <2>1, LineStays DEF ReadClient, ClientEnds, Forward, ForwardLost, peers
<1>6. CASE Select \/ LoadTotal \/ Book
  BY <1>6, LineStays DEF Select, LoadTotal, Book, peers
<1>7. ASSUME \/ \E kind \in ClientSays : ClientSends(kind)
             \/ \E kind \in UpstreamSays : UpstreamSends(kind)
             \/ \E side \in {"client", "upstream"} : Leaves(side)
      PROVE  Pipeline'
  BY <1>7, LineStays DEF ClientSends, UpstreamSends, Leaves
<1> QED
  BY <1>1, <1>2, <1>3, <1>4, <1>5, <1>6, <1>7 DEF Next, UpstreamStep, ClientStep

\* Only the writer delivers, and only from a line without a gap.
LEMMA StepNoGap == State /\ State' /\ Pipeline /\ NoGap /\ [Next]_vars => NoGap'
<1> SUFFICES ASSUME State, State', Pipeline, NoGap, [Next]_vars PROVE NoGap'
  OBVIOUS
<1>1. CASE WriterSends
  <2>1. PICK a, c \in Nat : Line(a, c)'
    BY <1>1, SendKeepsPipeline
  <2>2. Run(toClient', 0, a) /\ toClient' \in Seq(Messages)
    BY <2>1 DEF Line, State, TypeOK, Run, FromUpstream
  <2>3. NoGapIn(toClient')
    BY <2>2, RunHasNoGap
  <2> QED
    BY <2>3 DEF NoGap, NoGapIn, FromUpstream
<1>2. CASE UNCHANGED toClient
  <2>1. NoGapIn(toClient)
    BY DEF NoGap, NoGapIn, FromUpstream
  <2>2. NoGapIn(toClient')
    BY <1>2, <2>1
  <2> QED
    BY <2>2 DEF NoGap, NoGapIn, FromUpstream
<1> QED
  BY <1>1, <1>2 DEF Next, vars, WriterStep, UpstreamStep, ClientStep, ClientSends, UpstreamSends,
     Leaves, WriterTakes, WriterFails, WriterEnds, ReadUpstream, UpstreamEnds, QueueForClient,
     ReadClient, ClientEnds, Forward, ForwardLost, Reply, Select, LoadTotal, Book

-----------------------------------------------------------------------------
(* What is delivered was counted *)

Weight(msg) == IF Weighs(msg) THEN 1 ELSE 0
InHand(t) == IF task[t] \in {"send", "reply"} THEN Weight(hand[t]) ELSE 0

\* A byte that was counted is with its receiver, in the channel, in one hand, or lost:
\* it is in one of these places at most.
OnTheWay ==
  Load(channel) + InHand("writer") + InHand("upstream_reader") + InHand("client_reader")
DeliveredWasCounted == Delivered + OnTheWay <= bandwidth

\* An empty sequence has no load.
LEMMA LoadEmpty == Load(<<>>) = 0
<1>1. Weighed(<<>>) = {}
  BY DEF Weighed
<1> QED
  BY <1>1, FS_EmptySet DEF Load

\* A message that is put at the end adds its weight.
LEMMA LoadAppend ==
  ASSUME NEW s \in Seq(Messages), NEW m \in Messages
  PROVE  Load(Append(s, m)) = Load(s) + Weight(m)
<1> DEFINE t == Append(s, m)
           n == Len(s) + 1
<1>1. /\ Len(t) = n /\ Len(s) \in Nat
      /\ \A i \in 1..Len(s) : t[i] = s[i]
      /\ t[n] = m
  OBVIOUS
<1>2. \A i : i \in 1..Len(t) <=> i \in 1..Len(s) \/ i = n
  BY <1>1
<1>3. n \notin Weighed(s)
  BY <1>1 DEF Weighed
<1> HIDE DEF t
<1>4. CASE Weighs(m)
  <2>1. Weighed(t) = Weighed(s) \cup {n}
    BY <1>1, <1>2, <1>4 DEF Weighed
  <2> QED
    BY <1>3, <1>4, <2>1, LoadType, FS_AddElement DEF Load, Weight, t
<1>5. CASE ~Weighs(m)
  <2>1. Weighed(t) = Weighed(s)
    BY <1>1, <1>2, <1>5 DEF Weighed
  <2> QED
    BY <1>5, <2>1, LoadType DEF Load, Weight, t
<1> QED
  BY <1>4, <1>5

\* A message that is put at the end, or not, adds its weight at most.
LEMMA LoadGrows ==
  ASSUME NEW s \in Seq(Messages), NEW m \in Messages, NEW t \in {s, Append(s, m)}
  PROVE  Load(t) <= Load(s) + Weight(m)
<1>1. Load(s) \in Nat /\ Load(Append(s, m)) = Load(s) + Weight(m)
  BY LoadType, LoadAppend
<1>2. Weight(m) \in {0, 1}
  BY DEF Weight
<1>3. CASE t = s
  BY <1>1, <1>2, <1>3
<1>4. CASE t = Append(s, m)
  BY <1>1, <1>2, <1>4
<1> QED
  BY <1>3, <1>4

\* A message that is taken from the front takes its weight with it.
LEMMA LoadTail ==
  ASSUME NEW s \in Seq(Messages), s # <<>>
  PROVE  Load(Tail(s)) + Weight(Head(s)) <= Load(s)
<1> DEFINE t == Tail(s)
           shift == [i \in Weighed(t) |-> i + 1]
<1>1. /\ Len(s) \in Nat /\ Len(s) >= 1 /\ Len(t) = Len(s) - 1
      /\ \A i \in 1..Len(t) : t[i] = s[i + 1]
      /\ Head(s) = s[1] /\ t \in Seq(Messages)
  BY HeadTailProperties, EmptySeq
<1>2. \A i \in Weighed(t) : i \in Nat /\ i + 1 \in Weighed(s) \ {1}
  BY <1>1 DEF Weighed
<1>3. shift \in Injection(Weighed(t), Weighed(s) \ {1})
  <2>1. shift \in [Weighed(t) -> Weighed(s) \ {1}]
    BY <1>2
  <2>2. \A i, k \in Weighed(t) : shift[i] = shift[k] => i = k
    BY <1>2
  <2> QED
    BY <2>1, <2>2 DEF Injection, IsInjective
<1>4. IsFiniteSet(Weighed(s)) /\ Load(s) \in Nat
  BY LoadType
<1>5. /\ IsFiniteSet(Weighed(s) \ {1})
      /\ Cardinality(Weighed(s) \ {1}) = IF 1 \in Weighed(s) THEN Load(s) - 1 ELSE Load(s)
  BY <1>4, FS_RemoveElement DEF Load
<1>6. Load(t) <= Cardinality(Weighed(s) \ {1})
  BY <1>3, <1>5, FS_Injection DEF Load
<1>7. 1 \in Weighed(s) <=> Weighs(Head(s))
  BY <1>1 DEF Weighed
<1>8. Load(t) \in Nat
  BY <1>1, LoadType
<1> QED
  BY <1>4, <1>5, <1>6, <1>7, <1>8 DEF Weight

\* The places are numbers.
LEMMA PlacesType ==
  ASSUME State
  PROVE  /\ Load(channel) \in Nat /\ Load(toClient) \in Nat /\ Load(toUpstream) \in Nat
         /\ \A t \in Tasks : InHand(t) \in {0, 1}
         /\ Delivered = Load(toClient) + Load(toUpstream)
  BY LoadType DEF State, TypeOK, InHand, Weight, Delivered, Load

\* And so they are after the step.
LEMMA PlacesAgain ==
  ASSUME State'
  PROVE  /\ Load(channel)' \in Nat /\ Load(toClient)' \in Nat /\ Load(toUpstream)' \in Nat
         /\ Delivered' = Load(toClient)' + Load(toUpstream)'
<1>1. channel' \in Seq(Messages) /\ toClient' \in Seq(Messages) /\ toUpstream' \in Seq(Messages)
  BY DEF State, TypeOK
<1>2. Load(channel') \in Nat /\ Load(toClient') \in Nat /\ Load(toUpstream') \in Nat
  BY <1>1, LoadType
<1> QED
  BY <1>2 DEF Delivered, Load, Weighed, Weighs

\* A task that goes on has its new message in hand.
LEMMA GoInHand ==
  ASSUME State, NEW t \in Tasks, NEW what, NEW msg, Go(t, what, msg)
  PROVE  /\ InHand(t)' = IF what \in {"send", "reply"} THEN Weight(msg) ELSE 0
         /\ \A u \in Tasks \ {t} : InHand(u)' = InHand(u)
  BY GoLemma DEF InHand, Weight

\* The writer moves a byte towards the client, or drops it.
LEMMA WriterKeepsCount ==
  ASSUME State, State', DeliveredWasCounted, WriterStep \/ WriterSends
  PROVE  DeliveredWasCounted'
<1> USE DEF Tasks
<1>1. bandwidth' = bandwidth /\ bandwidth \in Nat /\ toUpstream' = toUpstream
  BY DEF WriterStep, WriterTakes, WriterSends, WriterFails, WriterEnds, meter, State, TypeOK
<1>2. Load(toUpstream)' = Load(toUpstream)
  BY <1>1
<1>3. InHand("upstream_reader")' = InHand("upstream_reader") /\ InHand("client_reader")' = InHand("client_reader")
  BY GoInHand DEF WriterStep, WriterTakes, WriterSends, WriterFails, WriterEnds
<1>p. /\ Load(channel)' \in Nat /\ Load(toClient)' \in Nat /\ Load(toUpstream)' \in Nat
      /\ Delivered' = Load(toClient)' + Load(toUpstream)'
  BY PlacesAgain
<1>4. CASE WriterTakes
  <2>1. InHand("writer")' = Weight(Head(channel)) /\ InHand("writer") = 0
    BY <1>4, GoInHand DEF WriterTakes, InHand
  <2>2. Load(channel)' + Weight(Head(channel)) <= Load(channel)
    BY <1>4, LoadTail DEF WriterTakes, State, TypeOK
  <2>3. Load(toClient)' = Load(toClient)
    BY <1>4 DEF WriterTakes
  <2> QED
    BY <1>1, <1>2, <1>3, <1>p, <2>1, <2>2, <2>3, PlacesType
       DEF DeliveredWasCounted, OnTheWay, Weight
<1>5. CASE WriterSends
  <2>1. InHand("writer")' = 0 /\ InHand("writer") = Weight(hand["writer"])
    BY <1>5, GoInHand DEF WriterSends, InHand
  <2>2. Load(toClient)' = Load(toClient) + Weight(hand["writer"])
    BY <1>5, LoadAppend DEF WriterSends, State, Hands, TypeOK
  <2>3. Load(channel)' = Load(channel)
    BY <1>5 DEF WriterSends
  <2> QED
    BY <1>1, <1>2, <1>3, <1>p, <2>1, <2>2, <2>3, PlacesType
       DEF DeliveredWasCounted, OnTheWay
<1>6. CASE WriterFails \/ WriterEnds
  <2>1. InHand("writer")' = 0
    BY <1>6, GoInHand DEF WriterFails, WriterEnds
  <2>2. Load(channel)' <= Load(channel) /\ Load(toClient)' = Load(toClient)
    BY <1>6, LoadEmpty, PlacesType DEF WriterFails, WriterEnds
  <2> QED
    BY <1>1, <1>2, <1>3, <1>p, <2>1, <2>2, PlacesType
       DEF DeliveredWasCounted, OnTheWay
<1> QED
  BY <1>4, <1>5, <1>6 DEF WriterStep

\* upstream_reader counts a byte before it puts it into the channel.
LEMMA UpstreamKeepsCount ==
  ASSUME State, State', DeliveredWasCounted, UpstreamStep
  PROVE  DeliveredWasCounted'
<1> USE DEF Tasks
<1>1. Load(toUpstream)' = Load(toUpstream) /\ Load(toClient)' = Load(toClient)
  BY DEF UpstreamStep, ReadUpstream, UpstreamEnds, QueueForClient
<1>2. InHand("writer")' = InHand("writer") /\ InHand("client_reader")' = InHand("client_reader")
  BY GoInHand DEF UpstreamStep, ReadUpstream, UpstreamEnds, QueueForClient
<1>3. bandwidth \in Nat /\ bandwidth' \in Nat
  BY DEF State, TypeOK
<1>p. /\ Load(channel)' \in Nat /\ Load(toClient)' \in Nat /\ Load(toUpstream)' \in Nat
      /\ Delivered' = Load(toClient)' + Load(toUpstream)'
  BY PlacesAgain
<1>4. CASE ReadUpstream
  <2> DEFINE kind == upstreamSent[upstreamRead + 1]
             msg  == Msg("upstream", upstreamRead + 1, kind)
  <2>1. Go("upstream_reader", "send", msg) /\ Arrives(kind) /\ msg.kind = kind
    BY <1>4 DEF ReadUpstream, Msg
  <2> HIDE DEF msg, kind
  <2>2. InHand("upstream_reader")' = Weight(msg) /\ InHand("upstream_reader") = 0
    BY <1>4, <2>1, GoInHand DEF ReadUpstream, InHand
  <2>3. bandwidth' >= bandwidth + Weight(msg)
    BY <1>3, <2>1 DEF Arrives, meter, Weight, Weighs
  <2>4. Load(channel)' = Load(channel)
    BY <1>4 DEF ReadUpstream
  <2> QED
    BY <1>1, <1>2, <1>3, <1>p, <2>2, <2>3, <2>4, PlacesType
       DEF DeliveredWasCounted, OnTheWay, Weight
<1>5. CASE UpstreamEnds
  <2>1. /\ InHand("upstream_reader")' = 0
        /\ Load(channel)' = Load(channel) /\ bandwidth' = bandwidth
    BY <1>5, GoInHand DEF UpstreamEnds, meter
  <2> QED
    BY <1>1, <1>2, <1>3, <1>p, <2>1, PlacesType
       DEF DeliveredWasCounted, OnTheWay
<1>6. CASE QueueForClient
  <2>1. /\ InHand("upstream_reader")' = 0 /\ InHand("upstream_reader") = Weight(hand["upstream_reader"])
        /\ bandwidth' = bandwidth
    BY <1>6, GoInHand DEF QueueForClient, InHand, meter
  <2>2. /\ hand["upstream_reader"] \in Messages /\ channel \in Seq(Messages)
        /\ channel' \in {channel, Append(channel, hand["upstream_reader"])}
    BY <1>6 DEF QueueForClient, State, Hands, TypeOK
  <2>3. Load(channel)' <= Load(channel) + Weight(hand["upstream_reader"])
    BY <2>2, LoadGrows
  <2> QED
    BY <1>1, <1>2, <1>3, <1>p, <2>1, <2>3, PlacesType
       DEF DeliveredWasCounted, OnTheWay
<1> QED
  BY <1>4, <1>5, <1>6 DEF UpstreamStep

\* client_reader counts a byte before it forwards it; what it answers itself is none.
LEMMA ClientKeepsCount ==
  ASSUME State, State', DeliveredWasCounted, ClientStep \/ Forward
  PROVE  DeliveredWasCounted'
<1> USE DEF Tasks
<1>1. Load(toClient)' = Load(toClient)
  BY DEF ClientStep, ReadClient, ClientEnds, Forward, ForwardLost, Reply
<1>2. InHand("writer")' = InHand("writer") /\ InHand("upstream_reader")' = InHand("upstream_reader")
  BY GoInHand DEF ClientStep, ReadClient, ClientEnds, Forward, ForwardLost, Reply
<1>3. bandwidth \in Nat /\ bandwidth' \in Nat
  BY DEF State, TypeOK
<1>p. /\ Load(channel)' \in Nat /\ Load(toClient)' \in Nat /\ Load(toUpstream)' \in Nat
      /\ Delivered' = Load(toClient)' + Load(toUpstream)'
  BY PlacesAgain
<1>4. CASE ReadClient
  <2>1. PICK msg \in Messages, what \in {"send", "reply", "next", "ended"}, kind \in ClientKinds :
          /\ Go("client_reader", what, IF what \in {"reply", "send"} THEN msg ELSE None)
          /\ Arrives(kind) /\ msg.kind = kind
    BY <1>4, ClientMessage
  <2>2. InHand("client_reader")' \in {0, Weight(msg)} /\ InHand("client_reader") = 0
    BY <1>4, <2>1, GoInHand DEF ReadClient, InHand
  <2>3. bandwidth' >= bandwidth + Weight(msg)
    BY <1>3, <2>1 DEF Arrives, meter, Weight, Weighs
  <2>4. Load(channel)' = Load(channel) /\ Load(toUpstream)' = Load(toUpstream)
    BY <1>4 DEF ReadClient
  <2> QED
    BY <1>1, <1>2, <1>3, <1>p, <2>2, <2>3, <2>4, PlacesType
       DEF DeliveredWasCounted, OnTheWay, Weight
<1>5. CASE ClientEnds
  <2>1. /\ InHand("client_reader")' = 0 /\ bandwidth' = bandwidth
        /\ Load(channel)' = Load(channel) /\ Load(toUpstream)' = Load(toUpstream)
    BY <1>5, GoInHand DEF ClientEnds, meter
  <2> QED
    BY <1>1, <1>2, <1>3, <1>p, <2>1, PlacesType
       DEF DeliveredWasCounted, OnTheWay
<1>6. CASE Forward
  <2>1. /\ InHand("client_reader")' = 0 /\ InHand("client_reader") = Weight(hand["client_reader"])
        /\ bandwidth' = bandwidth /\ Load(channel)' = Load(channel)
    BY <1>6, GoInHand DEF Forward, InHand, meter
  <2>2. /\ hand["client_reader"] \in Messages /\ toUpstream \in Seq(Messages)
        /\ toUpstream' \in {toUpstream, Append(toUpstream, hand["client_reader"])}
    BY <1>6 DEF Forward, State, Hands, TypeOK
  <2>3. Load(toUpstream)' <= Load(toUpstream) + Weight(hand["client_reader"])
    BY <2>2, LoadGrows
  <2> QED
    BY <1>1, <1>2, <1>3, <1>p, <2>1, <2>3, PlacesType
       DEF DeliveredWasCounted, OnTheWay
<1>7. CASE Reply
  <2> DEFINE msg == [hand["client_reader"] EXCEPT !.kind = "error"]
  <2>1. /\ InHand("client_reader")' = 0 /\ bandwidth' = bandwidth
        /\ Load(toUpstream)' = Load(toUpstream)
    BY <1>7, GoInHand DEF Reply, meter
  <2>2. msg \in Messages /\ msg.kind = "error"
    BY <1>7 DEF Reply, State, Hands, Messages
  <2>3. channel' \in {channel, Append(channel, msg)} /\ channel \in Seq(Messages)
    BY <1>7 DEF Reply, State, TypeOK
  <2> HIDE DEF msg
  <2>4. Load(channel)' <= Load(channel)
    <3>1. Weight(msg) = 0
      BY <2>2 DEF Weight, Weighs
    <3>2. Load(channel)' <= Load(channel) + Weight(msg)
      BY <2>2, <2>3, LoadGrows
    <3> QED
      BY <3>1, <3>2, PlacesType
  <2> QED
    BY <1>1, <1>2, <1>3, <1>p, <2>1, <2>4, PlacesType
       DEF DeliveredWasCounted, OnTheWay
<1>8. CASE ForwardLost
  <2>1. /\ InHand("client_reader")' = 0 /\ bandwidth' = bandwidth
        /\ Load(channel)' = Load(channel) /\ Load(toUpstream)' = Load(toUpstream)
    BY <1>8, GoInHand DEF ForwardLost, meter
  <2> QED
    BY <1>1, <1>2, <1>3, <1>p, <2>1, PlacesType
       DEF DeliveredWasCounted, OnTheWay
<1> QED
  BY <1>4, <1>5, <1>6, <1>7, <1>8 DEF ClientStep

\* Every byte that is delivered was counted before it was.
LEMMA StepCount == State /\ State' /\ DeliveredWasCounted /\ [Next]_vars => DeliveredWasCounted'
<1> SUFFICES ASSUME State, State', DeliveredWasCounted, [Next]_vars PROVE DeliveredWasCounted'
  OBVIOUS
<1>1. CASE WriterStep \/ WriterSends \/ UpstreamStep \/ ClientStep \/ Forward
  BY <1>1, WriterKeepsCount, UpstreamKeepsCount, ClientKeepsCount
<1>2. CASE UNCHANGED <<toClient, toUpstream, channel, task, hand, bandwidth>>
  BY <1>2 DEF DeliveredWasCounted, OnTheWay, Delivered, InHand
<1> QED
  BY <1>1, <1>2 DEF Next, vars, ClientSends, UpstreamSends, Leaves, Select, LoadTotal, Book, meter

\* What had been delivered when the counter was read is in what was read.
Loaded == (main = "book" => had <= total) /\ BooksDelivered

\* The load finds every delivered byte counted; nothing else sets what Loaded is about.
LEMMA StepLoaded == State /\ DeliveredWasCounted /\ Loaded /\ [Next]_vars => Loaded'
<1> SUFFICES ASSUME State, DeliveredWasCounted, Loaded, [Next]_vars PROVE Loaded'
  OBVIOUS
<1>1. CASE LoadTotal
  <2>1. Delivered \in Nat /\ bandwidth \in Nat /\ Delivered <= bandwidth
    <3>1. OnTheWay \in Nat
      BY PlacesType DEF OnTheWay, Tasks
    <3>2. Delivered \in Nat
      BY DeliveredType
    <3>3. bandwidth \in Nat
      BY DEF State, TypeOK
    <3> QED
      BY <3>1, <3>2, <3>3 DEF DeliveredWasCounted
  <2>2. booked' = None /\ had' = Delivered /\ total' = bandwidth
    BY <1>1 DEF LoadTotal, State, Metered
  <2>3. main' = IF bandwidth > 0 THEN "book" ELSE "done"
    BY <1>1 DEF LoadTotal
  <2> QED
    BY <2>1, <2>2, <2>3 DEF Loaded, BooksDelivered
<1>2. CASE Book
  <2>1. had <= total /\ total \in Nat /\ booked = None /\ UNCHANGED <<total, had>>
    BY <1>2 DEF Book, Loaded, State, Metered, TypeOK
  <2>2. CASE booked' = total /\ main' = "done"
    <3>1. booked' # None
      BY <2>1, <2>2, RelayConstantsOK
    <3> QED
      BY <2>1, <2>2, <3>1 DEF Loaded, BooksDelivered
  <2>3. CASE main' = "failed"
    BY <2>3 DEF Loaded, BooksDelivered
  <2> QED
    BY <1>2, <2>2, <2>3 DEF Book
<1>3. CASE Select
  BY <1>3 DEF Select, Loaded, BooksDelivered
<1>4. CASE UNCHANGED <<main, total, had, booked>>
  BY <1>4 DEF Loaded, BooksDelivered
<1> QED
  BY <1>1, <1>2, <1>3, <1>4 DEF Next, vars, ClientSends, UpstreamSends, Leaves, WriterStep,
     UpstreamStep, ClientStep, WriterTakes, WriterSends, WriterFails, WriterEnds, ReadUpstream,
     UpstreamEnds, QueueForClient, ReadClient, ClientEnds, Forward, ForwardLost, Reply, mainVars

-----------------------------------------------------------------------------
(* The theorems *)

IInv == State /\ TokenOnce /\ Pipeline /\ NoGap /\ DeliveredWasCounted /\ Loaded

\* The inductive invariant holds at first.
LEMMA InitIInv == Init => IInv
<1> SUFFICES ASSUME Init PROVE IInv
  OBVIOUS
<1>1. Len(toClient) = 0 /\ Len(channel) = 0 /\ Len(toUpstream) = 0
  BY DEF Init
<1>2. TokenOnce /\ NoGap
  BY <1>1 DEF Init, TokenOnce, NoConnect, TokenInFirstConnect, NoGap, Tasks
<1>3. Run(toClient, 0, 0) /\ Run(channel, 0, 0) /\ ~Carries
  BY <1>1 DEF Run, Carries, Init, Tasks
<1>4. Line(0, 0)
  BY <1>3 DEF Line, Init, Tasks
<1>5. Load(toClient) = 0 /\ Load(toUpstream) = 0 /\ Load(channel) = 0
  BY LoadEmpty DEF Init
<1>6. DeliveredWasCounted
  BY <1>5, InitState, PlacesType DEF DeliveredWasCounted, OnTheWay, InHand, Init, Tasks
<1>7. Loaded
  BY DEF Init, Loaded, BooksDelivered
<1> QED
  BY <1>2, <1>4, <1>6, <1>7, InitState DEF IInv, Pipeline

\* The inductive invariant holds in every state.
LEMMA IInvHolds == Spec => []IInv
<1>1. IInv /\ [Next]_vars => IInv'
  BY StepState, StepToken, StepPipeline, StepNoGap, StepCount, StepLoaded DEF IInv
<1> QED
  BY InitIInv, <1>1, PTL DEF Spec

\* The tasks' locals keep their types and the channel its capacity, whatever it is.
THEOREM RelayTypeCorrect == Spec => []TypeOK
<1>1. IInv => TypeOK
  BY DEF IInv, State
<1> QED
  BY <1>1, IInvHolds, PTL

\* The client gets upstream's messages in order and without a gap.
THEOREM NoGapHolds == Spec => []NoGap
<1>1. IInv => NoGap
  BY DEF IInv
<1> QED
  BY <1>1, IInvHolds, PTL

\* The token goes into the first connect and no other.
THEOREM TokenInFirstConnectHolds == Spec => []TokenInFirstConnect
<1>1. IInv => TokenInFirstConnect
  BY DEF IInv, TokenOnce
<1> QED
  BY <1>1, IInvHolds, PTL

\* What had been delivered when the counter was read, whichever task ended first and
\* whatever the others still had in hand, is booked, unless the write fails.
THEOREM BooksDeliveredHolds == Spec => []BooksDelivered
<1>1. IInv => BooksDelivered
  BY DEF IInv, Loaded
<1> QED
  BY <1>1, IInvHolds, PTL

\* Reading is a Carry of the session, Book is its Book, nothing else is seen of it.
LEMMA StepsAreSession ==
  ASSUME State, State', [Next]_vars
  PROVE  [Session!Carry \/ Session!Book]_<<received, bandwidth, booked>>
<1>1. CASE ReadUpstream \/ ReadClient
  <2>1. UNCHANGED booked
    BY <1>1 DEF ReadUpstream, ReadClient, mainVars
  <2>2. received' >= received /\ bandwidth' >= bandwidth
    BY <1>1, ReadersCount DEF ReadUpstream, ReadClient
  <2> QED
    BY <2>1, <2>2 DEF State, TypeOK, Metered, Session!Carry
<1>2. CASE Book
  BY <1>2 DEF Book, State, TypeOK, Metered, Session!Book, meter
<1>3. CASE UNCHANGED vars \/ Select \/ LoadTotal
  BY <1>3 DEF vars, Select, LoadTotal, meter
<1>4. CASE \/ WriterStep \/ WriterSends \/ UpstreamEnds \/ QueueForClient
           \/ ClientEnds \/ Forward \/ ForwardLost \/ Reply
  BY <1>4, QuietSteps DEF Quiet
<1>5. ASSUME \/ \E kind \in ClientSays : ClientSends(kind)
             \/ \E kind \in UpstreamSays : UpstreamSends(kind)
             \/ \E side \in {"client", "upstream"} : Leaves(side)
      PROVE  UNCHANGED <<received, bandwidth, booked>>
  BY <1>5 DEF ClientSends, UpstreamSends, Leaves, meter, mainVars
<1> QED
  BY <1>1, <1>2, <1>3, <1>4, <1>5 DEF Next, UpstreamStep, ClientStep

\* The relay implements the session: a byte is counted as it comes, the count is
\* booked once, whatever becomes of the tasks.
THEOREM SessionImplemented == Spec => ImplementsSession
<1>1. Init => Session!SessionInit
  BY DEF Init, Session!SessionInit
<1>2. IInv /\ IInv' /\ [Next]_vars => [Session!Carry \/ Session!Book]_Session!svars
  BY StepsAreSession DEF IInv, Session!svars
<1> QED
  BY <1>1, <1>2, IInvHolds, PTL DEF Spec, ImplementsSession, Session!SessionSpec

=============================================================================
