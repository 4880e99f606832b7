---------------------------- MODULE GatewayRelay ----------------------------
(***************************************************************************)
(* One WebSocket between a user's browser and the OpenClaw gateway in the  *)
(* VM (gateway_proxy.rs, ws_relay): a task that reads from upstream, one   *)
(* that reads from the client, one that writes to the client what the two  *)
(* put into a bounded channel, and the task that waits for either reader.  *)
(*                                                                         *)
(* The client's messages are JSON requests ("connect", "bare_connect",     *)
(* which has no auth object, "blocked", a method on the blocklist, "rpc",  *)
(* which also stands for binary and for text that is not JSON), "ping" and *)
(* "close"; upstream's are "data", "ping" and "close"; either side may send *)
(* a "bad" frame, one that the library cannot read.  Pong is like ping.    *)
(* Data and requests have one byte; the others are not counted.            *)
(***************************************************************************)
EXTENDS Integers, Sequences, FiniteSets

CONSTANTS
  None,
  Capacity,                \* of the channel
  MaxClient, MaxUpstream,  \* messages sent by the client and by upstream
  ClientSays, UpstreamSays \* the kinds of message each sends

ClientKinds == {"connect", "bare_connect", "blocked", "rpc", "ping", "close", "bad"}
UpstreamKinds == {"data", "ping", "close", "bad"}

ASSUME RelayConstantsOK ==
  /\ None \notin Nat
  /\ Capacity \in Nat \ {0} /\ MaxClient \in Nat /\ MaxUpstream \in Nat
  /\ ClientSays \subseteq ClientKinds /\ UpstreamSays \subseteq UpstreamKinds

VARIABLES
  clientSent,    \* the kinds of the messages the client has sent
  upstreamSent,  \* the kinds of the messages upstream has sent
  gone,          \* which of "client", "upstream" have left
  clientRead,    \* messages client_reader has taken
  upstreamRead,  \* messages upstream_reader has taken
  channel,       \* what waits for the writer
  toClient,      \* what the client has got
  toUpstream,    \* what upstream has got
  task,          \* task[t]: what each task does next, or "ended"
  hand,          \* hand[t]: the message the task is sending, or None
  shut,          \* upstream's Close or its end has been read
  hsDone,        \* handshake_done
  received,      \* bytes read from either side, for the properties
  bandwidth,     \* the atomic counter
  stopped,       \* write_task.abort() was called
  main,          \* "select", "load", "book", "done", "failed"
  total,         \* what was loaded from the counter
  had,           \* what had been delivered at that moment, for the properties
  booked         \* what add_bandwidth added, None before

vars == <<clientSent, upstreamSent, gone, clientRead, upstreamRead, channel, toClient,
          toUpstream, task, hand, shut, hsDone, received, bandwidth, stopped, main, total, had,
          booked>>

peers == <<clientSent, upstreamSent, gone>>
meter == <<received, bandwidth>>
mainVars == <<stopped, main, total, had, booked>>

\* A message in a task, in the channel or delivered: the n-th one of side from.
\* token: the gateway token was put into it.
Msg(from, n, kind) == [from |-> from, n |-> n, kind |-> kind, token |-> FALSE]

Tasks == {"writer", "upstream_reader", "client_reader"}

Init ==
  /\ clientSent = <<>> /\ upstreamSent = <<>>
  /\ gone = {}
  /\ clientRead = 0 /\ upstreamRead = 0
  /\ channel = <<>>
  /\ toClient = <<>> /\ toUpstream = <<>>
  /\ task = [t \in Tasks |-> "next"]
  /\ hand = [t \in Tasks |-> None]
  /\ shut = FALSE
  /\ hsDone = FALSE
  /\ received = 0 /\ bandwidth = 0
  /\ stopped = FALSE
  /\ main = "select"
  /\ total = 0 /\ had = 0
  /\ booked = None

Go(t, what, msg) ==
  /\ task' = [task EXCEPT ![t] = what]
  /\ hand' = [hand EXCEPT ![t] = msg]

Counted(kind) == kind \notin {"ping", "close", "bad"}

\* The message and its bytes arrive in one step: nothing is awaited in between.
Arrives(kind) ==
  IF Counted(kind) THEN received' = received + 1 /\ bandwidth' = bandwidth + 1
                   ELSE UNCHANGED meter

\* The receiver lives in the writer: without it every send on the channel fails.
RxClosed == task["writer"] = "ended"

-----------------------------------------------------------------------------
(* The two sides *)

ClientSends(kind) ==
  /\ "client" \notin gone
  /\ Len(clientSent) < MaxClient
  /\ clientSent' = Append(clientSent, kind)
  /\ UNCHANGED <<upstreamSent, gone, clientRead, upstreamRead, channel, toClient, toUpstream,
                 task, hand, shut, hsDone, meter, mainVars>>

UpstreamSends(kind) ==
  /\ "upstream" \notin gone
  /\ Len(upstreamSent) < MaxUpstream
  /\ upstreamSent' = Append(upstreamSent, kind)
  /\ UNCHANGED <<clientSent, gone, clientRead, upstreamRead, channel, toClient, toUpstream,
                 task, hand, shut, hsDone, meter, mainVars>>

\* A side closes its socket, after "close" or without; what it sent is still there.
Leaves(side) ==
  /\ side \notin gone
  /\ gone' = gone \cup {side}
  /\ UNCHANGED <<clientSent, upstreamSent, clientRead, upstreamRead, channel, toClient,
                 toUpstream, task, hand, shut, hsDone, meter, mainVars>>

-----------------------------------------------------------------------------
(* Task 1, the writer: drains the channel to the client *)

WriterTakes ==
  /\ task["writer"] = "next"
  /\ channel # <<>>
  /\ Go("writer", "send", Head(channel))
  /\ channel' = Tail(channel)
  /\ UNCHANGED <<peers, clientRead, upstreamRead, toClient, toUpstream, shut, hsDone, meter, mainVars>>

WriterSends ==
  /\ task["writer"] = "send"
  /\ "client" \notin gone
  /\ toClient' = Append(toClient, hand["writer"])
  /\ Go("writer", "next", None)
  /\ UNCHANGED <<peers, clientRead, upstreamRead, channel, toUpstream, shut, hsDone, meter, mainVars>>

\* A client that is gone: the send fails now, or the next one does.
WriterFails ==
  /\ task["writer"] = "send"
  /\ "client" \in gone
  /\ \E next \in {"next", "ended"} : Go("writer", next, None)
  /\ UNCHANGED <<peers, clientRead, upstreamRead, channel, toClient, toUpstream, shut, hsDone, meter,
                 mainVars>>

\* recv() gives None when both readers are gone, or the abort reaches the task;
\* what is still in the channel or in its hand is dropped.
WriterEnds ==
  /\ task["writer"] # "ended"
  /\ \/ stopped
     \/ /\ task["writer"] = "next" /\ channel = <<>>
        /\ task["upstream_reader"] = "ended" /\ task["client_reader"] = "ended"
  /\ Go("writer", "ended", None)
  /\ channel' = <<>>
  /\ UNCHANGED <<peers, clientRead, upstreamRead, toClient, toUpstream, shut, hsDone, meter, mainVars>>

-----------------------------------------------------------------------------
(* Task 2: upstream to the channel *)

ReadUpstream ==
  /\ task["upstream_reader"] = "next"
  /\ upstreamRead < Len(upstreamSent)
  /\ upstreamRead' = upstreamRead + 1
  /\ LET kind == upstreamSent[upstreamRead + 1]
     IN  /\ kind # "bad"
         /\ Arrives(kind)
         /\ shut' = (shut \/ kind = "close")
         /\ Go("upstream_reader", "send", Msg("upstream", upstreamRead + 1, kind))
  /\ UNCHANGED <<peers, clientRead, channel, toClient, toUpstream, hsDone, mainVars>>

\* A side is at its end, or what it sent next cannot be read.
AtEnd(side, sent, read) == side \in gone /\ read = Len(sent)
Unreadable(sent, read) == read < Len(sent) /\ sent[read + 1] = "bad"

\* The end shuts the connection for tungstenite; a bad frame only ends the task.
UpstreamEnds ==
  LET end == AtEnd("upstream", upstreamSent, upstreamRead)
  IN  /\ task["upstream_reader"] = "next"
      /\ end \/ Unreadable(upstreamSent, upstreamRead)
      /\ shut' = (shut \/ end)
      /\ Go("upstream_reader", "ended", None)
      /\ UNCHANGED <<peers, clientRead, upstreamRead, channel, toClient, toUpstream, hsDone, meter,
                     mainVars>>

\* Mutant: an unbounded channel.
QueueForClientUnbounded ==
  LET msg == hand["upstream_reader"]
  IN  /\ task["upstream_reader"] = "send"
      /\ channel' = IF RxClosed THEN channel ELSE Append(channel, msg)
      /\ Go("upstream_reader",
            IF msg.kind = "close" \/ (RxClosed /\ msg.kind = "data") THEN "ended" ELSE "next", None)
      /\ UNCHANGED <<peers, clientRead, upstreamRead, toClient, toUpstream, shut, hsDone, meter, mainVars>>

\* Mutant: try_send, a message that finds the channel full is dropped.
QueueForClientOrDrop ==
  LET msg == hand["upstream_reader"]
  IN  /\ task["upstream_reader"] = "send"
      /\ channel' = IF ~RxClosed /\ Len(channel) < Capacity THEN Append(channel, msg) ELSE channel
      /\ Go("upstream_reader",
            IF msg.kind = "close" \/ (RxClosed /\ msg.kind = "data") THEN "ended" ELSE "next", None)
      /\ UNCHANGED <<peers, clientRead, upstreamRead, toClient, toUpstream, shut, hsDone, meter, mainVars>>

\* client_tx_up.send: waits for room.  After "close" the task ends, and after an
\* error too, but for a ping.
QueueForClient ==
  LET msg == hand["upstream_reader"]
  IN  /\ task["upstream_reader"] = "send"
      /\ RxClosed \/ Len(channel) < Capacity
      /\ channel' = IF RxClosed THEN channel ELSE Append(channel, msg)
      /\ Go("upstream_reader",
            IF msg.kind = "close" \/ (RxClosed /\ msg.kind = "data") THEN "ended" ELSE "next", None)
      /\ UNCHANGED <<peers, clientRead, upstreamRead, toClient, toUpstream, shut, hsDone, meter, mainVars>>

-----------------------------------------------------------------------------
(* Task 3: client to upstream *)

IsConnect(kind) == kind \in {"connect", "bare_connect"}

\* A blocked method is answered and not forwarded.  Once upstream's end is read
\* tungstenite refuses what is sent, which ends the task, but for a ping.
Passed(kind) ==
  IF kind = "blocked" THEN "reply"
  ELSE IF ~shut THEN "send"
  ELSE IF kind = "ping" THEN "next" ELSE "ended"

\* Mutant: the flag is not set when there was nothing to put the token into.
ReadClientRetries ==
  LET kind  == clientSent[clientRead + 1]
      first == IsConnect(kind) /\ ~hsDone
      msg   == [Msg("client", clientRead + 1, kind) EXCEPT !.token = first /\ kind = "connect"]
  IN  /\ task["client_reader"] = "next"
      /\ clientRead < Len(clientSent) /\ kind # "bad"
      /\ clientRead' = clientRead + 1
      /\ Arrives(kind)
      /\ hsDone' = (hsDone \/ kind = "connect")
      /\ Go("client_reader", Passed(kind), IF Passed(kind) \in {"reply", "send"} THEN msg ELSE None)
      /\ UNCHANGED <<peers, upstreamRead, channel, toClient, toUpstream, shut, mainVars>>

\* The first connect gets the token, if it has an auth object to put it into.
\* Nothing is awaited before the message is with tungstenite, or refused by it.
ReadClient ==
  LET kind  == clientSent[clientRead + 1]
      first == IsConnect(kind) /\ ~hsDone
      msg   == [Msg("client", clientRead + 1, kind) EXCEPT !.token = first /\ kind = "connect"]
  IN  /\ task["client_reader"] = "next"
      /\ clientRead < Len(clientSent) /\ kind # "bad"
      /\ clientRead' = clientRead + 1
      /\ Arrives(kind)
      /\ hsDone' = (hsDone \/ first)
      /\ Go("client_reader", Passed(kind), IF Passed(kind) \in {"reply", "send"} THEN msg ELSE None)
      /\ UNCHANGED <<peers, upstreamRead, channel, toClient, toUpstream, shut, mainVars>>

ClientEnds ==
  /\ task["client_reader"] = "next"
  /\ AtEnd("client", clientSent, clientRead) \/ Unreadable(clientSent, clientRead)
  /\ Go("client_reader", "ended", None)
  /\ UNCHANGED <<peers, clientRead, upstreamRead, channel, toClient, toUpstream, shut, hsDone, meter,
                 mainVars>>

\* upstream_write.send, once tungstenite has the message: waits until upstream has
\* taken it.
Forward ==
  LET msg == hand["client_reader"]
  IN  /\ task["client_reader"] = "send"
      /\ "upstream" \notin gone
      /\ toUpstream' = Append(toUpstream, msg)
      /\ Go("client_reader", IF msg.kind = "close" THEN "ended" ELSE "next", None)
      /\ UNCHANGED <<peers, clientRead, upstreamRead, channel, toClient, shut, hsDone, meter, mainVars>>

\* To an upstream that is gone the send fails, and ends the task (but for a ping),
\* or the message goes into the socket and nowhere.
ForwardLost ==
  LET kind == hand["client_reader"].kind
  IN  /\ task["client_reader"] = "send"
      /\ "upstream" \in gone
      /\ \E fails \in BOOLEAN :
           Go("client_reader",
              IF kind = "close" \/ (fails /\ kind # "ping") THEN "ended" ELSE "next", None)
      /\ UNCHANGED <<peers, clientRead, upstreamRead, channel, toClient, toUpstream, shut, hsDone,
                     meter, mainVars>>

\* Mutant: the answer is put into the channel only while there is a writer.
ReplyWaitsForWriter ==
  /\ task["client_reader"] = "reply"
  /\ ~RxClosed /\ Len(channel) < Capacity
  /\ channel' = Append(channel, [hand["client_reader"] EXCEPT !.kind = "error"])
  /\ Go("client_reader", "next", None)
  /\ UNCHANGED <<peers, clientRead, upstreamRead, toClient, toUpstream, shut, hsDone, meter, mainVars>>

\* The error answer goes through the same channel; a failure is ignored.
Reply ==
  /\ task["client_reader"] = "reply"
  /\ RxClosed \/ Len(channel) < Capacity
  /\ channel' = IF RxClosed THEN channel
                ELSE Append(channel, [hand["client_reader"] EXCEPT !.kind = "error"])
  /\ Go("client_reader", "next", None)
  /\ UNCHANGED <<peers, clientRead, upstreamRead, toClient, toUpstream, shut, hsDone, meter, mainVars>>

-----------------------------------------------------------------------------
(* ws_relay itself *)

\* select!: one reader has ended.  Dropping the handle of the other does not stop
\* it; the writer is aborted.
Select ==
  /\ main = "select"
  /\ \E t \in {"upstream_reader", "client_reader"} : task[t] = "ended"
  /\ stopped' = TRUE
  /\ main' = "load"
  /\ UNCHANGED <<peers, clientRead, upstreamRead, channel, toClient, toUpstream, task, hand, shut,
                 hsDone, meter, total, had, booked>>

\* The messages in s whose bytes were counted; an error answer is the proxy's own.
Weighs(msg) == Counted(msg.kind) /\ msg.kind # "error"
Weighed(s) == {i \in 1..Len(s) : Weighs(s[i])}

Delivered == Cardinality(Weighed(toClient)) + Cardinality(Weighed(toUpstream))

\* Mutant: what came from upstream is booked, and what went there is not.
LoadAnswers ==
  /\ main = "load"
  /\ total' = upstreamRead /\ had' = Delivered
  /\ main' = IF upstreamRead > 0 THEN "book" ELSE "done"
  /\ UNCHANGED <<peers, clientRead, upstreamRead, channel, toClient, toUpstream, task, hand, shut,
                 hsDone, meter, stopped, booked>>

\* bandwidth.load: nothing is booked if nothing was counted.
LoadTotal ==
  /\ main = "load"
  /\ total' = bandwidth /\ had' = Delivered
  /\ main' = IF bandwidth > 0 THEN "book" ELSE "done"
  /\ UNCHANGED <<peers, clientRead, upstreamRead, channel, toClient, toUpstream, task, hand, shut,
                 hsDone, meter, stopped, booked>>

\* Mutant: the count is booked once more for each message that went through.
BookBoth ==
  /\ main = "book"
  /\ booked' = total + Len(toClient)
  /\ main' = "done"
  /\ UNCHANGED <<peers, clientRead, upstreamRead, channel, toClient, toUpstream, task, hand, shut,
                 hsDone, meter, stopped, total, had>>

\* `let _ = add_bandwidth`, while the reader that was not stopped goes on: whether it
\* succeeds is not looked at.
Book ==
  /\ main = "book"
  /\ \/ booked' = total /\ main' = "done"
     \/ main' = "failed" /\ UNCHANGED booked
  /\ UNCHANGED <<peers, clientRead, upstreamRead, channel, toClient, toUpstream, task, hand, shut,
                 hsDone, meter, stopped, total, had>>

Over == main \in {"done", "failed"}

WriterStep == WriterTakes \/ WriterFails \/ WriterEnds
UpstreamStep == ReadUpstream \/ UpstreamEnds \/ QueueForClient
ClientStep == ReadClient \/ ClientEnds \/ ForwardLost \/ Reply

Next ==
  \/ \E kind \in ClientSays : ClientSends(kind)
  \/ \E kind \in UpstreamSays : UpstreamSends(kind)
  \/ \E side \in {"client", "upstream"} : Leaves(side)
  \/ WriterStep \/ WriterSends
  \/ UpstreamStep
  \/ ClientStep \/ Forward
  \/ Select \/ LoadTotal \/ Book

Spec == Init /\ [][Next]_vars

\* tokio runs the tasks.  WriterSends and Forward are not fair: a side that does not
\* read keeps the task that sends to it waiting as long as it likes.
FairSpec ==
  /\ Spec
  /\ WF_vars(WriterStep) /\ WF_vars(UpstreamStep) /\ WF_vars(ClientStep)
  /\ WF_vars(Select) /\ WF_vars(LoadTotal) /\ WF_vars(Book)

-----------------------------------------------------------------------------
(* Properties *)

Messages ==
  [from : {"client", "upstream"}, n : Nat, kind : ClientKinds \cup UpstreamKinds \cup {"error"},
   token : BOOLEAN]

\* The tasks' locals keep their types, and the channel its capacity.
TypeOK ==
  /\ clientSent \in Seq(ClientKinds) /\ upstreamSent \in Seq(UpstreamKinds)
  /\ gone \subseteq {"client", "upstream"}
  /\ clientRead \in 0..Len(clientSent) /\ upstreamRead \in 0..Len(upstreamSent)
  /\ channel \in Seq(Messages) /\ Len(channel) <= Capacity
  /\ toClient \in Seq(Messages) /\ toUpstream \in Seq(Messages)
  /\ task \in [Tasks -> {"next", "send", "reply", "ended"}]
  /\ hand \in [Tasks -> Messages \cup {None}]
  /\ shut \in BOOLEAN /\ hsDone \in BOOLEAN /\ stopped \in BOOLEAN
  /\ received \in Nat /\ bandwidth \in Nat /\ total \in Nat /\ had \in Nat
  /\ main \in {"select", "load", "book", "done", "failed"}
  /\ booked \in Nat \cup {None}

\* The i-th message of s came from upstream.
FromUpstream(s, i) == i \in 1..Len(s) /\ s[i].from = "upstream"

\* The client gets what upstream sent from the first message on, in order and
\* without a gap, although the error answers of the other task go through the same
\* channel, and although the channel fills up: messages are lost at the end only.
NoGap ==
  \A i \in 1..Len(toClient) : FromUpstream(toClient, i) =>
    /\ \A k \in 1..(i - 1) : FromUpstream(toClient, k) => toClient[k].n < toClient[i].n
    /\ \A n \in 1..(toClient[i].n - 1) :
         \E k \in 1..(i - 1) : FromUpstream(toClient, k) /\ toClient[k].n = n

\* The gateway token is put into one message at most, and that is the first connect
\* upstream gets; a client whose first connect has no auth object never gets it in.
TokenInFirstConnect ==
  \A i \in 1..Len(toUpstream) :
    toUpstream[i].token => \A j \in 1..(i - 1) : ~IsConnect(toUpstream[j].kind)

\* What had been delivered when the counter was read is booked, unless the write
\* fails, ends of connections and races of the three tasks notwithstanding.  What the
\* reader that goes on delivers after that is not.
BooksDelivered ==
  main = "done" => IF booked = None THEN had = 0 ELSE had <= booked

\* A relay is a session: each byte is counted once, the count is booked once.
Session == INSTANCE MeteredSession WITH
             received <- received, counted <- bandwidth, booked <- booked

ImplementsSession == Session!SessionSpec

\* When the client leaves, the relay is over in the end, even if the channel was
\* full and every task waited for room in it: a client that does not read keeps
\* three tasks waiting on each other, and its leaving must get all of them going.
\* The one thing that can hold it up for ever is a VM that does not take a message.
RelayEnds ==
  "client" \in gone ~> Over \/ [](task["client_reader"] = "send" /\ "upstream" \notin gone)

\* "Abort remaining tasks" (gateway_proxy.rs): once that is done and the bytes are
\* booked, no message is read, and counted, any more.
QuietAfterAbort == [][Over => UNCHANGED <<clientRead, upstreamRead>>]_vars

=============================================================================
