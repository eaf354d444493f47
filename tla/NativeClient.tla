---------------------------- MODULE NativeClient ----------------------------
(***************************************************************************)
(* The loopback client inside the game process: SocketRuntime of           *)
(* native/bmf_socket/bmf_socket.cpp, with the broker it connects to.       *)
(*                                                                         *)
(* Two threads share it.  The game thread runs Lua, which starts the       *)
(* client, queues lines and takes received ones; it stops the client when  *)
(* the module is unloaded.  The worker connects, sends, receives and       *)
(* connects again.  What either does under a lock, or between two tests of *)
(* running_, is one action.  A line is its number.                         *)
(***************************************************************************)
EXTENDS Naturals, Sequences, SequencesExt

CONSTANTS
  MaxLines,     \* bound: lines Lua sends
  MaxRequests,  \* bound: lines the broker sends
  MaxBreaks,    \* bound: connections that break or are refused
  WireCap,      \* lines the kernel holds for a reader, each way
  InCap         \* the lines inbound_ keeps (4096)

ASSUME BoundsAssumption == {MaxLines, MaxRequests, MaxBreaks} \subseteq Nat /\ {WireCap, InCap} \subseteq Nat \ {0}

VARIABLES
  game,      \* the game thread: "running", "joining", "stopped", "terminated"
  running,   \* running_
  worker,    \* where worker_loop stands; "exited": it has returned and is joinable
  outbound,  \* outbound_
  batch,     \* the lines drain_outbound swapped out
  inbound,   \* inbound_
  conn,      \* the connection: "none", "up", or "broken" before the worker knows
  wire,      \* sent, not yet read by the broker
  inwire,    \* sent by the broker, not yet received
  sent,      \* lines Lua has queued
  heard,     \* the last line the broker has read
  asked,     \* lines the broker has sent
  handed,    \* the last line Lua has taken
  breaks

threadVars == <<game, running, worker>>
linkVars == <<conn, wire, inwire, breaks>>
countVars == <<sent, heard, asked, handed>>
clientVars == <<game, running, worker, outbound, batch, inbound, conn, wire, inwire, sent, heard, asked, handed, breaks>>

ClientInit ==
  /\ game = "running" /\ running = FALSE /\ worker = "none"
  /\ outbound = <<>> /\ batch = <<>> /\ inbound = <<>>
  /\ conn = "none" /\ wire = <<>> /\ inwire = <<>>
  /\ sent = 0 /\ heard = 0 /\ asked = 0 /\ handed = 0
  /\ breaks = 0

-----------------------------------------------------------------------------
(* The game thread.                                                         *)

Start ==
  /\ game = "running" /\ ~running /\ worker = "none"
  /\ running' = TRUE /\ worker' = "starting"
  /\ UNCHANGED <<game, outbound, batch, inbound, linkVars, countVars>>

\* A thread is assigned to one that was never joined: std::terminate.
StartTerminates ==
  /\ game = "running" /\ ~running /\ worker = "exited"
  /\ game' = "terminated"
  /\ UNCHANGED <<running, worker, outbound, batch, inbound, linkVars, countVars>>

SendLine ==
  /\ game = "running" /\ running /\ sent < MaxLines
  /\ sent' = sent + 1
  /\ outbound' = Append(outbound, sent')
  /\ UNCHANGED <<threadVars, batch, inbound, linkVars, heard, asked, handed>>

Receive ==
  /\ game = "running"
  /\ \E n \in 1..Len(inbound) :
       /\ handed' = inbound[n]
       /\ inbound' = SubSeq(inbound, n + 1, Len(inbound))
  /\ UNCHANGED <<threadVars, outbound, batch, linkVars, sent, heard, asked>>

\* The destructor of the module (Lua never calls BMFSocketStop): stop(), which
\* joins only a client that runs, and then the thread object, whose destruction
\* is std::terminate if the worker was never joined.
StopRuntime ==
  /\ game = "running"
  /\ running' = FALSE
  /\ game' = CASE running -> "joining"
               [] ~running /\ worker = "none" -> "stopped"
               [] ~running /\ worker # "none" -> "terminated"
  /\ UNCHANGED <<worker, outbound, batch, inbound, linkVars, countVars>>

Joined ==
  /\ game = "joining" /\ worker = "exited"
  /\ game' = "stopped" /\ worker' = "none"
  /\ UNCHANGED <<running, outbound, batch, inbound, linkVars, countVars>>

-----------------------------------------------------------------------------
(* The worker.                                                              *)

Goes(from, to) ==
  /\ worker = from /\ worker' = to
  /\ game # "terminated"
  /\ UNCHANGED <<game, countVars>>

\* WSAStartup, which may fail.
Begin == Goes("starting", "connect") /\ UNCHANGED <<running, outbound, batch, inbound, linkVars>>

StartupFails ==
  /\ Goes("starting", "exited")
  /\ running' = FALSE
  /\ UNCHANGED <<outbound, batch, inbound, linkVars>>

ConnectSucceeds ==
  /\ running /\ Goes("connect", "loop")
  /\ conn' = "up" /\ wire' = <<>> /\ inwire' = <<>>
  /\ UNCHANGED <<running, outbound, batch, inbound, breaks>>

ConnectFails ==
  /\ running /\ breaks < MaxBreaks /\ Goes("connect", "pause")
  /\ breaks' = breaks + 1
  /\ UNCHANGED <<running, outbound, batch, inbound, conn, wire, inwire>>

Return == ~running /\ Goes("connect", "exited") /\ UNCHANGED <<running, outbound, batch, inbound, linkVars>>

Pause == Goes("pause", "connect") /\ UNCHANGED <<running, outbound, batch, inbound, linkVars>>

\* Seeded fault: the loop of a connection does not look at running_.
MutantLeaves == FALSE

\* The loop of a connection ends when the client is stopped.
Leaves == ~running

Leave == Leaves /\ Goes("loop", "close") /\ UNCHANGED <<running, outbound, batch, inbound, linkVars>>

Swap ==
  /\ ~Leaves /\ Goes("loop", "sending")
  /\ batch' = outbound /\ outbound' = <<>>
  /\ UNCHANGED <<running, inbound, linkVars>>

\* A send blocks while the broker does not read, and until the connection breaks.
Send ==
  /\ batch # <<>> /\ conn = "up" /\ Len(wire) < WireCap
  /\ Goes("sending", "sending")
  /\ wire' = Append(wire, Head(batch)) /\ batch' = Tail(batch)
  /\ UNCHANGED <<running, outbound, inbound, conn, inwire, breaks>>

\* The first sends on a broken connection may still succeed.
Swallowed ==
  /\ batch # <<>> /\ conn = "broken"
  /\ Goes("sending", "sending")
  /\ batch' = Tail(batch)
  /\ UNCHANGED <<running, outbound, inbound, linkVars>>

\* Seeded fault: the line goes to the end of the queue.
MutantRequeued(line) == Append(outbound, line)

\* The line that failed goes back in front of what was queued meanwhile.
Requeued(line) == <<line>> \o outbound

\* The lines behind it in the batch are gone.
SendFails ==
  /\ batch # <<>> /\ conn = "broken"
  /\ Goes("sending", "close")
  /\ outbound' = Requeued(Head(batch)) /\ batch' = <<>>
  /\ UNCHANGED <<running, inbound, linkVars>>

AllSent ==
  /\ batch = <<>> /\ Goes("sending", "select")
  /\ UNCHANGED <<running, outbound, batch, inbound, linkVars>>

SelectTimesOut ==
  /\ inwire = <<>> /\ conn = "up" /\ Goes("select", "loop")
  /\ UNCHANGED <<running, outbound, batch, inbound, linkVars>>

\* Seeded fault: the oldest line is dropped one line early.
MutantPushed(line) == IF Len(inbound) + 1 >= InCap THEN Tail(Append(inbound, line)) ELSE Append(inbound, line)

\* push_inbound drops the oldest line of a full queue.
Pushed(line) == IF Len(inbound) + 1 > InCap THEN Tail(Append(inbound, line)) ELSE Append(inbound, line)

Recv ==
  /\ inwire # <<>> /\ Goes("select", "loop")
  /\ inbound' = Pushed(Head(inwire)) /\ inwire' = Tail(inwire)
  /\ UNCHANGED <<running, outbound, batch, conn, wire, breaks>>

RecvEnds ==
  /\ conn = "broken" /\ Goes("select", "close")
  /\ UNCHANGED <<running, outbound, batch, inbound, linkVars>>

\* What an intact connection still holds for the broker, it will read.
Close ==
  /\ Goes("close", "pause")
  /\ conn' = "none" /\ inwire' = <<>>
  /\ UNCHANGED <<running, outbound, batch, inbound, wire, breaks>>

WorkerStep ==
  \/ Begin \/ StartupFails \/ ConnectSucceeds \/ ConnectFails \/ Return \/ Pause
  \/ Leave \/ Swap \/ Send \/ Swallowed \/ SendFails \/ AllSent
  \/ SelectTimesOut \/ Recv \/ RecvEnds \/ Close

-----------------------------------------------------------------------------
(* The broker.                                                              *)

BrokerSends ==
  /\ conn = "up" /\ asked < MaxRequests /\ Len(inwire) < WireCap
  /\ asked' = asked + 1 /\ inwire' = Append(inwire, asked')
  /\ UNCHANGED <<threadVars, outbound, batch, inbound, conn, wire, breaks, sent, heard, handed>>

BrokerReads ==
  /\ wire # <<>>
  /\ heard' = Head(wire) /\ wire' = Tail(wire)
  /\ UNCHANGED <<threadVars, outbound, batch, inbound, conn, inwire, breaks, sent, asked, handed>>

\* The connection breaks with what it holds for the broker.
Breaks ==
  /\ conn = "up" /\ breaks < MaxBreaks
  /\ conn' = "broken" /\ wire' = <<>> /\ breaks' = breaks + 1
  /\ UNCHANGED <<threadVars, outbound, batch, inbound, inwire, countVars>>

ClientNext ==
  \/ Start \/ StartTerminates \/ SendLine \/ Receive \/ StopRuntime \/ Joined
  \/ WorkerStep
  \/ BrokerSends \/ BrokerReads \/ Breaks

ClientSpec == ClientInit /\ [][ClientNext]_clientVars

\* The worker runs, the broker reads while it is connected and is there again
\* in the end (MaxBreaks), and a join returns.
FairClientSpec == ClientSpec /\ WF_clientVars(WorkerStep) /\ WF_clientVars(BrokerReads) /\ WF_clientVars(Joined)

-----------------------------------------------------------------------------
(* Properties.                                                              *)

\* Lines on their way to the broker, and to Lua.
Outgoing == ToSet(outbound) \cup ToSet(batch) \cup ToSet(wire)
Incoming == ToSet(inbound) \cup ToSet(inwire)

\* The shape of the state: the queues are within their limits.
ClientTypeOK ==
  /\ game \in {"running", "joining", "stopped", "terminated"}
  /\ running \in BOOLEAN
  /\ worker \in {"none", "starting", "connect", "loop", "sending", "select", "close", "pause", "exited"}
  /\ {outbound, batch, wire} \subseteq Seq(1..sent) /\ {inbound, inwire} \subseteq Seq(1..asked)
  /\ Len(wire) <= WireCap /\ Len(inwire) <= WireCap /\ Len(inbound) <= InCap
  /\ conn \in {"none", "up", "broken"}
  /\ {sent, heard, asked, handed, breaks} \subseteq Nat

Results == INSTANCE LossyChannel WITH offered <- sent, taken <- heard
Requests == INSTANCE LossyChannel WITH offered <- asked, taken <- handed

\* Swaps, failed sends, reconnections and a full inbound queue never repeat a
\* line or let one overtake another, in either direction: the broker and Lua
\* each see an ordered channel that may lose lines.
ImplementsChannels == Results!Spec /\ Requests!Spec

\* Lines are lost only with a connection that has broken, with the unread bytes
\* of one that is closed, or as the oldest of a full inbound queue.
LossIsAccounted ==
  [][/\ \A n \in Outgoing \ Outgoing' : n <= heard' \/ conn = "broken" \/ conn' = "broken"
     /\ \A n \in Incoming \ Incoming' :
          n <= handed' \/ conn' = "none" \/ (Len(inbound) = InCap /\ n = Head(inbound))]_clientVars

\* No line waits for ever while the client runs, whatever breaks; and the game
\* thread, which waits in stop(), gets out of it.
NothingHangs ==
  /\ \A n \in 1..MaxLines : n \in Outgoing ~> (n \notin Outgoing \/ ~running \/ game = "terminated")
  /\ game = "joining" ~> game = "stopped"

=============================================================================
