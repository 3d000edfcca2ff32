------------------------------ MODULE EdgeUplink ------------------------------
(***************************************************************************)
(* The edge program (core-engine/src/main.cpp): its loop samples a frame,   *)
(* pushes it into the batch, flushes the batch over TCP, UDP or the mesh,   *)
(* and reconnects to the operator through a gate that backs off.            *)
(*                                                                         *)
(* The edge is one thread, so one turn of the loop, up to the point where a *)
(* flush is decided, is one action.  What interleaves is the network: the   *)
(* operator may stop accepting, close, reset or return between any two      *)
(* turns, and the units a flush manages to hand over are any number.        *)
(*                                                                         *)
(* link is what the kernel knows of the connection behind tcp.connected():  *)
(*   live      the operator reads                                           *)
(*   closing   the operator closed; nothing was written since               *)
(*   doomed    something was written since, the reset is on its way         *)
(*   pipe      that reset arrived: the next send gets EPIPE                 *)
(*   reset     the operator reset: the next send gets ECONNRESET            *)
(* A send that gets EPIPE also raises SIGPIPE on POSIX; the edge neither    *)
(* ignores the signal nor passes MSG_NOSIGNAL, so it dies there.            *)
(*                                                                         *)
(* Left out: the counters that only reach the log, but for sent_ok.         *)
(***************************************************************************)
EXTENDS FrameBatch, FiniteSets, FiniteSetsExt

CONSTANTS
  Transports,   \* the --transport values tried
  Platforms,    \* the builds tried; net.cpp has a branch for each
  BackoffCap,   \* 2000 ms, in units of the first backoff of 50 ms
  MaxFrames,    \* bound: samples taken
  MaxFaults     \* bound: times the network or the operator fails

ASSUME UplinkAssumption ==
  /\ Transports \subseteq {"auto", "tcp", "udp", "mesh"}
  /\ Platforms \subseteq {"posix", "windows"}
  /\ BackoffCap \in Nat \ {0}
  /\ MaxFrames \in Nat
  /\ MaxFaults \in Nat

VARIABLES
  transport,
  platform,
  pc,         \* "top": loop start; "sample": drained, about to sample;
              \* "done" and "killed": the process has ended
  batch,
  tcp,        \* TcpClient and ReconnectGate
  peerUp,     \* the operator accepts connections
  faults,
  seq,        \* next sequence number; frames are 0 .. seq - 1
  dropped,    \* frames should_drop dropped
  drained,    \* frames TCP took to the last unit
  whole,      \* history: frames TCP took on one connection
  forwarded,  \* frames a UDP send succeeded for
  lost,       \* frames for which every UDP send failed
  sentOk      \* sent_ok

vars == <<transport, platform, pc, batch, tcp, peerUp, faults, seq, dropped,
          drained, whole, forwarded, lost, sentOk>>

Frames == 0 .. MaxFrames - 1
Links == {"none", "live", "closing", "doomed", "pipe", "reset"}
Running == pc \in {"top", "sample"}

(* Mutant: a hard error leaves the client connected.                        *)
StillConnected(t) == t

(* TcpClient::close, and a connection lost: the gate is left as it is.      *)
Disconnected(t) == [t EXCEPT !.link = "none", !.stream = <<>>]

Connected(t) == t.link # "none"

Unconnected == [link |-> "none", wait |-> 0, backoff |-> 1, stream |-> <<>>]

(* ReconnectGate::try_connect.  wait stands for next_ns - now.              *)
TriedConnect(t) ==
  IF Connected(t) \/ t.wait > 0 THEN t
  ELSE IF peerUp
    THEN [link |-> "live", wait |-> 0, backoff |-> 1, stream |-> <<>>]
    ELSE [t EXCEPT !.wait = t.backoff,
                   !.backoff = Min({BackoffCap, 2 * @})]

Init ==
  /\ transport \in Transports
  /\ platform \in Platforms
  /\ pc = "top"
  /\ batch = EmptyBatch
  /\ peerUp \in BOOLEAN
  /\ tcp = IF transport \in {"auto", "tcp"} THEN TriedConnect(Unconnected)
                                           ELSE Unconnected
  /\ faults = 0
  /\ seq = 0
  /\ dropped = {}
  /\ drained = {}
  /\ whole = {}
  /\ forwarded = {}
  /\ lost = {}
  /\ sentOk = 0

(***************************************************************************)
(* TCP                                                                     *)
(***************************************************************************)

(* What flush_tcp_retry may come to: how many units the socket took, and    *)
(* what ended it.  A stall is a full socket buffer on the last attempt.     *)
SendEnds == {"drained", "stalled", "failed", "killed"}

(* Writing to a connection the other end has reset kills a POSIX process.   *)
Posix == platform = "posix"

Writable(t) == t.link \in {"live", "closing", "doomed"}

SendMayEnd(t, left, k, end) ==
  CASE end = "drained" -> Writable(t) /\ k = left
    [] end = "stalled" -> Writable(t) /\ k < left
    [] end = "failed"  -> \/ t.link = "live" /\ k < left /\ faults < MaxFaults
                          \/ t.link = "doomed" /\ k < left /\ ~Posix
                          \/ t.link = "closing" /\ 0 < k /\ k < left /\ ~Posix
                          \/ t.link = "reset" /\ k = 0
                          \/ t.link = "pipe" /\ k = 0 /\ ~Posix
    [] end = "killed"  -> /\ Posix
                          /\ \/ t.link = "doomed" /\ k < left
                             \/ t.link = "closing" /\ 0 < k /\ k < left
                             \/ t.link = "pipe" /\ k = 0

Wrote(t, b, k) ==
  [t EXCEPT !.link = IF @ = "closing" /\ k > 0 THEN "doomed" ELSE @,
            !.stream = @ \o [j \in 1 .. k |-> UnitAt(b, b.offset + j - 1)]]

(* The frames all of whose units are next to one another in a stream.       *)
WholeIn(stream) ==
  {f \in Frames :
     \E p \in 1 .. Len(stream) - FrameUnits + 1 :
       \A u \in 0 .. FrameUnits - 1 : stream[p + u] = <<f, u>>}

(* The frames of the batch below the send offset o.                         *)
Below(b, o) == {b.frames[i] : i \in 1 .. o \div FrameUnits}

(***************************************************************************)
(* flush_batch: the outcomes it may have, as records.                       *)
(***************************************************************************)

(* Nothing happened yet; alive is FALSE if the process was killed.          *)
Untried(b, t) ==
  [ok |-> FALSE, alive |-> TRUE, batch |-> b, tcp |-> t, faults |-> faults,
   drained |-> drained, whole |-> whole, forwarded |-> forwarded,
   lost |-> lost]

(* Mutant: under any transport a stall closes the connection.               *)
SentOrClosed(b, t, k, end) ==
  LET wrote == Wrote(t, b, k) IN
  [Untried(b, t) EXCEPT
     !.ok = (end = "drained"),
     !.alive = (end # "killed"),
     !.batch = Advanced(b, k),
     !.tcp = IF end = "drained" THEN wrote ELSE Disconnected(t),
     !.faults = IF end = "failed" /\ t.link = "live" THEN @ + 1 ELSE @,
     !.drained = @ \union Below(b, b.offset + k),
     !.whole = @ \union WholeIn(wrote.stream)]

(* flush_tcp_retry when k units went out and `end` ended it.                *)
Sent(b, t, k, end) ==
  LET wrote == Wrote(t, b, k) IN
  [Untried(b, t) EXCEPT
     !.ok = (end = "drained"),
     !.alive = (end # "killed"),
     !.batch = Advanced(b, k),
     !.tcp = IF end = "failed" THEN Disconnected(t) ELSE wrote,
     !.faults = IF end = "failed" /\ t.link = "live" THEN @ + 1 ELSE @,
     !.drained = @ \union Below(b, b.offset + k),
     !.whole = @ \union WholeIn(wrote.stream)]

TcpFlushes(b, t) ==
  IF ~Connected(t) THEN {Untried(b, t)}
  ELSE LET left == Units(b) - b.offset IN
    {Sent(b, t, o[1], o[2]) :
       o \in {p \in (0 .. left) \X SendEnds : SendMayEnd(t, left, p[1], p[2])}}

(* Mutant: the whole batch is forwarded, what TCP drained included.         *)
UdpFlushesAll(before) ==
  LET all == Range(before.batch.frames)
  IN {[before EXCEPT
         !.ok = (sent = all),
         !.batch = Cleared(@),
         !.forwarded = @ \union sent,
         !.lost = @ \union (all \ sent)] : sent \in SUBSET all}

(* flush_udp_direct and flush_udp_mesh: each frame TCP left is handed to    *)
(* one send, some of which fail, and the batch is emptied either way.       *)
UdpFlushes(before) ==
  LET b == DiscardedFullySent(before.batch)
      unsent == Range(UnsentFrames(b))
  IN {[before EXCEPT
         !.ok = (sent = unsent),
         !.batch = Cleared(b),
         !.forwarded = @ \union sent,
         !.lost = @ \union (unsent \ sent)] : sent \in SUBSET unsent}

AdaptedAfter(o, time) == [o EXCEPT !.batch = Adapted(@, o.ok, time)]

(* Mutant: the connection is kept after a partial send.                     *)
KeptAfterPartial(hadPartial, o) == o

(* Lines 185-188: a stream abandoned in mid-frame is closed.                *)
ClosedAfterPartial(hadPartial, o) ==
  IF hadPartial THEN [o EXCEPT !.tcp = Disconnected(@)] ELSE o

TcpTried(b) ==
  {AdaptedAfter(o, time) : o \in TcpFlushes(b, TriedConnect(tcp)),
                           time \in FlushTimes}

(* What TCP left goes over the mesh.                                        *)
FailedOver(o) ==
  {ClosedAfterPartial(HasPartialSend(o.batch), u) : u \in UdpFlushes(o)}

FlushOutcomes(b) ==
  CASE transport \in {"udp", "mesh"} -> UdpFlushes(Untried(b, tcp))
    [] transport = "tcp" -> TcpTried(b)
    [] transport = "auto" ->
         LET failed == {o \in TcpTried(b) : ~o.ok /\ o.alive} IN
         (TcpTried(b) \ failed) \union UNION {FailedOver(o) : o \in failed}

Took(o) ==
  /\ batch' = o.batch
  /\ tcp' = o.tcp
  /\ faults' = o.faults
  /\ drained' = o.drained
  /\ whole' = o.whole
  /\ forwarded' = o.forwarded
  /\ lost' = o.lost

(* Where the program goes after a flush: nowhere, if a signal killed it.    *)
After(o, next) == IF o.alive THEN next ELSE "killed"

(***************************************************************************)
(* The loop of main                                                        *)
(***************************************************************************)
NeedsDrain(b) == ShouldFlush(b) \/ HasPartialSend(b) \/ Full(b)

(* Lines 395-409: what an earlier turn left unsent goes first; while it     *)
(* does not go, nothing is sampled.                                         *)
Drain ==
  /\ pc = "top"
  /\ NeedsDrain(batch)
  /\ \E o \in FlushOutcomes(batch) :
       /\ Took(o)
       /\ IF o.ok \/ o.batch.frames = <<>>
            THEN /\ pc' = After(o, "sample")
                 /\ sentOk' = sentOk + Count(batch)
            ELSE /\ pc' = After(o, "top")
                 /\ UNCHANGED sentOk
  /\ UNCHANGED <<transport, platform, peerUp, seq, dropped>>

MaySample ==
  \/ seq < MaxFrames /\ pc = "sample"
  \/ seq < MaxFrames /\ pc = "top" /\ ~NeedsDrain(batch)

(* Lines 454-460: the sample is dropped on purpose.                         *)
Drop ==
  /\ MaySample
  /\ dropped' = dropped \union {seq}
  /\ seq' = seq + 1
  /\ pc' = "top"
  /\ UNCHANGED <<transport, platform, batch, tcp, peerUp, faults, drained,
                 whole, forwarded, lost, sentOk>>

(* Mutant: the frames are counted whatever became of them.                  *)
CountedAlways(o, n) == sentOk + n

CountedOk(o, n) == IF o.ok THEN sentOk + n ELSE sentOk

(* Lines 462-489: the sample is pushed, and the batch flushed if it is due. *)
Sample ==
  /\ MaySample
  /\ seq' = seq + 1
  /\ LET b == Pushed(batch, seq) IN
     IF ShouldFlush(b) \/ Full(b)
       THEN \E o \in FlushOutcomes(b) :
              /\ Took(o)
              /\ sentOk' = CountedOk(o, Count(b))
              /\ pc' = After(o, "top")
       ELSE /\ batch' = b
            /\ pc' = "top"
            /\ UNCHANGED <<tcp, faults, drained, whole, forwarded, lost,
                           sentOk>>
  /\ UNCHANGED <<transport, platform, peerUp, dropped>>

(* The duration is over or the input ended: one last flush, uncounted.      *)
Stop ==
  /\ Running
  /\ IF batch.frames # <<>>
       THEN \E o \in FlushOutcomes(batch) : Took(o) /\ pc' = After(o, "done")
       ELSE /\ pc' = "done"
            /\ UNCHANGED <<batch, tcp, faults, drained, whole, forwarded,
                           lost>>
  /\ UNCHANGED <<transport, platform, peerUp, seq, dropped, sentOk>>

(***************************************************************************)
(* The clock and the network                                               *)
(***************************************************************************)
Tick ==
  /\ Running
  /\ tcp.wait > 0
  /\ tcp' = [tcp EXCEPT !.wait = @ - 1]
  /\ UNCHANGED <<transport, platform, pc, batch, peerUp, faults, seq,
                 dropped, drained, whole, forwarded, lost, sentOk>>

Fault ==
  /\ faults < MaxFaults
  /\ faults' = faults + 1
  /\ UNCHANGED <<transport, platform, pc, batch, seq, dropped, drained, whole,
                 forwarded, lost, sentOk>>

(* The operator ends, or its receiver does: its sockets are closed.         *)
PeerCloses ==
  /\ Fault
  /\ peerUp
  /\ peerUp' = FALSE
  /\ tcp' = IF tcp.link = "live" THEN [tcp EXCEPT !.link = "closing"] ELSE tcp

(* It ends with unread data, or the network does it: a reset comes first.   *)
PeerResets ==
  /\ Fault
  /\ peerUp
  /\ peerUp' \in BOOLEAN
  /\ tcp.link = "live"
  /\ tcp' = [tcp EXCEPT !.link = "reset"]

(* The reset that answers what was written after the operator closed.       *)
ResetArrives ==
  /\ tcp.link = "doomed"
  /\ tcp' = [tcp EXCEPT !.link = "pipe"]
  /\ UNCHANGED <<transport, platform, pc, batch, peerUp, faults, seq,
                 dropped, drained, whole, forwarded, lost, sentOk>>

PeerReturns ==
  /\ ~peerUp
  /\ peerUp' = TRUE
  /\ UNCHANGED <<transport, platform, pc, batch, tcp, faults, seq,
                 dropped, drained, whole, forwarded, lost, sentOk>>

Network == PeerCloses \/ PeerResets \/ ResetArrives \/ PeerReturns

Loop == Drain \/ Drop \/ Sample \/ Stop

Next == Loop \/ Tick \/ Network

Spec == Init /\ [][Next]_vars

(* The loop runs; time passes; a reset in flight arrives; and the operator, *)
(* once down, is started again.  DrainedThrough: a socket whose other end   *)
(* accepts takes the rest of the batch in the end, for the receiver reads   *)
(* whatever arrives (FrameReceiver.readTcp).                                *)
DrainedThrough == Drain /\ pc' = "sample"

FairSpec ==
  /\ Spec
  /\ WF_vars(Drain)
  /\ WF_vars(DrainedThrough)
  /\ WF_vars(Tick)
  /\ WF_vars(ResetArrives)
  /\ WF_vars(PeerReturns)

(***************************************************************************)
(* Properties                                                              *)
(***************************************************************************)
TypeOK ==
  /\ transport \in Transports
  /\ platform \in Platforms
  /\ pc \in {"top", "sample", "done", "killed"}
  /\ batch \in Batches(Frames)
  /\ tcp.link \in Links
  /\ tcp.wait \in 0 .. BackoffCap
  /\ tcp.backoff \in 1 .. BackoffCap
  /\ tcp.stream \in Seq(Frames \X (0 .. FrameUnits - 1))
  /\ peerUp \in BOOLEAN
  /\ faults \in 0 .. MaxFaults
  /\ seq \in 0 .. MaxFrames
  /\ {dropped, drained, whole, forwarded, lost} \subseteq SUBSET Frames
  /\ sentOk \in 0 .. MaxFrames

Unsent == Range(UnsentFrames(batch))

(* Every sampled frame is in exactly one place: waiting in the batch, taken *)
(* by TCP, forwarded, failed on every hop, or dropped on purpose.  In       *)
(* particular no sample meets a full batch (push returning null, main.cpp   *)
(* :474), and failover neither forgets nor repeats a frame.                 *)
Conservation ==
  LET places == <<Unsent, drained, forwarded, lost, dropped>> IN
  /\ UNION Range(places) = 0 .. seq - 1
  /\ \A i, j \in DOMAIN places : i # j => places[i] \intersect places[j] = {}

(* Failover forwards "only frames TCP did not fully drain (avoids dup of    *)
(* sent prefix)" (main.cpp:183): the operator gets no frame both whole over *)
(* TCP and over the mesh.                                                   *)
NoDoubleSend == forwarded \intersect whole = {}

(* "abandon mid-frame TCP stream; reconnect clean" (main.cpp:186): under    *)
(* auto, the bytes of one connection are whole frames from its first byte   *)
(* on, so every frame TCP drained went out whole on one connection.         *)
AutoStreamsClean ==
  transport = "auto" =>
    /\ drained \subseteq whole
    /\ \A p \in 1 .. Len(tcp.stream) :
         /\ tcp.stream[p][2] = (p - 1) % FrameUnits
         /\ tcp.stream[p][2] > 0 => tcp.stream[p][1] = tcp.stream[p - 1][1]

(* Under tcp a frame cut by a lost connection is resumed in its middle on   *)
(* the next one, so it reaches nobody although it counts as sent; but each  *)
(* failure of the network tears at most one frame.                          *)
TornAtMostOncePerFault ==
  transport = "tcp" => Cardinality(drained \ whole) <= faults

(* sent_ok never claims a frame that did not leave, although it is raised   *)
(* by a count taken before the flush (main.cpp:396, :479); under tcp it is  *)
(* exact but for the frames of a batch still being sent.                    *)
OkCountsSent ==
  /\ sentOk <= Cardinality(drained \union forwarded)
  /\ transport = "tcp" /\ Running =>
       sentOk = Cardinality(drained) - UnsentIndex(batch)

(* Frames held back by a stall or a lost connection go out in the end: the  *)
(* gate keeps trying and an error is never taken for a connection.          *)
RetainedBatchDrains ==
  (pc = "top" /\ NeedsDrain(batch)) ~> ~(pc = "top" /\ NeedsDrain(batch))

(* "stay up and retry - do not hard-exit" (main.cpp:331), "exponential      *)
(* reconnect" (main.cpp:56).  It does not hold on POSIX, where the second   *)
(* send after the operator closed raises SIGPIPE.                           *)
StaysUp == pc # "killed"
=============================================================================
