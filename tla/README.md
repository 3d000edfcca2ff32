# Verification of zcmesh

TLA+ models of the zcmesh telemetry system, model-checked with TLC, with proofs
checked by TLAPS. The models are written from the code; where a comment or a
document says something else, section 4 shows the difference.

Run a check with `tlc -config FrameRing.cfg FrameRing`, a proof with
`tlapm FrameRing_proofs.tla`.

## 1. The system

An **edge** process (C++) samples sensors, numbers the samples, batches them
into fixed-size frames with a CRC and sends them to an **operator** (Java) over
TCP, UDP or a "mesh" of UDP **hops** that stamp and forward. The operator
decodes, counts and displays frames and may record them to a `.zcm` file. A
**capture** tool is a second receiver that records; **inspect** and **replay**
read recordings. The operator can tell an edge, by a control datagram, to stop
using some hops.

| Component | State | Operations | Talks to | What is hard |
|---|---|---|---|---|
| Frame ring `pipeline/FrameRing.java` | head, tail, slots, drops | offer, poll | receiver thread, drain thread | two threads move `tail`; overflow eviction during a poll |
| Frame batch `batch.cpp` | frames, send offset, flush target | push, flush_tcp(_retry), discard_fully_sent, adapt, clear | edge loop, TCP client | partial sends in mid-frame |
| Edge loop, flush, reconnect gate `main.cpp` | batch, gate (next_ns, backoff), counters | drain, sample, drop, flush_batch, final flush | batch, TCP client, router | failover in mid-frame, back-off while a batch is held, counts taken before a flush |
| TCP client, UDP socket `net.cpp` | fd; the error pending on a socket | connect, send_nb, close; send_to | kernel | SIGPIPE; one UDP socket reconnected to hop after hop |
| Mesh router `router.cpp` | active hop, probe time, skip mask | forward_udp, set_hop_skip_mask | UDP socket, control | probing, rotation and masking interact |
| Mesh control `ctl.cpp`, `ControlClient.java` | - | SET_SKIP, CLEAR, skip file | edge loop | arrives between any two frames |
| Hop relay `hop.cpp` | - | verify, drop, stamp, forward | previous and next hop | chains; stamps overwrite one another |
| TCP stream decoders `FrameReceiver.java`, `capture.cpp` | buffer, position | read, hunt for magic, verify, compact | edge through TCP | torn streams, false magics, off-by-one at the buffer's end |
| Receiver loop `FrameReceiver.java` | channels, a buffer each | accept, readTcp, readUdp, stop | clients, pipeline | connections interleave; an exception of one client ends the thread |
| Telemetry pipeline `TelemetryPipeline.java` | per-node last seq, counters | offer, poll | ring, sampler | loss, duplication, reordering, wrap, restart |
| Metrics sampler `MetricsSampler.java` | previous totals | snapshot | UI tick, stats server | two callers, no synchronisation |
| Recorder and shutdown `ZcmWriter.java`, `OperatorRuntime.java`, `OperatorApp.java`, `HeadlessOperator.java` | file, channel, frameCount, closed | drain, write, close, shutdown | ring, UI thread | interrupt in a write, failing writes, kill |
| Capture, inspect `capture.cpp`, `inspect.cpp`, `zcm_analyze.hpp` | one client, its stream, the recording, per-node account | accept, receive, append, header at the end; read | clients, the file | a client replaced in mid-frame; writes that fail; a kill before the header |
| Replay `replay.cpp` | frame, offset, connected | connect, send in parts, exit code | a listener | partial sends, a listener that stops reading or goes away |
| Stats server, CLI tools, arena, benchmark, UI widgets | - | formatting, allocation at start, drawing | - | nothing a state machine would show |

What makes each correct is said by the properties of section 3; the hazards
they are for, each at its line, are listed in `PROJECT.json`.

## 2. The modules

    LossyChannel        what a hop of the telemetry path promises (abstract)
      ^ refined by
    FrameRing           FrameRing.java, access by access
    FrameBatch          batch.cpp as operators on a record
      ^ extended by
    EdgeUplink          main.cpp's loop, flush_batch, ReconnectGate; TcpClient
    MeshRouter          router.cpp, UdpSocket::send_to, control and the skip mask
    StreamDecoder       decodeStream and decode_tcp_stream, turn by turn
    MeshPath            edge numbering, hop chain, gap accounts of operator and inspect
    Sampler             offer against two callers of snapshot, access by access
    Recording           drain, ZcmWriter, shutdown, what readers get
    Listener            connections, clients and datagrams of a program that listens
      ^ extended by
    Replay              the replay tool, as a client
    Capture             the capture tool, its recording, and inspect's verdict
    Receiver            the operator's receiver thread
      ^ composed in
    Intake              replay and edges against capture or the operator

FrameRing, EdgeUplink, MeshRouter, StreamDecoder, MeshPath, Sampler, Recording and
Intake each have a module `<name>_proofs` with the theorems of section 5.

**FrameRing.** One action per volatile access: `OfferBegin` (reads of head and
tail), `OfferEvict` (the compareAndSet on tail), `OfferCount`, `OfferStore`,
`OfferPublish`; `PollTail`, `PollHead`, `PollTake`, `PollClear`, `PollAdvance`.
The *k*-th frame offered is the number *k*. The ordered (`lazySet`) stores are
taken to be visible at once: a store delayed in the storing thread's buffer
shows the other thread the same as a pause of the storing thread before it,
except to the storing thread itself; that exception is not modelled.

**FrameBatch, EdgeUplink.** The edge is one thread, so one turn of its loop up to
a decided flush is one action (`Drain`, `Sample`, `Drop`, `Stop`) and a flush
is the set of its outcomes (`FlushOutcomes`), by how many units the socket took
and what ended the send. A frame is `FrameUnits` units so that a send can stop
inside it. `tcp` joins TcpClient and ReconnectGate: `link` is what the kernel
knows of the connection, `wait` and `backoff` the gate, `stream` the bytes
written on this connection. Network actions (`PeerCloses`, `PeerResets`,
`ResetArrives`, `PeerReturns`) come between turns.

**MeshRouter.** `Forward` is forward_udp: start hop, probe of hop 0, rotation
over the fallbacks, choice of the next active hop. `pending` is the refusal
(ICMP) left on the one socket by an earlier datagram to a dead port: `send_to`
connects the socket anew for each datagram, which does not clear the error, so
it fails the next send. But `send_to` also disconnects the socket right after
the send, so only a refusal that is back by then becomes pending. What a hop is
(`Conditions`) decides that (`Refusals`): *up*; *closed*, a dead port of this
host, which refuses during the send; *late*, a dead port of another host, whose
refusal takes a round trip and is dropped, but for the odd one; *silent*, a host
that is off or filters, from which nothing comes; *unreach*, no way to the host,
the only one at which sending itself fails. `Target(a)` is the hop of attempt *a*, `Attempts` those
the mask lets through. `SetSkip` is a turn of poll_control, with any datagram
that zcmesh_ctl or another sender can produce (`Datagrams`: set, clear or
unknown, for this node or another; a lost datagram is one never taken, a
repeated one is taken again), or of the skip file; `HopChanges` and `Tick` are
the environment.

**StreamDecoder.** `Read` takes any number of units into the buffer;
`SkipToMagic`, `DropNoise`, `Reject`, `PassOn`, `EndLoop` are the branches of
the decoding loop, for both decoders (they differ in when they count a skipped
byte). The stream is any sequence of whole, headless or cut frames, with up to
`MaxLookalikes` payload units that look like a magic. The CRC holds for whole
frames and for nothing else.

**MeshPath.** Frames are numbered by `Send`, lost, overtaken and copied on each
link (sets in flight), stamped by `Relay` and accounted for by `Arrive`, which
feeds both `Tracked` (TelemetryPipeline.trackGaps, 64-bit) and `Observed`
(ZcmAnalyze::observe, 32-bit). `EdgeRestarts` starts again at 0 and `seq`
wraps at `SeqSpace`.

**Sampler.** `OfferBytes`, `OfferHop`, `OfferOk` are the counters of
TelemetryPipeline.offer in their order; `ReadNow` to `Return` the reads and
writes of MetricsSampler.snapshot, by each of the `Threads` that call it (the
UI's tick and the stats server). The fields are plain longs: a store another
thread sees late looks like a pause of the storing thread before it.

**Listener, Replay, Capture, Receiver, Intake.** Listener has what capture and the
operator share: the backlog, the units a socket holds, clients that close or
reset, datagrams, and `Decoded`, the decoders' effect on a buffer in one step
(`Slide`, unit by unit; StreamDecoder has the loop). Replay adds one action per
branch of replay.cpp's loop, with partial sends (`SendSome`), a listener that
has gone (`SendBroken`) and the exit codes. Capture has one client, which
`CaptureAccepts` replaces; `out` is what was given to stdio, and how much of it
is in `file` is decided when a write fails, the program ends or is killed.
`Accepted` and `FramesRead` are inspect's. Receiver keeps a buffer per
connection; `ReadTcpThrows` is the IOException that ends the thread. Intake
joins them: either program listens, with the replay tool and edges as clients;
edges are external here, begin and end their connections in mid-frame as
EdgeUplink says they can.

**Recording.** The draining thread (`DrainBegin`, `DrainPoll`, `WriteEnter`,
`WriteSome`, `WriteReturn`, ...), the closing thread (`Shutdown`, `CloseEnter`,
`CloseHeader`, `CloseChannel`), the writer's monitor, the interrupt of
shutdownNow and its effect on an interruptible channel, failing writes and
`Kill`. `ui` chooses between the UI (a pool and a UI thread) and the headless
operator (one thread). `Verifies`, `Truncated` and `Frames` are what inspect
and replay do with the file. With the UI a write that tore a frame is followed
by further frames, so the units of the file are kept one by one.

## 3. What is checked

| Run | Bounds | What it shows |
|---|---|---|
| `FrameRing` | 2 slots, 6 offers | `AtMostOnce`, `TailBehindHead`: the eviction race duplicates nothing and never takes tail past head. `ExactUnlessRaced`, `FifoUntilFull`: exact and in order until an eviction falls inside a poll. `FrameLeaves`: nothing is stranded. `ImplementsLossyChannel`: refinement |
| `FrameRing_order` | 2 slots, 5 offers | `InOrder` is violated |
| `EdgeUplink` | batch of 3, frames of 2 units, 4 samples, 2 faults, 4 transports, 2 builds | `Conservation`: every sample is in exactly one place. `NoDoubleSend`: failover repeats nothing TCP delivered. `AutoStreamsClean`: under auto each connection carries whole frames. `TornAtMostOncePerFault`, `OkCountsSent`. `RetainedBatchDrains`: a held-back batch goes out |
| `EdgeUplink_sigpipe` | batch of 2, 3 samples, 1 fault, POSIX | `StaysUp` is violated |
| `MeshRouter` | 3 hops in 5 conditions, probe every 2 ticks, 1 change of a hop, 2 turns of control | `NeverSendsToSkipped`, `ActiveStaysAllowed`, `StickyWhileUp`; under fairness `PreferredRecovered` (no *late* hop allowed) and `FramesGetThrough` (no *late* or *silent* hop allowed) |
| `MeshRouter_slow` | 2 hops, one frame per probe interval | `PreferredRecovered` is violated |
| `StreamDecoder` | 3 frames of 3 units, 1 lookalike | `WholeFramesDecoded`: resynchronising costs no whole frame. `CarriesLessThanAFrame`, `BytesAccounted`, `LoopEnds` |
| `MeshPath` | 2 hops, 4 frames, seq mod 5, index up to 1, 1 copy, 1 restart | `ExactInOrder`, `LossesReported`: what gaps and duplicates mean. `AccountsAgree`: operator and inspect count alike over wrap and restart. `StampsTruthful` |
| `Recording` | frames of 2 units, 4 frames, drains of 2, 2 faults | `NeverOverclaims`, `ReadsWhatWasCounted`, `CloseCountsAll`, `FewLost`. `TearsAreNoticed`: whatever was torn, a file that inspect accepts holds the counted frames |
| `Recording_interrupt` | 2 frames, no fault | `HeaderFinal` is violated |
| `Sampler` | 2 callers, 3 snapshots, 2 frames, clock up to 2 | `CountersCover`: no snapshot shows more good frames than bytes or hop indexes. `RatedOnce`: windows tile the time unless snapshots overlap |
| `Intake` | replay and 1 edge, frames of 2 units, recordings and connections of 2 frames, sockets of 2 units and 1 datagram, 2 write faults | `AcceptedIsCounted`: a recording that inspect accepts is what was counted, or nothing. `RecaptureExact`: capture of a replay is exact. `WholeStreamsNeedNoResync`, `ConnectionsKeepTheirFrames`: no byte of one connection is taken for another's. `ReplayEnds` under fairness |

**Why the bounds are enough.** With two slots and six offers the ring laps twice
inside one poll, so a slot is reused while a stale position is held, which is
all the race needs. Two units make a frame divisible; a batch of three has a
sent, a half-sent and an unsent frame at once; two faults allow a failure during
recovery from the first. Three hops are the most the router takes, and two
controls can mask and unmask. A change of a hop on top of any initial condition
gives every pair of conditions before and after. Three frames of three units
put a torn frame between whole ones with the magic, payload and end of a frame
told apart. In MeshPath an index that saturates at 1 and a seq space of 5 make
saturation and wrap happen in four frames. In Recording two drains of two
frames with two faults allow a torn frame with whole ones before and after it.
In Sampler two callers overlap in every way, and the third snapshot follows an
overlap. In Intake a frame of two units can be cut, a socket that holds one
frame makes replay wait and send in parts, the edge's connection can come
before, between or after the replay's, and two faults let a write fail and then
the end of the capture as well.

**Fairness.** FrameRing: weak fairness of an offer that has begun and of the
polling thread, which the operator runs every 50 ms; nobody has to offer.
EdgeUplink: the loop runs, time passes, an operator that went down is started
again, and `DrainedThrough`: a socket whose other end accepts takes the rest of
the batch in the end, because FrameReceiver reads whatever arrives; without it a
receiver that never reads would stall the edge for ever, as it should. MeshRouter:
time goes on, and between two ticks the edge forwards the `MinRate` frames that
its pace gives; nothing is owed beyond those. StreamDecoder: the receiver thread does not stop inside its
loop. Recording states
no liveness and assumes no fairness. Intake: the
replay tool runs, the capture's time is up some day (the loop of capture.cpp is
bounded by its deadline), and the receiver serves every connection that is
ready, as a selector does, while its thread lives; edges owe nothing and nobody
has to end the operator.

`CHECK_DEADLOCK FALSE` is said where the program ends (the edge's duration,
a killed operator) or its bounded input is used up.

## 4. Disagreements between code and text

- **The ring is not SPSC** (`InOrder`). FrameRing.java:9 and README.md:114 call
  it an SPSC ring, but `offer` moves `tail` on overflow while `poll` stores
  `tail` unconditionally. An eviction inside a poll is undone by that store and
  frames of different laps come out in the wrong order.
- **SIGPIPE ends the edge on POSIX** (`StaysUp`). main.cpp:331 promises to stay
  up and retry, but send_nb passes no MSG_NOSIGNAL and SIGPIPE is not ignored.
- **The preferred hop may never be recovered** (`PreferredRecovered` in
  `MeshRouter_slow`). At about one frame per 500 ms with a closed fallback hop
  in use, each probe of hop 0 meets the refusal pending from the fallback.
- **Closing the window may lose the recording** (`HeaderFinal`). shutdownNow
  interrupts a tick in a write, which closes the channel; ZcmWriter.close then
  fails before it rewrites the header, against ZcmWriter.java:11, and readers
  see 0 frames.

Further disagreements, without a run of their own. Each is a behaviour of the
models above; TLC refutes the formula given when it is checked in its module
under the configuration of that module's run.

- **A dead port on another host is never left.** net.cpp:159 connects before
  sending so that its refusal fails a later send, but the socket is disconnected
  right after each send (net.cpp:193-195), and the refusal of another host comes
  too late. The dead hop stays active while another one is up, and nothing gets
  through: `<>[](SomeUp /\ None({"silent"})) => []<>arrived` in MeshRouter. A hop
  that is silent is never left either; nothing in the repository promises that.
- **A torn write spoils the recording behind it.** With the UI the tick after a
  failed write appends to the torn frame, and no further frame is where
  zcm_file.h:14 has it: `closed => \A i \in 1 .. header : Verifies(i)` in
  Recording. `TearsAreNoticed` is what remains: inspect does not accept such a
  file unless the tears lie behind its counted frames.
- **The operator's resync counter falls short.** Bytes dropped where no magic is
  in sight (FrameReceiver.java:143-149) are skipped too, against
  TelemetryPipeline.java:72; capture.cpp:91 counts them: `resync = Len(read) -
  FrameUnits * Len(decoded) - Remaining` in StreamDecoder. `BytesAccounted` allows
  for the difference.
- **Overlapping snapshots show negative rates.** MetricsSampler.java:4 has two
  callers, and nothing keeps them apart: `\A t \in Threads : delta[t] >= 0` in
  Sampler. They can also rate a frame twice or not at all, which is why
  `RatedOnce` says *unless they overlap*.
- **A reset ends the service for everyone.** The IOException of one connection
  ends the receiver thread while the listening socket stays open, so an edge that
  reconnects, as FrameReceiver.java:22 expects, waits in the backlog for ever:
  `\A c \in Clients : program = "operator" /\ link[c] = "backlog" ~> link[c] #
  "backlog"` in Intake. A replay hangs on the full socket then, which is the
  exception in `ReplayEnds`.
- **Capture may claim success without a header.** The results of the last fflush
  and fclose are dropped (capture.cpp:381-382), so "header rewritten on exit"
  (README.md:107) may not have happened at exit code 0: `captureExit = "ok" =>
  file.header = Len(counted)` in Intake, which `AcceptedIsCounted` has to allow as
  an empty recording.
- **Overtaking counts as loss.** Frames that overtake one another count as a gap
  and as a duplicate though all arrive (`LossesReported` is a bound from one side
  only, against "sum of missing seqs", zcm_analyze.hpp:14).

## 5. What is proved

For every value of the constants, hence for rings and files of any size and any
number of steps: every invariant that the runs of section 3 check, their action
properties, and the refinement of LossyChannel.

**FrameRing_proofs** (from `CapAssumption`, at least two slots). `Typing` is
`TypeOK`. `CursorsBehind` is `TailBehindHead`; alone it is not inductive, for a
thread moves tail on the strength of positions it read earlier, so `CursorInv`
adds what each local copy still says of head. `NoDuplicates` is `AtMostOnce`,
through `OnceInv`: a slot holds only a frame whose position is masked to it, the
frame in hand belongs to the position read, and a frame delivered is nowhere in
the ring. `RefinesChannel` maps each access to an accept, a delivery, a loss or
a stutter of LossyChannel. `Exact` (`ExactUnlessRaced` and `FifoUntilFull`)
rests on `ExactInv`: until the race the slots between the cursors hold exactly
the consecutive frames and deliveries plus drops account for the rest.

**Recording_proofs** (from `RecordingAssumption`). `Typing` carries with it
that no more frames are counted than were polled. `ClosedIsExact` is
`CloseCountsAll`: `MonitorInv` says which thread holds the monitor at which
point, so that while the header is written no frame is between its bytes and
its count (`ClosedInv`). `LossIsBounded` is `FewLost`: the bound with the
shutdown's frame included is not inductive, so `LossInv` grants that frame only
once the draining thread is idle and stopping, when no further drain can lose
another. `HeaderIsHonest` is `NeverOverclaims`: `FileInv` counts the units of
the counted frames and of the one under way. `ReadersGetWhatWasCounted` is
`ReadsWhatWasCounted` and `TornFilesAreRefused` is `TearsAreNoticed`. Both rest
on `FileInOrder`: the file is `Sound`, unit by unit the counted frames and
behind them the one under way or what a failed write left, until a frame is
begun behind a torn one, which only the UI does; from then on it is `Flawed`:
some place of a frame holds units of two frames, with the counted frames before
it, and keeps them (`FlawedStays`). A reader that gets there sees it
(`FlawsAreSeen`), however the tears behind it add up.

**EdgeUplink_proofs** (from `BatchAssumption` and `UplinkAssumption`). `Conserved` is
`Conservation` and `NeverTwice` is `NoDoubleSend`. Neither is inductive alone:
`UplinkInv` adds that the batch is `Sound` (no frame twice, the offset inside
it), that what the offset has passed was taken (`Placed`), and that a frame whose
last unit is on the connection was taken (`Streamed`), so that a frame whole on
a connection is never still unsent. A flush is proved once, over its outcomes:
`Good(o, n)` holds of nothing tried (`UntriedIsGood`) and is kept by a TCP send
that stops anywhere (`SentIsGood`, by the lemmas on the offset in frames), by
forwarding (`UdpIsGood`), by adapt and by the close after a partial send, and
`FlushIsGood` puts them together for each transport. `CleanStreams` is
`AutoStreamsClean`: `AutoInv` adds that between turns a connection under auto
ends with a whole frame and the batch holds nothing half sent, since a send that
stops inside a frame closes the connection (`TcpTriedIsClean`,
`FailoverIsClean`). `OkIsHonest` is `OkCountsSent`: `OkInv` says that under tcp
the count, the frames unsent and the ones dropped on purpose make up all that
were numbered, and that elsewhere nothing waits between turns; the rest is the
cardinality of disjoint sets. `Typing` is `TypeOK`, with the range of the gate
and of the faults (`RangeInv`) and, for the count, `OkInv`. `OneTornPerFault` is
`TornAtMostOncePerFault`, from `TornInv`: a connection that reaches back to the
first unit of the frame under way holds what is out of it (`Traced`), or else
the frame is cut, and the faults pay for the frames torn, for the one cut and for
a connection already lost that the edge has yet to find out about (`Paid`). A
write completes a cut frame at most once (`TornCount`), and a failed send that
cuts another either costs a fault or uses up the lost connection
(`SentIsAccounted`).

**MeshRouter_proofs** (from `RouterAssumption`). `Typing`; `MaskIsObeyed` and
`ActiveIsAllowed` are the action properties `NeverSendsToSkipped` and
`ActiveStaysAllowed`, both from `ForwardMoves`: what is tried are targets of
`Attempts`, which are allowed hops, and so is the next active one. `RouteIsSticky`
is `StickyWhileUp`: the attempt at the active hop comes before any other but the
probe and, with nothing pending, succeeds.

**StreamDecoder_proofs** (from `DecoderAssumption`). `Typing`, `CarryIsBounded` and
`EveryByteAccounted` for streams, frames and reads of any size. `FramesAreDecoded`
is `WholeFramesDecoded`, from `StreamInv`. Its parts: what was read and what is
still to come is `Ordered` (units come in the order of the frames, and those of
one frame follow one another), and the buffer is the end of what was read
(`BufferInv`); a frame that begins before the position of the loop had all its
room by then, so it does not become whole later (`RoomInv`); and the frames
decoded are those that are whole and begin before the position, in order
(`DecodedInv`). The step that matters is the turn that skips to the next magic:
no whole frame begins at a position it passes. That Init's stream is `Ordered`
is proved from the parts it is put together from (`Flattens`).

**MeshPath_proofs** (from `PathAssumption`). `Typing`; `Agreement` is
`AccountsAgree`, from the fact that both accounts move alike (`AccountsMove`)
however seq jumps; `StampsAreTrue` is `StampsTruthful`, from `StampsInv`: on link
*h* a frame has crossed *h* hops. `NothingUnreported` is `LossesReported` and
`GapsAreExact` is `ExactInOrder`, both from `CountsInv`: the numbers sent rise by
at most one a frame, and by exactly one where they never fall (`SentInv`), what
arrives bears the number it was sent with (`GenuineInv`), the account holds the
last arrival's (`LastInv`), and gaps are at least the frames missing while the
numbers rise (`LossInv`), exactly those in order, with each duplicate paid for
by a fall of the numbers before the last arrival (`OrderInv`). `ArriveAfter`
is the step that matters: it splits on whether the frame is the latest so far.

**Sampler_proofs.** `SnapshotsCover` is `CountersCover` for any number of callers;
`CoverInv` orders the counters and what each caller has read. `WindowsTile` is
`RatedOnce`; `WindowInv` says what rated and unrated come to at each point of a
snapshot, which is alone while nothing overlapped.

**Intake_proofs** (from `ListenerAssumption`, `ReplayAssumption` and
`CaptureAssumption`), for any number of edges, frames of any number of units and
sockets of any room. `Inv` is inductive (`InvAlways`): besides the types, no
connection waits twice and those that wait are not accepted (`QueueInv`), capture
has one client (`ClientInv`), and each connection is accounted for (`Linking`):
there is a position up to which the sent units are decoded, `Left` holds the
units of the frame under way there, the socket holds those behind, and the frames
passed on are those that end by that position (`Conn`). The loop of
decode_tcp_stream is summed up once, in the lemma on `Decoded` of units that
continue what is left (`LinkReads`); a replaced or ended client takes what it left
with it. `FramesOfConnectionsAreKept` is `ConnectionsKeepTheirFrames` and
`NoResyncOfWholeStreams` is `WholeStreamsNeedNoResync`.
`AcceptedIsWhatWasCounted` is `AcceptedIsCounted`. That the file holds the counted
frames is not invariant, for a failed write leaves a torn frame between whole
ones. What is, is `Sound`: *if* the recording begins with as many whole frames as
are counted, then they are those, and no further one follows. It is kept because
the units left of a failed write, or the tail cut off at the end, stop inside a
frame, and what comes behind them begins with a frame's first unit: that frame
never becomes whole, so a recording with such a remnant inside it begins with
fewer whole frames than are counted from then on (`SoundAppends`, `SoundCut`).
inspect accepts only a file that begins with as many whole frames as its header
says (`AcceptedIs`). `RecapturesAreExact` is `RecaptureExact`, from `Recorded`, `Replayed` (a replay whose connection is not cut
sent whole what it counts as sent) and `ConnectionsKeepTheirFrames`.

**Induction over data.** The induction theorems of the library take an operator,
which the provers cannot instantiate. Intake_proofs and StreamDecoder_proofs do
without: `LeastNatural` follows from the library's theorem that proper inclusion
of finite sets is well founded, applied to the sets `0 .. n`, and `InductionUpTo`
states induction about a *set* of numbers, which each use defines by what is to
be shown. So what `Decoded`, `From` and the other recursive functions compute is
proved for sequences of any length. The model writes them as functions, not as
RECURSIVE operators, for this reason.

Only model-checked: every liveness property (`FrameLeaves`, `RetainedBatchDrains`,
`PreferredRecovered`, `FramesGetThrough`, `LoopEnds`, `ReplayEnds`), which together with ENABLED is outside TLAPS's reach here, and the
four properties of section 4 that the code violates.

## 6. What is not modelled

Two properties of the router hold under premises its environment has to meet,
and say so. `FramesGetThrough` assumes that no allowed hop is *late* or *silent*:
dead hops are of this host, as in the repository's soaks, or have no route; for
dead ports elsewhere it is false (section 4). `PreferredRecovered`
allows silent hops but assumes that no allowed hop is *late*, for the odd refusal
that is back in time could meet every probe. The action properties hold for hops
of every kind.

The bits of the CRC and of the encodings, argument parsing, pacing, logging and
statistics output, the UI's widgets, the text the stats server formats, the
Java senders of control (they build the datagram that zcmesh_ctl does), the
arena (used at start-up only), and the benchmark. `MeshRouter::deliver` and
several routes per router exist in the code, but no program uses them. The hop's
own socket error is one more way for a datagram to be lost (`Lose`). A power
failure is not modelled, only the death of a process: what a write took is in
the file. The order of plain and ordered stores between threads is taken to be
the program's.

## 7. What is left

Every component that keeps state is modelled. What could still be added: the
path from EdgeUplink's streams through Receiver to FrameRing in one composition
(its state space is the product of the three; Intake takes an edge's stream as
any that EdgeUplink allows instead), with the frames' conservation from sampling
to poll as its theorem, resting on those proved of the parts.
