-------------------------------- MODULE Sampler --------------------------------
(***************************************************************************)
(* The operator's figures: TelemetryPipeline.offer counts on the receiver   *)
(* thread, MetricsSampler.snapshot reads on the UI's tick and in the stats  *)
(* server, which share one sampler and no lock (OperatorRuntime.java:45-47).*)
(*                                                                         *)
(* offer and snapshot are taken apart into their single reads and writes.   *)
(* The fields of the sampler are plain longs: another thread is taken to    *)
(* see a store at once, for a store it sees late looks like a pause of the  *)
(* storing thread before it.  prevBytes is kept as prevOk is and left out,  *)
(* as are the counters no property compares.                                *)
(***************************************************************************)
EXTENDS Integers

CONSTANTS
  Threads,      \* the callers of snapshot
  MaxFrames,    \* bound: frames offered
  MaxClock,     \* bound: the value of System.nanoTime
  MaxShots      \* bound: snapshots begun

ASSUME SamplerAssumption ==
  /\ MaxFrames \in Nat
  /\ MaxClock \in Nat
  /\ MaxShots \in Nat

VARIABLES
  clock,        \* System.nanoTime
  bytesIn, hopIdx, framesOk,   \* bytesIn in frames; hopIdx, all indexes
  offerPc,      \* the receiver thread, in offer
  prevOk, prevNs,
  pc,           \* the callers of snapshot
  now, ok, bytes, dt, delta,   \* their locals; delta is fps times dt
  shot,         \* the latest snapshot that each returned
  rated,        \* history: what all windows came to together
  unrated,      \* history: frames that fell into a window without length
  overlapped,   \* history: two snapshots were under way at once
  shots         \* history: snapshots begun

counters == <<bytesIn, hopIdx, framesOk, offerPc>>
prev == <<prevOk, prevNs>>
locals == <<now, ok, bytes, dt, delta>>
history == <<rated, unrated, overlapped, shots>>
vars == <<clock, counters, prev, pc, locals, shot, history>>

Zero == [t \in Threads |-> 0]
NoShot == [ok |-> 0, bytes |-> 0, hops |-> 0, delta |-> 0]

Init ==
  /\ clock = 0
  /\ bytesIn = 0 /\ hopIdx = 0 /\ framesOk = 0
  /\ offerPc = "idle"
  /\ prevOk = 0 /\ prevNs = 0
  /\ pc = [t \in Threads |-> "idle"]
  /\ now = Zero /\ ok = Zero /\ bytes = Zero /\ dt = Zero /\ delta = Zero
  /\ shot = [t \in Threads |-> NoShot]
  /\ rated = 0 /\ unrated = 0
  /\ overlapped = FALSE
  /\ shots = 0

Tick ==
  /\ clock < MaxClock
  /\ clock' = clock + 1
  /\ UNCHANGED <<counters, prev, pc, locals, shot, history>>

(***************************************************************************)
(* TelemetryPipeline.offer                                                 *)
(***************************************************************************)
OfferBytes ==
  /\ offerPc = "idle" /\ bytesIn < MaxFrames
  /\ bytesIn' = bytesIn + 1
  /\ offerPc' \in {"hop", "idle"}          \* "idle": the CRC is wrong
  /\ UNCHANGED <<clock, hopIdx, framesOk, prev, pc, locals, shot, history>>

OfferHop ==
  /\ offerPc = "hop"
  /\ hopIdx' = hopIdx + 1
  /\ offerPc' = "ok"
  /\ UNCHANGED <<clock, bytesIn, framesOk, prev, pc, locals, shot, history>>

OfferOk ==
  /\ offerPc = "ok"
  /\ framesOk' = framesOk + 1
  /\ offerPc' = "idle"
  /\ UNCHANGED <<clock, bytesIn, hopIdx, prev, pc, locals, shot, history>>

(***************************************************************************)
(* MetricsSampler.snapshot                                                 *)
(***************************************************************************)
At(t, from, to) == pc[t] = from /\ pc' = [pc EXCEPT ![t] = to]

ReadNow(t) ==
  /\ At(t, "idle", "ok")
  /\ shots < MaxShots
  /\ shots' = shots + 1
  /\ now' = [now EXCEPT ![t] = clock]
  /\ overlapped' = (overlapped \/ \E u \in Threads : pc[u] # "idle")
  /\ UNCHANGED <<clock, counters, prev, ok, bytes, dt, delta, shot, rated,
                 unrated>>

ReadOk(t) ==
  /\ At(t, "ok", "bytes")
  /\ ok' = [ok EXCEPT ![t] = framesOk]
  /\ UNCHANGED <<clock, counters, prev, now, bytes, dt, delta, shot, history>>

ReadBytes(t) ==
  /\ At(t, "bytes", "dt")
  /\ bytes' = [bytes EXCEPT ![t] = bytesIn]
  /\ UNCHANGED <<clock, counters, prev, now, ok, dt, delta, shot, history>>

ReadPrevNs(t) ==
  /\ At(t, "dt", "rate")
  /\ dt' = [dt EXCEPT ![t] = now[t] - prevNs]
  /\ UNCHANGED <<clock, counters, prev, now, ok, bytes, delta, shot, history>>

(* A window that is empty, or ends before it begins, gets the rate 0.       *)
Rate(t) ==
  /\ At(t, "rate", "keepOk")
  /\ LET frames == ok[t] - prevOk IN
     IF dt[t] > 0
       THEN /\ delta' = [delta EXCEPT ![t] = frames]
            /\ rated' = rated + frames
            /\ UNCHANGED unrated
       ELSE /\ delta' = [delta EXCEPT ![t] = 0]
            /\ unrated' = unrated + frames
            /\ UNCHANGED rated
  /\ UNCHANGED <<clock, counters, prev, now, ok, bytes, dt, shot, overlapped,
                 shots>>

(* Mutant: the counter is read anew, and what came in between is forgotten. *)
KeepOkAnew(t) ==
  /\ At(t, "keepOk", "keepNs")
  /\ prevOk' = framesOk
  /\ UNCHANGED <<clock, counters, prevNs, locals, shot, history>>

KeepOk(t) ==
  /\ At(t, "keepOk", "keepNs")
  /\ prevOk' = ok[t]
  /\ UNCHANGED <<clock, counters, prevNs, locals, shot, history>>

KeepNs(t) ==
  /\ At(t, "keepNs", "rest")
  /\ prevNs' = now[t]
  /\ UNCHANGED <<clock, counters, prevOk, locals, shot, history>>

(* Mutant: framesOk is read once more for the snapshot.                     *)
ReturnOkAnew(t) ==
  /\ At(t, "rest", "idle")
  /\ shot' = [shot EXCEPT ![t] = [ok |-> framesOk, bytes |-> bytes[t],
                                  hops |-> hopIdx, delta |-> delta[t]]]
  /\ UNCHANGED <<clock, counters, prev, locals, history>>

(* The other counters are read while the snapshot is put together.          *)
Return(t) ==
  /\ At(t, "rest", "idle")
  /\ shot' = [shot EXCEPT ![t] = [ok |-> ok[t], bytes |-> bytes[t],
                                  hops |-> hopIdx, delta |-> delta[t]]]
  /\ UNCHANGED <<clock, counters, prev, locals, history>>

Offer == OfferBytes \/ OfferHop \/ OfferOk

Snapshot(t) ==
  \/ ReadNow(t) \/ ReadOk(t) \/ ReadBytes(t) \/ ReadPrevNs(t)
  \/ Rate(t) \/ KeepOk(t) \/ KeepNs(t) \/ Return(t)

Snapshots == \E t \in Threads : Snapshot(t)

Next == Tick \/ Offer \/ Snapshots

Spec == Init /\ [][Next]_vars

(***************************************************************************)
(* Properties                                                              *)
(***************************************************************************)

(* However counting and reading interleave, no snapshot shows more good     *)
(* frames than bytes for them, nor than hop indexes: offer counts a frame   *)
(* as good last, and snapshot reads framesOk first.                         *)
CountersCover ==
  \A t \in Threads : shot[t].ok <= shot[t].bytes /\ shot[t].ok <= shot[t].hops

(* As long as the two callers keep out of each other's way, their windows   *)
(* tile the time: each frame counts in one rate, shown here or there, or in *)
(* a window that nanoTime found empty; and no rate is negative.  Nothing    *)
(* keeps them apart, though, and snapshots that overlap can do both.        *)
RatedOnce ==
  ~overlapped =>
    /\ (\A t \in Threads : pc[t] = "idle") => rated + unrated = prevOk
    /\ \A t \in Threads : delta[t] >= 0
=============================================================================
