-------------------------------- MODULE Capture --------------------------------
(***************************************************************************)
(* The capture tool (capture.cpp): one TCP client, which the next replaces, *)
(* datagrams, and a recording that is written as frames come in and whose   *)
(* header gets the count at the end.                                        *)
(*                                                                         *)
(* The parts of a turn of the loop are actions: an event between two parts  *)
(* is the same as one before select returned.  The recording is what was    *)
(* given to stdio; how much of it is in the file shows when the program     *)
(* ends or is killed, or when stdio fails to write and drops the rest.      *)
(***************************************************************************)
EXTENDS Listener

CONSTANT MaxFaults      \* bound: writes to the file that fail

ASSUME CaptureAssumption == MaxFaults \in Nat /\ "none" \notin Edges

VARIABLES
  client,       \* client_fd
  stream,       \* tcp_stream
  out,          \* the units given to stdio, after the header
  counted,      \* history: the frames that ok counts
  faults,       \* history: writes that failed
  file,         \* the recording when the program is gone
  captureExit   \* "running", "ok", "error", "killed"

captureVars == <<client, stream, out, counted, faults, file, captureExit>>
NoHeader == -1

writing == <<out, counted, faults>>

CaptureInit ==
  /\ client = "none"
  /\ stream = <<>> /\ out = <<>> /\ counted = <<>>
  /\ faults = 0
  /\ file = [header |-> NoHeader, units |-> <<>>]
  /\ captureExit = "running"

(* The units of frames, one behind the other.                               *)
Bytes(frames) ==
  [k \in 1 .. Len(frames) * Units |->
     LET f == frames[(k - 1) \div Units + 1] IN
     <<f[1], f[2], (k - 1) % Units>>]

(***************************************************************************)
(* The loop                                                                *)
(***************************************************************************)

(* The write of frame k fails: it is not counted, but a part of it may be   *)
(* left, and what stdio held of earlier ones is lost.  (The first header is *)
(* lost with frames that are counted, or written again at the end.)         *)
FailedAt(k, frames) ==
  /\ faults' = faults + 1
  /\ counted' = counted \o RemoveAt(frames, k)
  /\ \E kept \in Prefixes(out \o Bytes(SubSeq(frames, 1, k - 1))),
        u \in 0 .. Units - 1 :
       out' = kept \o SubSeq(Bytes(<<frames[k]>>), 1, u)
                   \o Bytes(SubSeq(frames, k + 1, Len(frames)))

(* append_frame for each of the frames.                                     *)
AppendFrames(frames) ==
  /\ got' = got \o frames
  /\ \/ /\ out' = out \o Bytes(frames)
        /\ counted' = counted \o frames
        /\ UNCHANGED faults
     \/ /\ faults < MaxFaults
        /\ \E k \in DOMAIN frames : FailedAt(k, frames)

Running == captureExit = "running"

(* Mutant: what the last client left is decoded with the new one's bytes.   *)
ForgetNothing == UNCHANGED stream

Forget == stream' = <<>>

(* The client before, if there is one, is closed, read out or not.          *)
Replace(c) ==
  IF client = "none"
    THEN /\ link' = [link EXCEPT ![c] = "open"]
         /\ UNCHANGED <<sock, stream>>
    ELSE /\ link' = [link EXCEPT ![c] = "open", ![client] = "cut"]
         /\ sock' = [sock EXCEPT ![client] = <<>>]
         /\ Forget

CaptureAccepts(c) ==
  /\ Running /\ Accept(c)
  /\ client' = c
  /\ Replace(c)
  /\ UNCHANGED <<up, ended, at, torn, whole, dgrams, results, writing, file,
                 captureExit>>

CaptureReceives ==
  /\ Running /\ client # "none"
  /\ \E n \in 1 .. Len(sock[client]) :
       LET result == Decoded(stream, Received(client, n)) IN
       /\ MayReceive(client, n)
       /\ Take(client, n)
       /\ stream' = result.left
       /\ skipped' = skipped + result.skipped
       /\ AppendFrames(result.frames)
  /\ UNCHANGED <<client, file, captureExit>>

CaptureLosesClient ==
  /\ Running /\ client # "none"
  /\ \/ AtEnd(client) /\ Closed(client, "eof")
     \/ Broken(client) /\ Closed(client, "cut")
  /\ client' = "none"
  /\ Forget
  /\ UNCHANGED <<up, ended, at, torn, whole, backlog, dgrams, results, writing,
                 file, captureExit>>

(* A datagram that is short or does not verify is dropped.                  *)
CaptureReceivesDatagram ==
  /\ Running /\ dgrams # <<>>
  /\ dgrams' = Tail(dgrams)
  /\ AppendFrames(IF Head(dgrams) = <<"garbled">> THEN <<>>
                                                  ELSE <<Head(dgrams)>>)
  /\ UNCHANGED <<up, link, sock, ended, at, torn, whole, backlog, skipped,
                 client, stream, file, captureExit>>

(***************************************************************************)
(* The end                                                                 *)
(***************************************************************************)
Recording(header, units) == file' = [header |-> header, units |-> units]

(* Time is up.  fseek writes out what stdio holds; that may fail.  fflush   *)
(* may fail to write the header, and nobody looks.                          *)
CaptureEnds ==
  /\ Running
  /\ Gone
  /\ \/ /\ Recording(Len(counted), out)
        /\ captureExit' = IF counted # <<>> THEN "ok" ELSE "error"
        /\ UNCHANGED faults
     \/ /\ faults < MaxFaults
        /\ faults' = faults + 1
        /\ \/ /\ \/ Recording(NoHeader, <<>>)
                 \/ \E kept \in Prefixes(out) : Recording(0, kept)
              /\ captureExit' = "error"
           \/ /\ Recording(0, out)
              /\ captureExit' = IF counted # <<>> THEN "ok" ELSE "error"
  /\ UNCHANGED <<client, stream, out, counted>>

(* Killed: what stdio holds is lost, with the header if that was not yet    *)
(* written out.                                                             *)
CaptureKilled ==
  /\ Running
  /\ Gone
  /\ \/ Recording(NoHeader, <<>>)
     \/ \E kept \in Prefixes(out) : Recording(0, kept)
  /\ captureExit' = "killed"
  /\ UNCHANGED <<client, stream, writing>>

CaptureNext ==
  \/ \E c \in Clients : CaptureAccepts(c)
  \/ CaptureReceives \/ CaptureLosesClient \/ CaptureReceivesDatagram
  \/ CaptureEnds \/ CaptureKilled

(***************************************************************************)
(* inspect.cpp                                                             *)
(***************************************************************************)

(* The n-th frame's length of units after the header.                       *)
FrameAt(n) == SubSeq(file.units, (n - 1) * Units + 1, n * Units)

Short == Len(file.units) < file.header * Units

(* Mutant: a file that ends early is taken as far as it goes.               *)
AcceptedAnyLength ==
  /\ file.header # NoHeader
  /\ \A n \in 1 .. file.header : Short \/ Verified(FrameAt(n))

(* Inspect exits with 0: the header is there, the frames it counts are, and *)
(* each verifies.                                                           *)
Accepted ==
  /\ file.header # NoHeader
  /\ ~Short
  /\ \A n \in 1 .. file.header : Verified(FrameAt(n))

(* The frames read, up to where the file ends.                              *)
FramesRead ==
  [n \in 1 .. Min({file.header, Len(file.units) \div Units}) |->
     SubSeq(FrameAt(n)[1], 1, 2)]
=============================================================================
