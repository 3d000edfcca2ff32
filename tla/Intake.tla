-------------------------------- MODULE Intake --------------------------------
(***************************************************************************)
(* Replay and edges against one of the two listening programs: capture and  *)
(* inspect, or the operator's receiver.                                     *)
(***************************************************************************)
EXTENDS Replay, Capture, Receiver

VARIABLE program        \* which of the two listens

vars == <<program, kernel, results, replayVars, captureVars, receiverVars>>

Init ==
  /\ program \in {"capture", "operator"}
  /\ ListenerInit /\ (program = "operator" => "udp" \in up)
  /\ ReplayInit /\ CaptureInit /\ ReceiverInit

(* The actions of each part with the rest of the state left alone.          *)
ReplayStep ==
  ReplayNext /\ UNCHANGED <<program, captureVars, receiverVars>>

EdgeStep ==
  EdgeNext /\ UNCHANGED <<program, replayVars, captureVars, receiverVars>>

Captures(A) ==
  program = "capture" /\ A /\ UNCHANGED <<program, replayVars, receiverVars>>

Receives(A) ==
  program = "operator" /\ A /\ UNCHANGED <<program, replayVars, captureVars>>

Next ==
  \/ ReplayStep
  \/ EdgeStep
  \/ Captures(CaptureNext)
  \/ Receives(ReceiverNext)

Spec == Init /\ [][Next]_vars

(* The tool and the programs run, and the capture's time is up some day.    *)
(* Edges owe nothing, and nobody has to close the operator.                 *)
FairSpec ==
  /\ Spec
  /\ WF_vars(ReplayStep)
  /\ WF_vars(Captures(CaptureEnds))
  /\ \A c \in Clients :
       WF_vars(Receives(ReceiverAccepts(c) \/ ReadTcp(c) \/ ReadTcpEnd(c)))

(***************************************************************************)
(* Properties                                                              *)
(***************************************************************************)

(* The frames of client c among those given.                                *)
From(c, frames) ==
  LET own[n \in 0 .. Len(frames)] ==
        IF n = 0 THEN <<>>
        ELSE IF frames[n][1] = c THEN Append(own[n - 1], frames[n])
                                 ELSE own[n - 1]
  IN own[Len(frames)]

(* Whichever write fails and wherever capture is killed, a recording that   *)
(* inspect accepts holds nothing, or exactly the frames capture counted.    *)
AcceptedIsCounted ==
  captureExit # "running" /\ Accepted =>
    file.header = 0 \/ FramesRead = counted

(* A replay over TCP that reports success, to a capture that does too, read *)
(* the connection to its end and met no write fault, is recorded frame by   *)
(* frame in order, whatever the edges did meanwhile; and inspect accepts.   *)
RecaptureExact ==
  /\ replayExit = "ok" /\ captureExit = "ok" /\ faults = 0
  /\ transport = "tcp" /\ link["replay"] = "eof"
  => /\ Accepted
     /\ From("replay", FramesRead) = [n \in 1 .. source.count |-> <<"replay", n>>]

(* A connection that began with a frame's beginning, and all that came      *)
(* before it did, costs no resync: no byte of one connection is taken for   *)
(* another's, though they end anywhere and replace one another.             *)
WholeStreamsNeedNoResync == torn = {} => skipped = 0

(* Whatever is read when, the frames of a connection come once and in       *)
(* order, and all of them by the time its end is read.                      *)
ConnectionsKeepTheirFrames ==
  \A c \in Clients :
    transport = "tcp" \/ c # "replay" =>
      /\ IsPrefix(From(c, got), whole[c])
      /\ link[c] = "eof" => From(c, got) = whole[c]

(* Replay ends, though it waits without limit for room in a socket: unless  *)
(* the operator's thread died, and that only of a client's reset, when its  *)
(* connections stay open and nobody reads them.                             *)
ReplayEnds ==
  <>(\/ replayPc = "ended"
     \/ thread = "dead" /\ \E e \in Edges : ended[e] = "reset")
=============================================================================
