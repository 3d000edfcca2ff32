------------------------------ MODULE Recording ------------------------------
(***************************************************************************)
(* The operator's recording.  A thread drains the frame ring into a .zcm    *)
(* file (OperatorRuntime.drainToRecorder, ZcmWriter.write) until another    *)
(* closes it, which puts the number of frames into the file's header        *)
(* (ZcmWriter.close).  With the UI the drain is a task that a pool repeats  *)
(* (OperatorApp.tick) and the UI thread closes, after interrupting the      *)
(* pool; headless, one thread does both in turn (HeadlessOperator).         *)
(* Inspect and replay read the file: header first, then as many frames as   *)
(* it counts.                                                              *)
(*                                                                         *)
(* write and close are synchronized on the writer.  A channel that an       *)
(* interrupted thread writes to is closed (ClosedByInterruptException).     *)
(* The program may be killed at any point; what write(2) took stays in the  *)
(* file.  A write may fail for want of space, before or in a frame; the     *)
(* header, whose space is there, can always be written over.                *)
(***************************************************************************)
EXTENDS Integers, Sequences

CONSTANTS
  DrainMax,     \* frames drained at a time (512 and 256 in the code)
  Units,        \* write units of a frame: a write may end between two
  MaxFrames,    \* bound: frames that reach the ring
  MaxFaults     \* bound: writes that fail

ASSUME RecordingAssumption ==
  /\ DrainMax \in Nat \ {0}
  /\ Units \in Nat \ {0}
  /\ MaxFrames \in Nat
  /\ MaxFaults \in Nat

VARIABLES
  ui,           \* the UI runs the operator; headless otherwise
  running,      \* the program has not been killed
  offered,      \* frames that reached the ring, numbered from 1
  polled,       \* how many of them were taken from it
  drainPc,      \* the draining thread
  drained,      \* frames of this drain
  written,      \* units of the frame in hand that are in the file
  stopping,     \* no further drain begins
  interrupted,  \* the draining thread is
  closePc,      \* the closing thread
  lock,         \* who holds the writer's monitor
  open,         \* the channel
  closed,       \* ZcmWriter.closed
  frameCount,   \* ZcmWriter.frameCount
  header,       \* the frame count in the file
  disk,         \* the units after the header
  counted,      \* history: the frames write returned for
  faults        \* history: writes that failed

reader == <<header, disk>>
writer == <<open, closed, frameCount, counted>>
drain == <<polled, drainPc, drained, written>>
vars == <<ui, running, offered, drain, stopping, interrupted, closePc, lock,
          writer, reader, faults>>

InHand == polled                 \* the latest frame polled

(* ZcmWriter(path): an empty file with a header that counts no frame.       *)
Init ==
  /\ ui \in BOOLEAN
  /\ running = TRUE
  /\ offered = 0 /\ polled = 0 /\ drained = 0 /\ written = 0
  /\ drainPc = "idle"
  /\ stopping = FALSE /\ interrupted = FALSE
  /\ closePc = "waiting"
  /\ lock = "free"
  /\ open = TRUE /\ closed = FALSE
  /\ frameCount = 0 /\ header = 0
  /\ disk = <<>> /\ counted = <<>>
  /\ faults = 0

(***************************************************************************)
(* The receiver thread                                                     *)
(***************************************************************************)
Offer ==
  /\ running /\ offered < MaxFrames
  /\ offered' = offered + 1
  /\ UNCHANGED <<ui, running, drain, stopping, interrupted, closePc, lock,
                 writer, reader, faults>>

(***************************************************************************)
(* The draining thread                                                     *)
(***************************************************************************)
DrainBegin ==
  /\ running /\ drainPc = "idle" /\ ~stopping
  /\ drainPc' = "draining"
  /\ drained' = 0
  /\ UNCHANGED <<ui, running, offered, polled, written, stopping, interrupted,
                 closePc, lock, writer, reader, faults>>

DrainEnd ==
  /\ running /\ drainPc = "draining"
  /\ drained = DrainMax \/ polled = offered
  /\ drainPc' = "idle"
  /\ UNCHANGED <<ui, running, offered, polled, drained, written, stopping,
                 interrupted, closePc, lock, writer, reader, faults>>

(* Mutant: a poll that finds nothing is taken for a frame.                  *)
PollAny ==
  /\ polled' = polled + 1
  /\ drainPc' = "entering"

Poll ==
  /\ polled < offered
  /\ polled' = polled + 1
  /\ drainPc' = "entering"

DrainPoll ==
  /\ running /\ drainPc = "draining"
  /\ drained < DrainMax
  /\ Poll
  /\ written' = 0
  /\ UNCHANGED <<ui, running, offered, drained, stopping, interrupted,
                 closePc, lock, writer, reader, faults>>

(* Mutant: write is not synchronized.                                       *)
EnterAtOnce == lock' = lock

(* synchronized: the thread waits for the monitor, and has it to the end.   *)
Enter == lock = "free" /\ lock' = "drain"

WriteEnter ==
  /\ running /\ drainPc = "entering"
  /\ Enter
  /\ drainPc' = "writing"
  /\ UNCHANGED <<ui, running, offered, polled, drained, written, stopping,
                 interrupted, closePc, writer, reader, faults>>

LeaveWrite == lock' = IF lock = "drain" THEN "free" ELSE lock

(* Mutant: the exception is caught at the frame and the drain goes on.      *)
CaughtAtFrame == drainPc' = "draining" /\ UNCHANGED stopping

(* An exception ends the drain: tick catches it, to be run again; headless  *)
(* it leaves the loop and the try closes the recorder.                      *)
DrainFails ==
  /\ drainPc' = "idle"
  /\ stopping' = (stopping \/ ~ui)

Throw == LeaveWrite /\ DrainFails

Put(k) == disk' = disk \o [i \in 1 .. k |-> <<InHand, written + i>>]

(* Mutant: one channel.write and no loop, whatever it wrote.                *)
WriteDoneAtOnce == TRUE

WriteDone == written' = Units

(* The writer is closed, or its channel was.                                *)
WriteRefused ==
  /\ running /\ drainPc = "writing"
  /\ closed \/ ~open
  /\ Throw
  /\ UNCHANGED <<ui, running, offered, polled, drained, written, interrupted,
                 closePc, writer, reader, faults>>

(* channel.write, in an open channel: it writes some units of the frame,    *)
(* all as a rule, and the loop ends when none remain.                       *)
WriteSome ==
  /\ running /\ drainPc = "writing"
  /\ ~closed /\ open /\ ~interrupted
  /\ \E k \in 1 .. Units - written :
       /\ Put(k)
       /\ written' = written + k
  /\ drainPc' = IF WriteDone THEN "counting" ELSE drainPc
  /\ UNCHANGED <<ui, running, offered, polled, drained, stopping, interrupted,
                 closePc, lock, writer, header, faults>>

WriteReturn ==
  /\ running /\ drainPc = "counting"
  /\ frameCount' = frameCount + 1
  /\ counted' = Append(counted, InHand)
  /\ drained' = drained + 1
  /\ drainPc' = "draining"
  /\ LeaveWrite
  /\ UNCHANGED <<ui, running, offered, polled, written, stopping, interrupted,
                 closePc, open, closed, reader, faults>>

WriteFault ==
  /\ running /\ drainPc = "writing"
  /\ ~closed /\ open /\ ~interrupted
  /\ faults < MaxFaults
  /\ faults' = faults + 1
  /\ Throw
  /\ UNCHANGED <<ui, running, offered, polled, drained, written, interrupted,
                 closePc, writer, reader>>

(* The interrupt came before the write, or in it.                           *)
WriteInterrupted ==
  /\ running /\ drainPc = "writing"
  /\ ~closed /\ open /\ interrupted
  /\ \E k \in 0 .. Units - written :
       /\ Put(k)
       /\ written' = written + k
  /\ open' = FALSE
  /\ Throw
  /\ UNCHANGED <<ui, running, offered, polled, drained, interrupted, closePc,
                 closed, frameCount, counted, header, faults>>

(***************************************************************************)
(* The closing thread                                                      *)
(***************************************************************************)

(* The window is closed: shutdownNow, which interrupts a drain under way.   *)
(* Headless: the deadline or the number of frames is reached, or the drain  *)
(* failed; in each case the drain is over.                                  *)
Shutdown ==
  /\ running /\ closePc = "waiting"
  /\ ~ui => drainPc = "idle"
  /\ stopping' = TRUE
  /\ interrupted' = (ui /\ drainPc # "idle")
  /\ closePc' = "closing"
  /\ UNCHANGED <<ui, running, offered, drain, lock, writer, reader, faults>>

CloseEnter ==
  /\ running /\ closePc = "closing"
  /\ lock = "free"
  /\ lock' = "close"
  /\ closePc' = "header"
  /\ UNCHANGED <<ui, running, offered, drain, stopping, interrupted, writer,
                 reader, faults>>

CloseHeader ==
  /\ running /\ closePc = "header" /\ open
  /\ header' = frameCount
  /\ closePc' = "channel"
  /\ UNCHANGED <<ui, running, offered, drain, stopping, interrupted, lock,
                 writer, disk, faults>>

(* channel.position throws ClosedChannelException; shutdown prints it.      *)
CloseRefused ==
  /\ running /\ closePc = "header" /\ ~open
  /\ lock' = "free"
  /\ closePc' = "done"
  /\ UNCHANGED <<ui, running, offered, drain, stopping, interrupted, writer,
                 reader, faults>>

CloseChannel ==
  /\ running /\ closePc = "channel"
  /\ open' = FALSE /\ closed' = TRUE
  /\ lock' = "free"
  /\ closePc' = "done"
  /\ UNCHANGED <<ui, running, offered, drain, stopping, interrupted,
                 frameCount, counted, reader, faults>>

Kill ==
  /\ running
  /\ running' = FALSE
  /\ UNCHANGED <<ui, offered, drain, stopping, interrupted, closePc, lock,
                 writer, reader, faults>>

Drain ==
  \/ DrainBegin \/ DrainEnd \/ DrainPoll \/ WriteEnter
  \/ WriteRefused \/ WriteSome \/ WriteReturn \/ WriteFault \/ WriteInterrupted

Close == CloseEnter \/ CloseHeader \/ CloseRefused \/ CloseChannel

Next == Offer \/ Drain \/ Shutdown \/ Close \/ Kill

Spec == Init /\ [][Next]_vars

(***************************************************************************)
(* The readers                                                             *)
(***************************************************************************)

(* Mutant: no CRC, only a magic where the frame begins.                     *)
VerifiesMagic(i) ==
  /\ i * Units <= Len(disk)
  /\ disk[(i - 1) * Units + 1][2] = 1

(* Frame i of the file verifies: all its units, in their order, of one.     *)
Verifies(i) ==
  /\ i * Units <= Len(disk)
  /\ \A u \in 1 .. Units :
       disk[(i - 1) * Units + u] = <<disk[(i - 1) * Units + 1][1], u>>

Truncated == Len(disk) < header * Units

(* What inspect and replay make of the file.                                *)
Frames ==
  LET whole == {i \in 1 .. header : Verifies(i)}
  IN [i \in whole |-> disk[(i - 1) * Units + 1][1]]

(***************************************************************************)
(* Properties                                                              *)
(***************************************************************************)
TypeOK ==
  /\ ui \in BOOLEAN /\ running \in BOOLEAN
  /\ stopping \in BOOLEAN /\ interrupted \in BOOLEAN
  /\ open \in BOOLEAN /\ closed \in BOOLEAN
  /\ offered \in 0 .. MaxFrames
  /\ polled \in 0 .. offered
  /\ drainPc \in {"idle", "draining", "entering", "writing", "counting"}
  /\ drained \in 0 .. DrainMax
  /\ written \in 0 .. Units
  /\ closePc \in {"waiting", "closing", "header", "channel", "done"}
  /\ lock \in {"free", "drain", "close"}
  /\ frameCount \in 0 .. MaxFrames /\ header \in 0 .. MaxFrames
  /\ disk \in Seq((1 .. MaxFrames) \X (1 .. Units))
  /\ counted \in Seq(1 .. MaxFrames)
  /\ faults \in 0 .. MaxFaults

(* A reader never finds the file shorter than its header says, wherever the *)
(* program is killed and whatever write fails (write counts a frame once it *)
(* is out; "truncated at frame", inspect.cpp:108).                          *)
NeverOverclaims == ~Truncated

(* A frame was left unfinished and another begun after it.                  *)
Torn ==
  \E i \in 1 .. Len(disk) - 1 :
    disk[i][1] # disk[i + 1][1] /\ disk[i][2] # Units

(* A reader gets the frames the writer counted, all of them whole and in    *)
(* order, up to the number in the header.  Headless a failed write does not *)
(* spoil this, for nothing is written after it; with the UI the next tick   *)
(* writes on behind the torn frame.                                         *)
ReadsWhatWasCounted ==
  ~ui \/ ~Torn => Frames = SubSeq(counted, 1, header)

(* inspect accepts a file (inspect.cpp:105, 169) that is long enough and in *)
(* which every frame verifies.  Whatever was torn, and however the torn     *)
(* pieces add up, an accepted file holds the counted frames: those behind a *)
(* torn one, which lie off the grid, do not pass for others.                *)
TearsAreNoticed ==
  ~Truncated /\ (\A i \in 1 .. header : Verifies(i)) =>
    Frames = SubSeq(counted, 1, header)

(* Once the writer is closed the header counts every frame that write       *)
(* returned for, whatever write and close raced for the monitor.            *)
CloseCountsAll == closed => header = Len(counted)

(* The frame in hand, if there is one.                                      *)
Held == IF drainPc \in {"entering", "writing", "counting"} THEN 1 ELSE 0

(* Of the frames taken from the ring only those are missing from the file   *)
(* whose write failed, one more that the shutdown cut off, and the one in   *)
(* hand (drainToRecorder).                                                  *)
FewLost ==
  polled - Len(counted) - Held <=
    faults + (IF ui /\ stopping THEN 1 ELSE 0)

(* "header rewritten on close with final frame count" (ZcmWriter.java:11).  *)
(* It does not hold: an interrupted drain takes the channel with it.        *)
HeaderFinal == closePc = "done" => header = Len(counted)
=============================================================================
