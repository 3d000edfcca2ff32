-------------------------------- MODULE Receiver --------------------------------
(***************************************************************************)
(* The operator's receiver thread (FrameReceiver.java): connections with a  *)
(* buffer each, and datagrams.  What it passes on goes to the pipeline      *)
(* (MeshPath, FrameRing).                                                   *)
(***************************************************************************)
EXTENDS Listener

VARIABLES
  thread,       \* "running"; "dead" of an IOException; "exited"
  buffers       \* the buffer attached to each connection's key

receiverVars == <<thread, buffers>>

ReceiverInit ==
  /\ thread = "running"
  /\ buffers = [c \in Clients |-> <<>>]

ReceiverAccepts(c) ==
  /\ thread = "running" /\ Accept(c)
  /\ link' = [link EXCEPT ![c] = "open"]
  /\ UNCHANGED <<up, sock, ended, at, torn, whole, dgrams, results,
                 receiverVars>>

(* Mutant: one buffer serves all connections.                               *)
BufferOfAll(c) == CHOOSE d \in Clients : TRUE

BufferOf(c) == c

ReadTcp(c) ==
  /\ thread = "running"
  /\ \E n \in 1 .. Len(sock[c]) :
       LET result == Decoded(buffers[BufferOf(c)], Received(c, n)) IN
       /\ MayReceive(c, n)
       /\ Take(c, n)
       /\ buffers' = [buffers EXCEPT ![BufferOf(c)] = result.left]
       /\ got' = got \o result.frames
       /\ skipped' = skipped + result.skipped
  /\ UNCHANGED thread

(* Mutant: the end of a stream is taken for an error of the channel.        *)
EndThrows(c) ==
  /\ thread = "running" /\ AtEnd(c)
  /\ thread' = "dead"
  /\ UNCHANGED <<kernel, results, buffers>>

ReadTcpEnd(c) ==
  /\ thread = "running" /\ AtEnd(c)
  /\ Closed(c, "eof")
  /\ UNCHANGED <<up, ended, at, torn, whole, backlog, dgrams, results,
                 receiverVars>>

(* read throws: run closes the selector and the datagram channel, but not   *)
(* the server nor its connections, and the thread is gone.                  *)
ReadTcpThrows(c) ==
  /\ thread = "running" /\ Broken(c)
  /\ thread' = "dead"
  /\ up' = up \ {"udp"}
  /\ dgrams' = <<>>
  /\ UNCHANGED <<link, sock, ended, at, torn, whole, backlog, results,
                 buffers>>

ReadUdp ==
  /\ thread = "running" /\ dgrams # <<>>
  /\ dgrams' = Tail(dgrams)
  /\ got' = IF Head(dgrams) = <<"garbled">> THEN got
                                            ELSE Append(got, Head(dgrams))
  /\ UNCHANGED <<up, link, sock, ended, at, torn, whole, backlog, skipped,
                 receiverVars>>

(* stop and the end of the program.                                         *)
OperatorExits ==
  /\ thread # "exited"
  /\ thread' = "exited"
  /\ Gone
  /\ UNCHANGED buffers

ReceiverNext ==
  \/ \E c \in Clients :
       ReceiverAccepts(c) \/ ReadTcp(c) \/ ReadTcpEnd(c) \/ ReadTcpThrows(c)
  \/ ReadUdp \/ OperatorExits
=============================================================================
