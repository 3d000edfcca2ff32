------------------------------- MODULE Listener -------------------------------
(***************************************************************************)
(* What the two programs that listen have in common: connections to them,   *)
(* the clients at the other end and the datagrams on the same port.  The    *)
(* clients are the replay tool (Replay) and edges, whose connections end in *)
(* any way and may begin in the middle of a frame (EdgeUplink).             *)
(*                                                                         *)
(* A frame is <<c, f>>, frame f of client c, a unit of it <<c, f, u>>.       *)
(* Decoding is one step here; StreamDecoder has it turn by turn.            *)
(***************************************************************************)
EXTENDS Integers, Sequences, FiniteSetsExt, SequencesExt

CONSTANTS
  Units,        \* ZCMESH_WIRE_FRAME_SIZE, in units
  Edges,        \* connections of edges
  EdgeFrames,   \* bound: frames of an edge's connection
  SockUnits,    \* units that the kernel holds for a connection
  SockDgrams    \* datagrams that the kernel holds for the UDP socket

ASSUME ListenerAssumption ==
  /\ Units \in Nat /\ Units >= 2
  /\ {EdgeFrames, SockUnits, SockDgrams} \subseteq Nat \ {0}
  /\ "replay" \notin Edges

VARIABLES
  up,           \* where the program listens: "tcp", "udp" or both
  link,         \* "idle", "backlog", "open"; "eof": closed at the stream's
                \* end; "cut": closed by the program before that
  sock,         \* units sent and not received
  ended,        \* "no", "closed", "reset": what the client did
  at,           \* edges: units of the stream sent or, at first, left out
  torn,         \* history: connections begun in the middle of a frame
  whole,        \* history: the frames the client sent whole
  backlog,      \* connections not accepted yet
  dgrams,       \* datagrams not received yet
  got,          \* the frames passed on to append_frame or offer, in order
  skipped       \* bytes skipped: resync, of which the operator's tcpResync
                \* misses some (StreamDecoder)

kernel == <<up, link, sock, ended, at, torn, whole, backlog, dgrams>>
results == <<got, skipped>>

Clients == {"replay"} \union Edges

ListenerInit ==
  /\ up \in {{"udp"}, {"tcp"}, {"tcp", "udp"}}
  /\ link = [c \in Clients |-> "idle"]
  /\ sock = [c \in Clients |-> <<>>]
  /\ ended = [c \in Clients |-> "no"]
  /\ at = [e \in Edges |-> 0]
  /\ torn = {}
  /\ whole = [c \in Clients |-> <<>>]
  /\ backlog = <<>> /\ dgrams = <<>>
  /\ got = <<>> /\ skipped = 0

(***************************************************************************)
(* Clients                                                                 *)
(***************************************************************************)

(* The kernel completes a connection before it is accepted.                 *)
Connect(c) ==
  /\ "tcp" \in up /\ link[c] = "idle"
  /\ link' = [link EXCEPT ![c] = "backlog"]
  /\ backlog' = Append(backlog, c)

Connected(c) == link[c] \in {"backlog", "open"} /\ ended[c] = "no"

EdgeConnects(e) ==
  /\ Connect(e)
  /\ \E u \in 0 .. Units - 1 :
       /\ at' = [at EXCEPT ![e] = u]
       /\ torn' = IF u > 0 THEN torn \union {e} ELSE torn
  /\ UNCHANGED <<up, sock, ended, whole, dgrams, results>>

EdgeSends(e) ==
  /\ Connected(e)
  /\ at[e] < EdgeFrames * Units /\ Len(sock[e]) < SockUnits
  /\ LET f == at[e] \div Units + 1
         u == at[e] % Units IN
     /\ sock' = [sock EXCEPT ![e] = Append(@, <<e, f, u>>)]
     /\ whole' =
          IF u = Units - 1 /\ (f > 1 \/ e \notin torn)
            THEN [whole EXCEPT ![e] = Append(@, <<e, f>>)] ELSE whole
  /\ at' = [at EXCEPT ![e] = @ + 1]
  /\ UNCHANGED <<up, link, ended, torn, backlog, dgrams, results>>

EdgeEnds(e) ==
  /\ Connected(e)
  /\ \E how \in {"closed", "reset"} : ended' = [ended EXCEPT ![e] = how]
  /\ UNCHANGED <<up, link, sock, at, torn, whole, backlog, dgrams, results>>

(***************************************************************************)
(* The listening program's side                                            *)
(***************************************************************************)
Accept(c) ==
  /\ backlog # <<>> /\ c = Head(backlog)
  /\ backlog' = Tail(backlog)

Closed(c, how) ==
  /\ link' = [link EXCEPT ![c] = how]
  /\ sock' = [sock EXCEPT ![c] = <<>>]

(* recv and read: some units; the end, once all were received; or an error, *)
(* after a reset, which may overtake units not received.                    *)
MayReceive(c, n) == link[c] = "open" /\ n \in 1 .. Len(sock[c])
AtEnd(c) == link[c] = "open" /\ ended[c] = "closed" /\ sock[c] = <<>>
Broken(c) == link[c] = "open" /\ ended[c] = "reset"

Received(c, n) == SubSeq(sock[c], 1, n)

Take(c, n) ==
  /\ sock' = [sock EXCEPT ![c] = SubSeq(@, n + 1, Len(@))]
  /\ UNCHANGED <<up, link, ended, at, torn, whole, backlog, dgrams>>

(* verify_frame of a frame's length of units: only a frame holds together.  *)
Verified(w) == \A u \in 1 .. Units : w[u] = <<w[1][1], w[1][2], u - 1>>

(* One more unit: the window at the position is a frame, or is moved on.    *)
Slide(acc, unit) ==
  LET w == Append(acc.left, unit) IN
  CASE Len(w) < Units -> [acc EXCEPT !.left = w]
    [] Len(w) = Units /\ Verified(w) ->
         [acc EXCEPT !.left = <<>>, !.frames = Append(@, SubSeq(w[1], 1, 2))]
    [] OTHER -> [acc EXCEPT !.left = Tail(w), !.skipped = @ + 1]

(* decode_tcp_stream and decodeStream of what was left and what came.       *)
Decoded(left, units) ==
  LET after[n \in 0 .. Len(units)] ==
        IF n = 0 THEN [left |-> left, frames |-> <<>>, skipped |-> 0]
                 ELSE Slide(after[n - 1], units[n])
  IN after[Len(units)]

(* The program is gone, and with it every socket it had.                    *)
Gone ==
  /\ up' = {}
  /\ link' = [c \in Clients |->
                IF link[c] \in {"backlog", "open"} THEN "cut" ELSE link[c]]
  /\ sock' = [c \in Clients |-> <<>>]
  /\ backlog' = <<>> /\ dgrams' = <<>>
  /\ UNCHANGED <<ended, at, torn, whole, results>>

EdgeNext == \E e \in Edges : EdgeConnects(e) \/ EdgeSends(e) \/ EdgeEnds(e)
=============================================================================
