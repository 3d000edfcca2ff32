-------------------------------- MODULE Replay --------------------------------
(***************************************************************************)
(* The replay tool (replay.cpp): it reads a recording, connects and sends   *)
(* the frames whose CRC holds, over TCP or UDP.  Pacing is left out.        *)
(***************************************************************************)
EXTENDS Listener

CONSTANT MaxSource      \* bound: frames in the recording

ASSUME ReplayAssumption == MaxSource \in Nat

VARIABLES
  source,       \* the recording: its header's count, and which frames verify
  transport,    \* "tcp" or "udp"
  replayPc,     \* "start", "sending" or "ended"
  i,            \* the frame of the loop, from 1
  off,          \* units of it that the socket took
  connected,    \* connected_ of TcpClient
  fail,         \* frames not sent
  replayExit    \* "none", "ok", "error"; "killed" by SIGPIPE

replayVars == <<source, transport, replayPc, i, off, connected, fail,
                replayExit>>

(* Whole, or with fewer frames than its header counts.                      *)
Sources ==
  UNION {[count : {n, n + 1}, good : [1 .. n -> BOOLEAN]] : n \in 0 .. MaxSource}

ReplayInit ==
  /\ source \in Sources
  /\ transport \in {"tcp", "udp"}
  /\ replayPc = "start"
  /\ i = 1 /\ off = 0 /\ fail = 0
  /\ connected = FALSE
  /\ replayExit = "none"

Exit(status) ==
  /\ replayPc' = "ended"
  /\ replayExit' = status

(* Exits before the loop: a truncated recording, no connection in 50 ms.    *)
ReplayRefused ==
  /\ replayPc = "start"
  /\ source.count > Len(source.good) \/ transport = "tcp"
  /\ Exit("error")
  /\ UNCHANGED <<source, transport, i, off, connected, fail, kernel, results>>

ReplayStart ==
  /\ replayPc = "start"
  /\ source.count = Len(source.good)
  /\ replayPc' = "sending"
  /\ IF transport = "tcp"
       THEN Connect("replay") /\ connected' = TRUE
       ELSE UNCHANGED <<link, backlog, connected>>
  /\ UNCHANGED <<source, transport, i, off, fail, replayExit, up, sock, ended,
                 at, torn, whole, dgrams, results>>

InLoop == replayPc = "sending" /\ i <= source.count
Sending(medium) == InLoop /\ source.good[i] /\ transport = medium

Advance(ok) ==
  /\ i' = i + 1
  /\ off' = 0
  /\ fail' = IF ok THEN fail ELSE fail + 1

SkipBad ==
  /\ InLoop /\ ~source.good[i]
  /\ Advance(FALSE)
  /\ UNCHANGED <<source, transport, replayPc, connected, replayExit, kernel,
                 results>>

(* Mutant: after a partial send the frame is sent from its beginning.       *)
RestAnew(n) == [k \in 1 .. n |-> <<"replay", i, k - 1>>]

(* The next n units of the frame.                                           *)
Rest(n) == [k \in 1 .. n |-> <<"replay", i, off + k - 1>>]

(* send_nb takes some of the rest; 0 while the socket is full, and then the *)
(* inner loop waits, for as long as it takes.                               *)
SendSome ==
  /\ Sending("tcp") /\ Connected("replay")
  /\ \E n \in 1 .. Units - off :
       /\ Len(sock["replay"]) + n <= SockUnits
       /\ sock' = [sock EXCEPT !["replay"] = @ \o Rest(n)]
       /\ IF off + n = Units
            THEN /\ Advance(TRUE)
                 /\ whole' = [whole EXCEPT !["replay"] =
                                Append(@, <<"replay", i>>)]
            ELSE off' = off + n /\ UNCHANGED <<i, fail, whole>>
  /\ UNCHANGED <<source, transport, replayPc, connected, replayExit, up, link,
                 ended, at, torn, backlog, dgrams, results>>

(* The other end has closed: the kernel takes what it can no longer deliver *)
(* until it has been told; then send fails, for good, or kills by SIGPIPE.  *)
SendBroken ==
  /\ Sending("tcp") /\ ~Connected("replay")
  /\ \/ /\ connected
        /\ Advance(TRUE)
        /\ UNCHANGED <<replayPc, connected, replayExit>>
     \/ /\ connected' = FALSE
        /\ Advance(FALSE)
        /\ UNCHANGED <<replayPc, replayExit>>
     \/ /\ connected
        /\ Exit("killed")
        /\ UNCHANGED <<i, off, fail, connected>>
  /\ UNCHANGED <<source, transport, kernel, results>>

(* send_to: a datagram is lost, garbled or queued; a closed port may show.  *)
SendDatagram ==
  /\ Sending("udp")
  /\ \/ /\ \/ UNCHANGED dgrams
           \/ /\ "udp" \in up /\ Len(dgrams) < SockDgrams
              /\ \E d \in {<<"replay", i>>, <<"garbled">>} :
                   dgrams' = Append(dgrams, d)
        /\ Advance(TRUE)
     \/ /\ "udp" \notin up
        /\ Advance(FALSE)
        /\ UNCHANGED dgrams
  /\ UNCHANGED <<source, transport, replayPc, connected, replayExit, up, link,
                 sock, ended, at, torn, whole, backlog, results>>

ReplayEnd ==
  /\ replayPc = "sending" /\ i > source.count
  /\ Exit(IF fail = 0 THEN "ok" ELSE "error")
  /\ ended' = [ended EXCEPT !["replay"] = "closed"]
  /\ UNCHANGED <<source, transport, i, off, connected, fail, up, link, sock,
                 at, torn, whole, backlog, dgrams, results>>

ReplayNext ==
  \/ ReplayRefused \/ ReplayStart \/ SkipBad \/ SendSome \/ SendBroken
  \/ SendDatagram \/ ReplayEnd
=============================================================================
