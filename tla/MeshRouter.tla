------------------------------ MODULE MeshRouter ------------------------------
(***************************************************************************)
(* One route of core-engine/src/router.cpp, of which the edge sets up      *)
(* exactly one, the UDP socket it sends with (net.cpp), and the control    *)
(* that masks hops (main.cpp).                                              *)
(*                                                                         *)
(* The edge is one thread, so forward_udp is one action.  Between two       *)
(* frames hops may change, control may arrive and time may pass.            *)
(*                                                                         *)
(* send_to connects the one socket to the hop, sends, and disconnects it    *)
(* again.  Sending fails only if there is no way to the hop's host, or if   *)
(* an error is pending: the refusal ("nobody listens here") of a datagram   *)
(* sent earlier, to whichever hop.  Connecting anew does not clear it.  A   *)
(* refusal becomes pending only if it is back before the socket is          *)
(* disconnected.  That depends on what the hop is:                          *)
(*   up       somebody listens                                             *)
(*   closed   nobody listens on this host: loopback refuses during the send *)
(*   late     nobody listens on another host: its refusal takes a round     *)
(*            trip, so it comes to a disconnected socket and is dropped,    *)
(*            but for the odd one that arrives in time                      *)
(*   silent   nothing ever comes back: the host is off, or filters          *)
(*   unreach  no way to the host                                            *)
(*                                                                         *)
(* Left out: attempts, fails and hop_ok, which only reach the log.          *)
(***************************************************************************)
EXTENDS Naturals, FiniteSetsExt

CONSTANTS
  HopCount,        \* hop_count, at most kMaxFallbacks = 3
  ProbeInterval,   \* kPreferredProbeNs, in ticks
  MinRate,         \* frames forwarded between two ticks, at least
  MaxChanges,      \* bound: times a hop changes
  MaxControls      \* bound: times the mask is set

ASSUME RouterAssumption ==
  /\ HopCount \in 1 .. 3
  /\ ProbeInterval \in Nat \ {0}
  /\ MinRate \in Nat
  /\ MaxChanges \in Nat
  /\ MaxControls \in Nat

VARIABLES
  active,       \* active_hop
  skip,         \* hop_skip_mask, as the set of hops it names
  probeAge,     \* now - last_probe_ns, up to ProbeInterval; a route that
                \* never probed (last_probe_ns = 0) may, so it starts there
  pending,      \* an error is pending on the socket
  hops,         \* what each hop is at the moment
  tried,        \* history: the hops this step offered a frame to
  arrived,      \* history: whether this step got a frame to a hop that is up
  sentInTick,   \* frames since the last tick, up to MinRate
  changes, controls

route == <<active, skip, probeAge>>
vars == <<route, pending, hops, tried, arrived, sentInTick, changes, controls>>

Hops == 0 .. HopCount - 1
Conditions == {"up", "closed", "late", "silent", "unreach"}

(* A step that forwards nothing.                                            *)
NoFrame == tried' = {} /\ arrived' = FALSE

Init ==
  /\ active = 0
  /\ skip = {}
  /\ probeAge = ProbeInterval
  /\ pending = FALSE
  /\ hops \in [Hops -> Conditions]
  /\ tried = {}
  /\ arrived = FALSE
  /\ sentInTick = 0
  /\ changes = 0
  /\ controls = 0

(***************************************************************************)
(* forward_udp                                                             *)
(***************************************************************************)
Allowed == Hops \ skip

(* The active hop, or the first allowed one if it is masked.                *)
Start == IF active \in Allowed THEN active ELSE Min(Allowed)

(* Mutant: the preferred hop is probed though it is masked.                 *)
ProbesMasked == Start > 0 /\ probeAge = ProbeInterval

Probes == Start > 0 /\ 0 \in Allowed /\ probeAge = ProbeInterval

After(h, step) == (h + step) % HopCount

(* Mutants: the rotation begins at the hop after the active one, or leaves  *)
(* the number of the attempt out.                                           *)
TargetFromNext(a) == IF a = 0 THEN 0 ELSE After(Start, a)
TargetStuck(a) == IF a = 0 THEN 0 ELSE Start

(* Attempt 0 is the probe; the others go round from the active hop.         *)
Target(a) == IF a = 0 THEN 0 ELSE After(Start, a - 1)

(* The attempts the frame would see if all of them failed.                  *)
Attempts ==
  {a \in 0 .. HopCount : IF a = 0 THEN Probes ELSE Target(a) \in Allowed}

(* The attempts whose send gets as far as the socket.                       *)
Reaching == {a \in Attempts : hops[Target(a)] # "unreach"}

(* Mutant: a masked hop may become the active one.                          *)
NextActiveAny == After(Start, 1)

(* After a failure on every hop: the next allowed hop, perhaps the same.    *)
NextActive ==
  After(Start, Min({step \in 1 .. HopCount : After(Start, step) \in Allowed}))

(* The send a pending error is spent on.                                    *)
Spent == IF pending /\ Reaching # {} THEN {Min(Reaching)} ELSE {}

(* What may be pending on the socket once a datagram has gone to hop h.     *)
Refusals(h) ==
  CASE hops[h] = "closed" -> {TRUE}
    [] hops[h] = "late" -> BOOLEAN
    [] OTHER -> {FALSE}

(* The first attempt that is neither in vain nor spent succeeds.            *)
ForwardOk(last) ==
  LET h == Target(last)
  IN /\ active' = h
     /\ tried' = {Target(a) : a \in {b \in Attempts : b <= last}}
     /\ arrived' = (hops[h] = "up")
     /\ pending' \in Refusals(h)

ForwardFails ==
  /\ active' = NextActive
  /\ tried' = {Target(a) : a \in Attempts}
  /\ arrived' = FALSE
  /\ pending' = (pending /\ Spent = {})

Forward ==
  /\ IF Allowed = {}
       THEN /\ NoFrame
            /\ UNCHANGED <<active, probeAge, pending>>
       ELSE /\ probeAge' = IF Probes THEN 0 ELSE probeAge
            /\ LET left == Reaching \ Spent
               IN IF left # {} THEN ForwardOk(Min(left)) ELSE ForwardFails
  /\ sentInTick' = Min({MinRate, sentInTick + 1})
  /\ UNCHANGED <<skip, hops, changes, controls>>

(***************************************************************************)
(* Control, the network and time                                           *)
(***************************************************************************)

(* A datagram of zcmesh_ctl.                                                *)
Ctl(op, node, mask) ==
  [op |-> op, node |-> node, mask |-> IF op = "clear" THEN {} ELSE mask]

(* What comes to the control port; "none" is short, of another version or   *)
(* an unknown opcode.                                                       *)
Datagrams ==
  {Ctl(op, node, mask) :
     op \in {"set", "clear", "none"}, node \in {"mine", "other"},
     mask \in SUBSET Hops}

(* poll_control: the router knows a route of this node only.                *)
Applied(msg) ==
  CASE msg.op = "none" \/ msg.node = "other" -> skip
    [] msg.op = "set" -> msg.mask
    [] OTHER -> {}

(* At the start of a turn control is applied, and the skip file after it:   *)
(* its number, or no hop if it is missing or holds none.                    *)
SetSkip ==
  /\ controls < MaxControls
  /\ controls' = controls + 1
  /\ \/ skip' \in {Applied(msg) : msg \in Datagrams}
     \/ skip' \in SUBSET Hops
  /\ NoFrame
  /\ UNCHANGED <<active, probeAge, pending, hops, sentInTick, changes>>

HopChanges ==
  /\ changes < MaxChanges
  /\ changes' = changes + 1
  /\ \E h \in Hops, c \in Conditions : hops' = [hops EXCEPT ![h] = c]
  /\ NoFrame
  /\ UNCHANGED <<route, pending, sentInTick, controls>>

(* Mutant: the interval never ends.                                         *)
AgedNever == probeAge

Aged == Min({ProbeInterval, probeAge + 1})

Tick ==
  /\ sentInTick = MinRate
  /\ sentInTick' = 0
  /\ probeAge' = Aged
  /\ NoFrame
  /\ UNCHANGED <<active, skip, pending, hops, changes, controls>>

Next == Forward \/ SetSkip \/ HopChanges \/ Tick

Spec == Init /\ [][Next]_vars

(* The edge keeps sampling, so the frames of a tick are forwarded in the    *)
(* end, and time goes on.                                                  *)
FairSpec ==
  Spec /\ WF_vars(sentInTick < MinRate /\ Forward) /\ WF_vars(Tick)

(***************************************************************************)
(* Properties                                                              *)
(***************************************************************************)
TypeOK ==
  /\ active \in Hops
  /\ skip \subseteq Hops
  /\ probeAge \in 0 .. ProbeInterval
  /\ pending \in BOOLEAN
  /\ hops \in [Hops -> Conditions]
  /\ tried \subseteq Hops
  /\ arrived \in BOOLEAN
  /\ sentInTick \in 0 .. MinRate
  /\ changes \in 0 .. MaxChanges
  /\ controls \in 0 .. MaxControls

(* "Bit i set => never send to hops[i]" (router.hpp:34): no frame is        *)
(* offered to a masked hop, neither by the probe nor by the fallbacks.      *)
NeverSendsToSkipped ==
  [][tried' \intersect skip = {}]_vars

(* Whatever forward_udp comes to, it leaves an allowed hop active while     *)
(* there is one, so the next frame does not start at a masked hop.          *)
ActiveStaysAllowed ==
  [][Forward /\ Allowed # {} => active' \in Allowed]_vars

(* "sticky" (router.hpp:16): a working active hop is left only for the      *)
(* preferred one, unless a refusal of another hop is taken out on it.       *)
StickyWhileUp ==
  [][~pending /\ active \in Allowed /\ hops[active] = "up" =>
       active' \in {0, active}]_vars

(* The allowed hops are none of these.                                      *)
None(conditions) == \A h \in Allowed : hops[h] \notin conditions

SomeUp == \E h \in Allowed : hops[h] = "up"

(* "preferred hop 0 is probed periodically" (router.hpp:16): once hop 0 is  *)
(* up and allowed for good, the route comes back to it and stays, unless    *)
(* odd refusals of a late hop happen to meet every probe.                   *)
PreferredRecovered ==
  <>[](hops[0] = "up" /\ 0 \in Allowed /\ None({"late"})) => <>[](active = 0)

(* While some allowed hop stays up and the dead ones can be told by their   *)
(* refusals (they are of this host) or by having no way to them, frames     *)
(* keep getting through, although probes of a dead preferred hop cost one   *)
(* each.  Without None it is false: a late or silent hop, once active, is   *)
(* never left, for its sends succeed (net.cpp:192-199).                     *)
FramesGetThrough ==
  <>[](SomeUp /\ None({"late", "silent"})) => []<>arrived
=============================================================================
