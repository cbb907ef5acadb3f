------------------------- MODULE MCTransportMatrix -------------------------
(* An instance of TransportMatrix for TLC. *)
EXTENDS TransportMatrix

Ma(kind, family, host) == [kind |-> kind, family |-> family, host |-> host]

\* A relay that lists its loopback addresses only; one with addresses of both
\* families and of its own; one with names and unknown forms; and none.
MCStatuses ==
  { <<Ma("tcp", "ip4", Loopback), Ma("ws", "ip4", Loopback),
      Ma("quic", "ip4", Loopback), Ma("webrtc", "ip4", Loopback)>>,
    <<Ma("tcp", "ip6", Loopback), Ma("ws", "ip4", "public"),
      Ma("tcp", "ip4", Loopback)>>,
    <<Ma("ws", "dns", "name"), Ma("other", "ip4", "private"),
      Ma("quic", "ip4", "private")>>,
    <<>> }

MCLadder  == <<30, 60, 120, 180, 300, 600>>
MCTag     == <<"echo", ":">>
MCMessage == <<"m">>
=============================================================================
