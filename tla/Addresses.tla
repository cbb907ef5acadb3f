------------------------------ MODULE Addresses ------------------------------
(***************************************************************************)
(* The addresses a relay tells its callers and the one the page dials: the *)
(* filters of src/public-multiaddr-filter.ts and of the page's copy        *)
(* (apps/pwa/src/lib/publicMultiaddrFilter.ts), the rewriting and the      *)
(* choice in relayApi.ts.                                                  *)
(*                                                                         *)
(* An address is the kind of host in it and the protocols on top, as far   *)
(* as these functions tell them apart.  An operator that announces         *)
(* /dns4/localhost is left out, and so are IPv4-mapped IPv6 hosts.         *)
(***************************************************************************)
EXTENDS FiniteSetsExt

Hosts == {"loopback", "private", "public", "name"}
Layers == {"wss", "ws", "other"}    \* /tls/../ws, /ws, and tcp, quic, webrtc
Address == [host : Hosts, layer : Layers]

\* What a relay listening on these kinds of interface announces: a TCP, QUIC
\* or WebRTC and a WebSocket address of each, and the appended ones.
Announced(interfaces, appended) ==
  [host : interfaces, layer : {"ws", "other"}] \cup appended

----------------------------------------------------------------------------
\* The relay: GET /status.

\* isPublicStatusMultiaddr, and the page's isPublicDialMultiaddr: a name is
\* public whatever it resolves to.
IsPublic(a) == a.host \notin {"loopback", "private"}

FilterPublic(addrs) == {a \in addrs : IsPublic(a)}

\* Mutant: local callers are given the public projection as well.
FilterForAll(addrs, requester) == FilterPublic(addrs)

\* filterMultiaddrsForStatusRequest; requesterAddress is the first address of
\* X-Forwarded-For, or the other end of the socket.
FilterForRequest(addrs, requester) ==
  IF requester = "loopback" THEN addrs ELSE FilterPublic(addrs)

----------------------------------------------------------------------------
\* The page.

\* normalizeLocalRelayMultiaddr: what is not global becomes 127.0.0.1 or ::1.
NormalizeLocal(a) ==
  IF IsPublic(a) THEN a ELSE [a EXCEPT !.host = "loopback"]

\* normalizeRelayMultiaddrs, with what isLocalRelayHttpBase says of the base.
Normalize(local, addrs) ==
  IF local THEN {NormalizeLocal(a) : a \in addrs} ELSE addrs

\* Mutant: the page dials what it was told.
DialUnfiltered(local, addrs) == addrs

\* relayDialMultiaddrs: the page filters once more unless its base is local.
DialAddrs(local, addrs) == IF local THEN addrs ELSE FilterPublic(addrs)

\* The classes pickBrowserDialMultiaddr tries, in this order.
PickClasses(addrs) ==
  LET sockets == {a \in addrs : a.layer \in {"wss", "ws"}}
      tls     == {a \in sockets : a.layer = "wss"}
      local   == {a \in sockets : a.host = "loopback"} IN
  <<tls \cap local, local, tls, sockets \ local, sockets>>

\* The addresses it may return: the first of a class in the order of the list,
\* which nothing defines.  {} for null.
Pick(addrs) ==
  LET classes  == PickClasses(addrs)
      nonempty == {i \in DOMAIN classes : classes[i] # {}} IN
  IF nonempty = {} THEN {} ELSE classes[Min(nonempty)]
=============================================================================
