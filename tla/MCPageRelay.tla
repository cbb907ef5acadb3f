----------------------------- MODULE MCPageRelay -----------------------------
(* An instance of PageRelay for TLC. *)
EXTENDS PageRelay

CONSTANTS c1, c2, d1

\* A relay without public addresses on the page's machine, one on another
\* machine of its network, and one on the Internet with a TLS front.
MCRelays == {"home", "office", "hub"}
MCPlace == [r \in MCRelays |->
  CASE r = "home" -> "host" [] r = "office" -> "lan" [] OTHER -> "far"]
Front == {[host |-> "name", layer |-> "wss"]}

\* What each announces while it runs, and when it is stopped.
MCRelayAddrs == [r \in MCRelays |->
  IF r = "hub"
  THEN {Announced({"loopback", "private", "public"}, Front), Front}
  ELSE {Announced({"loopback", "private"}, {}), {}}]

To(relay, local, relative, requester) ==
  [relay |-> relay, local |-> local, relative |-> relative, requester |-> requester]

\* http://127.0.0.1, a LAN address, the /__relay of the dev server on another
\* machine, a public name, and a public name whose proxy hides the requester.
MCBases ==
  {To("home", TRUE, FALSE, "loopback"),
   To("office", TRUE, FALSE, "other"), To("office", TRUE, TRUE, "loopback"),
   To("hub", FALSE, FALSE, "other"),
   To("hub", FALSE, FALSE, "loopback")}
=============================================================================
