---- MODULE MCAccessControl ----
(* AccessControl with two clients in the same house: one has an API key and calls from two *)
(* addresses, the other has none and comes directly or through a proxy.                    *)
EXTENDS AccessControl

CONSTANTS alice, bob, key, wrong, home, office, proxy, forecasts, status

From(client, apiKey, forwarded, host, route) ==
  [client |-> client, public |-> FALSE, apiKey |-> apiKey, forwarded |-> forwarded,
   host |-> host, route |-> route]

MCRequests ==
  {From(alice, key, None, home, forecasts), From(alice, key, None, office, forecasts),
   From(alice, wrong, None, home, status), From(alice, key, None, home, status),
   From(bob, None, home, proxy, forecasts), From(bob, None, None, home, forecasts),
   [From(bob, None, None, home, status) EXCEPT !.public = TRUE]}
MCClients == {alice, bob}
MCRoutes == {forecasts, status}
MCLimited == {forecasts}
MCApiKeys == {key}

\* The two of them are told apart.
ASSUME ToldApart == OwnCredentials
====
