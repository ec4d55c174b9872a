------------------------- MODULE MCSatelliteQueues --------------------------
(***************************************************************************)
(* Instances of SatelliteQueues for TLC: who belongs where, and scenarios. *)
(***************************************************************************)
EXTENDS SatelliteQueues

CONSTANTS a, b, c, e, x, m1, m2, m3, d1, d2, d3

(* a, b and e are of two mailings and two domains; c is of a mailing in    *)
(* test, in the domain of e; nobody sends to the domain of x.              *)
Mailings ==
  [r \in Recipient |-> CASE r = a -> m1 [] r = c -> m3 [] OTHER -> m2]
Domains ==
  [r \in Recipient |-> CASE r \in {a, b} -> d1 [] r = x -> d3 [] OTHER -> d2]

Pages(twice, once) ==
  [r \in Recipient |-> IF r \in twice THEN 2 ELSE IF r \in once THEN 1 ELSE 0]

Calm(pages, connections, perDomain) ==
  [pages |-> pages, closes |-> {}, zombies |-> 0, stops |-> 0,
   connections |-> connections, perDomain |-> perDomain]

(* A mailing is closed under the thread and its queues, one of which is    *)
(* given up as well; queues that compete for connections, or for a domain; *)
(* a queue given up that still runs while its recipient returns; a stop.   *)
Closing == [Calm(Pages({b}, {a, x}), 4, 2) EXCEPT !.closes = {m1}, !.zombies = 1]
Crowded == Calm(Pages({b}, {a, c, e}), 2, 1)
Spacious == Calm(Pages({b}, {a, c, e}), 4, 1)
Doubled == Calm(Pages({a, b}, {}), 4, 2)
GivenUp == [Calm(Pages({}, {b}), 2, 1) EXCEPT !.pages[a] = 3, !.zombies = 1]
Stopping ==
  [Calm(Pages({a}, {b, c}), 1, 1) EXCEPT !.closes = {m1}, !.stops = 1]
Mixed == {Closing, Crowded, Spacious, Doubled, GivenUp, Stopping}

=============================================================================
