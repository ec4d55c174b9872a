------------------------------ MODULE MCRelay -------------------------------
(***************************************************************************)
(* Instances of Relay for TLC: what the DNS has, and scenarios.            *)
(***************************************************************************)
EXTENDS Relay

CONSTANTS n1, h1, h2

Servers(exchanges) == [to |-> NoName, exchanges |-> exchanges]
At(host, preference) == [preference |-> preference, host |-> host]
Empty == [n \in Name |-> Servers({})]

(* A domain of two servers, of one, and of none.                           *)
Two == [Empty EXCEPT ![n1] = Servers({At(h1, 1), At(h2, 2)})]
One == [Empty EXCEPT ![n1] = Servers({At(h1, 1)})]

(* Every way names can be aliases of each other, have a server or nothing. *)
AllZones ==
  [Name -> {Servers({}), Servers({At(h1, 1)})}
             \cup {[to |-> n, exchanges |-> {}] : n \in Name}]

Quiet == [zone |-> Two, links |-> 0, attempts |-> 1, faults |-> {},
          mishaps |-> 0]

(* Lookups of all zones; relays side by side whose connections fail in     *)
(* every way; a domain that fails again and again.                         *)
Lookups ==
  {[Quiet EXCEPT !.zone = zone, !.links = k, !.attempts = 0] :
     zone \in AllZones, k \in 0..1}
Conversations ==
  [Quiet EXCEPT !.attempts = 3, !.mishaps = 2,
                !.faults = {"connect", "refuse", "timeout", "break", "close"}]
Customizations ==
  [Quiet EXCEPT !.attempts = 2, !.mishaps = 2, !.faults = {"customize", "dnsTemp"}]
Series ==
  [Quiet EXCEPT !.zone = One, !.attempts = 6, !.mishaps = 6,
                !.faults = {"dnsFatal", "dnsTemp", "connect"}]
NoServers == [Quiet EXCEPT !.zone = Empty, !.attempts = 2]
Failing == {Series}
Mixed == Lookups \cup {Conversations, Customizations, Series, NoServers}

=============================================================================
