----------------------------- MODULE MCDelegation -----------------------------
(***************************************************************************)
(* Instances of Delegation for TLC: the scenarios of a run.                *)
(***************************************************************************)
EXTENDS DelegationProofs

Once(M) == [m \in Mishap |-> IF m \in M THEN 1 ELSE 0]

(* One recipient at one satellite, selected twice.                         *)
OneWith(mishaps) ==
  [mishaps |-> mishaps, slowAnswers |-> TRUE,
   satellites |-> {CHOOSE s \in Satellite : TRUE},
   delegations |-> [r \in Recipient |->
                      IF r = CHOOSE q \in Recipient : TRUE THEN 2 ELSE 0]]

(* Everything goes wrong once, but for a connection that drops alone: the  *)
(* master stops, and all of them drop.  An answer that does not come       *)
(* crosses fewer of the others.                                            *)
EachOnce == OneWith(Once(Mishap \ {"drop", "noAnswer"}))
Unanswered == OneWith(Once({"zombie", "noAnswer", "dsn", "ioError"}))

(* Processes stop and connections drop; a relay is given up as well.       *)
RoughAndSlow == OneWith(Once({"stop", "drop", "zombie"}))

(* Processes and connections stay up; two satellites and three attempts.   *)
Calm ==
  [OneWith(Once({"dsn", "reset", "dbError", "noAnswer"})) EXCEPT
     !.satellites = Satellite,
     !.delegations = [r \in Recipient |-> IF @[r] = 0 THEN 0 ELSE 3]]

(* Reports of two recipients are stored in part, or cross a stop.          *)
TwoOf(mishaps) ==
  [OneWith(mishaps) EXCEPT !.delegations = [r \in Recipient |-> 1]]
Partial == TwoOf(Once({"dbError"}))
Stopped == TwoOf(Once({"stop"}))

Everything == {EachOnce, Unanswered, Calm, Partial, Stopped}
Rough == {RoughAndSlow}
OneStop == {Stopped}

=============================================================================
