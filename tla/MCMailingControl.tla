-------------------------- MODULE MCMailingControl --------------------------
(***************************************************************************)
(* Instances of MailingControl for TLC: the scenarios of a run.            *)
(***************************************************************************)
EXTENDS MailingControl

Once(E) == [e \in Event |-> IF e \in E THEN 1 ELSE 0]

OneSatellite == {CHOOSE s \in Satellite : TRUE}

OfAll(events) ==
  [events |-> events, recipients |-> Recipient, satellites |-> OneSatellite,
   closesItself |-> FALSE, dsnsCross |-> FALSE]

OfOne(events) ==
  [OfAll(events) EXCEPT !.recipients = {CHOOSE r \in Recipient \ Primary : TRUE}]

(* What the counters must survive.                                         *)
Counting == OfAll([Once({"start", "dsn"}) EXCEPT !["add"] = 2])
Extended == OfAll([Once({"edit", "dsn"}) EXCEPT !["add"] = 2])
Edited == OfOne(Once({"add", "start", "edit", "dsn"}))
Uncertain == OfOne(Once({"add", "start", "edit", "dsn", "unsent", "loss"}))

(* Calls that cross each other, and a DSN that crosses them.               *)
Crossing == OfOne(Once({"add", "start", "pause", "close"}))
Resuming == OfOne([Once({"edit", "pause", "close"}) EXCEPT !["start"] = 2])
Resumes == OfOne([Once({"add", "pause"}) EXCEPT !["start"] = 2])
CrossedByDsn ==
  [OfOne(Once({"add", "start", "close", "dsn"})) EXCEPT !.dsnsCross = TRUE]

(* A mailing ends by itself while the master stops or reports are repeated *)
(* or fail, and when claims are released too early there is another        *)
(* satellite to give the recipient to.                                     *)
ByItself(scene) == [scene EXCEPT !.closesItself = TRUE]
Ends == ByItself(OfAll(Once({"add", "start"})))
Fails == ByItself(OfOne(Once({"add", "start", "failure"})))
Stops == ByItself(OfOne(Once({"add", "start", "stop"})))
Repeats == ByItself(OfOne(Once({"add", "start", "repeat"})))
Apart ==
  [ByItself(OfOne(Once({"add", "start", "away"})))
     EXCEPT !.satellites = Satellite]

(* It is found to be over twice at once, or overdue; it is deleted or      *)
(* purged.                                                                 *)
Forced == ByItself(OfOne(Once({"add", "start", "force"})))
Overdue == ByItself(OfOne(Once({"add", "start", "limit"})))
Deleted == OfOne(Once({"add", "start", "close", "delete"}))
Purged == OfOne(Once({"add", "start", "purge", "reset", "stop"}))

Lifecycle ==
  {Counting, Extended, Edited, Uncertain, Crossing, Resuming, Resumes,
   CrossedByDsn, Ends, Fails, Stops, Repeats, Apart, Forced, Overdue, Deleted,
   Purged}

=============================================================================
