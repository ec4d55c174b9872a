-------------------------- MODULE MCStatusReports ---------------------------
(***************************************************************************)
(* Instances of StatusReports for TLC: an order, and scenarios.            *)
(***************************************************************************)
EXTENDS StatusReports

CONSTANTS r1, r2

Order == [r \in Recipient |-> IF r = r1 THEN 1 ELSE 2]

Quiet == [outcomes |-> {"sent"}, limit |-> 1, backup |-> FALSE, take |-> FALSE,
          ticks |-> 1, reports |-> 0, dsns |-> 0, expiries |-> 0, resets |-> 0,
          cuts |-> 0, asks |-> 0, purges |-> 0]

(* Reports of two recipients that bounce and return, in pages of one and   *)
(* of two; notifications, time limits and resets that cross reports; kept  *)
(* e-mails that are fetched from satellites that come and go, taken and    *)
(* purged, or kept of a recipient that is reset and sent to again.         *)
Bouncing == [Quiet EXCEPT !.outcomes = {"soft"}, !.reports = 3, !.ticks = 2]
Together == [Quiet EXCEPT !.outcomes = {"sent", "soft"}, !.reports = 3, !.limit = 2]
Crossing ==
  [Quiet EXCEPT !.outcomes = {"error", "sent"}, !.reports = 2, !.dsns = 1,
                !.resets = 1]
Expiring ==
  [Quiet EXCEPT !.outcomes = {"soft"}, !.reports = 2, !.expiries = 1, !.limit = 2]
Keeping ==
  [Quiet EXCEPT !.backup = TRUE, !.take = TRUE, !.reports = 2, !.ticks = 0,
                !.cuts = 1]
Asking ==
  [Quiet EXCEPT !.backup = TRUE, !.take = TRUE, !.reports = 1, !.ticks = 0,
                !.asks = 1, !.purges = 1, !.cuts = 1]
Cutting == [Quiet EXCEPT !.backup = TRUE, !.reports = 1, !.cuts = 2]
Notifying == [Quiet EXCEPT !.backup = TRUE, !.reports = 1, !.dsns = 1]
Resending ==
  [Quiet EXCEPT !.backup = TRUE, !.take = TRUE, !.reports = 2, !.ticks = 0,
                !.resets = 1]
Mixed == {Bouncing, Together, Crossing, Expiring, Keeping, Asking, Cutting,
          Notifying, Resending}

=============================================================================
