------------------------ MODULE MCSatelliteContent --------------------------
(***************************************************************************)
(* Instances of SatelliteContent for TLC: the scenarios of a run.          *)
(***************************************************************************)
EXTENDS SatelliteContent

Events(once, howMany) ==
  [e \in Event |-> IF e = "page" THEN howMany ELSE IF e \in once THEN 1 ELSE 0]

(* The content changes while two recipients are sent, one of which returns *)
(* after a soft bounce, or while the satellite stops; the mailing is       *)
(* paused and started again; its end is told to a satellite that may be    *)
(* away or stop; the disk is full once, and a row stuck, while the mailing *)
(* ends or the satellite stops.                                            *)
Returning == Events({"edit"}, 3)
Changing == Events({"edit", "stop"}, 2)
Pausing == Events({"edit", "pause", "start"}, 2)
Ending == Events({"finish", "drop"}, 2)
Stopping == Events({"edit", "finish", "drop", "stop"}, 1)
Sticking == Events({"disk", "finish", "drop"}, 2)
StickingOver == Events({"disk", "stop"}, 2)
Everything ==
  {Returning, Changing, Pausing, Ending, Stopping, Sticking, StickingOver}

=============================================================================
