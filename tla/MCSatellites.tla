---------------------------- MODULE MCSatellites ----------------------------
(* Small instances of Satellites.                                          *)
EXTENDS Satellites

CONSTANTS s1, s2

One == [who |-> {s1}, changes |-> {}, many |-> 0, tries |-> 0, hours |-> 1,
        breaks |-> 2, restarts |-> 1]

(* Administrators at work while connections break; settings over breaks    *)
(* and a restart; statistics over breaks and a restart; statistics of two  *)
(* satellites, over three hours.                                           *)
Administered == [One EXCEPT !.changes = {"enable", "disable", "delete", "add"},
                            !.many = 3, !.tries = 1]
Settings == [One EXCEPT !.changes = {"settings", "disable"}, !.many = 2]
Counted == [One EXCEPT !.tries = 2, !.hours = 2]
Hours == [One EXCEPT !.who = {s1, s2}, !.tries = 1, !.hours = 3, !.breaks = 0,
                     !.restarts = 0]
Days == {Administered, Settings, Counted, Hours}
=============================================================================
