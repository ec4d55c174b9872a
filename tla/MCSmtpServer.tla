---------------------------- MODULE MCSmtpServer ----------------------------
(* Small instances of SmtpServer: two or three letters, two sessions.      *)
EXTENDS SmtpServer, TLC

CONSTANTS a, b, c, r, l1, l2, l3, p, q

Note(to) == [kind |-> "notification", to |-> to]
Mail(to) == [kind |-> "submission", to |-> to]

Some(one, two, three, again, many) ==
  [letters |-> (l1 :> one @@ l2 :> two @@ l3 :> three), resets |-> again,
   mishaps |-> many]

(* E-mails of users, with recipients in common or not, beside a            *)
(* notification; notifications with bad addresses.                         *)
Brought ==
  {Some(Mail({a, b}), Mail(to), Note({r}), 1, 2) : to \in {{b}, {b, c}}}
  \cup {Some(Mail({a}), Note({r, x}), Note({x}), 1, 1) : x \in {BadNumber, NoDash}}

Twice == {Some(Mail({a}), Mail({b}), Note({r}), 0, 0)}
=============================================================================
