------------------------------- MODULE Ledger -------------------------------
(***************************************************************************)
(* What the handing over of recipients promises, whatever the processes    *)
(* and connections in between do.  A recipient is granted to a satellite   *)
(* any number of times; mail servers take e-mails; a satellite records how *)
(* a grant ended; the master takes over what was recorded.                 *)
(*                                                                         *)
(* Delegation implements this specification.                               *)
(***************************************************************************)
EXTENDS Integers

CONSTANT Recipient

Unsure == {"READY", "UNVERIFIED"}

VARIABLES
  status,    \* what the master says of each recipient
  granted,   \* how many times each recipient was granted
  mailed,    \* those for which a mail server took the e-mail
  recorded,  \* what was recorded about grants
  taken      \* what the master was told about grants

vars == <<status, granted, mailed, recorded, taken>>

GrantOf(i) == [rcpt |-> i.rcpt, deleg |-> i.deleg]
Settled == {GrantOf(i) : i \in recorded}
Granted(t) == t.rcpt \in Recipient /\ t.deleg \in 1..granted[t.rcpt]

Init ==
  /\ status = [r \in Recipient |-> "READY"]
  /\ granted = [r \in Recipient |-> 0]
  /\ mailed = {} /\ recorded = {} /\ taken = {}

Grant ==
  /\ \E batch \in SUBSET Recipient :
       granted' = [r \in Recipient |->
                     IF r \in batch THEN granted[r] + 1 ELSE granted[r]]
  /\ UNCHANGED <<status, mailed, recorded, taken>>

(* What was recorded stands, but that a late success corrects it; success  *)
(* is only recorded of what was taken by a mail server.                    *)
MayRecord(i) ==
  /\ Granted(GrantOf(i))
  /\ i.status = "FINISHED" => GrantOf(i) \in mailed'
  /\ GrantOf(i) \in Settled => i.status = "FINISHED"

Settle ==
  /\ mailed \subseteq mailed' /\ \A t \in mailed' : Granted(t)
  /\ recorded \subseteq recorded'
  /\ \A i \in recorded' \ recorded : MayRecord(i)
  /\ UNCHANGED <<status, granted, taken>>

(* The master only hears what was recorded, or that nobody is sure of it.  *)
MayTake(i) ==
  \/ i \in recorded
  \/ i.status \in Unsure /\ GrantOf(i) \in Settled

(* Its word changes by what it hears (unless a notification outweighs it), *)
(* by a notification about an e-mail that left, or by a request.           *)
Take ==
  /\ taken \subseteq taken'
  /\ \A i \in taken' \ taken : MayTake(i)
  /\ \/ UNCHANGED status
     \/ \E i \in taken' :
          status' = [status EXCEPT ![i.rcpt] = i.status]
  /\ UNCHANGED <<granted, mailed, recorded>>

Notify(r) ==
  /\ \E t \in mailed : t.rcpt = r
  /\ status' = [status EXCEPT ![r] = "ERROR"]
  /\ UNCHANGED <<granted, mailed, recorded, taken>>

Renew(r) ==
  /\ status' = [status EXCEPT ![r] = "READY"]
  /\ UNCHANGED <<granted, mailed, recorded, taken>>

Next ==
  \/ Grant \/ Settle \/ Take
  \/ \E r \in Recipient : Notify(r) \/ Renew(r)

Spec == Init /\ [][Next]_vars

=============================================================================
