------------------------------- MODULE Relay --------------------------------
(***************************************************************************)
(* Relays of a satellite to the mail servers of one domain.  A relay (the  *)
(* class Queue) looks up the servers, has the e-mails of its recipients    *)
(* customized by a thread, and sends them over one connection; what the    *)
(* server answers, how the connection ends and how the lookup fails decide *)
(* about each recipient.  Relays of one domain run side by side and share  *)
(* the servers that are in use, those that failed and the number of        *)
(* failures of the domain.                                                 *)
(*                                                                         *)
(* Which rows go to a relay is the subject of SatelliteQueues, and what    *)
(* the master is told that of Delegation.  A lookup is one step: other     *)
(* relays only change which servers are bad, seen when the answer comes.   *)
(***************************************************************************)
EXTENDS MXCalculator, Integers

CONSTANTS
  Recipient, NoRecipient,
  QueueId,
  Domain,         \* the name whose servers are looked up
  Scenarios       \* what may happen: one is chosen at first

Fault == {"dnsFatal", "dnsTemp", "customize", "connect", "refuse", "timeout",
          "break", "close"}

(* zone and links: what the DNS has and answers; attempts: relays that are *)
(* started; faults: what may go wrong, so many times as "mishaps" says.    *)
Scenario == [zone: Zone, links: Nat, attempts: Nat,
             faults: SUBSET Fault, mishaps: Nat]

ASSUME RelayAssumption ==
  /\ IsFiniteSet(Recipient) /\ NoRecipient \notin Recipient
  /\ IsFiniteSet(QueueId)
  /\ Domain \in Name /\ NoName \notin Host
  /\ Scenarios \subseteq Scenario

Status == {"ready", "going", "wait", "sent", "error", "held"}
Stage == {"idle", "lookup", "customize", "connect", "connecting", "talk",
          "close"}

Queue == [stage: Stage, rcpts: SUBSET Recipient, mails: SUBSET Recipient,
          current: Recipient \cup {NoRecipient}, answered: BOOLEAN,
          host: Host \cup {NoName}]

NoQueue == [stage |-> "idle", rcpts |-> {}, mails |-> {},
            current |-> NoRecipient, answered |-> FALSE, host |-> NoName]

VARIABLES
  row,         \* the status of each recipient, as its relay has it
  queue,       \* the relays
  inUse,       \* how many connections each server has: mx_in_use
  bad,         \* servers that failed lately
  fatal,       \* the stored number of fatal failures of the domain
  gone,        \* recipients whose e-mail was removed: the mailing is closed
  since,       \* history: failures since the last try of a connection
  attempts, mishaps,  \* what may still happen
  scenario     \* the scenario that was chosen; never changes

stateVars == <<row, queue, inUse, bad, fatal, gone, since, attempts, mishaps>>
vars == <<stateVars, scenario>>

TypeOK ==
  /\ row \in [Recipient -> Status]
  /\ queue \in [QueueId -> Queue]
  /\ inUse \in [Host -> Nat]
  /\ bad \subseteq Host
  /\ fatal \in Nat /\ since \in Nat
  /\ gone \subseteq Recipient
  /\ scenario \in Scenario
  /\ attempts \in Nat /\ mishaps \in Nat
  /\ \A q \in QueueId :
       /\ queue[q].mails \subseteq queue[q].rcpts
       /\ queue[q].stage \in {"connecting", "talk", "close"} => queue[q].host # NoName

Init ==
  /\ row = [r \in Recipient |-> "ready"]
  /\ queue = [q \in QueueId |-> NoQueue]
  /\ inUse = [h \in Host |-> 0] /\ bad = {}
  /\ fatal = 0 /\ since = 0
  /\ gone = {}
  /\ scenario \in Scenarios
  /\ attempts = scenario.attempts /\ mishaps = scenario.mishaps

Mishap(fault) ==
  fault \in scenario.faults /\ mishaps > 0 /\ mishaps' = mishaps - 1

-----------------------------------------------------------------------------
(* The end of a relay.                                                     *)

(* Variant: all recipients, those that were dealt with included.           *)
AllOf(q, rows) == queue[q].rcpts
StillGoing(q, rows) == {r \in queue[q].rcpts : rows[r] = "going"}

(* add_dns_temp_error only counts for the administrator.                   *)
AddDnsError(isFatal) ==
  IF isFatal THEN fatal' = fatal + 1 /\ since' = since + 1
  ELSE UNCHANGED <<fatal, since>>

(* A failure of the relay, of the lookup or of the connection: recipients  *)
(* that were not dealt with wait, or are rejected when failures of the     *)
(* domain were many.                                                       *)
Fails(q, isFatal, rows) ==
  /\ AddDnsError(isFatal)
  /\ LET fate == IF fatal' < 5 THEN "wait" ELSE "error"
     IN /\ queue' = [queue EXCEPT ![q] = NoQueue]
        /\ row' = [r \in Recipient |->
                     IF r \in StillGoing(q, rows) THEN fate ELSE rows[r]]

Succeeds(q, rows) ==
  /\ queue' = [queue EXCEPT ![q] = NoQueue]
  /\ row' = rows
  /\ UNCHANGED <<fatal, since>>

(* The factory stops: its deferred fires.  What it has left to send, and   *)
(* the e-mail the server has not been asked to follow by another, count as *)
(* not sent.  Variant: the latter does not.                                *)
OnlyMails(q) == queue[q].mails # {}
Left(q) == queue[q].mails # {} \/ queue[q].current # NoRecipient

StopFactory(q, rows) ==
  IF Left(q) THEN Fails(q, TRUE, rows) ELSE Succeeds(q, rows)

(* Variant: a server whose connection was closed stays in use.             *)
KeepInUse(host) == inUse
Released(host) == [inUse EXCEPT ![host] = @ - 1]

ConnectionError(q, rows) ==
  /\ bad' = bad \cup {queue[q].host}
  /\ inUse' = [inUse EXCEPT ![queue[q].host] = @ - 1]
  /\ StopFactory(q, rows)

-----------------------------------------------------------------------------
(* From the rows to a connection.                                          *)
StartQueue(q, rs) ==
  /\ queue[q].stage = "idle" /\ rs # {}
  /\ \A r \in rs : row[r] = "ready"
  /\ attempts > 0 /\ attempts' = attempts - 1
  /\ row' = [r \in Recipient |-> IF r \in rs THEN "going" ELSE row[r]]
  /\ queue' = [queue EXCEPT ![q] = [NoQueue EXCEPT !.stage = "lookup", !.rcpts = rs]]
  /\ UNCHANGED <<inUse, bad, fatal, gone, since, mishaps>>

(* A name that has no servers, a loop and a chain that is too long are all *)
(* fatal.                                                                  *)
AnswerLookup(q) ==
  /\ queue[q].stage = "lookup"
  /\ LET result == GetMX(scenario.zone, Domain, scenario.links)
     IN IF result.kind = "found"
        THEN /\ \E h \in First(result.exchanges, bad) :
                  queue' = [queue EXCEPT ![q].stage = "customize", ![q].host = h]
             /\ UNCHANGED <<row, fatal, since>>
        ELSE Fails(q, TRUE, row)
  /\ UNCHANGED <<inUse, bad, gone, attempts, mishaps>>

(* The DNS does not answer, refuses, or answers with an error.             *)
FailLookup(q) ==
  /\ queue[q].stage = "lookup"
  /\ \/ Mishap("dnsFatal") /\ Fails(q, TRUE, row)
     \/ Mishap("dnsTemp") /\ Fails(q, FALSE, row)
  /\ UNCHANGED <<inUse, bad, gone, attempts>>

(* The e-mails are put into the factory, which gives them out one by one.  *)
SendEmails(q, rcpts) ==
  queue' = [queue EXCEPT ![q].stage = "connect", ![q].mails = rcpts]
GetNextEmail(q, r) ==
  /\ r \in queue[q].mails
  /\ queue' = [queue EXCEPT ![q].mails = @ \ {r}, ![q].current = r,
                            ![q].answered = FALSE]

(* The thread customizes the e-mails; with an error of the file system the *)
(* row has an outcome but is not finished.  A relay without any e-mail     *)
(* fails, as if the domain had; so does, for a time, all of a relay one of *)
(* whose files is not there: the handler of that error raises another.     *)
Customize(q) ==
  /\ queue[q].stage = "customize"
  /\ \E failing \in SUBSET queue[q].rcpts, fate \in {"held", "error"} :
       LET rows == [r \in Recipient |-> IF r \in failing THEN fate ELSE row[r]]
           made == queue[q].rcpts \ failing
       IN \/ /\ IF failing = {} THEN UNCHANGED mishaps ELSE Mishap("customize")
             /\ IF made = {} THEN Fails(q, TRUE, rows)
                ELSE /\ SendEmails(q, made) /\ row' = rows
                     /\ UNCHANGED <<fatal, since>>
          \/ made # {} /\ Mishap("customize") /\ Fails(q, FALSE, rows)
  /\ UNCHANGED <<inUse, bad, gone, attempts>>

(* The lookup was a success: failures of the domain are forgotten before   *)
(* the connection is tried.  Variant: they are not.                        *)
Remembered == fatal
Forgotten == 0

Noted(host) == [inUse EXCEPT ![host] = @ + 1]

Connect(q) ==
  /\ queue[q].stage = "connect"
  /\ queue' = [queue EXCEPT ![q].stage = "connecting"]
  /\ fatal' = Forgotten /\ since' = 0
  /\ inUse' = Noted(queue[q].host)
  /\ UNCHANGED <<row, bad, gone, attempts, mishaps>>

Connected(q) ==
  /\ queue[q].stage = "connecting"
  /\ queue' = [queue EXCEPT ![q].stage = "talk"]
  /\ UNCHANGED <<row, inUse, bad, fatal, gone, since, attempts, mishaps>>

FailToConnect(q) ==
  /\ queue[q].stage = "connecting" /\ Mishap("connect")
  /\ ConnectionError(q, row)
  /\ UNCHANGED <<gone, attempts>>

-----------------------------------------------------------------------------
(* The conversation with the server.                                       *)

(* The next e-mail is asked for by the protocol; when its file is gone an  *)
(* exception breaks the connection.  Without e-mails the client quits.     *)
NextMail(q) ==
  /\ queue[q].stage = "talk"
  /\ queue[q].current # NoRecipient => queue[q].answered
  /\ IF queue[q].mails = {}
     THEN queue' = [queue EXCEPT ![q].stage = "close", ![q].current = NoRecipient]
     ELSE \E r \in Recipient : GetNextEmail(q, r)
  /\ UNCHANGED <<row, inUse, bad, fatal, gone, since, attempts, mishaps>>

FindFileGone(q) ==
  /\ queue[q].stage = "talk" /\ queue[q].current \in gone
  /\ ~queue[q].answered
  /\ ConnectionError(q, row)
  /\ UNCHANGED <<gone, attempts, mishaps>>

(* The server takes the e-mail or answers with an error that is final or   *)
(* not.                                                                    *)
AnswerMail(q, status) ==
  /\ queue[q].stage = "talk"
  /\ queue[q].current # NoRecipient /\ ~queue[q].answered
  /\ row' = [row EXCEPT ![queue[q].current] = status]
  /\ queue' = [queue EXCEPT ![q].answered = TRUE]
  /\ UNCHANGED <<inUse, bad, fatal, gone, since, attempts, mishaps>>

(* The server does not want to talk: the client quits.                     *)
RefuseToTalk(q) ==
  /\ queue[q].stage = "talk" /\ queue[q].current = NoRecipient
  /\ Mishap("refuse")
  /\ queue' = [queue EXCEPT ![q].stage = "close"]
  /\ UNCHANGED <<row, inUse, bad, fatal, gone, since, attempts>>

(* The server is silent for a minute: the e-mail under way fails, and the  *)
(* connection is dropped.                                                  *)
TimeOut(q) ==
  /\ queue[q].stage = "talk" /\ Mishap("timeout")
  /\ row' = IF queue[q].current # NoRecipient /\ ~queue[q].answered
            THEN [row EXCEPT ![queue[q].current] = "wait"] ELSE row
  /\ queue' = [queue EXCEPT ![q].stage = "close"]
  /\ UNCHANGED <<inUse, bad, fatal, gone, since, attempts>>

CloseConnection(q) ==
  /\ queue[q].stage = "close"
  /\ IF Left(q) THEN ConnectionError(q, row)
     ELSE /\ inUse' = Released(queue[q].host)
          /\ Succeeds(q, row)
          /\ UNCHANGED bad
  /\ UNCHANGED <<gone, attempts, mishaps>>

(* The connection breaks; the server may have taken the e-mail under way.  *)
BreakConnection(q) ==
  /\ queue[q].stage \in {"talk", "close"} /\ Mishap("break")
  /\ ConnectionError(q, row)
  /\ UNCHANGED <<gone, attempts>>

-----------------------------------------------------------------------------
(* Around the relays.                                                      *)
CloseMailing(r) ==
  /\ Mishap("close") /\ gone' = gone \cup {r}
  /\ UNCHANGED <<row, queue, inUse, bad, fatal, since, attempts>>

(* A minute has passed since the server failed.                            *)
ForgetBad(h) ==
  /\ h \in bad /\ bad' = bad \ {h}
  /\ UNCHANGED <<row, queue, inUse, fatal, gone, since, attempts, mishaps>>

(* The master delegates the recipient again, ten minutes later at least:   *)
(* its relay has ended.                                                    *)
DelegateAgain(r) ==
  /\ row[r] = "wait" /\ attempts > 0
  /\ \A q \in QueueId : r \notin queue[q].rcpts
  /\ row' = [row EXCEPT ![r] = "ready"]
  /\ UNCHANGED <<queue, inUse, bad, fatal, gone, since, attempts, mishaps>>

QueueStep(q) ==
  \/ AnswerLookup(q) \/ FailLookup(q) \/ Customize(q)
  \/ Connect(q) \/ Connected(q) \/ FailToConnect(q)
  \/ NextMail(q) \/ FindFileGone(q)
  \/ \E status \in {"sent", "wait", "error"} : AnswerMail(q, status)
  \/ RefuseToTalk(q) \/ TimeOut(q) \/ CloseConnection(q) \/ BreakConnection(q)

Change ==
  \/ \E q \in QueueId :
       \/ \E rs \in SUBSET Recipient : StartQueue(q, rs)
       \/ QueueStep(q)
  \/ \E r \in Recipient : CloseMailing(r) \/ DelegateAgain(r)
  \/ \E h \in Host : ForgetBad(h)

Next == Change /\ UNCHANGED scenario

Spec == Init /\ [][Next]_vars

(* Requests, connections and answers all have a time-out.                  *)
Fairness == \A q \in QueueId : WF_stateVars(QueueStep(q))

FairSpec == Spec /\ Fairness

-----------------------------------------------------------------------------
(* Properties.                                                             *)

(* mx_in_use holds a server as often as it has connections, however they   *)
(* end.                                                                    *)
InUseIsOpen ==
  \A h \in Host :
    inUse[h] = Cardinality({q \in QueueId :
                              /\ queue[q].host = h
                              /\ queue[q].stage \in {"connecting", "talk", "close"}})

(* The servers of a domain are found, or rightly not found.                *)
LookupRight == LookupIsRight(scenario.zone, Domain, scenario.links)

(* What a server answered for a recipient stays, however the relay ends.   *)
OutcomeStays ==
  [][\A r \in Recipient :
       row[r] \in {"sent", "error"} => row'[r] = row[r]]_vars

(* A relay that fails rejects its recipients only when the domain failed   *)
(* five times, in a fatal way, since a connection to it was last tried;    *)
(* its own failure need not be one of them.  What customizing ends is no   *)
(* failure of the relay.                                                   *)
FailureRejects(q) ==
  /\ queue[q].stage \notin {"idle", "customize"} /\ queue'[q].stage = "idle"
  /\ \E r \in queue[q].rcpts : row[r] = "going" /\ row'[r] = "error"
RejectedInSeries ==
  [][\A q \in QueueId : FailureRejects(q) => since' >= 5]_vars

(* What the documentation of DomainStats says: recoverable errors are      *)
(* never fatal for recipients.  The code only asks how many fatal ones     *)
(* there were.                                                             *)
RecoverableNeverRejects ==
  [][\A q \in QueueId : FailureRejects(q) => since' > since]_vars

(* A recipient that is given to a relay is dealt with.                     *)
GoingEnds == \A r \in Recipient : row[r] = "going" ~> row[r] # "going"

=============================================================================
