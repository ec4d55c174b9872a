--------------------------- MODULE MailingControl ---------------------------
(***************************************************************************)
(* The life of one mailing on the master: how API calls, periodic tasks,   *)
(* threads and the smtpd process change its document, which holds both its *)
(* status and its counters, and the documents of its recipients.           *)
(*                                                                         *)
(* The reactor of the master does one thing at a time, but a call reads    *)
(* the mailing and saves it whole a moment later; two threads (pausing and *)
(* closing), the reports thread and smtpd write in between, and a task of  *)
(* the reactor acts on what it read before it yielded.                     *)
(*                                                                         *)
(* Satellites are reduced to the rows they report and drop when they are   *)
(* answered: how they come to an outcome is the subject of Delegation.     *)
(***************************************************************************)
EXTENDS Integers, FiniteSets

CONSTANTS
  Recipient,     \* those that may be added to a mailing
  Primary,       \* those that are added by send_test
  Satellite,     \* those that may be connected
  NoSatellite,   \* cloud_client of a document that was never claimed
  Scenarios      \* what may happen to the mailing: one is chosen at first

Event == {"add", "start", "pause", "close", "delete", "purge", "edit", "force",
          "dsn", "reset", "limit", "unsent", "loss", "repeat", "away",
          "failure", "stop"}

(* events: how often each happens; recipients: those that may be added;    *)
(* satellites: those that are connected; closesItself: the type is not     *)
(* OPENED and dont_close_if_empty not set; dsnsCross: a DSN may arrive     *)
(* during the save of a report or of the mailing.                          *)
Scenario == [events: [Event -> Nat], recipients: SUBSET Recipient,
             satellites: SUBSET Satellite, closesItself: BOOLEAN,
             dsnsCross: BOOLEAN]

ASSUME ControlAssumption ==
  /\ IsFiniteSet(Recipient) /\ Primary \subseteq Recipient
  /\ NoSatellite \notin Satellite
  /\ Scenarios \subseteq Scenario

-----------------------------------------------------------------------------
(* MAILING_STATUS; the counters total_recipient, total_pending, ...        *)
MailingStatus == {"FILLING", "READY", "RUNNING", "PAUSED", "FINISHED"}
Counters == [total: Int, pending: Int, sent: Int, error: Int, soft: Int]
Counts(t, p, s, e, w) ==
  [total |-> t, pending |-> p, sent |-> s, error |-> e, soft |-> w]
Zero == Counts(0, 0, 0, 0, 0)
Plus(c, d) == Counts(c.total + d.total, c.pending + d.pending,
                     c.sent + d.sent, c.error + d.error, c.soft + d.soft)

(* The document of the mailing; started and ended: the times are set.      *)
Mailing == [status: MailingStatus, started: BOOLEAN, ended: BOOLEAN,
            count: Counters]
NoMailing == [status |-> "NONE", started |-> FALSE, ended |-> FALSE,
              count |-> Zero]

(* The document of a recipient; client: the satellite it was last given to.*)
(* ERROR also stands for GENERAL_ERROR.                                    *)
Final == {"FINISHED", "ERROR", "TIMEOUT"}
Pending == {"READY", "WARNING"}
Document == [status: Pending \cup Final, inProgress: BOOLEAN, dsn: BOOLEAN,
             client: Satellite \cup {NoSatellite}]
NoDoc == [status |-> "NONE", inProgress |-> FALSE, dsn |-> FALSE,
          client |-> NoSatellite]
NewDoc == [NoDoc EXCEPT !.status = "READY"]

(* What an API call, a thread or the end of a mailing is in the middle of: *)
(* its next step and the copy of the mailing it read.                      *)
Op == {"start", "pause", "edit", "close", "delete", "end"}
Step == {"save", "grab", "count", "keep", "tell", "release", "empty", "drop"}
Session == [op: Op, home: {"reactor", "thread"}, step: Step, id: Nat,
            copy: Mailing]

Closer == {"timer", "api"}

(* SendRecipientsTask between two yields, for one satellite.               *)
Run == [step: {"read", "chosen", "started", "claimed"}, seen: MailingStatus,
        counted: BOOLEAN, batch: SUBSET Recipient, sat: Satellite]
Addition == [step: {"checked", "inserted"}, batch: SUBSET Recipient]

(* The row of a recipient at a satellite: one it will report, or the       *)
(* outcome it reported and was not answered about.                         *)
Reported == {"READY", "WARNING", "FINISHED", "ERROR"}
Row == {"none", "working"} \cup Reported

(* A recipient in a report: the reports thread has a copy of its document. *)
Grabbed == [sat: Satellite, rcpt: Recipient, outcome: Reported,
            copy: Document]

VARIABLES
  mailing,   \* the document of the mailing
  doc,       \* the documents of its recipients
  sessions,  \* the sessions, in the reactor or in threads
  answered,  \* tasks whose query was answered during the reactor's session
  run,       \* the run of SendRecipientsTask (at most one)
  adding,    \* the call of add_recipients (at most one)
  closer,    \* where update_status_for_finished_mailings is, in the timer's
             \*   task and in a call of force_purge_empty_mailings
  grabbed,   \* the copy of a recipient the reports thread works on
  counted,   \* increments of stored reports the reactor has not applied
  noticed,   \* increments of stored DSNs smtpd has not applied
  row,       \* the rows of the satellites
  told,      \* satellites were told to close the mailing
  late,      \* history: recipients inserted when the mailing was ending
  astray,    \* history: recipients chosen while a satellite had them
  budget,    \* events that may still happen
  scenario   \* the scenario that was chosen

satVars == <<row, told>>
historyVars == <<late, astray>>
reactorVars == <<sessions, answered>>
countVars == <<grabbed, counted, noticed>>
stateVars == <<mailing, doc, reactorVars, run, adding, closer, countVars,
               satVars, historyVars, budget>>
vars == <<stateVars, scenario>>

TypeOK ==
  /\ mailing \in Mailing \cup {NoMailing}
  /\ doc \in [Recipient -> Document \cup {NoDoc}]
  /\ sessions \subseteq Session
  /\ answered \subseteq {"run", "adding"} \cup Closer
  /\ run \subseteq Run
  /\ adding \subseteq Addition
  /\ closer \in [Closer -> {"idle", "asked", "found", "overdue", "over"}]
  /\ grabbed \subseteq Grabbed
  /\ counted \in Counters /\ noticed \in Counters
  /\ row \in [Satellite -> [Recipient -> Row]] /\ told \in BOOLEAN
  /\ late \subseteq Recipient /\ astray \subseteq Recipient
  /\ budget \in [Event -> Nat] /\ scenario \in Scenarios

-----------------------------------------------------------------------------
Spend(e) == budget[e] > 0 /\ budget' = [budget EXCEPT ![e] = @ - 1]
Unused(E) == \A e \in E : budget[e] = scenario.events[e]

Existing == {r \in Recipient : doc[r] # NoDoc}
OfStatus(S) == {r \in Existing : doc[r].status \in S}
ReactorFree == \A x \in sessions : x.home # "reactor"

(* Session x becomes one of X (none: it ends).                             *)
Becomes(x, X) ==
  /\ sessions' = (sessions \ {x}) \cup X
  /\ answered' = IF ReactorFree' THEN {} ELSE answered

(* A query of task t takes effect.  While the reactor is in a session, it  *)
(* does not see the answer: no task does two queries meanwhile.            *)
Query(t) ==
  /\ t \notin answered
  /\ answered' = IF ReactorFree THEN answered ELSE answered \cup {t}

(* collection.save: a whole document, there or not.                        *)
Put(m) == mailing' = m

(* An update of an existing mailing by $inc.                               *)
Increase(d) ==
  mailing' = IF mailing = NoMailing THEN mailing
             ELSE [mailing EXCEPT !.count = Plus(@, d)]

(* create_mailing, create_mailing_ext.                                     *)
Created == [NoMailing EXCEPT !.status = "FILLING"]

Init ==
  /\ mailing = Created
  /\ doc = [r \in Recipient |-> NoDoc]
  /\ sessions = {} /\ answered = {}
  /\ run = {} /\ adding = {}
  /\ closer = [k \in Closer |-> "idle"]
  /\ grabbed = {} /\ counted = Zero /\ noticed = Zero
  /\ row = [s \in Satellite |-> [r \in Recipient |-> "none"]] /\ told = FALSE
  /\ late = {} /\ astray = {} /\ scenario \in Scenarios /\ budget = scenario.events

-----------------------------------------------------------------------------
(* API calls on the mailing, in the reactor: read it (grab) ...            *)

(* Variant: a closed mailing can be started.                               *)
AllowedAnyStart(op) ==
  \/ op \in {"start", "close", "delete"}
  \/ op = "pause" /\ mailing.status \in {"READY", "RUNNING", "PAUSED"}
  \/ op = "edit" /\ mailing.status # "FINISHED"

Allowed(op) ==
  \/ op = "start" /\ mailing.status \in {"PAUSED", "FILLING"}
  \/ op = "pause" /\ mailing.status \in {"READY", "RUNNING", "PAUSED"}
  \/ op = "edit" /\ mailing.status # "FINISHED"
  \/ op \in {"close", "delete"}

(* What each of the two APIs offers for one mailing.                       *)
RpcOp == {"start", "pause", "edit", "delete"}
RestOp == {"start", "pause", "edit", "close", "delete"}

Starts(event, op, step) ==
  /\ ReactorFree /\ mailing # NoMailing
  /\ sessions' = sessions \cup
       {[op |-> op, home |-> "reactor", step |-> step, id |-> budget[event],
         copy |-> mailing]}
  /\ Spend(event)
  /\ UNCHANGED <<mailing, doc, answered, run, adding, closer, countVars,
                 satVars, historyVars>>

Call(op) == op \in RpcOp \cup RestOp /\ Allowed(op) /\ Starts(op, op, "save")

(* delete_all_mailings_for_domain closes and removes without a save before.*)
Purge == Starts("purge", "delete", "grab")

(* ... then save it.  A mailing that was not started is activated by an    *)
(* update of the field alone.                                              *)
Activated(m) == [m EXCEPT !.status = "READY"]

Resumed(m) ==
  [m EXCEPT !.status = IF m.started THEN "RUNNING" ELSE "READY"]

SaveStart(x) ==
  /\ x.op = "start" /\ Becomes(x, {})
  /\ IF x.copy.status = "FILLING"
       THEN mailing' = IF mailing = NoMailing THEN mailing
                       ELSE Activated(mailing)
       ELSE Put(Resumed(x.copy))

(* A pause goes on in a thread, with the same copy; a close reads again.   *)
SavePause(x) ==
  LET m == [x.copy EXCEPT !.status = "PAUSED"] IN
  /\ x.op = "pause" /\ Put(m)
  /\ Becomes(x, {[x EXCEPT !.home = "thread", !.step = "keep", !.copy = m]})

SaveClose(x) ==
  /\ x.op \in {"close", "delete"}
  /\ Put([x.copy EXCEPT !.status = "FINISHED"])
  /\ Becomes(x, {[x EXCEPT !.step = "grab",
                           !.home = IF x.op = "close" THEN "thread" ELSE @]})

SaveEdit(x) == x.op = "edit" /\ Put(x.copy) /\ Becomes(x, {})

SaveCall ==
  /\ \E x \in sessions :
       /\ x.step = "save"
       /\ SaveStart(x) \/ SavePause(x) \/ SaveClose(x) \/ SaveEdit(x)
  /\ UNCHANGED <<doc, run, adding, closer, countVars, satVars, historyVars, budget>>

(* Variant: that it is gone is not noticed.                                *)
GrabToCloseGone ==
  /\ \E x \in sessions :
       /\ x.step = "grab"
       /\ Becomes(x, {[x EXCEPT !.step = "count", !.copy = mailing]})
  /\ UNCHANGED <<mailing, doc, run, adding, closer, countVars, satVars,
                 historyVars, budget>>

(* MailingManager.close_mailing: read the mailing (an exception if it is   *)
(* gone), recount its recipients, save it, tell the satellites.            *)
GrabToClose ==
  /\ \E x \in sessions :
       /\ x.step = "grab"
       /\ Becomes(x, IF mailing = NoMailing THEN {}
                     ELSE {[x EXCEPT !.step = "count", !.copy = mailing]})
  /\ UNCHANGED <<mailing, doc, run, adding, closer, countVars, satVars,
                 historyVars, budget>>

Recounted(c) ==
  Counts(Cardinality(Existing), Cardinality(OfStatus(Pending)),
         Cardinality(OfStatus({"FINISHED"})), Cardinality(OfStatus({"ERROR"})),
         c.soft)

Closed(m) == [m EXCEPT !.status = "FINISHED", !.ended = TRUE,
                       !.count = Recounted(@)]

CountToClose ==
  /\ \E x \in sessions :
       /\ x.step = "count"
       /\ Becomes(x, {[x EXCEPT !.step = "keep", !.copy = Closed(@)]})
  /\ UNCHANGED <<mailing, doc, run, adding, closer, countVars, satVars,
                 historyVars, budget>>

Keep ==
  /\ \E x \in sessions :
       /\ x.step = "keep"
       /\ Put(x.copy)
       /\ Becomes(x, {[x EXCEPT !.step = "tell"]})
  /\ UNCHANGED <<doc, run, adding, closer, countVars, satVars, historyVars, budget>>

(* After a pause the claims are released; a deleted mailing is removed.    *)
Tell ==
  /\ \E x \in sessions :
       /\ x.step = "tell"
       /\ Becomes(x, CASE x.op = "pause" -> {[x EXCEPT !.step = "release"]}
                       [] x.op = "delete" -> {[x EXCEPT !.step = "empty"]}
                       [] OTHER -> {})
  /\ told' = TRUE
  /\ UNCHANGED <<mailing, doc, run, adding, closer, countVars, row,
                 historyVars, budget>>

Release ==
  /\ \E x \in sessions : x.step = "release" /\ Becomes(x, {})
  /\ doc' = [r \in Recipient |-> [doc[r] EXCEPT !.inProgress = FALSE]]
  /\ UNCHANGED <<mailing, run, adding, closer, countVars, satVars,
                 historyVars, budget>>

(* full_remove: the recipients, then the mailing.                          *)
RemoveRecipients ==
  /\ \E x \in sessions :
       x.step = "empty" /\ Becomes(x, {[x EXCEPT !.step = "drop"]})
  /\ doc' = [r \in Recipient |-> NoDoc]
  /\ UNCHANGED <<mailing, run, adding, closer, countVars, satVars,
                 historyVars, budget>>

RemoveMailing ==
  /\ \E x \in sessions : x.step = "drop" /\ Becomes(x, {})
  /\ mailing' = NoMailing
  /\ UNCHANGED <<doc, run, adding, closer, countVars, satVars, historyVars, budget>>

-----------------------------------------------------------------------------
(* add_recipients and send_test: the mailing is looked at, the recipients  *)
(* are inserted, then counted.                                             *)
CheckAddition ==
  /\ Query("adding")
  /\ adding = {} /\ mailing.status \notin {"NONE", "FINISHED"}
  /\ \E batch \in SUBSET {r \in scenario.recipients : doc[r] = NoDoc} :
       batch # {} /\ adding' = {[step |-> "checked", batch |-> batch]}
  /\ Spend("add")
  /\ UNCHANGED <<mailing, doc, sessions, run, closer, countVars, satVars,
                 historyVars>>

(* The mailing is over, or is being closed.                                *)
Ending ==
  \/ mailing.status \in {"FINISHED", "NONE"} \/ \E k \in Closer : closer[k] = "over"
  \/ \E x \in sessions : x.op \in {"close", "delete", "end"}

Insert ==
  /\ Query("adding")
  /\ \E a \in adding :
       /\ a.step = "checked"
       /\ doc' = [r \in Recipient |-> IF r \in a.batch THEN NewDoc ELSE doc[r]]
       /\ adding' = {[a EXCEPT !.step = "inserted"]}
       /\ late' = IF Ending THEN late \cup a.batch ELSE late
  /\ UNCHANGED <<mailing, sessions, run, closer, countVars, satVars, astray,
                 budget>>

Added(a) == Counts(Cardinality(a.batch), Cardinality(a.batch), 0, 0, 0)

CountAddition ==
  /\ ReactorFree
  /\ \E a \in adding : a.step = "inserted" /\ Increase(Added(a))
  /\ adding' = {}
  /\ UNCHANGED <<doc, reactorVars, run, closer, countVars, satVars,
                 historyVars, budget>>

-----------------------------------------------------------------------------
(* SendRecipientsTask.  The mailing and its total_pending are read first   *)
(* (by two queries).                                                       *)
ReadMailing ==
  /\ Query("run")
  /\ run = {} /\ mailing.status \in {"FILLING", "READY", "RUNNING"}
  /\ \E s \in scenario.satellites :
       run' = {[step |-> "read", seen |-> mailing.status, sat |-> s,
                counted |-> mailing.count.pending # 0, batch |-> {}]}
  /\ UNCHANGED <<mailing, doc, sessions, adding, closer, countVars, satVars,
                 historyVars, budget>>

(* Test recipients go first and whatever the counters say; others only if  *)
(* there is something pending in a mailing that is started.                *)
Eligible(u) ==
  {r \in OfStatus(Pending) :
     /\ ~doc[r].inProgress
     /\ r \in Primary \/ (u.counted /\ u.seen \in {"READY", "RUNNING"})}

(* A satellite has it, or the reports thread does.                         *)
Somewhere(r) ==
  \/ \E s \in Satellite : row[s][r] # "none"
  \/ \E g \in grabbed : g.rcpt = r

ChooseRecipients ==
  /\ Query("run")
  /\ \E u \in run :
       /\ u.step = "read"
       /\ IF Eligible(u) = {} THEN run' = {} /\ UNCHANGED astray
          ELSE \E batch \in SUBSET Eligible(u) :
                 /\ batch # {}
                 /\ run' = {[u EXCEPT !.step = "chosen", !.batch = batch]}
                 /\ astray' = astray \cup {r \in batch : Somewhere(r)}
  /\ UNCHANGED <<mailing, doc, sessions, adding, closer, countVars, satVars,
                 late, budget>>

(* A mailing that was READY when it was read becomes RUNNING, unless test  *)
(* recipients alone fill the queue or nothing else was looked for.         *)
Started(m) == IF m = NoMailing THEN m
              ELSE [m EXCEPT !.status = "RUNNING", !.started = TRUE]

StartRunning ==
  /\ Query("run")
  /\ \E u \in run :
       /\ u.step = "chosen"
       /\ \/ u.seen = "READY" /\ u.counted /\ mailing' = Started(mailing)
          \/ /\ u.seen # "READY" \/ u.batch \subseteq Primary
             /\ UNCHANGED mailing
       /\ run' = {[u EXCEPT !.step = "started"]}
  /\ UNCHANGED <<doc, sessions, adding, closer, countVars, satVars,
                 historyVars, budget>>

(* The recipients are claimed, then sent to the satellite, which ignores   *)
(* those it still has; the check of orphans passes over them for an hour.  *)
Claim ==
  /\ Query("run")
  /\ \E u \in run :
       /\ u.step = "started"
       /\ doc' = [r \in Recipient |->
            IF r \in u.batch \cap Existing
              THEN [doc[r] EXCEPT !.inProgress = TRUE, !.client = u.sat]
              ELSE doc[r]]
       /\ run' = {[u EXCEPT !.step = "claimed"]}
  /\ UNCHANGED <<mailing, sessions, adding, closer, countVars, satVars,
                 historyVars, budget>>

Send ==
  /\ ReactorFree
  /\ \E u \in run :
       /\ u.step = "claimed"
       /\ row' = [row EXCEPT ![u.sat] = [r \in Recipient |->
                    IF r \in u.batch /\ @[r] = "none" THEN "working" ELSE @[r]]]
  /\ run' = {}
  /\ UNCHANGED <<mailing, doc, reactorVars, adding, closer, countVars, told,
                 historyVars, budget>>

-----------------------------------------------------------------------------
(* Satellites: they drop rows when they are told to close, when they stop  *)
(* and lose them, and when a report of them is answered.                   *)
Obey ==
  /\ told /\ told' = FALSE
  /\ \E dropped \in SUBSET {p \in Satellite \X Recipient : row[p[1]][p[2]] # "none"} :
       row' = [s \in Satellite |-> [r \in Recipient |->
                 IF <<s, r>> \in dropped THEN "none" ELSE row[s][r]]]
  /\ UNCHANGED <<mailing, doc, reactorVars, run, adding, closer, countVars,
                 historyVars, budget>>

Drop(s, r) == row' = [row EXCEPT ![s][r] = "none"]

Forget(s, r) ==
  /\ row[s][r] # "none" /\ Spend("loss") /\ Drop(s, r)
  /\ UNCHANGED <<mailing, doc, reactorVars, run, adding, closer, countVars,
                 told, historyVars>>

InReport(s, r) == \E g \in grabbed : g.sat = s /\ g.rcpt = r

ReceiveAnswer(s, r) ==
  /\ row[s][r] \in Reported /\ ~InReport(s, r) /\ Drop(s, r)
  /\ UNCHANGED <<mailing, doc, reactorVars, run, adding, closer, countVars,
                 told, historyVars, budget>>

(* check_recipients_in_clients, for a recipient claimed an hour ago.  The  *)
(* satellite is asked; when it is not connected, the claim is released     *)
(* though the satellite may have the recipient (and when it dropped the    *)
(* row, though its report may just be stored).                             *)
Claimed(r) ==
  /\ doc[r].inProgress /\ doc[r].client \in Satellite
  /\ \A u \in run : u.step = "claimed" => r \notin u.batch

Orphan(r) ==
  /\ Claimed(r) /\ row[doc[r].client][r] = "none"
  /\ \A g \in grabbed : g.rcpt # r

Released(r) == doc' = [doc EXCEPT ![r].inProgress = FALSE]

CheckOrphans(r) ==
  /\ \/ Orphan(r) /\ UNCHANGED budget
     \/ Claimed(r) /\ Spend("away")
  /\ Released(r)
  /\ UNCHANGED <<mailing, reactorVars, run, adding, closer, countVars, satVars,
                 historyVars>>

(* The reports thread: it reads a recipient, then saves it.  READY is      *)
(* reported for what was not sent.  A row is reported again when the       *)
(* connection broke before its report was answered, or the master stopped. *)
MayReport(s, r, o) ==
  \/ /\ row[s][r] = "working"
     /\ IF o = "READY" THEN Spend("unsent") ELSE UNCHANGED budget
  \/ row[s][r] = o /\ Spend("repeat")

(* A recipient that is gone is skipped, and is in the answer.              *)
GrabReport(s, r, o) ==
  /\ grabbed = {} /\ MayReport(s, r, o)
  /\ IF doc[r] = NoDoc
       THEN row' = [row EXCEPT ![s][r] = o] /\ UNCHANGED grabbed
       ELSE /\ grabbed' = {[sat |-> s, rcpt |-> r, outcome |-> o, copy |-> doc[r]]}
            /\ UNCHANGED row
  /\ UNCHANGED <<mailing, doc, reactorVars, run, adding, closer, counted,
                 noticed, told, historyVars>>

DsnFirst(d) == d.status = "ERROR" /\ d.dsn

(* What a report of outcome o adds to the counters.                        *)
Delta(d, o) ==
  LET warned == IF d.status = "WARNING" THEN 1 ELSE 0 IN
  IF DsnFirst(d) THEN Zero
  ELSE CASE o \in Pending  -> Counts(0, 0, 0, 0, 1 - warned)
         [] o = "FINISHED" -> Counts(0, -1, 1, 0, -warned)
         [] o = "ERROR"    -> Counts(0, -1, 0, 1, -warned)

(* The document is saved and the recipient will be in the answer.          *)
StoreReport ==
  /\ \E g \in grabbed :
       /\ doc' = IF DsnFirst(g.copy) THEN doc
                 ELSE [doc EXCEPT ![g.rcpt] =
                         [g.copy EXCEPT !.status = g.outcome,
                                        !.inProgress = FALSE,
                                        !.client = g.sat]]
       /\ counted' = Plus(counted, Delta(g.copy, g.outcome))
       /\ row' = [row EXCEPT ![g.sat][g.rcpt] =
                    IF @ = "none" THEN "none" ELSE g.outcome]
  /\ grabbed' = {}
  /\ UNCHANGED <<mailing, reactorVars, run, adding, closer, noticed, told,
                 historyVars, budget>>

(* An exception: it is not in the answer, but may have been counted before *)
(* the save failed.                                                        *)
FailToStore ==
  /\ Spend("failure")
  /\ \E g \in grabbed :
       counted' \in {counted, Plus(counted, Delta(g.copy, g.outcome))}
  /\ grabbed' = {}
  /\ UNCHANGED <<mailing, doc, reactorVars, run, adding, closer, noticed,
                 satVars, historyVars>>

(* Variant: the counters are increased by the thread.                      *)
CountReportsAnyTime ==
  /\ counted # Zero
  /\ Increase(counted)
  /\ counted' = Zero
  /\ UNCHANGED <<doc, reactorVars, run, adding, closer, grabbed, noticed,
                 satVars, historyVars, budget>>

(* _update_mailings_stats, in the reactor.  Reports stored meanwhile are   *)
(* counted together.                                                       *)
CountReports ==
  /\ ReactorFree /\ counted # Zero
  /\ Increase(counted)
  /\ counted' = Zero
  /\ UNCHANGED <<doc, reactorVars, run, adding, closer, grabbed, noticed,
                 satVars, historyVars, budget>>

-----------------------------------------------------------------------------
(* smtpd, another process: a DSN for an e-mail that may have left, then    *)
(* the counters, according to the status that was replaced.                *)
DsnDelta(st) ==
  CASE st = "FINISHED" -> Counts(0, 0, -1, 1, 0)
    [] st = "TIMEOUT"  -> Counts(0, 0, 0, 1, 0)
    [] st \in Pending  -> Counts(0, -1, 0, 1, 0)
    [] OTHER           -> Zero

StoreDsn(r) ==
  /\ doc[r] # NoDoc /\ doc[r].client # NoSatellite /\ Spend("dsn")
  /\ scenario.dsnsCross \/ \A g \in grabbed : g.rcpt # r
  /\ doc' = [doc EXCEPT ![r].status = "ERROR", ![r].dsn = TRUE]
  /\ noticed' = Plus(noticed, DsnDelta(doc[r].status))
  /\ UNCHANGED <<mailing, reactorVars, run, adding, closer, grabbed, counted,
                 satVars, historyVars>>

CountDsn ==
  /\ noticed # Zero /\ (scenario.dsnsCross \/ ReactorFree)
  /\ Increase(noticed)
  /\ noticed' = Zero
  /\ UNCHANGED <<doc, reactorVars, run, adding, closer, grabbed, counted,
                 satVars, historyVars, budget>>

(* reset_recipients_status.                                                *)
Reset(r) ==
  /\ doc[r] # NoDoc /\ Spend("reset")
  /\ doc' = [doc EXCEPT ![r].status = "READY"]
  /\ UNCHANGED <<mailing, reactorVars, run, adding, closer, countVars, satVars,
                 historyVars>>

-----------------------------------------------------------------------------
(* update_status_for_finished_mailings, run by a timer and by a call of    *)
(* the API, which does not look whether it runs already.                   *)
Goes(k, from, to) == closer[k] = from /\ closer' = [closer EXCEPT ![k] = to]

ForcePurge ==
  /\ ReactorFree /\ Goes("api", "idle", "asked") /\ Spend("force")
  /\ UNCHANGED <<mailing, doc, reactorVars, run, adding, countVars, satVars,
                 historyVars>>

FindMailing(k) ==
  /\ Query(k)
  /\ mailing.status \in {"READY", "RUNNING", "PAUSED"}
  /\ LET from == IF k = "api" THEN "asked" ELSE "idle"
     IN \/ Goes(k, from, "overdue") /\ Spend("limit")
        \/ Goes(k, from, "found") /\ scenario.closesItself /\ UNCHANGED budget
  /\ UNCHANGED <<mailing, doc, sessions, run, adding, countVars, satVars,
                 historyVars>>

(* Variant: a recipient to try again does not count.                       *)
UnfinishedNew ==
  {r \in Existing : doc[r].status = "READY" \/ doc[r].inProgress}

Unfinished ==
  {r \in Existing : doc[r].status \in Pending \/ doc[r].inProgress}

(* The time is up.                                                         *)
Expire(k) ==
  /\ Query(k) /\ Goes(k, "overdue", "over")
  /\ doc' = [r \in Recipient |->
               IF r \in Unfinished
                 THEN [doc[r] EXCEPT !.status = "TIMEOUT",
                                     !.inProgress = FALSE]
                 ELSE doc[r]]
  /\ UNCHANGED <<mailing, sessions, run, adding, countVars, satVars,
                 historyVars, budget>>

LookForUnfinished(k) ==
  /\ Query(k) /\ Goes(k, "found", IF Unfinished = {} THEN "over" ELSE "idle")
  /\ UNCHANGED <<mailing, doc, sessions, run, adding, countVars, satVars,
                 historyVars, budget>>

EndMailing(k) ==
  /\ Goes(k, "over", "idle") /\ ReactorFree
  /\ sessions' = sessions \cup
       {[op |-> "end", home |-> "reactor", step |-> "grab", id |-> 0,
         copy |-> Created]}
  /\ UNCHANGED <<mailing, doc, answered, run, adding, countVars, satVars,
                 historyVars, budget>>

(* The master stops and starts again; no report is answered any more.      *)
RestartMaster ==
  /\ Spend("stop")
  /\ sessions' = {} /\ answered' = {} /\ run' = {} /\ adding' = {}
  /\ closer' = [k \in Closer |-> "idle"]
  /\ grabbed' = {} /\ counted' = Zero
  /\ UNCHANGED <<mailing, doc, noticed, satVars, historyVars>>

-----------------------------------------------------------------------------
Task == ReadMailing \/ ChooseRecipients \/ StartRunning \/ Claim \/ Send
SessionStep ==
  \/ SaveCall \/ GrabToClose \/ CountToClose \/ Keep \/ Tell
  \/ Release \/ RemoveRecipients \/ RemoveMailing
Closing ==
  \E k \in Closer :
    FindMailing(k) \/ Expire(k) \/ LookForUnfinished(k) \/ EndMailing(k)
Adding == CheckAddition \/ Insert \/ CountAddition
Recipients == \E r \in Recipient : CheckOrphans(r) \/ StoreDsn(r) \/ Reset(r)
Rows ==
  \E s \in Satellite, r \in Recipient :
    \/ Forget(s, r) \/ ReceiveAnswer(s, r)
    \/ \E o \in Reported : GrabReport(s, r, o)
Reports == StoreReport \/ FailToStore \/ CountReports

Change ==
  \/ (\E op \in Op : Call(op)) \/ Purge \/ ForcePurge
  \/ Task \/ SessionStep \/ Closing \/ Adding \/ Recipients \/ Rows
  \/ Reports \/ CountDsn \/ Obey \/ RestartMaster

Next == Change /\ UNCHANGED scenario

Spec == Init /\ [][Next]_vars

-----------------------------------------------------------------------------
(* The counters of a mailing that is not over are those of its recipients, *)
(* but for increments under way: whole saves of the mailing                *)
(* (set_mailing_properties, start_mailing) lose none of them and nothing   *)
(* is counted twice (_store_reports, store_recipient_report,               *)
(* _update_pending_recipients), over lost rows, orphans and late answers.  *)
(* A pause, a reset, the time limit and a stop of the master do spoil them,*)
(* and DSNs that cross a save; so do a report that is repeated because its *)
(* answer was lost, one that is counted and not saved, and a claim that is *)
(* released while its satellite is away: the code counts what is reported, *)
(* whatever was reported before.  Soft bounces are only right without DSNs *)
(* and what was not sent.                                                  *)
Inserted == {a \in adding : a.step = "inserted"}
AddedNotCounted == IF Inserted = {} THEN 0
                   ELSE Cardinality((CHOOSE a \in Inserted : TRUE).batch)

Undisturbed ==
  /\ ~scenario.dsnsCross
  /\ mailing # NoMailing /\ ~mailing.ended
  /\ Unused({"pause", "reset", "limit", "stop", "repeat", "away", "failure"})

CountersExact ==
  Undisturbed =>
    LET all == Plus(mailing.count, Plus(counted, noticed)) IN
    /\ all.total + AddedNotCounted = Cardinality(Existing)
    /\ all.pending + AddedNotCounted = Cardinality(OfStatus(Pending))
    /\ all.sent = Cardinality(OfStatus({"FINISHED"}))
    /\ all.error = Cardinality(OfStatus({"ERROR"}))
    /\ Unused({"dsn", "unsent"}) =>
         all.soft = Cardinality(OfStatus({"WARNING"}))

(* A mailing that ends by itself leaves nobody behind: unless it was also  *)
(* closed or paused, or recipients were reset, expired or added too late,  *)
(* each of its recipients was sent or failed (find_one and close_mailing   *)
(* are two steps), and stays so, though reports are repeated or fail,      *)
(* claims are released too early and rows are lost.  It is not so for a    *)
(* recipient that was chosen while a satellite had it still (a late answer,*)
(* a satellite that was away): one of them may report it sent and, when    *)
(* the mailing is over, the other that it is to be tried again; nor if a   *)
(* DSN crosses the save of a report.                                       *)
NobodyStranded ==
  mailing.status = "FINISHED" /\ ~scenario.dsnsCross
    /\ Unused({"close", "delete", "purge", "pause", "reset", "limit"}) =>
    \A r \in Existing \ (late \cup astray) : doc[r].status \in {"FINISHED", "ERROR"}

(* A mailing that is FINISHED stays so, and no document brings a deleted   *)
(* one back, once nobody is left that read it before (pause_mailing,       *)
(* filling_mailing_queue): no API call reopens it.                         *)
NoneBefore ==
  /\ \A x \in sessions : x.op \in {"close", "delete", "end"}
                         \/ x.copy.status = "FINISHED"
  /\ \A u \in run : u.seen # "READY"

ClosedForGood ==
  [][NoneBefore =>
       (mailing.status \in {"FINISHED", "NONE"} =>
          mailing'.status \in {"FINISHED", "NONE"})]_vars

=============================================================================
