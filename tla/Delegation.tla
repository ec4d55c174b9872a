----------------------------- MODULE Delegation -----------------------------
(***************************************************************************)
(* How the master hands recipients of a running mailing to its satellites  *)
(* and takes them back.                                                    *)
(*                                                                         *)
(* The master keeps one document per recipient.  SendRecipientsTask        *)
(* selects documents, marks them in_progress for one satellite and pages   *)
(* them to it.  The satellite keeps a row per recipient, sends the e-mail, *)
(* records the outcome in the row and reports finished rows; the master    *)
(* stores the reports in a thread and acknowledges them, and only then     *)
(* does the satellite drop its rows.  Connections, satellites and the      *)
(* master stop and restart at any time.  A periodic check releases the     *)
(* recipients a satellite does not know, and a satellite that restarts     *)
(* asks which of its rows are still its own.                               *)
(*                                                                         *)
(* There is one mailing, running and with its content on every satellite:  *)
(* pausing and closing it are not part of this module.                     *)
(***************************************************************************)
EXTENDS Integers, Sequences, FiniteSets

CONSTANTS
  Recipient,      \* the recipients of the mailing
  Satellite,      \* the satellites, all enabled and of the mailing's group
  NoSatellite,    \* cloud_client of a document that was never delegated
  QueueMin,       \* MAILING_QUEUE_MIN_SIZE
  QueueMax,       \* MAILING_QUEUE_MAX_SIZE
  MaxReports,     \* MAILING_MAX_REPORTS: rows of one report
  Scenarios       \* what may happen: one is chosen at first

(* noAnswer: a mail server takes an e-mail and its answer never comes.     *)
Mishap == {"stop", "drop", "dsn", "reset", "dbError", "ioError", "zombie",
           "noAnswer"}

(* mishaps: how often each happens; delegations: how often each recipient  *)
(* is selected; satellites: those that ever connect; slowAnswers: a report *)
(* may be answered later than the ten minutes after which its recipient is *)
(* tried again.                                                            *)
Scenario == [mishaps: [Mishap -> Nat], delegations: [Recipient -> Nat],
             satellites: SUBSET Satellite, slowAnswers: BOOLEAN]

ASSUME DelegationAssumption ==
  /\ IsFiniteSet(Recipient)
  /\ NoSatellite \notin Satellite
  /\ QueueMin \in Nat /\ QueueMax \in Nat /\ MaxReports \in Nat
  /\ Scenarios \subseteq Scenario

-----------------------------------------------------------------------------
(* What an attempt to send can end with, and the status values of a        *)
(* document and of a row.  TIMEOUT is only set by the end of a mailing.    *)
Outcome == {"WARNING", "FINISHED", "ERROR", "GENERAL_ERROR"}
DocStatus == {"READY"} \cup Outcome
RowStatus == {"UNVERIFIED", "READY", "IN_PROGRESS"} \cup Outcome

(* A document of the master.  due abstracts next_try: the time has come.   *)
Document == [status: DocStatus, inProgress: BOOLEAN, dsn: BOOLEAN,
             due: BOOLEAN, client: Satellite \cup {NoSatellite}]

(* A delegation, the deleg-th of a recipient.  The number is not in the    *)
(* code: it tells apart what two pages for one recipient lead to.          *)
Token == [rcpt: Recipient, deleg: Nat]
Item == [rcpt: Recipient, deleg: Nat, status: RowStatus]
TokenOf(i) == [rcpt |-> i.rcpt, deleg |-> i.deleg]
ItemOf(t, st) == [rcpt |-> t.rcpt, deleg |-> t.deleg, status |-> st]

(* A row of a satellite.                                                   *)
Row == [status: RowStatus, inProgress: BOOLEAN, finished: BOOLEAN, deleg: Nat]
NoRow == [status |-> "NONE", inProgress |-> FALSE, finished |-> FALSE,
          deleg |-> 0]

(* A call of send_reports: queued, or running if it is the first.          *)
Job == [sat: Satellite, todo: SUBSET Item, ok: SUBSET Recipient, live: BOOLEAN]
Selection == [sat: Satellite, batch: SUBSET Recipient, live: BOOLEAN]
Grabbed == [item: Item, doc: Document]

VARIABLES
  doc,        \* master: the document of each recipient
  aged,       \* master: recipients whose date_delegated is older than
              \*   ORPHAN_RECIPIENTS_MAX_AGE
  delegated,  \* how many times each recipient was delegated
  selection,  \* master: the documents read and not yet marked (at most one)
  pool,       \* master: the jobs of the one-thread reports pool, in order
  grabbed,    \* master: the copy the reports thread works on (at most one)
  lost,       \* master: recipients a satellite did not know, by satellite
  conn,       \* the connection of each satellite to the master
  pages,      \* pages of recipients on their way to a satellite
  asked,      \* recipients of a check_recipients call on its way
  ack,        \* answer to send_reports on its way: before ("first") or
              \*   after ("behind") the check_recipients call
  acked,      \* the recipients in that answer
  claimed,    \* the answer to get_my_recipients on its way
  verify,     \* satellite: where verify_recipients is
  booted,     \* satellite: the process runs and made its MailingSender
  row,        \* satellite: its rows
  work,       \* satellite: the delegations its relays are sending
  zombies,    \* satellite: those it gave up while a relay still sends them
  mailed,     \* history: delegations whose e-mail a mail server accepted
  recorded,   \* history: outcomes a satellite recorded
  taken,      \* history: reports the master has handled
  budget,     \* mishaps that may still happen
  scenario    \* the scenario that was chosen; never changes

docVars == <<doc, aged, delegated>>
masterVars == <<selection, pool, grabbed, lost>>
linkVars == <<conn, pages, asked, ack, acked, claimed, verify>>
satVars == <<booted, row, work, zombies>>
historyVars == <<mailed, recorded, taken>>
stateVars == <<docVars, masterVars, linkVars, satVars, historyVars, budget>>
vars == <<stateVars, scenario>>

DocsOK ==
  /\ doc \in [Recipient -> Document]
  /\ aged \subseteq Recipient
  /\ delegated \in [Recipient -> Nat]

MasterOK ==
  /\ selection \subseteq Selection
  /\ pool \in Seq(Job)
  /\ grabbed \subseteq Grabbed
  /\ grabbed # {} => pool # <<>>
  /\ lost \in [Satellite -> SUBSET Recipient]

LinksOK ==
  /\ conn \in [Satellite -> BOOLEAN]
  /\ pages \in [Satellite -> SUBSET SUBSET Token]
  /\ asked \in [Satellite -> SUBSET Recipient]
  /\ ack \in [Satellite -> {"none", "first", "behind"}]
  /\ acked \in [Satellite -> SUBSET Recipient]
  /\ claimed \in [Satellite -> SUBSET Recipient]
  /\ verify \in [Satellite -> {"idle", "asked", "answered"}]

SatellitesOK ==
  /\ booted \in [Satellite -> BOOLEAN]
  /\ row \in [Satellite -> [Recipient -> Row \cup {NoRow}]]
  /\ work \in [Satellite -> SUBSET Token]
  /\ zombies \in [Satellite -> SUBSET Token]

HistoryOK ==
  /\ mailed \subseteq Token
  /\ recorded \subseteq Item
  /\ taken \subseteq Item

TypeOK ==
  DocsOK /\ MasterOK /\ LinksOK /\ SatellitesOK /\ HistoryOK
  /\ budget \in [Mishap -> Nat]

-----------------------------------------------------------------------------
Spend(m) ==
  /\ budget[m] > 0
  /\ budget' = [budget EXCEPT ![m] = @ - 1]

(* The row of r at s is saved as w.                                        *)
Save(s, r, w) == row' = [row EXCEPT ![s][r] = w]

Present(s) == {r \in Recipient : row[s][r] # NoRow}
Unfinished(s) == {r \in Present(s) : ~row[s][r].finished}
RowToken(s, r) == [rcpt |-> r, deleg |-> row[s][r].deleg]

(* A report of s is queued, being stored, or its answer is on its way.     *)
Reporting(s) ==
  \/ \E i \in DOMAIN pool : pool[i].sat = s /\ pool[i].live
  \/ ack[s] # "none"

Answering(r) ==
  \/ \E i \in DOMAIN pool : r \in pool[i].ok
  \/ \E s \in Satellite : r \in acked[s]

(* One check of orphans at a time.                                         *)
Checking == \E s \in Satellite : asked[s] # {} \/ lost[s] # {}

Init ==
  /\ doc = [r \in Recipient |->
             [status |-> "READY", inProgress |-> FALSE, dsn |-> FALSE,
              due |-> TRUE, client |-> NoSatellite]]
  /\ aged = {}
  /\ delegated = [r \in Recipient |-> 0]
  /\ selection = {}
  /\ pool = <<>>
  /\ grabbed = {}
  /\ lost = [s \in Satellite |-> {}]
  /\ conn = [s \in Satellite |-> FALSE]
  /\ pages = [s \in Satellite |-> {}]
  /\ asked = [s \in Satellite |-> {}]
  /\ ack = [s \in Satellite |-> "none"]
  /\ acked = [s \in Satellite |-> {}]
  /\ claimed = [s \in Satellite |-> {}]
  /\ verify = [s \in Satellite |-> "idle"]
  /\ booted = [s \in Satellite |-> FALSE]
  /\ row = [s \in Satellite |-> [r \in Recipient |-> NoRow]]
  /\ work = [s \in Satellite |-> {}]
  /\ zombies = [s \in Satellite |-> {}]
  /\ mailed = {} /\ recorded = {} /\ taken = {}
  /\ scenario \in Scenarios /\ budget = scenario.mishaps

-----------------------------------------------------------------------------
(* The master: SendRecipientsTask.                                         *)
(* Variant: the status of the recipient is not looked at.                  *)
EligibleAnyStatus ==
  {r \in Recipient :
     ~doc[r].inProgress /\ doc[r].due /\ delegated[r] < scenario.delegations[r]}

Eligible == {r \in Recipient :
               /\ ~doc[r].inProgress
               /\ doc[r].status \in {"READY", "WARNING"}
               /\ doc[r].due
               /\ delegated[r] < scenario.delegations[r]}

(* prepare_getting_recipients on the satellite, then the query for the     *)
(* recipients to send.  Nothing is marked yet.                             *)
Select(s) ==
  /\ selection = {}
  /\ conn[s]
  /\ Cardinality(Unfinished(s)) < QueueMin
  /\ \E batch \in SUBSET Eligible :
       /\ batch # {}
       /\ Cardinality(batch) <= QueueMax - Cardinality(Unfinished(s))
       /\ selection' = {[sat |-> s, batch |-> batch, live |-> TRUE]}
  /\ UNCHANGED <<docVars, pool, grabbed, lost, linkVars, satVars, historyVars,
                 budget>>

(* The selected documents are marked by _id alone, whatever happened to    *)
(* them meanwhile, and paged to the collector the satellite gave.          *)
PageOf(batch) == {[rcpt |-> r, deleg |-> delegated[r] + 1] : r \in batch}

Marked(sel) ==
  /\ doc' = [r \in Recipient |->
               IF r \in sel.batch
                 THEN [doc[r] EXCEPT !.inProgress = TRUE, !.client = sel.sat]
                 ELSE doc[r]]
  /\ aged' = aged \ sel.batch
  /\ delegated' = [r \in Recipient |->
                     IF r \in sel.batch THEN delegated[r] + 1 ELSE delegated[r]]
  /\ pages' = IF sel.live
                THEN [pages EXCEPT ![sel.sat] = @ \cup {PageOf(sel.batch)}]
                ELSE pages

Mark ==
  /\ \E sel \in selection : Marked(sel)
  /\ selection' = {}
  /\ UNCHANGED <<pool, grabbed, lost, conn, asked, ack, acked, claimed, verify,
                 satVars, historyVars, budget>>

(* Time.  An hour goes by since r was delegated: a page that is still on   *)
(* its way is not that old.                                                *)
GrowOld(r) ==
  /\ doc[r].inProgress /\ r \notin aged
  /\ \A s \in Satellite : \A page \in pages[s] : \A t \in page : t.rcpt # r
  /\ aged' = aged \cup {r}
  /\ UNCHANGED <<doc, delegated, masterVars, linkVars, satVars, historyVars,
                 budget>>

BecomeDue(r) ==
  /\ ~doc[r].due
  /\ scenario.slowAnswers \/ ~Answering(r)
  /\ doc' = [doc EXCEPT ![r].due = TRUE]
  /\ UNCHANGED <<aged, delegated, masterVars, linkVars, satVars, historyVars,
                 budget>>

(* The master: other writers of the documents.  smtpd stores a DSN of an   *)
(* e-mail that left; the API resets a recipient whatever its state.        *)
StoreDsn(r) ==
  /\ Spend("dsn")
  /\ \E t \in mailed : t.rcpt = r
  /\ doc' = [doc EXCEPT ![r].status = "ERROR", ![r].dsn = TRUE]
  /\ UNCHANGED <<aged, delegated, masterVars, linkVars, satVars, historyVars>>

Reset(r) ==
  /\ Spend("reset")
  /\ doc' = [doc EXCEPT ![r].status = "READY"]
  /\ UNCHANGED <<aged, delegated, masterVars, linkVars, satVars, historyVars>>

-----------------------------------------------------------------------------
(* The master: _store_reports, one job at a time, one recipient at a time. *)

(* MailingRecipient.grab: the thread reads a copy of the document.         *)
Grab ==
  /\ pool # <<>> /\ grabbed = {}
  /\ \E i \in Head(pool).todo : grabbed' = {[item |-> i, doc |-> doc[i.rcpt]]}
  /\ UNCHANGED <<docVars, selection, pool, lost, linkVars, satVars,
                 historyVars, budget>>

(* Variant: what was not sent is taken for sent.                           *)
UpdatedOptimistic(d, st, s) ==
  [d EXCEPT !.status = IF st = "READY" THEN "FINISHED" ELSE st,
            !.inProgress = FALSE, !.client = s]

(* The document a report leads to: status, next_try and in_progress.       *)
Updated(d, st, s) ==
  [d EXCEPT !.status = st, !.inProgress = FALSE, !.client = s,
            !.due = IF st \in {"READY", "WARNING"} THEN FALSE
                    ELSE IF st = "FINISHED" THEN TRUE ELSE @]

(* Variant: a recipient that could not be stored is acknowledged.          *)
HandledEarly(i, ok) ==
  pool' = <<[Head(pool) EXCEPT !.todo = @ \ {i}, !.ok = @ \cup {i.rcpt}]>>
            \o Tail(pool)

(* One recipient of the report is done; ok goes into the answer.           *)
Handled(i, ok) ==
  pool' = <<[Head(pool) EXCEPT !.todo = @ \ {i}, !.ok = @ \cup ok]>>
            \o Tail(pool)

DsnFirst(d) == d.status = "ERROR" /\ d.dsn

(* Variant: every status can be stored.                                    *)
StorableAny(g) == TRUE

(* UNVERIFIED is no status of the master: setting it raises.               *)
Storable(g) == g.item.status \in DocStatus \/ DsnFirst(g.doc)

(* The copy is checked, changed and saved as a whole, over whatever the    *)
(* document has become.                                                    *)
Stored(g) ==
  /\ Storable(g)
  /\ doc' = IF DsnFirst(g.doc) THEN doc
            ELSE [doc EXCEPT ![g.item.rcpt] =
                    Updated(g.doc, g.item.status, Head(pool).sat)]
  /\ Handled(g.item, {g.item.rcpt})
  /\ taken' = taken \cup {g.item}

StoreReport ==
  /\ \E g \in grabbed : Stored(g)
  /\ grabbed' = {}
  /\ UNCHANGED <<aged, delegated, selection, lost, linkVars, satVars, mailed,
                 recorded, budget>>

(* An exception: the recipient is left out of the answer.  The database    *)
(* may fail too.                                                           *)
FailToStore ==
  /\ \E g \in grabbed :
       /\ (~Storable(g) /\ UNCHANGED budget) \/ Spend("dbError")
       /\ Handled(g.item, {})
  /\ grabbed' = {}
  /\ UNCHANGED <<docVars, selection, lost, linkVars, satVars, historyVars>>

(* The thread is done: the answer leaves, if the connection is still the   *)
(* one the report came by.                                                 *)
FinishReport ==
  /\ pool # <<>> /\ grabbed = {} /\ Head(pool).todo = {}
  /\ pool' = Tail(pool)
  /\ IF Head(pool).live
       THEN LET s == Head(pool).sat IN
            /\ ack' = [ack EXCEPT ![s] =
                         IF asked[s] = {} THEN "first" ELSE "behind"]
            /\ acked' = [acked EXCEPT ![s] = Head(pool).ok]
       ELSE UNCHANGED <<ack, acked>>
  /\ UNCHANGED <<docVars, selection, grabbed, lost, conn, pages, asked,
                 claimed, verify, satVars, historyVars, budget>>

-----------------------------------------------------------------------------
(* The master: check_recipients_in_clients.                                *)

(* Variant: a delegation is checked however young it is.                   *)
OrphansOfAnyAge(s) == {r \in Recipient : doc[r].inProgress /\ doc[r].client = s}

(* ORPHAN_RECIPIENTS_MAX_AGE after they were delegated to s.               *)
Orphans(s) == {r \in aged : doc[r].inProgress /\ doc[r].client = s}

(* Variant: the recipients of a satellite that is away are not released.   *)
UnaskedForgotten(s) == {}

(* A connected satellite is asked; one that is not knows none of them.     *)
Unasked(s) == IF conn[s] THEN {} ELSE Orphans(s)

CheckOrphans ==
  /\ ~Checking
  /\ \E s \in Satellite : Orphans(s) # {}
  /\ asked' = [s \in Satellite |-> IF conn[s] THEN Orphans(s) ELSE {}]
  /\ lost' = [s \in Satellite |-> Unasked(s)]
  /\ UNCHANGED <<docVars, selection, pool, grabbed, conn, pages, ack, acked,
                 claimed, verify, satVars, historyVars, budget>>

(* remote_check_recipients: every row the satellite has is known.          *)
AnswerCheck(s) ==
  /\ asked[s] # {} /\ ack[s] # "first"
  /\ lost' = [lost EXCEPT ![s] = asked[s] \ Present(s)]
  /\ asked' = [asked EXCEPT ![s] = {}]
  /\ ack' = [ack EXCEPT ![s] = IF @ = "behind" THEN "first" ELSE @]
  /\ UNCHANGED <<docVars, selection, pool, grabbed, conn, pages, acked,
                 claimed, verify, satVars, historyVars, budget>>

(* _check_recipients_cb releases by _id alone.                             *)
ReleaseOrphans(s) ==
  /\ lost[s] # {}
  /\ doc' = [r \in Recipient |->
               IF r \in lost[s] THEN [doc[r] EXCEPT !.inProgress = FALSE]
                                ELSE doc[r]]
  /\ lost' = [lost EXCEPT ![s] = {}]
  /\ UNCHANGED <<aged, delegated, selection, pool, grabbed, linkVars, satVars,
                 historyVars, budget>>

(* view_get_my_recipients.                                                 *)
AnswerVerify(s) ==
  /\ verify[s] = "asked"
  /\ claimed' = [claimed EXCEPT ![s] =
                   {r \in Recipient : doc[r].inProgress /\ doc[r].client = s}]
  /\ verify' = [verify EXCEPT ![s] = "answered"]
  /\ UNCHANGED <<docVars, masterVars, conn, pages, asked, ack, acked, satVars,
                 historyVars, budget>>

-----------------------------------------------------------------------------
(* Links.  Everything on its way is lost with the connection: the calls    *)
(* that wait for an answer fail, on both sides, and what the master does   *)
(* for the satellites of S goes on without them.                           *)
LinksDown(S) ==
  /\ conn' = [s \in Satellite |-> conn[s] /\ s \notin S]
  /\ pages' = [s \in Satellite |-> IF s \in S THEN {} ELSE pages[s]]
  /\ asked' = [s \in Satellite |-> IF s \in S THEN {} ELSE asked[s]]
  /\ ack' = [s \in Satellite |-> IF s \in S THEN "none" ELSE ack[s]]
  /\ acked' = [s \in Satellite |-> IF s \in S THEN {} ELSE acked[s]]
  /\ claimed' = [s \in Satellite |-> IF s \in S THEN {} ELSE claimed[s]]
  /\ verify' = [s \in Satellite |-> IF s \in S THEN "idle" ELSE verify[s]]

Orphaned(s) ==
  /\ pool' = [i \in DOMAIN pool |->
                IF pool[i].sat = s THEN [pool[i] EXCEPT !.live = FALSE]
                                   ELSE pool[i]]
  /\ selection' = {IF sel.sat = s THEN [sel EXCEPT !.live = FALSE] ELSE sel :
                     sel \in selection}

Disconnect(s) ==
  /\ conn[s] /\ Spend("drop")
  /\ LinksDown({s}) /\ Orphaned(s)
  /\ UNCHANGED <<docVars, grabbed, lost, satVars, historyVars>>

(* The master stops and starts again: every thread and task is forgotten.  *)
RestartMaster ==
  /\ Spend("stop")
  /\ LinksDown(Satellite)
  /\ selection' = {} /\ pool' = <<>> /\ grabbed' = {}
  /\ lost' = [s \in Satellite |-> {}]
  /\ UNCHANGED <<docVars, satVars, historyVars>>

(* A new process makes its MailingSender once it is logged in, and the     *)
(* rows that were sent or to be sent become UNVERIFIED.                    *)
Invalidated(w) ==
  IF w # NoRow /\ (w.status \in {"IN_PROGRESS", "READY"} \/ w.inProgress)
    THEN [w EXCEPT !.status = "UNVERIFIED", !.inProgress = FALSE]
    ELSE w

(* connected, get_mailing_manager and the start of verify_recipients.      *)
Connect(s) ==
  /\ ~conn[s] /\ s \in scenario.satellites
  /\ conn' = [conn EXCEPT ![s] = TRUE]
  /\ booted' = [booted EXCEPT ![s] = TRUE]
  /\ row' = IF booted[s] THEN row
            ELSE [row EXCEPT ![s] = [r \in Recipient |-> Invalidated(@[r])]]
  /\ verify' = [verify EXCEPT ![s] =
                  IF \E r \in Recipient : row'[s][r].status = "UNVERIFIED"
                    THEN "asked" ELSE "idle"]
  /\ UNCHANGED <<docVars, masterVars, pages, asked, ack, acked, claimed, work,
                 zombies, historyVars, budget>>

-----------------------------------------------------------------------------
(* A satellite.                                                            *)

(* cb_get_recipients: a recipient that is already there is ignored.        *)
ReceivePage(s) ==
  /\ \E page \in pages[s] :
       /\ row' = [row EXCEPT ![s] = [r \in Recipient |->
            IF @[r] = NoRow /\ \E t \in page : t.rcpt = r
              THEN [status |-> "READY", inProgress |-> FALSE,
                    finished |-> FALSE,
                    deleg |-> (CHOOSE t \in page : t.rcpt = r).deleg]
              ELSE @[r]]]
       /\ pages' = [pages EXCEPT ![s] = @ \ {page}]
  /\ UNCHANGED <<docVars, masterVars, conn, asked, ack, acked, claimed, verify,
                 booted, work, zombies, historyVars, budget>>

(* The end of verify_recipients: the rows the master claims become READY,  *)
(* whatever they were, then those still UNVERIFIED are deleted.            *)
Verified(w, mine) ==
  IF w # NoRow /\ mine THEN [w EXCEPT !.status = "READY"]
  ELSE IF w.status = "UNVERIFIED" THEN NoRow
  ELSE w

ApplyVerify(s) ==
  /\ verify[s] = "answered"
  /\ row' = [row EXCEPT ![s] =
               [r \in Recipient |-> Verified(@[r], r \in claimed[s])]]
  /\ verify' = [verify EXCEPT ![s] = "idle"]
  /\ claimed' = [claimed EXCEPT ![s] = {}]
  /\ UNCHANGED <<docVars, masterVars, conn, pages, asked, ack, acked, booted,
                 work, zombies, historyVars, budget>>

(* Variant: finished is not looked at.                                     *)
SendableUnlessSending(w) == w # NoRow /\ ~w.inProgress /\ w.status = "READY"

(* make_queue_filter: the rows a relay may be given.                       *)
Sendable(w) ==
  w # NoRow /\ ~w.inProgress /\ w.status = "READY" /\ ~w.finished

(* handle_mailing_queue puts a row in a relay.  Limits are not modelled.   *)
StartSending(s, r) ==
  /\ booted[s] /\ Sendable(row[s][r])
  /\ Save(s, r,
          [row[s][r] EXCEPT !.status = "IN_PROGRESS", !.inProgress = TRUE])
  /\ work' = [work EXCEPT ![s] = @ \cup {RowToken(s, r)}]
  /\ UNCHANGED <<docVars, masterVars, linkVars, booted, zombies, historyVars,
                 budget>>

(* A domain whose notation leaves it no recipient: handled as it is.       *)
RefuseDomain(s, r) ==
  /\ booted[s] /\ Sendable(row[s][r])
  /\ Save(s, r, [row[s][r] EXCEPT !.finished = TRUE])
  /\ recorded' = recorded \cup {ItemOf(RowToken(s, r), "READY")}
  /\ UNCHANGED <<docVars, masterVars, linkVars, booted, work, zombies, mailed,
                 taken, budget>>

Saved(t, o, done) ==
  [status |-> o, inProgress |-> FALSE, finished |-> done, deleg |-> t.deleg]

(* The satellite counts on what the mail server answered.  A connection    *)
(* that breaks or times out after DATA is a failure to it (_ebExchange,    *)
(* onFailure), though the mail server may have taken the e-mail.           *)
MayBeMailed(t, failed) ==
  \/ UNCHANGED <<mailed, budget>>
  \/ failed /\ Spend("noAnswer") /\ mailed' = mailed \cup {t}

(* A relay is done with t: the outcome is saved (update_send_status), then *)
(* the row is saved again as finished.                                     *)
EndSending(s, t, o) ==
  /\ t \in work[s]
  /\ Save(s, t.rcpt, Saved(t, o, TRUE))
  /\ work' = [work EXCEPT ![s] = @ \ {t}]
  /\ IF o = "FINISHED" THEN mailed' = mailed \cup {t} /\ UNCHANGED budget
                       ELSE MayBeMailed(t, o \in {"WARNING", "ERROR"})
  /\ recorded' = recorded \cup {ItemOf(t, o)}
  /\ UNCHANGED <<docVars, masterVars, linkVars, booted, zombies, taken>>

(* check_for_zombie_queues: a relay that takes too long is given up, as if *)
(* the domain had failed, but it is not stopped.                           *)
GiveUp(s, t, o) ==
  /\ t \in work[s] /\ Spend("zombie")
  /\ Save(s, t.rcpt, Saved(t, o, TRUE))
  /\ work' = [work EXCEPT ![s] = @ \ {t}]
  /\ zombies' = [zombies EXCEPT ![s] = @ \cup {t}]
  /\ recorded' = recorded \cup {ItemOf(t, o)}
  /\ UNCHANGED <<docVars, masterVars, linkVars, booted, mailed, taken>>

(* It ends after all: onSuccess saves its copy of the row over whatever is *)
(* there, handle_recipient_failure skips a row that is not in progress.    *)
EndZombie(s, t) ==
  /\ t \in zombies[s]
  /\ zombies' = [zombies EXCEPT ![s] = @ \ {t}]
  /\ \/ /\ Save(s, t.rcpt, Saved(t, "FINISHED", TRUE))
        /\ mailed' = mailed \cup {t}
        /\ recorded' = recorded \cup {ItemOf(t, "FINISHED")}
        /\ UNCHANGED budget
     \/ MayBeMailed(t, TRUE) /\ UNCHANGED <<row, recorded>>
  /\ UNCHANGED <<docVars, masterVars, linkVars, booted, work, taken>>

(* RecipientManager.send: the customizer met an OSError.                   *)
CustomizerFails(s, t) ==
  /\ t \in work[s] /\ Spend("ioError")
  /\ Save(s, t.rcpt, Saved(t, "GENERAL_ERROR", FALSE))
  /\ work' = [work EXCEPT ![s] = @ \ {t}]
  /\ UNCHANGED <<docVars, masterVars, linkVars, booted, zombies, historyVars>>

(* The process dies: mail servers may have accepted e-mails whose outcome  *)
(* is not saved, and at most one outcome is saved but not finished.        *)
StopSatellite(s) ==
  /\ booted[s] /\ Spend("stop")
  /\ booted' = [booted EXCEPT ![s] = FALSE]
  /\ work' = [work EXCEPT ![s] = {}]
  /\ zombies' = [zombies EXCEPT ![s] = {}]
  /\ \E accepted \in SUBSET (work[s] \cup zombies[s]) :
       /\ mailed' = mailed \cup accepted
       /\ \/ UNCHANGED row
          \/ \E t \in work[s], o \in Outcome :
               /\ o = "FINISHED" => t \in accepted
               /\ Save(s, t.rcpt, Saved(t, o, FALSE))
  /\ LinksDown({s}) /\ Orphaned(s)
  /\ UNCHANGED <<docVars, grabbed, lost, recorded, taken>>

(* Variant: rows are reported whether finished or not.                     *)
ReportableUnfinished(s) ==
  {r \in Present(s) : ~row[s][r].inProgress}

Reportable(s) ==
  {r \in Present(s) : row[s][r].finished /\ ~row[s][r].inProgress}

(* send_report_for_finished_recipients: one report at a time.              *)
SendReport(s) ==
  /\ conn[s] /\ ~Reporting(s)
  /\ \E batch \in SUBSET Reportable(s) :
       /\ batch # {} /\ Cardinality(batch) <= MaxReports
       /\ pool' = Append(pool,
            [sat |-> s, ok |-> {}, live |-> TRUE,
             todo |-> {ItemOf(RowToken(s, r), row[s][r].status) : r \in batch}])
  /\ UNCHANGED <<docVars, selection, grabbed, lost, linkVars, satVars,
                 historyVars, budget>>

(* cb_send_reports: the rows of the answer are removed, by _id alone.      *)
ReceiveAck(s) ==
  /\ ack[s] = "first"
  /\ row' = [row EXCEPT ![s] = [r \in Recipient |->
               IF r \in acked[s] THEN NoRow ELSE @[r]]]
  /\ ack' = [ack EXCEPT ![s] = "none"]
  /\ acked' = [acked EXCEPT ![s] = {}]
  /\ UNCHANGED <<docVars, masterVars, conn, pages, asked, claimed, verify,
                 booted, work, zombies, historyVars, budget>>

-----------------------------------------------------------------------------
MasterNext ==
  \/ \E s \in Satellite : Select(s) \/ AnswerCheck(s) \/ ReleaseOrphans(s)
                          \/ AnswerVerify(s)
  \/ \E r \in Recipient : GrowOld(r) \/ BecomeDue(r) \/ StoreDsn(r) \/ Reset(r)
  \/ Mark \/ Grab \/ StoreReport \/ FailToStore \/ FinishReport
  \/ CheckOrphans \/ RestartMaster

SatelliteNext(s) ==
  \/ Disconnect(s) \/ Connect(s) \/ StopSatellite(s)
  \/ ReceivePage(s) \/ ApplyVerify(s) \/ SendReport(s) \/ ReceiveAck(s)
  \/ \E r \in Recipient : StartSending(s, r) \/ RefuseDomain(s, r)
  \/ \E t \in work[s] : \/ CustomizerFails(s, t)
                        \/ \E o \in Outcome : EndSending(s, t, o)
                        \/ \E o \in {"WARNING", "ERROR"} : GiveUp(s, t, o)
  \/ \E t \in zombies[s] : EndZombie(s, t)

Change == MasterNext \/ \E s \in Satellite : SatelliteNext(s)

Next == Change /\ UNCHANGED scenario

Spec == Init /\ [][Next]_vars

(* What the timers, the reactors and the reports thread keep doing.  The   *)
(* mishaps, the API and new delegations are owed nothing.                  *)
Fairness ==
  /\ \A r \in Recipient : WF_stateVars(GrowOld(r))
  /\ WF_stateVars(Grab) /\ WF_stateVars(StoreReport \/ FailToStore)
  /\ WF_stateVars(FinishReport) /\ WF_stateVars(CheckOrphans)
  /\ \A s \in Satellite :
       /\ WF_stateVars(AnswerCheck(s)) /\ WF_stateVars(ReleaseOrphans(s))
       /\ WF_stateVars(AnswerVerify(s)) /\ WF_stateVars(ApplyVerify(s))
       /\ WF_stateVars(ReceivePage(s))
       /\ WF_stateVars(SendReport(s)) /\ WF_stateVars(ReceiveAck(s))
       /\ WF_stateVars(\E t \in work[s], o \in Outcome : EndSending(s, t, o))
       /\ \A r \in Recipient :
            WF_stateVars(StartSending(s, r) \/ RefuseDomain(s, r))

FairSpec == Spec /\ Fairness

-----------------------------------------------------------------------------
(* A delegation for which a satellite recorded an outcome (onSuccess,      *)
(* onFailure, _ebExchange, mark_as_finished) is never sent again by anyone *)
(* (a relay that was given up is still at it), and no two relays ever send *)
(* the same delegation, whatever restarts and lost connections come        *)
(* between (make_queue_filter, verify_recipients).                         *)
RecordedTokens == {TokenOf(i) : i \in recorded}
Sending(s) == work[s] \cup zombies[s]

NotSentAgain ==
  \A s \in Satellite :
    /\ work[s] \cap RecordedTokens = {}
    /\ \A r \in Recipient :
         Sendable(row[s][r]) => RowToken(s, r) \notin RecordedTokens
    /\ \A t \in Satellite \ {s} : Sending(s) \cap Sending(t) = {}

(* The master says FINISHED (_store_reports) only of a recipient whose     *)
(* e-mail a mail server did accept, for one of its delegations.            *)
SentMeansMailed ==
  \A r \in Recipient :
    doc[r].status = "FINISHED" => \E t \in mailed : t.rcpt = r

(* A satellite drops a row that holds an outcome (cb_send_reports) only    *)
(* when the master has handled a report of that very delegation, or holds  *)
(* a DSN, which outweighs every report: a late or stale answer never makes *)
(* a satellite forget an unreported outcome.  A relay that was given up    *)
(* spoils this: when it ends, it saves its old row over a newer one.       *)
OutcomeDropped(s, r) ==
  /\ row[s][r] # NoRow /\ row[s][r].finished /\ row[s][r].status \in Outcome
  /\ row[s][r]' = NoRow

OutcomeKept ==
  [][\A s \in Satellite, r \in Recipient :
       OutcomeDropped(s, r) =>
         \/ RowToken(s, r) \in {TokenOf(i) : i \in taken}
         \/ doc[r].dsn
         \/ budget["zombie"] < scenario.mishaps["zombie"]]_vars

(* As long as processes and connections stay up and no relay is given up,  *)
(* a recipient is in the hands of one satellite at most: neither a retry,  *)
(* a reset, a DSN nor the check of orphans (check_recipients_in_clients)   *)
(* gives it to a second.                                                   *)
Holds(s, r) ==
  \/ r \in Unfinished(s)
  \/ \E page \in pages[s] : \E t \in page : t.rcpt = r

Steady == \A m \in {"stop", "drop", "zombie"} : budget[m] = scenario.mishaps[m]

SingleHolder ==
  Steady => \A r \in Recipient, s, t \in Satellite :
    Holds(s, r) /\ Holds(t, r) => s = t

(* In that case, unless it is reset, no mail server takes an e-mail for it *)
(* after a satellite knew that one did: however its attempts end, however  *)
(* late the reports are and whatever notifications come, it is tried again *)
(* (_store_reports, _get_recipients) only if no answer of a mail server    *)
(* told of success.  It may still get two e-mails: when the answer to the  *)
(* first was lost.                                                         *)
Unreset == budget["reset"] = scenario.mishaps["reset"]
KnownMailed(r) == \E i \in recorded : i.rcpt = r /\ i.status = "FINISHED"

MailedOnce ==
  [][(Steady /\ Unreset)' =>
       \A t \in mailed' \ mailed : ~KnownMailed(t.rcpt)]_vars

(* Every claim of the master (in_progress) ends, by a report or by the     *)
(* check of orphans, whatever stops in between; unless a satellite is left *)
(* with a row it saved an outcome in without finishing it.                 *)
HalfSaved(r) ==
  \E s \in Satellite : r \in Unfinished(s) /\ row[s][r].status \in Outcome

ClaimEnds ==
  \A r \in Recipient :
    doc[r].inProgress ~> (~doc[r].inProgress \/ HalfSaved(r))

(* All of this implements the abstract ledger of what was granted, mailed, *)
(* recorded and taken over: what a satellite recorded about a delegation   *)
(* is only corrected by a late success (update_send_status), and the master*)
(* hears nothing else (_store_reports).                                    *)
Book == INSTANCE Ledger WITH
          status <- [r \in Recipient |-> doc[r].status], granted <- delegated

ImplementsLedger == Book!Spec

-----------------------------------------------------------------------------
(* What the repository says of itself and the code does not do.            *)

(* satellite/models.py:121: a row that was handled "should be returned back*)
(* to the master", as it was handled: a delegation recorded as FINISHED is *)
(* reported as FINISHED.                                                   *)
SentIsReportedSent ==
  \A i \in taken : ItemOf(TokenOf(i), "FINISHED") \in recorded
                     => i.status = "FINISHED"

=============================================================================
