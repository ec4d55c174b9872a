--------------------------- MODULE StatusReports ----------------------------
(***************************************************************************)
(* How the API tells a client what became of recipients.  A client polls   *)
(* with a cursor: the last date it has seen, how many documents had that   *)
(* date, and how many of them it has got.  Meanwhile the thread of reports *)
(* saves documents, the SMTP server stores notifications (DSN), recipients *)
(* run out of time, and the master fetches customized e-mails, without     *)
(* which a recipient is not shown to clients.                              *)
(*                                                                         *)
(* A writer takes the time first and its write arrives later.  Counters    *)
(* and delegation are the subject of MailingControl and Delegation.        *)
(***************************************************************************)
EXTENDS Integers, Sequences, FiniteSets, SequencesExt

CONSTANTS
  Recipient,
  Rank,           \* the order the database gives documents of one date
  Scenarios       \* what may happen: one is chosen at first

(* limit: max_results; backup: customized e-mails are kept; take: clients  *)
(* fetch them and have them deleted; outcomes: what is reported; the rest  *)
(* counts events.                                                          *)
Final == {"sent", "error", "timeout"}
Scenario ==
  [outcomes: SUBSET (Final \cup {"soft"}), limit: Nat \ {0}, backup: BOOLEAN,
   take: BOOLEAN, ticks: Nat, reports: Nat, dsns: Nat, expiries: Nat,
   resets: Nat, cuts: Nat, asks: Nat, purges: Nat]

ASSUME ReportsAssumption ==
  /\ IsFiniteSet(Recipient)
  /\ Rank \in [Recipient -> Nat]
  /\ \A r, s \in Recipient : Rank[r] = Rank[s] => r = s
  /\ Scenarios \subseteq Scenario

Status == Final \cup {"ready", "soft"}

(* modified is 0 when the document has none, as those of new recipients.   *)
Document == [status: Status, modified: Nat, shown: BOOLEAN, dsn: BOOLEAN]
NewDoc == [status |-> "ready", modified |-> 0, shown |-> TRUE, dsn |-> FALSE]

(* A write under way; stamp is 0 as long as a report is only being read.   *)
Write == [kind: {"report", "dsn", "content"}, rcpt: Recipient, status: Status,
          read: Status, dsn: BOOLEAN, stamp: Nat]

Request == [rcpt: Recipient, slot: 1..2, stage: {"asked", "coming", "missing"}]
Call == Recipient \X (1..2)
CallOf(q) == <<q.rcpt, q.slot>>
Cursor == [from: Nat, count: Nat, offset: Nat]

(* Where an e-mail of a recipient is; "taken" when a client has had one    *)
(* deleted.  Nothing tells those of two sendings apart.                    *)
Place == {"satellite", "master", "taken"}

VARIABLES
  doc,         \* the document of each recipient
  now,         \* the clock
  writes,      \* writes under way
  content,     \* where customized e-mails of each recipient are
  linked,      \* recipients whose satellite is connected
  requests,    \* contents asked for
  awaited,     \* the calls the retrieving task waits for
  poll,        \* what a call of the client does
  cursor,      \* what it starts from
  last,        \* the date of its last result
  known,       \* history: recipients whose state the client has got
  excused,     \* history: recipients whose state changed so that it may
               \*   not be returned
  left,        \* history: some of those "offset" counts have changed
  lost,        \* history: contents that got lost on the way or were purged
  budget,      \* what may still happen
  scenario     \* the scenario that was chosen; never changes

docVars == <<doc, now, writes>>
contentVars == <<content, linked, requests, awaited, lost>>
pollVars == <<poll, cursor, last, left>>
stateVars == <<docVars, contentVars, pollVars, known, excused, budget>>
vars == <<stateVars, scenario>>

TypeOK ==
  /\ doc \in [Recipient -> Document]
  /\ now \in Nat /\ last \in Nat
  /\ writes \subseteq Write /\ requests \subseteq Request
  /\ content \in [Recipient -> SUBSET Place]
  /\ linked \subseteq Recipient /\ awaited \subseteq Call
  /\ poll \in {"idle", "count", "find", "last"}
  /\ cursor \in Cursor /\ left \in BOOLEAN
  /\ known \subseteq Recipient /\ excused \subseteq Recipient
  /\ lost \subseteq Recipient
  /\ budget \in Scenario /\ scenario \in Scenario
  /\ Cardinality({w \in writes : w.kind = "report"}) <= 1

(* The client has polled before, when there was nothing.                   *)
Init ==
  /\ doc = [r \in Recipient |-> NewDoc]
  /\ now = 1 /\ writes = {}
  /\ content = [r \in Recipient |-> {}]
  /\ linked = Recipient /\ requests = {} /\ awaited = {} /\ lost = {}
  /\ poll = "idle" /\ cursor = [from |-> 1, count |-> 0, offset |-> 0]
  /\ last = 1 /\ left = FALSE
  /\ known = {} /\ excused = {}
  /\ scenario \in Scenarios /\ budget = scenario

Spend(what) == budget[what] > 0 /\ budget' = [budget EXCEPT ![what] = @ - 1]

Tick ==
  /\ Spend("ticks") /\ now' = now + 1
  /\ UNCHANGED <<doc, writes, contentVars, pollVars, known, excused>>

-----------------------------------------------------------------------------
(* Writers.                                                                *)

(* A recipient that was notified before keeps its notification.  Variant:  *)
(* the report is stored all the same.                                      *)
ByDsn(d) == d.status = "error" /\ d.dsn
NobodyNotified(r) == FALSE
Notified(r) == ByDsn(doc[r])

(* The pool has one thread.  It reads a document; an e-mail that was sent  *)
(* is customized, and kept when the mailing says so.                       *)
OneThread == \A w \in writes : w.kind # "report"

ReadForReport(r, status) ==
  /\ Spend("reports") /\ OneThread
  /\ doc[r].status \in {"ready", "soft", "timeout"} \/ doc[r].dsn
  /\ writes' = IF Notified(r) THEN writes
               ELSE writes \cup
                      {[kind |-> "report", rcpt |-> r, status |-> status,
                        read |-> doc[r].status, dsn |-> doc[r].dsn,
                        stamp |-> 0]}
  /\ content' = IF status = "sent" /\ scenario.backup
                THEN [content EXCEPT ![r] = @ \cup {"satellite"}] ELSE content
  /\ UNCHANGED <<doc, now, linked, requests, awaited, lost, pollVars, known,
                 excused>>

StampReport(w) ==
  /\ w.kind = "report" /\ w.stamp = 0
  /\ writes' = (writes \ {w}) \cup {[w EXCEPT !.stamp = now]}
  /\ UNCHANGED <<doc, now, contentVars, pollVars, known, excused, budget>>

ReceiveDsn(r) ==
  /\ Spend("dsns")
  /\ writes' = writes \cup
       {[kind |-> "dsn", rcpt |-> r, status |-> "error", read |-> "error",
         dsn |-> TRUE, stamp |-> now]}
  /\ UNCHANGED <<doc, now, contentVars, pollVars, known, excused>>

(* Variant: a kept e-mail is not waited for.                               *)
ShownAtOnce(status) == TRUE
ShownAfter(status) == ~(status = "sent" /\ scenario.backup)

After(w, d) ==
  CASE w.kind = "report" ->
         [status |-> w.status, modified |-> w.stamp,
          shown |-> ShownAfter(w.status), dsn |-> w.dsn]
    [] w.kind = "dsn" ->
         [d EXCEPT !.status = "error", !.modified = w.stamp, !.dsn = TRUE]
    [] w.kind = "content" ->
         [d EXCEPT !.modified = w.stamp, !.shown = TRUE]

(* What a call looks for, and what of it has one date.                     *)
Matching == {r \in Recipient : doc[r].status # "ready" /\ doc[r].shown}
At(t) == {r \in Matching : doc[r].modified = t}

(* A change may be missed by a client whose call passed its date before it *)
(* arrived; by one that got the document with the same date before, or was *)
(* told of nothing else at this date: it then does not count.  And a       *)
(* notification hides a recipient whose e-mail is awaited: nobody fetches  *)
(* the e-mail of one that is no longer "sent".  A change that arrives      *)
(* between the counting and the search of one call shifts all others.      *)
Shifted == IF poll = "idle" THEN {} ELSE Recipient \ known
MayMiss(w) ==
  \/ w.stamp < cursor.from \/ poll # "idle"
  \/ w.stamp = doc[w.rcpt].modified
  \/ w.stamp = cursor.from /\ cursor.count = 0
  \/ w.kind = "dsn" /\ ~doc[w.rcpt].shown

Leaves(rs) == rs \cap At(cursor.from) # {}
Commit(w) ==
  /\ w.stamp # 0
  /\ writes' = writes \ {w}
  /\ doc' = [doc EXCEPT ![w.rcpt] = After(w, @)]
  /\ known' = known \ {w.rcpt}
  /\ excused' = IF MayMiss(w) THEN excused \cup {w.rcpt} \cup Shifted
                ELSE excused \ {w.rcpt}
  /\ left' = (left \/ Leaves({w.rcpt}))
  /\ UNCHANGED <<now, contentVars, poll, cursor, last, budget>>

(* Neither sets the date of the document.                                  *)
Touch(rs, status) ==
  /\ doc' = [r \in Recipient |->
               IF r \in rs THEN [doc[r] EXCEPT !.status = status] ELSE doc[r]]
  /\ known' = known \ rs
  /\ excused' = excused \cup rs \cup Shifted
  /\ left' = (left \/ Leaves(rs))
  /\ UNCHANGED <<now, writes, contentVars, poll, cursor, last>>

Expire ==
  /\ Spend("expiries")
  /\ Touch({r \in Recipient : doc[r].status \in {"ready", "soft"}}, "timeout")

Reset(r) ==
  /\ doc[r].status # "ready" /\ Spend("resets")
  /\ Touch({r}, "ready")

-----------------------------------------------------------------------------
(* Customized e-mails.                                                     *)
ByRank(r, s) == Rank[r] < Rank[s]
Hidden == {r \in Recipient : doc[r].status = "sent" /\ ~doc[r].shown}

(* The task goes through the documents, and stops at one whose satellite   *)
(* is away: then it does not wait for what it has asked for.               *)
Reachable == {r \in Recipient : "master" \in content[r] \/ r \in linked}
Tried ==
  {r \in Hidden : \A s \in Hidden : Rank[s] <= Rank[r] => s \in Reachable}

FreeSlots(r) == {n \in 1..2 : \A q \in requests : q.rcpt = r => q.slot # n}
ContentWrite(r) ==
  [kind |-> "content", rcpt |-> r, status |-> "sent", read |-> "sent",
   dsn |-> FALSE, stamp |-> now]

AskFor(r) ==
  [rcpt |-> r, slot |-> CHOOSE n \in FreeSlots(r) : TRUE, stage |-> "asked"]

RetrieveContents ==
  /\ awaited = {} /\ Tried # {}
  /\ LET asked == {r \in Tried : "master" \notin content[r]}
         calls == {AskFor(r) : r \in asked}
     IN /\ \A r \in asked : FreeSlots(r) # {}
        /\ requests' = requests \cup calls
        /\ awaited' = IF Tried = Hidden THEN {CallOf(q) : q \in calls} ELSE {}
        /\ writes' = writes \cup {ContentWrite(r) : r \in Tried \ asked}
  /\ UNCHANGED <<doc, now, content, linked, lost, pollVars, known, excused,
                 budget>>

(* The satellite removes the file when it has sent its last page.          *)
AnswerRequest(q) ==
  /\ q.stage = "asked"
  /\ LET there == "satellite" \in content[q.rcpt]
     IN /\ requests' = (requests \ {q}) \cup
              {[q EXCEPT !.stage = IF there THEN "coming" ELSE "missing"]}
        /\ content' = [content EXCEPT ![q.rcpt] = @ \ {"satellite"}]
  /\ UNCHANGED <<docVars, linked, awaited, lost, pollVars, known, excused,
                 budget>>

(* The e-mail is written to disk, then the recipient may be shown; so it   *)
(* is when the satellite does not have the file.  Of two requests, the     *)
(* second may find it on its way.                                          *)
GetContent(q) ==
  /\ q.stage # "asked"
  /\ requests' = requests \ {q} /\ awaited' = awaited \ {CallOf(q)}
  /\ content' = IF q.stage = "coming"
                THEN [content EXCEPT ![q.rcpt] = @ \cup {"master"}] ELSE content
  /\ lost' = IF q.stage = "missing" /\ \E p \in requests : p.rcpt = q.rcpt /\ p # q
             THEN lost \cup {q.rcpt} ELSE lost
  /\ writes' = writes \cup {ContentWrite(q.rcpt)}
  /\ UNCHANGED <<doc, now, linked, pollVars, known, excused, budget>>

KeepFile(r) == content' = [content EXCEPT ![r] = @ \cup {"satellite"}]

(* A call fails when the connection breaks before its answer; between the  *)
(* answer and the last page nothing tells the master, and the task waits   *)
(* for ever.  The file is still there, but when its last page was sent.    *)
Cut(r) ==
  /\ r \in linked /\ Spend("cuts")
  /\ linked' = linked \ {r}
  /\ requests' = {q \in requests : q.rcpt # r}
  /\ LET broken == {q \in requests : q.rcpt = r}
         torn == {q \in broken : q.stage = "coming"}
     IN /\ \E hanging \in SUBSET torn :
             awaited' = awaited \ {CallOf(q) : q \in broken \ hanging}
        /\ \/ torn = {} /\ UNCHANGED <<content, lost>>
           \/ torn # {} /\ lost' = lost \cup {r} /\ UNCHANGED content
           \/ torn # {} /\ KeepFile(r) /\ UNCHANGED lost
  /\ UNCHANGED <<docVars, pollVars, known, excused>>

(* Files that were kept for too long are removed.                          *)
Purge(r) ==
  /\ "master" \in content[r] /\ Spend("purges")
  /\ content' = [content EXCEPT ![r] = @ \ {"master"}]
  /\ lost' = lost \cup {r}
  /\ UNCHANGED <<docVars, linked, requests, awaited, pollVars, known, excused>>

Reconnect(r) ==
  /\ r \notin linked /\ linked' = linked \cup {r}
  /\ UNCHANGED <<docVars, content, requests, awaited, lost, pollVars, known,
                 excused, budget>>

-----------------------------------------------------------------------------
(* The client.                                                             *)
Before(r, s) ==
  \/ doc[r].modified < doc[s].modified
  \/ doc[r].modified = doc[s].modified /\ ByRank(r, s)

(* Variant: what has the date of the cursor is not looked for again.       *)
FoundLater == {r \in Matching : doc[r].modified > cursor.from}
Found == {r \in Matching : doc[r].modified >= cursor.from}

(* What is found, sorted: the place of each is given by those before it.   *)
Since ==
  [i \in 1..Cardinality(Found) |->
     CHOOSE r \in Found : Cardinality({s \in Found : Before(s, r)}) = i - 1]
Page(from, to) ==
  SubSeq(Since, from, IF to < Len(Since) THEN to ELSE Len(Since))
Results == Page(cursor.offset + 1, cursor.offset + scenario.limit)

(* Some of those the client got changed since, and others came: the count  *)
(* may be the same, or was not made, and the offset is not right.          *)
SkippedBlindly ==
  IF left
  THEN ToSet(Page(1, cursor.offset)) \ known ELSE {}

(* A client that takes an e-mail has it deleted.                           *)
Given(rs) ==
  [r \in Recipient |->
     IF scenario.take /\ r \in rs /\ "master" \in content[r]
     THEN (content[r] \ {"master"}) \cup {"taken"} ELSE content[r]]

(* It may also ask for recipients by name, shown or not.                   *)
GetStatus(rs) ==
  /\ rs # {} /\ Spend("asks")
  /\ content' = Given(rs)
  /\ UNCHANGED <<docVars, linked, requests, awaited, lost, pollVars, known,
                 excused>>

StartPoll ==
  /\ poll = "idle"
  /\ poll' = IF cursor.count # 0 THEN "count" ELSE "find"
  /\ UNCHANGED <<docVars, contentVars, cursor, last, left, known, excused, budget>>

(* When the number of documents of the date has changed, all of them are   *)
(* returned again.  Variant: the offset is kept.                           *)
KeepOffset(count) == [cursor EXCEPT !.count = count]
Recount(count) ==
  IF count = cursor.count THEN cursor
  ELSE [cursor EXCEPT !.count = count, !.offset = 0]

CountPoll ==
  /\ poll = "count" /\ poll' = "find"
  /\ cursor' = Recount(Cardinality(At(cursor.from)))
  /\ left' = (left /\ cursor'.offset # 0)
  /\ UNCHANGED <<docVars, contentVars, last, known, excused, budget>>

(* How many of the results have the last date.                             *)
OffsetIn(results, date) ==
  Cardinality({i \in DOMAIN results : doc[results[i]].modified = date})

FindPoll ==
  /\ poll = "find"
  /\ excused' = excused \cup SkippedBlindly
  /\ LET results == Results
         first == doc[Head(results)].modified
         date == doc[results[Len(results)]].modified
         got == ToSet(results)
     IN IF results = <<>>
        THEN /\ cursor' = [from |-> now, count |-> 0, offset |-> 0]
             /\ poll' = "idle"
             /\ UNCHANGED <<last, known, content>>
        ELSE /\ last' = date
             /\ known' = known \cup got
             /\ content' = Given(got)
             /\ IF first = date /\ date = cursor.from
                THEN /\ cursor' = [cursor EXCEPT !.offset = @ + Len(results)]
                     /\ poll' = "idle"
                ELSE /\ cursor' = [from |-> date, count |-> 0,
                                   offset |-> OffsetIn(results, date)]
                     /\ poll' = "last"
  /\ left' = (left /\ cursor'.from = cursor.from)
  /\ UNCHANGED <<docVars, linked, requests, awaited, lost, budget>>

LastCount ==
  /\ poll = "last" /\ poll' = "idle"
  /\ cursor' = [cursor EXCEPT !.count = Cardinality(At(last))]
  /\ UNCHANGED <<docVars, contentVars, last, left, known, excused, budget>>

-----------------------------------------------------------------------------
WriteStep(w) == StampReport(w) \/ Commit(w)
RequestStep(q) == AnswerRequest(q) \/ GetContent(q)
PollStep == StartPoll \/ CountPoll \/ FindPoll \/ LastCount

Change ==
  \/ Tick \/ Expire \/ RetrieveContents \/ PollStep
  \/ \E r \in Recipient :
       \/ \E status \in scenario.outcomes : ReadForReport(r, status)
       \/ ReceiveDsn(r) \/ Reset(r) \/ Cut(r) \/ Reconnect(r) \/ Purge(r)
  \/ \E rs \in SUBSET Recipient : GetStatus(rs)
  \/ \E w \in writes : WriteStep(w)
  \/ \E q \in requests : RequestStep(q)

Next == Change /\ UNCHANGED scenario

Spec == Init /\ [][Next]_vars

(* Writes arrive, satellites connect again and answer, the task is run     *)
(* every minute and clients poll.                                          *)
Fairness ==
  /\ WF_stateVars(PollStep) /\ WF_stateVars(RetrieveContents)
  /\ \A r \in Recipient :
       /\ WF_stateVars(Reconnect(r))
       /\ WF_stateVars(\E w \in writes : w.rcpt = r /\ WriteStep(w))
       /\ WF_stateVars(\E q \in requests : q.rcpt = r /\ RequestStep(q))

FairSpec == Spec /\ Fairness

-----------------------------------------------------------------------------
(* Properties.                                                             *)

(* What changes is returned to a client that polls, however it crosses     *)
(* other changes of the same date and the pages of the client, but for     *)
(* the ways "excused" names, and for an e-mail that is waited for while    *)
(* the task that fetches it hangs on a connection that broke in the middle *)
(* of another, or the same, e-mail.                                        *)
Owed == {r \in Recipient : doc[r].status # "ready" /\ r \notin known \cup excused}
TaskHangs == awaited \ {CallOf(q) : q \in requests} # {}
ChangesReturned ==
  \A r \in Recipient : r \in Owed ~> r \notin Owed \/ (TaskHangs /\ r \in Hidden)

(* Nothing that a search would find after what the client got is left out  *)
(* by the client's own steps: where pages end, where the offset starts     *)
(* over, and where the cursor moves to the last date (and its offset to    *)
(* the results of that date), the next search goes on from there.          *)
Ahead == ToSet(SubSeq(Since, cursor.offset + 1, Len(Since)))
NoneLeftOut == [][doc' = doc => Ahead \subseteq Ahead' \cup known']_vars

(* A client that is told of an e-mail that was kept can have it, but when  *)
(* the connection broke under it, it was asked for twice or purged.  After *)
(* a reset that may be the e-mail that was sent before.                    *)
ContentComesFirst ==
  \A r \in Recipient :
    doc[r].status = "sent" /\ doc[r].shown /\ scenario.backup
      => content[r] \cap {"master", "taken"} # {} \/ r \in lost

(* A notification outlives the report of the satellite, unless the report  *)
(* was read before it; a client may reset the recipient.                   *)
DsnKept ==
  [][\A r \in Recipient :
       ByDsn(doc[r]) => \/ doc'[r].status = "error"
                      \/ budget'.resets # budget.resets
                      \/ \E w \in writes : /\ w.kind = "report" /\ w.rcpt = r
                                           /\ w.read # "error"]_vars

=============================================================================
