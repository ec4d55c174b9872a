------------------------ MODULE MailingControlProofs ------------------------
(***************************************************************************)
(* Proofs about MailingControl, for any recipients and any scenarios.      *)
(***************************************************************************)
EXTENDS MailingControl, FiniteSetTheorems, TLAPS

LEMMA CountersAdd ==
  ASSUME NEW c \in Counters, NEW d \in Counters
  PROVE  Plus(c, d) \in Counters
BY DEF Plus, Counts, Counters

LEMMA Countable ==
  ASSUME NEW S \in SUBSET Recipient
  PROVE  IsFiniteSet(S) /\ Cardinality(S) \in Nat
BY ControlAssumption, FS_Subset, FS_CardinalityType

LEMMA ZeroCounts == Zero \in Counters
BY DEF Zero, Counts, Counters

LEMMA CreatedIsMailing == Created \in Mailing
<1> DEFINE Any == [status: MailingStatus \cup {"NONE"}, started: BOOLEAN,
                   ended: BOOLEAN, count: Counters]
<1>1. NoMailing \in Any
  BY ZeroCounts DEF NoMailing
<1>2. \A m \in Any : [m EXCEPT !.status = "FILLING"] \in Mailing
  BY DEF Mailing, MailingStatus
<1> QED
  BY <1>1, <1>2 DEF Created

LEMMA DocumentStatus ==
  /\ NoDoc.status = "NONE" /\ NoDoc.inProgress = FALSE
  /\ \A d \in Document : d # NoDoc /\ d.status \in Pending \cup Final
BY DEF NoDoc, Document, Pending, Final

LEMMA NoDocIsIdle == [NoDoc EXCEPT !.inProgress = FALSE] = NoDoc
<1> DEFINE Any == [status: {"NONE"}, inProgress: BOOLEAN, dsn: BOOLEAN,
                   client: {NoSatellite}]
<1>1. NoDoc \in Any /\ NoDoc.inProgress = FALSE
  BY DEF NoDoc
<1>2. \A d \in Any : d.inProgress = FALSE => [d EXCEPT !.inProgress = FALSE] = d
  OBVIOUS
<1> QED
  BY <1>1, <1>2

LEMMA BudgetsAreCounts ==
  ASSUME TypeOK
  PROVE  /\ scenario.recipients \subseteq Recipient
         /\ scenario.satellites \subseteq Satellite
         /\ \A e \in Event : budget[e] \in Nat
BY ControlAssumption DEF TypeOK, Scenario

(* An event is spent; a session goes on or ends; a query is answered.      *)
LEMMA Spending ==
  ASSUME TypeOK, NEW e \in Event, Spend(e)
  PROVE  budget' \in [Event -> Nat]
BY DEF TypeOK, Spend

LEMMA SessionsGoOn ==
  ASSUME TypeOK, NEW x \in sessions, NEW X \in SUBSET Session, Becomes(x, X)
  PROVE  /\ sessions' \subseteq Session
         /\ answered' \subseteq {"run", "adding"} \cup Closer
BY DEF TypeOK, Becomes

LEMMA QueriesAnswered ==
  ASSUME TypeOK, NEW t \in {"run", "adding"} \cup Closer, Query(t)
  PROVE  answered' \subseteq {"run", "adding"} \cup Closer
BY DEF TypeOK, Query

LEMMA Increased ==
  ASSUME TypeOK, NEW d \in Counters, Increase(d)
  PROVE  mailing' \in Mailing \cup {NoMailing} /\ mailing'.status = mailing.status
<1>1. CASE mailing = NoMailing
  BY <1>1 DEF Increase
<1>2. CASE mailing # NoMailing
  <2>1. mailing \in Mailing
    BY <1>2 DEF TypeOK
  <2>2. Plus(mailing.count, d) \in Counters
    BY <2>1, CountersAdd DEF Mailing
  <2> QED
    BY <1>2, <2>1, <2>2 DEF Increase, Mailing
<1> QED
  BY <1>1, <1>2

-----------------------------------------------------------------------------
(* Calls and the steps of sessions.                                        *)
LEMMA StartsTyped ==
  ASSUME TypeOK, NEW event \in Event, NEW op \in Op, NEW step \in Step,
         Starts(event, op, step), UNCHANGED scenario
  PROVE  TypeOK'
<1> USE DEF satVars, historyVars, countVars
<1>1. budget' \in [Event -> Nat] /\ budget[event] \in Nat
  BY Spending, BudgetsAreCounts DEF Starts
<1>2. mailing \in Mailing
  BY DEF Starts, TypeOK
<1>3. sessions' \subseteq Session
  BY <1>1, <1>2 DEF Starts, TypeOK, Session
<1> QED
  BY <1>1, <1>3 DEF Starts, TypeOK

LEMMA SaveTyped ==
  ASSUME TypeOK, SaveCall, UNCHANGED scenario
  PROVE  TypeOK'
<1> USE DEF satVars, historyVars, countVars
<1>1. PICK x \in sessions : /\ x.step = "save"
                            /\ SaveStart(x) \/ SavePause(x) \/ SaveClose(x) \/ SaveEdit(x)
  BY DEF SaveCall
<1>2. x \in Session /\ x.copy \in Mailing
  BY DEF TypeOK, Session
<1>3. /\ mailing' \in Mailing \cup {NoMailing}
      /\ sessions' \subseteq Session
      /\ answered' \subseteq {"run", "adding"} \cup Closer
  <2>1. CASE SaveStart(x)
    <3>1. mailing \in Mailing => Activated(mailing) \in Mailing
      BY DEF Activated, Mailing, MailingStatus
    <3>2. Resumed(x.copy) \in Mailing
      BY <1>2 DEF Resumed, Mailing, MailingStatus
    <3> QED
      BY <2>1, <3>1, <3>2, SessionsGoOn DEF SaveStart, Put, TypeOK
  <2>2. CASE SavePause(x)
    <3> DEFINE m == [x.copy EXCEPT !.status = "PAUSED"]
               y == [x EXCEPT !.home = "thread", !.step = "keep", !.copy = m]
    <3>1. m \in Mailing
      BY <1>2 DEF Mailing, MailingStatus
    <3> HIDE DEF m
    <3>2. y \in Session
      BY <1>2, <3>1 DEF Session, Step
    <3>3. mailing' = m /\ Becomes(x, {y})
      BY <2>2 DEF SavePause, Put, m
    <3> HIDE DEF y
    <3> QED
      BY <3>1, <3>2, <3>3, SessionsGoOn
  <2>3. CASE SaveClose(x)
    <3> DEFINE m == [x.copy EXCEPT !.status = "FINISHED"]
               y == [x EXCEPT !.step = "grab",
                              !.home = IF x.op = "close" THEN "thread" ELSE @]
    <3>1. m \in Mailing
      BY <1>2 DEF Mailing, MailingStatus
    <3>2. y \in Session
      BY <1>2 DEF Session, Step
    <3>3. mailing' = m /\ Becomes(x, {y})
      BY <2>3 DEF SaveClose, Put
    <3> HIDE DEF m, y
    <3> QED
      BY <3>1, <3>2, <3>3, SessionsGoOn
  <2>4. CASE SaveEdit(x)
    BY <1>2, <2>4, SessionsGoOn DEF SaveEdit, Put
  <2> QED
    BY <1>1, <2>1, <2>2, <2>3, <2>4
<1> QED
  BY <1>3 DEF SaveCall, TypeOK

LEMMA CountTyped ==
  ASSUME TypeOK, CountToClose, UNCHANGED scenario
  PROVE  TypeOK'
<1> USE DEF satVars, historyVars, countVars
<1>1. PICK x \in sessions :
        Becomes(x, {[x EXCEPT !.step = "keep", !.copy = Closed(x.copy)]})
  BY DEF CountToClose
<1>2. x \in Session /\ x.copy \in Mailing /\ x.copy.count \in Counters
  BY DEF TypeOK, Session, Mailing
<1>3. Recounted(x.copy.count) \in Counters
  <2>1. \A S : Cardinality(OfStatus(S)) \in Nat
    BY Countable DEF OfStatus, Existing
  <2>2. Cardinality(Existing) \in Nat
    BY Countable DEF Existing
  <2> QED
    BY <1>2, <2>1, <2>2 DEF Recounted, Counts, Counters
<1>4. Closed(x.copy) \in Mailing
  BY <1>2, <1>3 DEF Closed, Mailing, MailingStatus
<1>5. [x EXCEPT !.step = "keep", !.copy = Closed(x.copy)] \in Session
  BY <1>2, <1>4 DEF Session, Step
<1>6. /\ sessions' \subseteq Session
      /\ answered' \subseteq {"run", "adding"} \cup Closer
  BY <1>1, <1>5, SessionsGoOn
<1> QED
  BY <1>6 DEF CountToClose, TypeOK

LEMMA SessionStepTyped ==
  ASSUME TypeOK, SessionStep, UNCHANGED scenario
  PROVE  TypeOK'
<1> USE DEF satVars, historyVars, countVars
<1>1. CASE GrabToClose
  <2>1. PICK x \in sessions :
          Becomes(x, IF mailing = NoMailing THEN {}
                     ELSE {[x EXCEPT !.step = "count", !.copy = mailing]})
    BY <1>1 DEF GrabToClose
  <2>2. x \in Session
    BY DEF TypeOK
  <2>3. mailing # NoMailing => [x EXCEPT !.step = "count", !.copy = mailing] \in Session
    BY <2>2 DEF TypeOK, Session, Step
  <2> QED
    BY <1>1, <2>1, <2>3, SessionsGoOn DEF GrabToClose, TypeOK
<1>2. CASE Keep
  <2>1. PICK x \in sessions : Put(x.copy) /\ Becomes(x, {[x EXCEPT !.step = "tell"]})
    BY <1>2 DEF Keep
  <2>2. /\ x.copy \in Mailing
        /\ [x EXCEPT !.step = "tell"] \in Session
    BY DEF TypeOK, Session, Step
  <2> QED
    BY <1>2, <2>1, <2>2, SessionsGoOn DEF Keep, TypeOK, Put
<1>3. CASE Tell
  <2>1. PICK x \in sessions :
          Becomes(x, CASE x.op = "pause" -> {[x EXCEPT !.step = "release"]}
                       [] x.op = "delete" -> {[x EXCEPT !.step = "empty"]}
                       [] OTHER -> {})
    BY <1>3 DEF Tell
  <2>2. /\ [x EXCEPT !.step = "release"] \in Session
        /\ [x EXCEPT !.step = "empty"] \in Session
    BY DEF TypeOK, Session, Step
  <2> QED
    BY <1>3, <2>1, <2>2, SessionsGoOn DEF Tell, TypeOK
<1>4. CASE Release
  <2>1. doc' \in [Recipient -> Document \cup {NoDoc}]
    <3>1. \A r \in Recipient :
            [doc[r] EXCEPT !.inProgress = FALSE] \in Document \cup {NoDoc}
      <4> TAKE r \in Recipient
      <4>1. [NoDoc EXCEPT !.inProgress = FALSE] = NoDoc
        BY NoDocIsIdle
      <4>2. doc[r] \in Document => [doc[r] EXCEPT !.inProgress = FALSE] \in Document
        BY DEF Document
      <4> QED
        BY <4>1, <4>2 DEF TypeOK
    <3> QED
      BY <1>4, <3>1 DEF Release
  <2> QED
    BY <1>4, <2>1, SessionsGoOn DEF Release, TypeOK
<1>5. CASE RemoveRecipients
  <2>1. PICK x \in sessions : Becomes(x, {[x EXCEPT !.step = "drop"]})
    BY <1>5 DEF RemoveRecipients
  <2>2. [x EXCEPT !.step = "drop"] \in Session
    BY DEF TypeOK, Session, Step
  <2> QED
    BY <1>5, <2>1, <2>2, SessionsGoOn DEF RemoveRecipients, TypeOK
<1>6. CASE RemoveMailing
  BY <1>6, SessionsGoOn DEF RemoveMailing, TypeOK
<1> QED
  BY <1>1, <1>2, <1>3, <1>4, <1>5, <1>6, SaveTyped, CountTyped DEF SessionStep

-----------------------------------------------------------------------------
(* Recipients that are added, SendRecipientsTask, the reports thread.      *)
LEMMA AddingTyped ==
  ASSUME TypeOK, Adding, UNCHANGED scenario
  PROVE  TypeOK'
<1> USE DEF satVars, historyVars, countVars, reactorVars
<1>1. CASE CheckAddition
  <2>1. adding' \subseteq Addition
    BY <1>1, BudgetsAreCounts DEF CheckAddition, Addition
  <2>2. budget' \in [Event -> Nat]
    BY <1>1, Spending DEF CheckAddition, Event
  <2>3. answered' \subseteq {"run", "adding"} \cup Closer
    BY <1>1, QueriesAnswered DEF CheckAddition
  <2> QED
    BY <1>1, <2>1, <2>2, <2>3 DEF CheckAddition, TypeOK
<1>2. CASE Insert
  <2>1. PICK a \in adding :
          /\ doc' = [r \in Recipient |-> IF r \in a.batch THEN NewDoc ELSE doc[r]]
          /\ adding' = {[a EXCEPT !.step = "inserted"]}
          /\ late' = IF Ending THEN late \cup a.batch ELSE late
    BY <1>2 DEF Insert
  <2>2. a \in Addition
    BY DEF TypeOK
  <2>3. adding' \subseteq Addition /\ late' \subseteq Recipient
    BY <2>1, <2>2 DEF TypeOK, Addition
  <2>4. NewDoc \in Document
    BY DEF NewDoc, NoDoc, Document, Pending
  <2>5. doc' \in [Recipient -> Document \cup {NoDoc}]
    BY <2>1, <2>4 DEF TypeOK
  <2>6. answered' \subseteq {"run", "adding"} \cup Closer
    BY <1>2, QueriesAnswered DEF Insert
  <2> QED
    BY <1>2, <2>3, <2>5, <2>6 DEF Insert, TypeOK
<1>3. CASE CountAddition
  <2>1. PICK a \in adding : Increase(Added(a))
    BY <1>3 DEF CountAddition
  <2>2. Added(a) \in Counters
    <3>1. Cardinality(a.batch) \in Nat
      BY Countable DEF TypeOK, Addition
    <3> QED
      BY <3>1 DEF Added, Counts, Counters
  <2> QED
    BY <1>3, <2>1, <2>2, Increased DEF CountAddition, TypeOK
<1> QED
  BY <1>1, <1>2, <1>3 DEF Adding

LEMMA TaskTyped ==
  ASSUME TypeOK, Task, UNCHANGED scenario
  PROVE  TypeOK'
<1> USE DEF satVars, historyVars, countVars, reactorVars
<1>1. \A u \in run : u \in Run /\ u.batch \subseteq Recipient
  BY DEF TypeOK, Run
<1>2. CASE ReadMailing
  <2>1. run' \subseteq Run
    BY <1>2, BudgetsAreCounts DEF ReadMailing, Run, MailingStatus
  <2> QED
    BY <1>2, <2>1, QueriesAnswered DEF ReadMailing, TypeOK
<1>3. CASE ChooseRecipients
  <2>1. run' \subseteq Run
    <3>1. PICK u \in run :
            \/ run' = {}
            \/ \E batch \in SUBSET Eligible(u) :
                 run' = {[u EXCEPT !.step = "chosen", !.batch = batch]}
      BY <1>3 DEF ChooseRecipients
    <3>2. Eligible(u) \subseteq Recipient
      BY DEF Eligible, OfStatus, Existing
    <3>3. ASSUME NEW batch \in SUBSET Eligible(u)
          PROVE  [u EXCEPT !.step = "chosen", !.batch = batch] \in Run
      BY <1>1, <3>2 DEF Run
    <3> QED
      BY <3>1, <3>3
  <2>2. astray' \subseteq Recipient
    BY <1>1, <1>3 DEF ChooseRecipients, TypeOK, Eligible, OfStatus, Existing
  <2> QED
    BY <1>3, <2>1, <2>2, QueriesAnswered DEF ChooseRecipients, TypeOK
<1>4. CASE StartRunning
  <2>1. run' \subseteq Run
    BY <1>1, <1>4 DEF StartRunning, Run
  <2>2. mailing' \in Mailing \cup {NoMailing}
    BY <1>4 DEF StartRunning, Started, TypeOK, Mailing, MailingStatus
  <2> QED
    BY <1>4, <2>1, <2>2, QueriesAnswered DEF StartRunning, TypeOK
<1>5. CASE Claim
  <2>1. run' \subseteq Run
    BY <1>1, <1>5 DEF Claim, Run
  <2>2. doc' \in [Recipient -> Document \cup {NoDoc}]
    <3>1. PICK u \in run :
            doc' = [r \in Recipient |->
              IF r \in u.batch \cap Existing
                THEN [doc[r] EXCEPT !.inProgress = TRUE, !.client = u.sat]
                ELSE doc[r]]
      BY <1>5 DEF Claim
    <3>2. u.sat \in Satellite
      BY <1>1 DEF Run
    <3>3. \A r \in Existing :
            [doc[r] EXCEPT !.inProgress = TRUE, !.client = u.sat] \in Document
      BY <3>2 DEF TypeOK, Existing, Document
    <3> QED
      BY <3>1, <3>3 DEF TypeOK
  <2> QED
    BY <1>5, <2>1, <2>2, QueriesAnswered DEF Claim, TypeOK
<1>6. CASE Send
  <2>1. row' \in [Satellite -> [Recipient -> Row]]
    <3>1. PICK u \in run :
            row' = [row EXCEPT ![u.sat] = [r \in Recipient |->
                      IF r \in u.batch /\ row[u.sat][r] = "none"
                        THEN "working" ELSE row[u.sat][r]]]
      BY <1>6 DEF Send
    <3>2. u.sat \in Satellite
      BY <1>1 DEF Run
    <3> QED
      BY <3>1, <3>2 DEF TypeOK, Row
  <2> QED
    BY <1>6, <2>1 DEF Send, TypeOK
<1> QED
  BY <1>2, <1>3, <1>4, <1>5, <1>6 DEF Task

(* The rows of the satellites.                                             *)
LEMMA RowsTyped ==
  ASSUME TypeOK, UNCHANGED scenario, Obey \/ Rows
  PROVE  TypeOK'
<1> USE DEF satVars, historyVars, countVars, reactorVars
<1>1. CASE Obey
  <2>1. row' \in [Satellite -> [Recipient -> Row]]
    <3>1. PICK dropped :
            row' = [s \in Satellite |-> [r \in Recipient |->
                      IF <<s, r>> \in dropped THEN "none" ELSE row[s][r]]]
      BY <1>1 DEF Obey
    <3> QED
      BY <3>1 DEF TypeOK, Row
  <2> QED
    BY <1>1, <2>1 DEF Obey, TypeOK
<1>2. ASSUME NEW s \in Satellite, NEW r \in Recipient, NEW v \in Row
      PROVE  [row EXCEPT ![s][r] = v] \in [Satellite -> [Recipient -> Row]]
  BY DEF TypeOK
<1>3. ASSUME NEW s \in Satellite, NEW r \in Recipient, Forget(s, r) \/ ReceiveAnswer(s, r)
      PROVE  TypeOK'
  <2>1. row' \in [Satellite -> [Recipient -> Row]]
    BY <1>2, <1>3 DEF Forget, ReceiveAnswer, Drop, Row
  <2>2. budget' \in [Event -> Nat]
    BY <1>3, Spending DEF Forget, ReceiveAnswer, Event, TypeOK
  <2> QED
    BY <1>3, <2>1, <2>2 DEF Forget, ReceiveAnswer, TypeOK
<1>4. ASSUME NEW s \in Satellite, NEW r \in Recipient, NEW o \in Reported,
             GrabReport(s, r, o)
      PROVE  TypeOK'
  <2>1. row' \in [Satellite -> [Recipient -> Row]]
    BY <1>2, <1>4 DEF GrabReport, Row, TypeOK
  <2>2. grabbed' \subseteq Grabbed
    <3>1. doc[r] # NoDoc => doc[r] \in Document
      BY DEF TypeOK
    <3> QED
      BY <1>4, <3>1 DEF GrabReport, TypeOK, Grabbed
  <2>3. budget' \in [Event -> Nat]
    BY <1>4, Spending DEF GrabReport, MayReport, Event, TypeOK
  <2> QED
    BY <1>4, <2>1, <2>2, <2>3 DEF GrabReport, TypeOK
<1> QED
  BY <1>1, <1>3, <1>4 DEF Rows

LEMMA ReportsTyped ==
  ASSUME TypeOK, UNCHANGED scenario, Reports \/ CountDsn \/ Recipients
  PROVE  TypeOK'
<1> USE DEF satVars, historyVars, countVars, reactorVars
<1>0. \A g \in grabbed : /\ g.rcpt \in Recipient /\ g.copy \in Document
                        /\ g.sat \in Satellite /\ g.outcome \in Reported
                        /\ Delta(g.copy, g.outcome) \in Counters
  <2>1. \A d : \A o \in Reported : Delta(d, o) \in Counters
    BY DEF Delta, Counts, Counters, Zero, Pending, Reported
  <2> QED
    BY <2>1 DEF TypeOK, Grabbed
<1>1. CASE StoreReport
  <2>1. PICK g \in grabbed :
          /\ doc' = IF DsnFirst(g.copy) THEN doc
                    ELSE [doc EXCEPT ![g.rcpt] =
                            [g.copy EXCEPT !.status = g.outcome, !.inProgress = FALSE,
                                           !.client = g.sat]]
          /\ counted' = Plus(counted, Delta(g.copy, g.outcome))
          /\ row' = [row EXCEPT ![g.sat][g.rcpt] =
                       IF @ = "none" THEN "none" ELSE g.outcome]
    BY <1>1 DEF StoreReport
  <2>2. [g.copy EXCEPT !.status = g.outcome, !.inProgress = FALSE, !.client = g.sat]
          \in Document
    BY <1>0 DEF Document, Pending, Final, Reported
  <2>3. doc' \in [Recipient -> Document \cup {NoDoc}]
    BY <1>0, <2>1, <2>2 DEF TypeOK
  <2>4. counted' \in Counters
    BY <1>0, <2>1, CountersAdd DEF TypeOK
  <2>5. row' \in [Satellite -> [Recipient -> Row]]
    BY <1>0, <2>1 DEF TypeOK, Row
  <2> QED
    BY <1>1, <2>3, <2>4, <2>5 DEF StoreReport, TypeOK
<1>2. CASE FailToStore
  <2>1. counted' \in Counters
    BY <1>0, <1>2, CountersAdd DEF FailToStore, TypeOK
  <2>2. budget' \in [Event -> Nat]
    BY <1>2, Spending DEF FailToStore, Event
  <2> QED
    BY <1>2, <2>1, <2>2 DEF FailToStore, TypeOK
<1>3. CASE CountReports \/ CountDsn
  <2>1. counted \in Counters /\ noticed \in Counters
    BY DEF TypeOK
  <2>2. mailing' \in Mailing \cup {NoMailing}
    BY <1>3, <2>1, Increased DEF CountReports, CountDsn
  <2> QED
    BY <1>3, <2>2, ZeroCounts DEF CountReports, CountDsn, TypeOK
<1>4. ASSUME NEW r \in Recipient, CheckOrphans(r) \/ StoreDsn(r) \/ Reset(r)
      PROVE  TypeOK'
  <2>1. doc[r] \in Document
    <3>1. CASE CheckOrphans(r)
      BY <3>1 DEF CheckOrphans, Orphan, Claimed, TypeOK, NoDoc
    <3> QED
      BY <1>4, <3>1 DEF StoreDsn, Reset, TypeOK
  <2>2. doc' \in [Recipient -> Document \cup {NoDoc}]
    <3>1. /\ [doc[r] EXCEPT !.inProgress = FALSE] \in Document
          /\ [doc[r] EXCEPT !.status = "ERROR", !.dsn = TRUE] \in Document
          /\ [doc[r] EXCEPT !.status = "READY"] \in Document
      BY <2>1 DEF Document, Pending, Final
    <3>2. \E d \in Document : doc' = [doc EXCEPT ![r] = d]
      BY <1>4, <3>1 DEF CheckOrphans, Released, StoreDsn, Reset
    <3> QED
      BY <3>2 DEF TypeOK
  <2>3. DsnDelta(doc[r].status) \in Counters
    BY DEF DsnDelta, Counts, Counters, Zero
  <2>4. noticed' \in Counters
    BY <1>4, <2>3, CountersAdd DEF CheckOrphans, StoreDsn, Reset, TypeOK
  <2>5. budget' \in [Event -> Nat]
    BY <1>4, Spending DEF CheckOrphans, StoreDsn, Reset, Event, TypeOK
  <2> QED
    BY <1>4, <2>2, <2>4, <2>5 DEF CheckOrphans, StoreDsn, Reset, TypeOK
<1> QED
  BY <1>1, <1>2, <1>3, <1>4 DEF Reports, Recipients

-----------------------------------------------------------------------------
(* Mailings that end, and the master that stops.                           *)
LEMMA ClosingTyped ==
  ASSUME TypeOK, UNCHANGED scenario, Closing \/ ForcePurge \/ RestartMaster
  PROVE  TypeOK'
<1> USE DEF satVars, historyVars, countVars, reactorVars
<1> DEFINE Moves(k, to) == closer' = [closer EXCEPT ![k] = to]
           Where == {"idle", "asked", "found", "overdue", "over"}
<1>1. ASSUME NEW k \in Closer, NEW to \in Where, Moves(k, to)
      PROVE  closer' \in [Closer -> Where]
  BY <1>1 DEF TypeOK
<1>2. CASE ForcePurge
  BY <1>1, <1>2, Spending DEF ForcePurge, Goes, TypeOK, Closer, Event
<1>3. ASSUME NEW k \in Closer, FindMailing(k)
      PROVE  TypeOK'
  <2>1. closer' \in [Closer -> Where]
    BY <1>1, <1>3 DEF FindMailing, Goes
  <2>2. budget' \in [Event -> Nat]
    BY <1>3, Spending DEF FindMailing, Event, TypeOK
  <2> QED
    BY <1>3, <2>1, <2>2, QueriesAnswered DEF FindMailing, TypeOK
<1>4. ASSUME NEW k \in Closer, Expire(k)
      PROVE  TypeOK'
  <2>1. closer' \in [Closer -> Where]
    BY <1>1, <1>4 DEF Expire, Goes
  <2>2. \A r \in Unfinished :
          [doc[r] EXCEPT !.status = "TIMEOUT", !.inProgress = FALSE] \in Document
    BY DEF Unfinished, Existing, TypeOK, Document, Final
  <2>3. doc' \in [Recipient -> Document \cup {NoDoc}]
    BY <1>4, <2>2 DEF Expire, TypeOK
  <2> QED
    BY <1>4, <2>1, <2>3, QueriesAnswered DEF Expire, TypeOK
<1>5. ASSUME NEW k \in Closer, LookForUnfinished(k)
      PROVE  TypeOK'
  <2>1. closer' \in [Closer -> Where]
    BY <1>1, <1>5 DEF LookForUnfinished, Goes
  <2> QED
    BY <1>5, <2>1, QueriesAnswered DEF LookForUnfinished, TypeOK
<1>6. ASSUME NEW k \in Closer, EndMailing(k)
      PROVE  TypeOK'
  <2>1. closer' \in [Closer -> Where]
    BY <1>1, <1>6 DEF EndMailing, Goes
  <2>2. Created \in Mailing
    BY CreatedIsMailing
  <2>3. sessions' \subseteq Session
    BY <1>6, <2>2 DEF EndMailing, TypeOK, Session, Op, Step
  <2> QED
    BY <1>6, <2>1, <2>3 DEF EndMailing, TypeOK
<1>7. CASE RestartMaster
  <2>1. Zero \in Counters
    BY ZeroCounts
  <2> QED
    BY <1>7, <2>1, Spending DEF RestartMaster, TypeOK, Event
<1> QED
  BY <1>2, <1>3, <1>4, <1>5, <1>6, <1>7 DEF Closing

LEMMA StepTyped ==
  ASSUME TypeOK, [Next]_vars
  PROVE  TypeOK'
<1>1. CASE UNCHANGED vars
  BY <1>1 DEF vars, stateVars, reactorVars, countVars, satVars, historyVars, TypeOK
<1>2. ASSUME NEW op \in Op, Call(op), UNCHANGED scenario PROVE TypeOK'
  BY <1>2, StartsTyped DEF Call, Op, Event, Step, RpcOp, RestOp
<1>3. CASE Purge /\ UNCHANGED scenario
  BY <1>3, StartsTyped DEF Purge, Op, Event, Step
<1> QED
  BY <1>1, <1>2, <1>3, SessionStepTyped, AddingTyped, TaskTyped, RowsTyped,
     ReportsTyped, ClosingTyped DEF Next, Change

(* The document of the mailing is one or there is none, its counters are   *)
(* numbers, and whatever is in the middle of something has read a mailing. *)
THEOREM ControlTyped == Spec => []TypeOK
<1>1. Init => TypeOK
  <2> SUFFICES ASSUME Init PROVE TypeOK
    OBVIOUS
  <2>1. Created \in Mailing /\ Zero \in Counters
    BY CreatedIsMailing, ZeroCounts
  <2>2. budget \in [Event -> Nat]
    BY ControlAssumption DEF Init, Scenario
  <2> QED
    BY <2>1, <2>2 DEF Init, TypeOK, Row
<1>2. TypeOK /\ [Next]_vars => TypeOK'
  BY StepTyped
<1> QED
  BY <1>1, <1>2, PTL DEF Spec

-----------------------------------------------------------------------------
(* A mailing that is FINISHED stays so.  What a session is going to save   *)
(* depends on the call it is for: none that saves a mailing as it was read *)
(* read a finished one.                                                    *)
EndOp == {"close", "delete", "end"}
SessionOK(x) ==
  /\ x.op \in {"start", "edit"} => x.step = "save"
  /\ x.op = "pause" => x.step \in {"save", "keep", "tell", "release"}
  /\ x.op = "end" => x.step \in {"grab", "count", "keep", "tell"}
  /\ x.op \notin EndOp => x.copy.status # "FINISHED"
  /\ x.op \in EndOp /\ x.step = "keep" => x.copy.status = "FINISHED"
SessionsOK == \A x \in sessions : SessionOK(x)

(* A mailing that ends by itself leaves nobody behind.  Unless one of      *)
(* these calls, resets or the time limit happened or DSNs cross saves, ... *)
Calls == {"close", "delete", "purge", "pause", "reset", "limit"}
Calm == ~scenario.dsnsCross /\ Unused(Calls)
Bounded == \A e \in Event : budget[e] <= scenario.events[e]

(* ... nothing but calls that start and edit and ends is in the middle of  *)
(* something, ...                                                          *)
NoCalls ==
  /\ ~scenario.dsnsCross
  /\ \A x \in sessions : x.op \in {"start", "edit", "end"}
  /\ \A k \in Closer : closer[k] # "overdue"
  /\ \A r \in Recipient : doc[r].status # "TIMEOUT"

(* ... recipients that are to be inserted are not there yet, and one that  *)
(* was never chosen while a satellite had it is at one place: at a         *)
(* satellite it is pending, bounced or as it was reported, in a report it  *)
(* is as it was read, and the task that chose it found it pending; ...     *)
NotThere ==
  \A a \in adding : a.step = "checked" => \A r \in a.batch : doc[r] = NoDoc
Unsettled(d) == d.status \in Pending \/ DsnFirst(d)
Agrees(v, d) ==
  \/ DsnFirst(d) \/ v = d.status
  \/ v = "working" /\ d.status \in Pending
RowsOK(r) ==
  /\ \A s \in Satellite : row[s][r] # "none" => Agrees(row[s][r], doc[r])
  /\ \A s, t \in Satellite : row[s][r] # "none" /\ row[t][r] # "none" => s = t
Fresh(g) ==
  /\ doc[g.rcpt] # NoDoc /\ g.copy.status = doc[g.rcpt].status
  /\ g.copy.dsn = doc[g.rcpt].dsn
ReportOK(g) ==
  /\ Fresh(g) /\ (Unsettled(g.copy) \/ g.outcome = g.copy.status)
  /\ \A s \in Satellite : row[s][g.rcpt] # "none" => s = g.sat
PlaceOK(r) ==
  /\ RowsOK(r)
  /\ \A g \in grabbed : g.rcpt = r => ReportOK(g)
  /\ \A u \in run : r \in u.batch => Unsettled(doc[r]) /\ ~Somewhere(r)
PlacesOK ==
  /\ NotThere /\ \A g \in grabbed : doc[g.rcpt] # NoDoc
  /\ \A u \in run : u.step = "read" => u.batch = {}
  /\ \A r \in Recipient \ astray : PlaceOK(r)

(* ... and in a mailing that is ending everyone was handled.               *)
Handled(r) == doc[r].status \in {"FINISHED", "ERROR"}
AllHandled == Ending => \A r \in Existing \ (late \cup astray) : Handled(r)

CalmInv == Calm => NoCalls /\ PlacesOK /\ AllHandled
ControlInv == SessionsOK /\ Bounded /\ CalmInv

-----------------------------------------------------------------------------
(* Sessions keep what they are for.                                        *)
LEMMA SessionGoesOn ==
  ASSUME SessionsOK, NEW x \in sessions, NEW X, \A y \in X : SessionOK(y),
         Becomes(x, X)
  PROVE  SessionsOK'
BY DEF SessionsOK, SessionOK, Becomes

LEMMA SessionsElse ==
  ASSUME [Next]_vars
  PROVE  \/ UNCHANGED <<sessions, mailing>>
         \/ UNCHANGED sessions /\ (Adding \/ Task \/ Reports \/ CountDsn)
         \/ (\E op \in Op : Call(op)) \/ Purge \/ SessionStep
         \/ (\E k \in Closer : EndMailing(k)) \/ RestartMaster
<1> USE DEF satVars, historyVars, countVars, reactorVars
<1>1. CASE UNCHANGED vars
  BY <1>1 DEF vars, stateVars
<1>2. CASE Adding \/ Task \/ Reports \/ CountDsn
  BY <1>2 DEF Adding, CheckAddition, Insert, CountAddition, Task, ReadMailing,
     ChooseRecipients, StartRunning, Claim, Send, Reports, StoreReport,
     FailToStore, CountReports, CountDsn
<1>3. CASE ForcePurge \/ Obey \/ Rows
  BY <1>3 DEF ForcePurge, Obey, Rows, Forget, ReceiveAnswer, GrabReport
<1>4. ASSUME NEW r \in Recipient, CheckOrphans(r) \/ StoreDsn(r) \/ Reset(r)
      PROVE  UNCHANGED <<sessions, mailing>>
  BY <1>4 DEF CheckOrphans, StoreDsn, Reset
<1>5. ASSUME NEW k \in Closer, FindMailing(k) \/ Expire(k) \/ LookForUnfinished(k)
      PROVE  UNCHANGED <<sessions, mailing>>
  BY <1>5 DEF FindMailing, Expire, LookForUnfinished
<1> QED
  BY <1>1, <1>2, <1>3, <1>4, <1>5 DEF Next, Change, Recipients, Closing

LEMMA StepsKeepSessions ==
  ASSUME TypeOK, SessionsOK, SessionStep
  PROVE  SessionsOK'
<1>1. \A x \in sessions : x \in Session /\ SessionOK(x)
  BY DEF TypeOK, SessionsOK
<1>2. CASE SaveCall
  <2>1. PICK x \in sessions : /\ x.step = "save"
                              /\ SaveStart(x) \/ SavePause(x) \/ SaveClose(x) \/ SaveEdit(x)
    BY <1>2 DEF SaveCall
  <2>2. CASE SaveStart(x) \/ SaveEdit(x)
    BY <2>2, SessionGoesOn DEF SaveStart, SaveEdit
  <2>3. CASE SavePause(x)
    <3> DEFINE m == [x.copy EXCEPT !.status = "PAUSED"]
               y == [x EXCEPT !.home = "thread", !.step = "keep", !.copy = m]
    <3>1. m.status = "PAUSED"
      BY <1>1 DEF Session, Mailing
    <3> HIDE DEF m
    <3>2. SessionOK(y)
      BY <1>1, <2>3, <3>1 DEF SavePause, SessionOK, Session, EndOp
    <3>3. Becomes(x, {y})
      BY <2>3 DEF SavePause, m
    <3> HIDE DEF y
    <3> QED
      BY <3>2, <3>3, SessionGoesOn
  <2>4. CASE SaveClose(x)
    <3> DEFINE y == [x EXCEPT !.step = "grab",
                              !.home = IF x.op = "close" THEN "thread" ELSE @]
    <3>1. SessionOK(y)
      BY <1>1, <2>4 DEF SaveClose, SessionOK, Session, EndOp
    <3>2. Becomes(x, {y})
      BY <2>4 DEF SaveClose
    <3> HIDE DEF y
    <3> QED
      BY <3>1, <3>2, SessionGoesOn
  <2> QED
    BY <2>1, <2>2, <2>3, <2>4
<1>3. CASE GrabToClose
  <2>1. PICK x \in sessions :
          /\ x.step = "grab"
          /\ Becomes(x, IF mailing = NoMailing THEN {}
                        ELSE {[x EXCEPT !.step = "count", !.copy = mailing]})
    BY <1>3 DEF GrabToClose
  <2>2. SessionOK([x EXCEPT !.step = "count", !.copy = mailing])
    BY <1>1, <2>1 DEF SessionOK, Session, EndOp, Op
  <2> QED
    BY <2>1, <2>2, SessionGoesOn
<1>4. CASE CountToClose
  <2>1. PICK x \in sessions :
          /\ x.step = "count"
          /\ Becomes(x, {[x EXCEPT !.step = "keep", !.copy = Closed(x.copy)]})
    BY <1>4 DEF CountToClose
  <2>2. Closed(x.copy).status = "FINISHED"
    BY <1>1 DEF Closed, Session, Mailing
  <2>3. SessionOK([x EXCEPT !.step = "keep", !.copy = Closed(x.copy)])
    BY <1>1, <2>1, <2>2 DEF SessionOK, Session, EndOp, Op
  <2> QED
    BY <2>1, <2>3, SessionGoesOn
<1>5. CASE Keep
  <2>1. PICK x \in sessions :
          x.step = "keep" /\ Becomes(x, {[x EXCEPT !.step = "tell"]})
    BY <1>5 DEF Keep
  <2>2. SessionOK([x EXCEPT !.step = "tell"])
    BY <1>1, <2>1 DEF SessionOK, Session, EndOp, Op
  <2> QED
    BY <2>1, <2>2, SessionGoesOn
<1>6. CASE Tell
  <2>1. PICK x \in sessions :
          /\ x.step = "tell"
          /\ Becomes(x, CASE x.op = "pause" -> {[x EXCEPT !.step = "release"]}
                          [] x.op = "delete" -> {[x EXCEPT !.step = "empty"]}
                          [] OTHER -> {})
    BY <1>6 DEF Tell
  <2>2. /\ x.op = "pause" => SessionOK([x EXCEPT !.step = "release"])
        /\ x.op = "delete" => SessionOK([x EXCEPT !.step = "empty"])
    BY <1>1, <2>1 DEF SessionOK, Session, EndOp
  <2> QED
    BY <2>1, <2>2, SessionGoesOn
<1>7. CASE Release \/ RemoveMailing
  BY <1>7, SessionGoesOn DEF Release, RemoveMailing
<1>8. CASE RemoveRecipients
  <2>1. PICK x \in sessions :
          x.step = "empty" /\ Becomes(x, {[x EXCEPT !.step = "drop"]})
    BY <1>8 DEF RemoveRecipients
  <2>2. SessionOK([x EXCEPT !.step = "drop"])
    BY <1>1, <2>1 DEF SessionOK, Session, EndOp, Op
  <2> QED
    BY <2>1, <2>2, SessionGoesOn
<1> QED
  BY <1>2, <1>3, <1>4, <1>5, <1>6, <1>7, <1>8 DEF SessionStep

LEMMA SessionStarts ==
  ASSUME SessionsOK, NEW event \in Event, NEW op \in Op, op # "end",
         op \in EndOp \/ mailing.status # "FINISHED",
         NEW step \in {"save", "grab"}, step = "grab" => op = "delete",
         Starts(event, op, step)
  PROVE  SessionsOK'
<1> DEFINE y == [op |-> op, home |-> "reactor", step |-> step,
                 id |-> budget[event], copy |-> mailing]
<1>1. SessionOK(y)
  BY DEF SessionOK, EndOp
<1>2. sessions' = sessions \cup {y}
  BY DEF Starts
<1> QED
  BY <1>1, <1>2 DEF SessionsOK, SessionOK

LEMMA StepKeepsSessions ==
  ASSUME TypeOK, SessionsOK, [Next]_vars
  PROVE  SessionsOK'
<1>1. CASE UNCHANGED sessions
  BY <1>1 DEF SessionsOK, SessionOK
<1>3. ASSUME NEW op \in Op, Call(op) PROVE SessionsOK'
  <2>1. op # "end" /\ Starts(op, op, "save")
    BY <1>3 DEF Call, RpcOp, RestOp
  <2>2. op \in EndOp \/ mailing.status # "FINISHED"
    BY <1>3 DEF Call, Allowed, EndOp
  <2>3. op \in Event
    BY <1>3 DEF Call, RpcOp, RestOp, Event
  <2> QED
    BY <2>1, <2>2, <2>3, SessionStarts
<1>4. CASE Purge
  BY <1>4, SessionStarts DEF Purge, Op, EndOp, Event
<1>5. ASSUME NEW k \in Closer, EndMailing(k) PROVE SessionsOK'
  BY <1>5 DEF EndMailing, SessionsOK, SessionOK, EndOp
<1>6. CASE RestartMaster
  BY <1>6 DEF RestartMaster, SessionsOK
<1> QED
  BY <1>1, <1>3, <1>4, <1>5, <1>6, SessionsElse, StepsKeepSessions

(* Once only what ends mailings is in the middle of something, whatever is *)
(* saved says FINISHED.                                                    *)
Over(m) == m.status \in {"FINISHED", "NONE"}

LEMMA ClosedStays ==
  ASSUME TypeOK, SessionsOK, [Next]_vars, NoneBefore, Over(mailing)
  PROVE  Over(mailing')
<1> USE DEF satVars, historyVars, countVars, reactorVars
<1>0. \A x \in sessions : x \in Session /\ SessionOK(x) /\ x.op \in EndOp
  BY DEF TypeOK, SessionsOK, SessionOK, NoneBefore, EndOp
<1>1. CASE UNCHANGED mailing
  BY <1>1
<1>2. CASE Reports \/ CountDsn
  <2>1. counted \in Counters /\ noticed \in Counters
    BY DEF TypeOK
  <2> QED
    BY <1>2, <2>1, Increased DEF Reports, StoreReport, FailToStore, CountReports,
       CountDsn, Over
<1>3. CASE Adding
  <2>1. CASE CountAddition
    <3>1. PICK a \in adding : Increase(Added(a))
      BY <2>1 DEF CountAddition
    <3>2. Cardinality(a.batch) \in Nat
      BY Countable DEF TypeOK, Addition
    <3>3. Added(a) \in Counters
      BY <3>2 DEF Added, Counts, Counters
    <3> QED
      BY <3>1, <3>3, Increased DEF Over
  <2> QED
    BY <1>3, <2>1 DEF Adding, CheckAddition, Insert
<1>4. CASE Task
  <2>1. CASE StartRunning
    BY <2>1 DEF StartRunning, NoneBefore
  <2> QED
    BY <1>4, <2>1 DEF Task, ReadMailing, ChooseRecipients, Claim, Send
<1>5. CASE SessionStep
  <2>1. CASE SaveCall
    <3>1. PICK x \in sessions : SaveStart(x) \/ SavePause(x) \/ SaveClose(x) \/ SaveEdit(x)
      BY <2>1 DEF SaveCall
    <3>2. mailing' = [x.copy EXCEPT !.status = "FINISHED"]
      BY <1>0, <3>1 DEF SaveStart, SavePause, SaveClose, SaveEdit, Put, EndOp
    <3> QED
      BY <1>0, <3>2 DEF Session, Mailing, Over
  <2>2. CASE Keep
    BY <1>0, <2>2 DEF Keep, Put, SessionOK, Over
  <2>3. CASE RemoveMailing
    BY <2>3 DEF RemoveMailing, NoMailing, Over
  <2> QED
    BY <1>1, <1>5, <2>1, <2>2, <2>3 DEF SessionStep, GrabToClose, CountToClose,
       Tell, Release, RemoveRecipients
<1>6. CASE (\E op \in Op : Call(op)) \/ Purge
  BY <1>1, <1>6 DEF Call, Purge, Starts
<1>7. CASE (\E k \in Closer : EndMailing(k)) \/ RestartMaster
  BY <1>1, <1>7 DEF EndMailing, RestartMaster
<1> QED
  BY <1>1, <1>2, <1>3, <1>4, <1>5, <1>6, <1>7, SessionsElse

(* No API call reopens a mailing that is closed, and no document that was  *)
(* read before brings it back: what a call, a task or a thread saves of    *)
(* such a mailing says that it is over.                                    *)
THEOREM ClosedMailingStaysClosed == Spec => ClosedForGood
<1>1. Init => SessionsOK
  BY DEF Init, SessionsOK
<1>2. TypeOK /\ SessionsOK /\ [Next]_vars => SessionsOK'
  BY StepKeepsSessions
<1>3. TypeOK /\ SessionsOK /\ [Next]_vars
        => [NoneBefore => (mailing.status \in {"FINISHED", "NONE"} =>
              mailing'.status \in {"FINISHED", "NONE"})]_vars
  BY ClosedStays DEF Over
<1> QED
  BY <1>1, <1>2, <1>3, ControlTyped, PTL DEF Spec, ClosedForGood

-----------------------------------------------------------------------------
(* Events are spent one by one; without those of Calls nothing but what    *)
(* starts, edits and ends a mailing is in the middle of something.         *)
LEMMA Spends ==
  ASSUME [Next]_vars
  PROVE  UNCHANGED scenario /\ (UNCHANGED budget \/ \E e \in Event : Spend(e))
<1> USE DEF satVars, historyVars, countVars, reactorVars
<1>1. CASE UNCHANGED vars
  BY <1>1 DEF vars, stateVars
<1>2. ASSUME Change PROVE UNCHANGED budget \/ \E e \in Event : Spend(e)
  <2>1. CASE (\E op \in Op : Call(op)) \/ Purge \/ ForcePurge
    BY <2>1 DEF Call, Purge, ForcePurge, Starts, Event, RpcOp, RestOp
  <2>2. CASE Task
    BY <2>2 DEF Task, ReadMailing, ChooseRecipients, StartRunning, Claim, Send
  <2>3. CASE SessionStep
    BY <2>3 DEF SessionStep, SaveCall, GrabToClose, CountToClose, Keep, Tell,
       Release, RemoveRecipients, RemoveMailing
  <2>4. CASE Closing
    BY <2>4 DEF Closing, FindMailing, Expire, LookForUnfinished, EndMailing, Event
  <2>5. CASE Adding
    BY <2>5 DEF Adding, CheckAddition, Insert, CountAddition, Event
  <2>6. CASE Recipients
    BY <2>6 DEF Recipients, CheckOrphans, StoreDsn, Reset, Event
  <2>7. CASE Reports \/ CountDsn \/ Obey \/ RestartMaster
    BY <2>7 DEF Reports, StoreReport, FailToStore, CountReports, CountDsn, Obey,
       RestartMaster, Event
  <2>8. CASE Rows
    BY <2>8 DEF Rows, Forget, ReceiveAnswer, GrabReport, MayReport, Event
  <2> QED
    BY <1>2, <2>1, <2>2, <2>3, <2>4, <2>5, <2>6, <2>7, <2>8 DEF Change
<1> QED
  BY <1>1, <1>2 DEF Next, vars

LEMMA BudgetsFall ==
  ASSUME TypeOK, Bounded, [Next]_vars
  PROVE  /\ Bounded'
         /\ Calm' => Calm /\ \A e \in Calls : ~Spend(e)
<1>1. /\ \A e \in Event : budget[e] \in Nat /\ scenario.events[e] \in Nat
      /\ budget \in [Event -> Nat]
  BY ControlAssumption DEF TypeOK, Scenario
<1>2. \A e \in Event : budget'[e] <= budget[e]
  BY <1>1, Spends DEF Spend
<1>3. \A e \in Event : Spend(e) => budget'[e] = budget[e] - 1
  BY <1>1 DEF Spend
<1>4. \A e \in Event : budget'[e] \in Int
  BY <1>1, Spends DEF Spend
<1>5. scenario' = scenario
  BY Spends
<1>6. Calls \subseteq Event
  BY DEF Calls, Event
<1> QED
  BY <1>1, <1>2, <1>3, <1>4, <1>5, <1>6 DEF Bounded, Calm, Unused

(* What may change the documents of recipients, and what else may change   *)
(* where they are.                                                         *)
LEMMA DocumentsElse ==
  ASSUME TypeOK, SessionsOK, NoCalls, [Next]_vars, \A e \in Calls : ~Spend(e)
  PROVE  \/ UNCHANGED doc
         \/ Insert \/ Claim \/ StoreReport
         \/ \E r \in Recipient : CheckOrphans(r) \/ StoreDsn(r)
<1> USE DEF satVars, historyVars, countVars, reactorVars
<1>0. \A x \in sessions : SessionOK(x) /\ x.op \in {"start", "edit", "end"}
  BY DEF SessionsOK, NoCalls
<1>1. CASE UNCHANGED vars
  BY <1>1 DEF vars, stateVars
<1>2. CASE (\E op \in Op : Call(op)) \/ Purge \/ ForcePurge
  BY <1>2 DEF Call, Purge, ForcePurge, Starts
<1>3. CASE Task
  BY <1>3 DEF Task, ReadMailing, ChooseRecipients, StartRunning, Send
<1>4. CASE SessionStep
  <2>1. ~Release /\ ~RemoveRecipients
    BY <1>0 DEF Release, RemoveRecipients, SessionOK
  <2> QED
    BY <1>4, <2>1 DEF SessionStep, SaveCall, GrabToClose, CountToClose, Keep, Tell,
       RemoveMailing
<1>5. CASE Closing
  <2>1. \A k \in Closer : ~Expire(k)
    BY DEF Expire, Goes, NoCalls
  <2> QED
    BY <1>5, <2>1 DEF Closing, FindMailing, LookForUnfinished, EndMailing
<1>6. CASE Adding
  BY <1>6 DEF Adding, CheckAddition, CountAddition
<1>7. CASE Recipients
  BY <1>7 DEF Recipients, Reset, Calls
<1>8. CASE Reports \/ CountDsn \/ Obey \/ Rows \/ RestartMaster
  BY <1>8 DEF Reports, FailToStore, CountReports, CountDsn, Obey, RestartMaster,
     Rows, Forget, ReceiveAnswer, GrabReport
<1> QED
  BY <1>1, <1>2, <1>3, <1>4, <1>5, <1>6, <1>7, <1>8 DEF Next, Change

LEMMA ClosersElse ==
  ASSUME [Next]_vars
  PROVE  UNCHANGED closer \/ Closing \/ ForcePurge \/ RestartMaster
<1> USE DEF satVars, historyVars, countVars, reactorVars
<1>1. CASE UNCHANGED vars
  BY <1>1 DEF vars, stateVars
<1>2. CASE (\E op \in Op : Call(op)) \/ Purge
  BY <1>2 DEF Call, Purge, Starts
<1>3. CASE Task
  BY <1>3 DEF Task, ReadMailing, ChooseRecipients, StartRunning, Claim, Send
<1>4. CASE SessionStep
  BY <1>4 DEF SessionStep, SaveCall, GrabToClose, CountToClose, Keep, Tell,
     Release, RemoveRecipients, RemoveMailing
<1>5. CASE Adding
  BY <1>5 DEF Adding, CheckAddition, Insert, CountAddition
<1>6. CASE Recipients
  BY <1>6 DEF Recipients, CheckOrphans, StoreDsn, Reset
<1>7. CASE Reports \/ CountDsn \/ Obey \/ Rows
  BY <1>7 DEF Reports, StoreReport, FailToStore, CountReports, CountDsn, Obey,
     Rows, Forget, ReceiveAnswer, GrabReport
<1> QED
  BY <1>1, <1>2, <1>3, <1>4, <1>5, <1>6, <1>7 DEF Next, Change

LEMMA NoCallsStays ==
  ASSUME TypeOK, SessionsOK, Bounded, Calm, NoCalls, [Next]_vars, Calm',
         \A e \in Calls : ~Spend(e)
  PROVE  NoCalls'
<1> USE DEF satVars, historyVars, countVars, reactorVars
<1>0. \A x \in sessions : x \in Session /\ SessionOK(x)
  BY DEF TypeOK, SessionsOK
<1>1. \A x \in sessions' : x.op \in {"start", "edit", "end"}
  <2>1. ASSUME NEW event \in Event, NEW op \in {"start", "edit"}, NEW step,
               Starts(event, op, step)
        PROVE  \A x \in sessions' : x.op \in {"start", "edit", "end"}
    BY <2>1 DEF Starts, NoCalls
  <2>2. ASSUME NEW op \in Op, Call(op)
        PROVE  op \in {"start", "edit"} /\ op \in Event /\ Starts(op, op, "save")
    BY <2>2 DEF Call, Starts, Calls, RpcOp, RestOp, Event
  <2>3. ~Purge
    BY DEF Purge, Starts, Calls
  <2>4. CASE SessionStep
    <3>1. CASE SaveCall
      <4>1. PICK x \in sessions : SaveStart(x) \/ SavePause(x) \/ SaveClose(x) \/ SaveEdit(x)
        BY <3>1 DEF SaveCall
      <4>2. Becomes(x, {})
        BY <4>1 DEF SaveStart, SavePause, SaveClose, SaveEdit, NoCalls
      <4> QED
        BY <4>2 DEF Becomes, NoCalls
    <3>2. ASSUME NEW x \in sessions, NEW y, y.op = x.op,
                 Becomes(x, {y}) \/ Becomes(x, {})
          PROVE  \A z \in sessions' : z.op \in {"start", "edit", "end"}
      BY <3>2 DEF Becomes, NoCalls
    <3>3. CASE GrabToClose
      <4>1. PICK x \in sessions :
              \/ Becomes(x, {})
              \/ Becomes(x, {[x EXCEPT !.step = "count", !.copy = mailing]})
        BY <3>3 DEF GrabToClose
      <4> QED
        BY <1>0, <3>2, <4>1 DEF Session
    <3>4. CASE CountToClose
      BY <1>0, <3>2, <3>4 DEF CountToClose, Session
    <3>5. CASE Keep
      BY <1>0, <3>2, <3>5 DEF Keep, Session
    <3>6. CASE Tell
      <4>1. PICK x \in sessions :
              Becomes(x, CASE x.op = "pause" -> {[x EXCEPT !.step = "release"]}
                           [] x.op = "delete" -> {[x EXCEPT !.step = "empty"]}
                           [] OTHER -> {})
        BY <3>6 DEF Tell
      <4>2. x.op \notin {"pause", "delete"}
        BY DEF NoCalls
      <4>3. Becomes(x, {})
        BY <4>1, <4>2
      <4> QED
        BY <4>3 DEF Becomes, NoCalls
    <3>7. CASE Release \/ RemoveMailing
      BY <3>7 DEF Release, RemoveMailing, Becomes, NoCalls
    <3>8. CASE RemoveRecipients
      BY <1>0, <3>2, <3>8 DEF RemoveRecipients, Session
    <3> QED
      BY <2>4, <3>1, <3>3, <3>4, <3>5, <3>6, <3>7, <3>8 DEF SessionStep
  <2>5. ASSUME NEW k \in Closer, EndMailing(k)
        PROVE  \A x \in sessions' : x.op \in {"start", "edit", "end"}
    BY <2>5 DEF EndMailing, NoCalls
  <2>6. CASE RestartMaster
    BY <2>6 DEF RestartMaster
  <2>7. CASE UNCHANGED sessions
    BY <2>7 DEF NoCalls
  <2>8. UNCHANGED sessions \/ (\E op \in Op : Call(op)) \/ Purge \/ SessionStep
        \/ (\E k \in Closer : EndMailing(k)) \/ RestartMaster
    BY SessionsElse
  <2> QED
    BY <2>1, <2>2, <2>3, <2>4, <2>5, <2>6, <2>7, <2>8
<1>2. \A k \in Closer : closer'[k] # "overdue"
  <2>1. ASSUME NEW k \in Closer, FindMailing(k) \/ Expire(k) \/ LookForUnfinished(k)
                                \/ EndMailing(k)
        PROVE  \A i \in Closer : closer'[i] # "overdue"
    <3>1. \E to \in {"found", "over", "idle"} : closer' = [closer EXCEPT ![k] = to]
      BY <2>1 DEF FindMailing, Expire, LookForUnfinished, EndMailing, Goes, Calls
    <3> QED
      BY <3>1 DEF NoCalls, TypeOK
  <2>2. CASE ForcePurge
    BY <2>2 DEF ForcePurge, Goes, NoCalls, TypeOK, Closer
  <2>3. CASE RestartMaster
    BY <2>3 DEF RestartMaster
  <2>4. CASE UNCHANGED closer
    BY <2>4 DEF NoCalls
  <2> QED
    BY <2>1, <2>2, <2>3, <2>4, ClosersElse DEF Closing
<1>3. \A r \in Recipient : doc'[r].status # "TIMEOUT"
  <2>1. CASE UNCHANGED doc
    BY <2>1 DEF NoCalls
  <2>2. CASE Insert
    BY <2>2 DEF Insert, NewDoc, NoDoc, NoCalls
  <2>3. CASE Claim
    <3>1. PICK u \in run :
            doc' = [r \in Recipient |->
              IF r \in u.batch \cap Existing
                THEN [doc[r] EXCEPT !.inProgress = TRUE, !.client = u.sat]
                ELSE doc[r]]
      BY <2>3 DEF Claim
    <3>2. \A r \in Existing :
            [doc[r] EXCEPT !.inProgress = TRUE, !.client = u.sat].status = doc[r].status
      BY DEF TypeOK, Existing, Document
    <3> QED
      BY <3>1, <3>2 DEF NoCalls
  <2>4. ASSUME NEW r \in Recipient, CheckOrphans(r) \/ StoreDsn(r)
        PROVE  \A q \in Recipient : doc'[q].status # "TIMEOUT"
    <3>1. doc[r] \in Document
      BY <2>4 DEF CheckOrphans, Orphan, Claimed, StoreDsn, TypeOK, NoDoc
    <3>2. /\ [doc[r] EXCEPT !.inProgress = FALSE].status = doc[r].status
          /\ [doc[r] EXCEPT !.status = "ERROR", !.dsn = TRUE].status = "ERROR"
      BY <3>1 DEF Document
    <3>3. \E d : doc' = [doc EXCEPT ![r] = d] /\ d.status # "TIMEOUT"
      BY <2>4, <3>2 DEF CheckOrphans, Released, StoreDsn, NoCalls
    <3> QED
      BY <3>3 DEF NoCalls, TypeOK
  <2>5. CASE StoreReport
    <3>1. PICK g \in grabbed :
            \/ doc' = doc
            \/ doc' = [doc EXCEPT ![g.rcpt] =
                        [g.copy EXCEPT !.status = g.outcome, !.inProgress = FALSE,
                                       !.client = g.sat]]
      BY <2>5 DEF StoreReport
    <3>2. g.outcome # "TIMEOUT"
      BY DEF TypeOK, Grabbed, Reported
    <3>3. [g.copy EXCEPT !.status = g.outcome, !.inProgress = FALSE,
                         !.client = g.sat].status = g.outcome
      BY DEF TypeOK, Grabbed, Document
    <3> QED
      BY <3>1, <3>2, <3>3 DEF NoCalls, TypeOK
  <2> QED
    BY <2>1, <2>2, <2>3, <2>4, <2>5, DocumentsElse
<1>4. ~scenario'.dsnsCross
  BY DEF Calm
<1> QED
  BY <1>1, <1>2, <1>3, <1>4 DEF NoCalls

-----------------------------------------------------------------------------
(* Only a search for recipients that are unfinished makes a mailing end.   *)
LEMMA EndingBefore ==
  ASSUME TypeOK, SessionsOK, NoCalls, NoCalls', [Next]_vars, Ending',
         \A e \in Calls : ~Spend(e)
  PROVE  Ending \/ \E k \in Closer : LookForUnfinished(k) /\ Unfinished = {}
<1> USE DEF satVars, historyVars, countVars, reactorVars
<1>0. \A x \in sessions : /\ x \in Session /\ SessionOK(x)
                          /\ x.op \in {"start", "edit", "end"}
  BY DEF TypeOK, SessionsOK, NoCalls
<1>1. ASSUME NEW k \in Closer, closer'[k] = "over", closer[k] # "over"
      PROVE  LookForUnfinished(k) /\ Unfinished = {}
  <2>1. ASSUME NEW i \in Closer, FindMailing(i) \/ EndMailing(i) \/ Expire(i)
        PROVE  FALSE
    <3>1. ~Expire(i)
      BY DEF Expire, Goes, NoCalls
    <3>2. \E to \in {"found", "overdue", "idle"} : closer' = [closer EXCEPT ![i] = to]
      BY <2>1, <3>1 DEF FindMailing, EndMailing, Goes
    <3> QED
      BY <1>1, <3>2 DEF TypeOK
  <2>2. ASSUME NEW i \in Closer, LookForUnfinished(i)
        PROVE  LookForUnfinished(k) /\ Unfinished = {}
    BY <1>1, <2>2 DEF LookForUnfinished, Goes, TypeOK
  <2>3. ~ForcePurge /\ ~RestartMaster
    BY <1>1 DEF ForcePurge, Goes, RestartMaster, TypeOK, Closer
  <2> QED
    BY <1>1, <2>1, <2>2, <2>3, ClosersElse DEF Closing
<1>2. ASSUME NEW x \in sessions', x.op \notin {"start", "edit"}, x \notin sessions,
             \A y \in sessions : y.op \in {"start", "edit"}
      PROVE  Ending
  <2>1. CASE \E op \in Op : Call(op)
    BY <1>2, <2>1 DEF Call, Starts, RpcOp, RestOp, Calls
  <2>2. CASE Purge
    BY <2>2 DEF Purge, Starts, Calls
  <2>3. CASE SessionStep
    <3>1. CASE SaveCall
      BY <1>2, <3>1 DEF SaveCall, SaveStart, SavePause, SaveClose, SaveEdit, Becomes
    <3>2. \A y \in sessions : y.step = "save"
      BY <1>0, <1>2 DEF SessionOK
    <3> QED
      BY <2>3, <3>1, <3>2 DEF SessionStep, GrabToClose, CountToClose, Keep, Tell,
         Release, RemoveRecipients, RemoveMailing
  <2>4. ASSUME NEW k \in Closer, EndMailing(k) PROVE Ending
    BY <2>4 DEF EndMailing, Goes, Ending
  <2>5. CASE RestartMaster
    BY <1>2, <2>5 DEF RestartMaster
  <2>6. CASE UNCHANGED sessions
    BY <1>2, <2>6
  <2> QED
    BY <2>1, <2>2, <2>3, <2>4, <2>5, <2>6, SessionsElse
<1>3. ASSUME Over(mailing'), ~Over(mailing) PROVE Ending
  <2>1. CASE Reports \/ CountDsn
    <3>1. counted \in Counters /\ noticed \in Counters
      BY DEF TypeOK
    <3> QED
      BY <1>3, <2>1, <3>1, Increased DEF Reports, StoreReport, FailToStore,
         CountReports, CountDsn, Over
  <2>2. CASE Adding
    <3>1. CASE CountAddition
      <4>1. PICK a \in adding : Increase(Added(a))
        BY <3>1 DEF CountAddition
      <4>2. Cardinality(a.batch) \in Nat
        BY Countable DEF TypeOK, Addition
      <4>3. Added(a) \in Counters
        BY <4>2 DEF Added, Counts, Counters
      <4> QED
        BY <1>3, <4>1, <4>3, Increased DEF Over
    <3> QED
      BY <1>3, <2>2, <3>1 DEF Adding, CheckAddition, Insert
  <2>3. CASE Task
    <3>1. CASE StartRunning
      <4>1. mailing' = mailing \/ mailing'.status = "RUNNING"
        BY <3>1 DEF StartRunning, Started, TypeOK, Mailing
      <4> QED
        BY <1>3, <4>1 DEF Over
    <3> QED
      BY <1>3, <2>3, <3>1 DEF Task, ReadMailing, ChooseRecipients, Claim, Send
  <2>4. CASE SessionStep
    <3>1. CASE SaveCall
      <4>1. PICK x \in sessions : SaveStart(x) \/ SavePause(x) \/ SaveClose(x) \/ SaveEdit(x)
        BY <3>1 DEF SaveCall
      <4>2. CASE SaveEdit(x)
        BY <1>0, <1>3, <4>2 DEF SaveEdit, Put, SessionOK, EndOp, Session, Mailing,
           MailingStatus, Over
      <4>3. CASE SaveStart(x)
        <5>1. x.copy \in Mailing
          BY <1>0 DEF Session
        <5>2. Resumed(x.copy).status \in {"RUNNING", "READY"}
          BY <5>1 DEF Resumed, Mailing
        <5>3. mailing # NoMailing /\ mailing \in Mailing
          BY <1>3 DEF Over, NoMailing, TypeOK
        <5>4. Activated(mailing).status = "READY"
          BY <5>3 DEF Activated, Mailing
        <5> QED
          BY <1>3, <4>3, <5>2, <5>3, <5>4 DEF SaveStart, Put, Over
      <4> QED
        BY <1>0, <4>1, <4>2, <4>3 DEF SavePause, SaveClose
    <3>2. CASE Keep \/ RemoveMailing
      <4>1. \E x \in sessions : x.op = "end"
        BY <1>0, <3>2 DEF Keep, RemoveMailing, SessionOK
      <4> QED
        BY <4>1 DEF Ending
    <3> QED
      BY <1>3, <2>4, <3>1, <3>2 DEF SessionStep, GrabToClose, CountToClose,
         Tell, Release, RemoveRecipients
  <2>5. CASE (\E op \in Op : Call(op)) \/ Purge
    BY <1>3, <2>5 DEF Call, Purge, Starts
  <2>6. CASE (\E k \in Closer : EndMailing(k)) \/ RestartMaster
    BY <1>3, <2>6 DEF EndMailing, RestartMaster
  <2> QED
    BY <1>3, <2>1, <2>2, <2>3, <2>4, <2>5, <2>6, SessionsElse
<1>4. CASE \E x \in sessions : x.op = "end"
  BY <1>4 DEF Ending
<1>5. CASE \A x \in sessions : x.op \in {"start", "edit"}
  BY <1>1, <1>2, <1>3, <1>5 DEF Ending, Over
<1> QED
  BY <1>0, <1>4, <1>5

(* Where recipients are.                                                   *)
Places == <<doc, row, grabbed, run, adding, historyVars>>
PlaceStep ==
  \/ UNCHANGED Places
  \/ Adding \/ Task \/ Obey \/ Rows \/ StoreReport \/ FailToStore \/ RestartMaster
  \/ \E r \in Recipient : CheckOrphans(r) \/ StoreDsn(r)

LEMMA PlacesElse ==
  ASSUME TypeOK, SessionsOK, NoCalls, [Next]_vars, \A e \in Calls : ~Spend(e)
  PROVE  PlaceStep
<1> USE DEF satVars, historyVars, countVars, reactorVars, Places, PlaceStep
<1>0. \A x \in sessions : SessionOK(x) /\ x.op \in {"start", "edit", "end"}
  BY DEF SessionsOK, NoCalls
<1>1. CASE UNCHANGED vars
  BY <1>1 DEF vars, stateVars
<1>2. CASE (\E op \in Op : Call(op)) \/ Purge \/ ForcePurge
  BY <1>2 DEF Call, Purge, ForcePurge, Starts
<1>3. CASE SessionStep
  <2>1. ~Release /\ ~RemoveRecipients
    BY <1>0 DEF Release, RemoveRecipients, SessionOK
  <2> QED
    BY <1>3, <2>1 DEF SessionStep, SaveCall, GrabToClose, CountToClose, Keep, Tell,
       RemoveMailing
<1>4. CASE Closing
  <2>1. \A k \in Closer : ~Expire(k)
    BY DEF Expire, Goes, NoCalls
  <2> QED
    BY <1>4, <2>1 DEF Closing, FindMailing, LookForUnfinished, EndMailing
<1>5. CASE CountReports \/ CountDsn
  BY <1>5 DEF CountReports, CountDsn
<1>6. \A r \in Recipient : ~Reset(r)
  BY DEF Reset, Calls
<1> QED
  BY <1>1, <1>2, <1>3, <1>4, <1>5, <1>6
  DEF PlaceStep, Next, Change, Reports, Recipients

(* Steps that leave the status of a recipient, and take it from places     *)
(* only.                                                                   *)
SameStatus(r) ==
  /\ doc'[r] # NoDoc <=> doc[r] # NoDoc
  /\ doc'[r].status = doc[r].status /\ doc'[r].dsn = doc[r].dsn
FewerPlaces(r) ==
  /\ \A s \in Satellite : row'[s][r] # "none" => row'[s][r] = row[s][r]
  /\ \A g \in grabbed' : g.rcpt = r => g \in grabbed
  /\ \A u \in run' : r \in u.batch => \E w \in run : r \in w.batch

LEMMA PlaceStays ==
  ASSUME NEW r \in Recipient, PlaceOK(r), SameStatus(r), FewerPlaces(r)
  PROVE  PlaceOK(r)'
<1>1. RowsOK(r)'
  BY DEF PlaceOK, RowsOK, SameStatus, FewerPlaces, Agrees, DsnFirst
<1>2. ASSUME NEW g \in grabbed', g.rcpt = r PROVE ReportOK(g)'
  <2>1. g \in grabbed /\ ReportOK(g)
    BY <1>2 DEF FewerPlaces, PlaceOK
  <2> QED
    BY <1>2, <2>1 DEF ReportOK, Fresh, SameStatus, FewerPlaces, Unsettled, DsnFirst
<1>3. ASSUME NEW u \in run', r \in u.batch
      PROVE  Unsettled(doc[r])' /\ ~Somewhere(r)'
  <2>1. Unsettled(doc[r]) /\ ~Somewhere(r)
    BY <1>3 DEF FewerPlaces, PlaceOK
  <2>2. Unsettled(doc[r])'
    BY <2>1 DEF SameStatus, Unsettled, DsnFirst
  <2>3. ~Somewhere(r)'
    BY <2>1 DEF FewerPlaces, Somewhere
  <2> QED
    BY <2>2, <2>3
<1> QED
  BY <1>1, <1>2, <1>3 DEF PlaceOK

(* What a claim and its release change of a document.                      *)
LEMMA ClaimsChange ==
  ASSUME TypeOK, Claim \/ \E r \in Recipient : CheckOrphans(r)
  PROVE  \A q \in Recipient : SameStatus(q)
<1>2. \A q \in Recipient : doc[q] # NoDoc => doc[q] \in Document
  BY DEF TypeOK
<1>3. CASE Claim
  <2>1. PICK u \in run :
          doc' = [r \in Recipient |->
            IF r \in u.batch \cap Existing
              THEN [doc[r] EXCEPT !.inProgress = TRUE, !.client = u.sat]
              ELSE doc[r]]
    BY <1>3 DEF Claim
  <2> SUFFICES ASSUME NEW q \in Recipient PROVE SameStatus(q)
    OBVIOUS
  <2>2. CASE q \in u.batch \cap Existing
    <3>1. doc[q] \in Document
      BY <1>2, <2>2 DEF Existing
    <3>2. doc'[q] = [doc[q] EXCEPT !.inProgress = TRUE, !.client = u.sat]
      BY <2>1, <2>2
    <3>3. doc'[q].status = doc[q].status /\ doc'[q].dsn = doc[q].dsn
      BY <3>1, <3>2 DEF Document
    <3> QED
      BY <3>1, <3>3, DocumentStatus DEF Pending, Final, SameStatus
  <2> QED
    BY <2>1, <2>2 DEF SameStatus
<1>4. ASSUME NEW r \in Recipient, CheckOrphans(r)
      PROVE  \A q \in Recipient : SameStatus(q)
  <2> DEFINE d == [doc[r] EXCEPT !.inProgress = FALSE]
  <2>1. doc[r] \in Document
    BY <1>4 DEF CheckOrphans, Orphan, Claimed, TypeOK, NoDoc
  <2>2. doc' = [doc EXCEPT ![r] = d]
    BY <1>4 DEF CheckOrphans, Released
  <2>3. d \in Document /\ d.status = doc[r].status /\ d.dsn = doc[r].dsn
    BY <2>1 DEF Document
  <2> HIDE DEF d
  <2>4. \A q \in Recipient : doc'[q] = IF q = r THEN d ELSE doc[q]
    BY <2>2 DEF TypeOK
  <2> QED
    BY <2>1, <2>3, <2>4, DocumentStatus DEF SameStatus
<1> QED
  BY <1>3, <1>4

LEMMA TaskPlaces ==
  ASSUME TypeOK, PlacesOK, Task
  PROVE  PlacesOK'
<1> USE DEF satVars, historyVars, countVars, reactorVars
<1>0. /\ \A u \in run : u \in Run /\ u.batch \subseteq Recipient
      /\ NotThere /\ \A r \in Recipient \ astray : PlaceOK(r)
  BY DEF TypeOK, Run, PlacesOK
<1>1. ASSUME UNCHANGED <<doc, adding>> PROVE NotThere'
  BY <1>0, <1>1 DEF NotThere
<1>2. ASSUME UNCHANGED <<doc, row, grabbed>>, NEW r \in Recipient \ astray,
             \A u \in run' : r \in u.batch => \E w \in run : r \in w.batch
      PROVE  PlaceOK(r)'
  BY <1>0, <1>2, PlaceStays DEF SameStatus, FewerPlaces
<1>3. CASE ReadMailing
  <2>1. \A u \in run' : u.batch = {}
    BY <1>3 DEF ReadMailing
  <2>2. UNCHANGED <<doc, row, grabbed, adding, astray>>
    BY <1>3 DEF ReadMailing
  <2> QED
    BY <1>1, <1>2, <2>1, <2>2 DEF PlacesOK
<1>4. CASE ChooseRecipients
  <2>1. UNCHANGED <<doc, row, grabbed, adding>>
    BY <1>4 DEF ChooseRecipients
  <2>2. PICK u \in run :
          \/ run' = {} /\ UNCHANGED astray
          \/ \E batch \in SUBSET Eligible(u) :
               /\ run' = {[u EXCEPT !.step = "chosen", !.batch = batch]}
               /\ astray' = astray \cup {r \in batch : Somewhere(r)}
    BY <1>4 DEF ChooseRecipients
  <2>3. CASE run' = {} /\ UNCHANGED astray
    BY <1>1, <1>2, <2>1, <2>3 DEF PlacesOK
  <2>4. ASSUME NEW batch \in SUBSET Eligible(u),
               run' = {[u EXCEPT !.step = "chosen", !.batch = batch]},
               astray' = astray \cup {r \in batch : Somewhere(r)}
        PROVE  PlacesOK'
    <3> DEFINE v == [u EXCEPT !.step = "chosen", !.batch = batch]
    <3>1. v.step = "chosen" /\ v.batch = batch
      BY <1>0 DEF Run
    <3>2. run' = {v}
      BY <2>4
    <3> HIDE DEF v
    <3>3. ASSUME NEW r \in Recipient \ astray' PROVE PlaceOK(r)'
      <4>1. PlaceOK(r)
        BY <1>0, <2>4
      <4>2. RowsOK(r)' /\ \A g \in grabbed' : g.rcpt = r => ReportOK(g)'
        BY <2>1, <4>1 DEF PlaceOK, RowsOK, ReportOK, Fresh, Unsettled, Agrees, DsnFirst
      <4>3. r \in batch => doc[r].status \in Pending /\ ~Somewhere(r)
        BY <2>4 DEF Eligible, OfStatus
      <4>4. r \in batch => Unsettled(doc[r])' /\ ~Somewhere(r)'
        BY <2>1, <4>3 DEF Unsettled, Somewhere
      <4> QED
        BY <3>1, <3>2, <4>2, <4>4 DEF PlaceOK
    <3> QED
      BY <1>1, <2>1, <3>1, <3>2, <3>3 DEF PlacesOK
  <2> QED
    BY <2>2, <2>3, <2>4
<1>5. CASE StartRunning
  <2>1. PICK u \in run : u.step = "chosen" /\ run' = {[u EXCEPT !.step = "started"]}
    BY <1>5 DEF StartRunning
  <2>2. UNCHANGED <<doc, row, grabbed, adding, astray>>
    BY <1>5 DEF StartRunning
  <2>3. \A v \in run' : v.step = "started" /\ v.batch = u.batch
    BY <1>0, <2>1 DEF Run
  <2> QED
    BY <1>1, <1>2, <2>2, <2>3 DEF PlacesOK
<1>6. CASE Claim
  <2>1. PICK u \in run : run' = {[u EXCEPT !.step = "claimed"]}
    BY <1>6 DEF Claim
  <2>2. UNCHANGED <<row, grabbed, adding, astray>>
    BY <1>6 DEF Claim
  <2>3. \A v \in run' : v.step = "claimed" /\ v.batch = u.batch
    BY <1>0, <2>1 DEF Run
  <2>4. \A r \in Recipient : SameStatus(r)
    BY <1>6, ClaimsChange
  <2>5. \A r \in Recipient \ astray : PlaceOK(r)'
    BY <1>0, <2>2, <2>3, <2>4, PlaceStays DEF FewerPlaces
  <2>6. NotThere'
    <3>1. \A a \in adding : a.batch \subseteq Recipient
      BY DEF TypeOK, Addition
    <3> QED
      BY <1>0, <2>2, <2>4, <3>1 DEF NotThere, SameStatus
  <2>7. \A g \in grabbed' : doc'[g.rcpt] # NoDoc
    BY <2>2, <2>4 DEF PlacesOK, SameStatus, TypeOK, Grabbed
  <2> QED
    BY <2>2, <2>3, <2>5, <2>6, <2>7 DEF PlacesOK
<1>7. CASE Send
  <2>1. PICK u \in run :
          row' = [row EXCEPT ![u.sat] = [r \in Recipient |->
                    IF r \in u.batch /\ row[u.sat][r] = "none"
                      THEN "working" ELSE row[u.sat][r]]]
    BY <1>7 DEF Send
  <2>2. UNCHANGED <<doc, grabbed, adding, astray>> /\ run' = {} /\ u.sat \in Satellite
    BY <1>0, <1>7 DEF Send, Run
  <2>3. \A s \in Satellite, r \in Recipient :
          row'[s][r] = IF s = u.sat /\ r \in u.batch /\ row[s][r] = "none"
                         THEN "working" ELSE row[s][r]
    BY <2>1, <2>2 DEF TypeOK
  <2>4. ASSUME NEW r \in Recipient \ astray PROVE PlaceOK(r)'
    <3>1. CASE r \notin u.batch
      <4>1. SameStatus(r) /\ FewerPlaces(r)
        BY <2>2, <2>3, <3>1 DEF SameStatus, FewerPlaces
      <4> QED
        BY <1>0, <4>1, PlaceStays
    <3>2. CASE r \in u.batch
      <4>1. Unsettled(doc[r]) /\ ~Somewhere(r)
        BY <1>0, <3>2 DEF PlaceOK
      <4>2. \A s \in Satellite : row'[s][r] = IF s = u.sat THEN "working" ELSE "none"
        BY <2>3, <3>2, <4>1 DEF Somewhere
      <4>3. \A g \in grabbed' : g.rcpt # r
        BY <2>2, <4>1 DEF Somewhere
      <4>4. RowsOK(r)'
        BY <2>2, <4>1, <4>2 DEF RowsOK, Agrees, Unsettled, DsnFirst
      <4> QED
        BY <2>2, <4>3, <4>4 DEF PlaceOK
    <3> QED
      BY <3>1, <3>2
  <2> QED
    BY <1>1, <2>2, <2>4 DEF PlacesOK
<1> QED
  BY <1>3, <1>4, <1>5, <1>6, <1>7 DEF Task

(* A report of r is stored, or its document changes otherwise.             *)
LEMMA ReportStored ==
  ASSUME TypeOK, StoreReport
  PROVE  \E g \in grabbed :
           /\ g.rcpt \in Recipient /\ g.sat \in Satellite
           /\ g.copy \in Document /\ g.outcome \in Reported
           /\ \A r \in Recipient : r # g.rcpt \/ DsnFirst(g.copy) => doc'[r] = doc[r]
           /\ ~DsnFirst(g.copy) =>
                /\ doc'[g.rcpt] \in Document /\ doc'[g.rcpt].status = g.outcome
                /\ doc'[g.rcpt].inProgress = FALSE
                /\ doc'[g.rcpt].dsn = g.copy.dsn
           /\ \A s \in Satellite, r \in Recipient :
                row'[s][r] = IF s = g.sat /\ r = g.rcpt /\ row[s][r] # "none"
                               THEN g.outcome ELSE row[s][r]
           /\ counted' = Plus(counted, Delta(g.copy, g.outcome))
<1>1. PICK g \in grabbed :
        /\ doc' = IF DsnFirst(g.copy) THEN doc
                  ELSE [doc EXCEPT ![g.rcpt] =
                          [g.copy EXCEPT !.status = g.outcome, !.inProgress = FALSE,
                                         !.client = g.sat]]
        /\ counted' = Plus(counted, Delta(g.copy, g.outcome))
        /\ row' = [row EXCEPT ![g.sat][g.rcpt] =
                     IF @ = "none" THEN "none" ELSE g.outcome]
  BY DEF StoreReport
<1>2. /\ g.rcpt \in Recipient /\ g.copy \in Document
      /\ g.sat \in Satellite /\ g.outcome \in Reported
  BY DEF TypeOK, Grabbed
<1> DEFINE d == [g.copy EXCEPT !.status = g.outcome, !.inProgress = FALSE,
                               !.client = g.sat]
<1>3. d \in Document /\ d.status = g.outcome /\ d.inProgress = FALSE /\ d.dsn = g.copy.dsn
  BY <1>2 DEF Document, Pending, Final, Reported
<1>4. doc' = IF DsnFirst(g.copy) THEN doc ELSE [doc EXCEPT ![g.rcpt] = d]
  BY <1>1
<1> HIDE DEF d
<1>5. \A r \in Recipient : doc'[r] = IF r = g.rcpt /\ ~DsnFirst(g.copy) THEN d ELSE doc[r]
  BY <1>2, <1>4 DEF TypeOK
<1>6. \A s \in Satellite, r \in Recipient :
        row'[s][r] = IF s = g.sat /\ r = g.rcpt /\ row[s][r] # "none"
                       THEN g.outcome ELSE row[s][r]
  BY <1>1, <1>2 DEF TypeOK
<1> QED
  BY <1>1, <1>2, <1>3, <1>5, <1>6

LEMMA DsnStored ==
  ASSUME TypeOK, NEW r \in Recipient, StoreDsn(r)
  PROVE  /\ doc[r] \in Document /\ doc'[r] \in Document
         /\ doc'[r].status = "ERROR" /\ DsnFirst(doc'[r])
         /\ doc'[r].inProgress = doc[r].inProgress /\ doc'[r].client = doc[r].client
         /\ \A q \in Recipient : q # r => doc'[q] = doc[q]
<1> DEFINE d == [doc[r] EXCEPT !.status = "ERROR", !.dsn = TRUE]
<1>1. doc[r] \in Document
  BY DEF StoreDsn, TypeOK
<1>2. /\ d \in Document /\ d.status = "ERROR" /\ DsnFirst(d)
      /\ d.inProgress = doc[r].inProgress /\ d.client = doc[r].client
  BY <1>1 DEF Document, DsnFirst, Pending, Final
<1>3. doc' = [doc EXCEPT ![r] = d]
  BY <1>1 DEF StoreDsn, TypeOK
<1> HIDE DEF d
<1>4. \A q \in Recipient : doc'[q] = IF q = r THEN d ELSE doc[q]
  BY <1>3 DEF TypeOK
<1> QED
  BY <1>1, <1>2, <1>4

LEMMA BatchInserted ==
  ASSUME TypeOK, NotThere, Insert
  PROVE  \E a \in adding :
           /\ a.batch \subseteq Recipient
           /\ \A r \in a.batch : doc[r] = NoDoc /\ doc'[r] = NewDoc
           /\ \A r \in Recipient \ a.batch : doc'[r] = doc[r]
           /\ Ending => late' = late \cup a.batch
           /\ NotThere'
<1>1. PICK a \in adding :
        /\ a.step = "checked"
        /\ doc' = [r \in Recipient |-> IF r \in a.batch THEN NewDoc ELSE doc[r]]
        /\ adding' = {[a EXCEPT !.step = "inserted"]}
        /\ late' = IF Ending THEN late \cup a.batch ELSE late
  BY DEF Insert
<1>2. a \in Addition /\ a.batch \subseteq Recipient
  BY DEF TypeOK, Addition
<1>3. NotThere'
  BY <1>1, <1>2 DEF NotThere, Addition
<1>4. \A r \in a.batch : doc[r] = NoDoc
  BY <1>1 DEF NotThere
<1> QED
  BY <1>1, <1>2, <1>3, <1>4

LEMMA GrabbedStay ==
  ASSUME TypeOK, PlacesOK, PlaceStep
  PROVE  \A g \in grabbed' : doc'[g.rcpt] # NoDoc
<1> USE DEF satVars, historyVars, countVars, reactorVars
<1>0. \A g \in grabbed : g.rcpt \in Recipient /\ doc[g.rcpt] # NoDoc
  BY DEF TypeOK, Grabbed, PlacesOK
<1>1. ASSUME grabbed' \subseteq grabbed,
             \A r \in Recipient : doc[r] # NoDoc => doc'[r] # NoDoc
      PROVE  \A g \in grabbed' : doc'[g.rcpt] # NoDoc
  BY <1>0, <1>1
<1>2. CASE UNCHANGED <<doc, grabbed>>
  BY <1>1, <1>2
<1>3. CASE Insert
  <2>1. PICK a \in adding :
          /\ \A r \in a.batch : doc[r] = NoDoc /\ doc'[r] = NewDoc
          /\ \A r \in Recipient \ a.batch : doc'[r] = doc[r]
    BY <1>3, BatchInserted DEF PlacesOK
  <2> QED
    BY <1>1, <1>3, <2>1 DEF Insert
<1>4. ASSUME NEW r \in Recipient, StoreDsn(r)
      PROVE  \A g \in grabbed' : doc'[g.rcpt] # NoDoc
  <2>1. doc'[r] # NoDoc /\ \A q \in Recipient : q # r => doc'[q] = doc[q]
    BY <1>4, DsnStored, DocumentStatus
  <2> QED
    BY <1>1, <1>4, <2>1 DEF StoreDsn
<1>5. CASE Claim \/ \E r \in Recipient : CheckOrphans(r)
  BY <1>1, <1>5, ClaimsChange DEF SameStatus, Claim, CheckOrphans
<1>6. ASSUME NEW s \in Satellite, NEW r \in Recipient, NEW o \in Reported,
             GrabReport(s, r, o)
      PROVE  \A g \in grabbed' : doc'[g.rcpt] # NoDoc
  BY <1>0, <1>6 DEF GrabReport
<1>7. CASE StoreReport \/ FailToStore \/ RestartMaster
  BY <1>7 DEF StoreReport, FailToStore, RestartMaster
<1>8. CASE Task /\ ~Claim
  BY <1>2, <1>8 DEF Task, ReadMailing, ChooseRecipients, StartRunning, Send
<1>9. CASE UNCHANGED Places \/ CheckAddition \/ CountAddition \/ Obey
  BY <1>2, <1>9 DEF Places, CheckAddition, CountAddition, Obey
<1>10. ASSUME NEW s \in Satellite, NEW r \in Recipient, Forget(s, r) \/ ReceiveAnswer(s, r)
       PROVE  \A g \in grabbed' : doc'[g.rcpt] # NoDoc
  BY <1>2, <1>10 DEF Forget, ReceiveAnswer
<1> QED
  BY <1>3, <1>4, <1>5, <1>6, <1>7, <1>8, <1>9, <1>10 DEF PlaceStep, Adding, Rows

LEMMA PlacesStay ==
  ASSUME TypeOK, PlacesOK, PlaceStep, ~scenario.dsnsCross
  PROVE  PlacesOK'
<1> USE DEF satVars, historyVars, countVars, reactorVars
<1>0. /\ NotThere /\ \A r \in Recipient \ astray : PlaceOK(r)
      /\ \A u \in run : u.step = "read" => u.batch = {}
      /\ \A a \in adding : a.batch \subseteq Recipient
  BY DEF TypeOK, PlacesOK, Addition
<1>1. ASSUME UNCHANGED <<run, astray>> \/ (run' = {} /\ UNCHANGED astray), NotThere',
             \A r \in Recipient \ astray : PlaceOK(r)'
      PROVE  PlacesOK'
  BY <1>0, <1>1, GrabbedStay DEF PlacesOK
<1>2. ASSUME UNCHANGED <<run, adding, astray>> \/ (run' = {} /\ adding' \subseteq adding
                                                   /\ UNCHANGED astray),
             \A r \in Recipient : SameStatus(r) /\ FewerPlaces(r)
      PROVE  PlacesOK'
  <2>1. NotThere'
    BY <1>0, <1>2 DEF NotThere, SameStatus
  <2> QED
    BY <1>0, <1>1, <1>2, <2>1, PlaceStays
<1>3. ASSUME UNCHANGED <<doc, row, grabbed>> PROVE \A r \in Recipient : SameStatus(r)
  BY <1>3 DEF SameStatus
<1>4. CASE UNCHANGED Places
  BY <1>2, <1>4 DEF Places, SameStatus, FewerPlaces
<1>5. CASE CheckAddition \/ CountAddition
  <2>1. UNCHANGED <<doc, row, grabbed, run, astray>>
    BY <1>5 DEF CheckAddition, CountAddition
  <2>2. NotThere'
    BY <1>0, <1>5, <2>1 DEF CheckAddition, CountAddition, NotThere
  <2>3. \A r \in Recipient : SameStatus(r) /\ FewerPlaces(r)
    BY <2>1 DEF SameStatus, FewerPlaces
  <2> QED
    BY <1>0, <1>1, <2>1, <2>2, <2>3, PlaceStays
<1>6. CASE Insert
  <2>1. PICK a \in adding :
          /\ \A r \in a.batch : doc[r] = NoDoc /\ doc'[r] = NewDoc
          /\ \A r \in Recipient \ a.batch : doc'[r] = doc[r]
          /\ NotThere'
    BY <1>0, <1>6, BatchInserted
  <2>2. UNCHANGED <<row, grabbed, run, astray>>
    BY <1>6 DEF Insert
  <2>3. ASSUME NEW r \in Recipient \ astray PROVE PlaceOK(r)'
    <3>1. CASE r \notin a.batch
      <4>1. SameStatus(r) /\ FewerPlaces(r)
        BY <2>1, <2>2, <3>1 DEF SameStatus, FewerPlaces
      <4> QED
        BY <1>0, <4>1, PlaceStays
    <3>2. CASE r \in a.batch
      <4>1. /\ ~Unsettled(doc[r]) /\ ~DsnFirst(doc[r]) /\ doc[r].status = "NONE"
        BY <2>1, <3>2 DEF NoDoc, Unsettled, DsnFirst, Pending
      <4>2. \A s \in Satellite : row[s][r] = "none"
        BY <1>0, <4>1 DEF PlaceOK, RowsOK, Agrees, Pending, TypeOK, Row, Reported
      <4>3. \A g \in grabbed : g.rcpt # r
        BY <1>0, <2>1, <3>2 DEF PlaceOK, ReportOK, Fresh
      <4>4. \A u \in run : r \notin u.batch
        BY <1>0, <4>1 DEF PlaceOK
      <4> QED
        BY <2>2, <4>2, <4>3, <4>4 DEF PlaceOK, RowsOK
    <3> QED
      BY <3>1, <3>2
  <2> QED
    BY <1>1, <2>1, <2>2, <2>3
<1>7. CASE Obey
  <2>1. PICK dropped :
          row' = [s \in Satellite |-> [r \in Recipient |->
                    IF <<s, r>> \in dropped THEN "none" ELSE row[s][r]]]
    BY <1>7 DEF Obey
  <2>2. UNCHANGED <<doc, grabbed, run, adding, astray>>
    BY <1>7 DEF Obey
  <2>3. \A r \in Recipient : SameStatus(r) /\ FewerPlaces(r)
    BY <2>1, <2>2 DEF SameStatus, FewerPlaces
  <2> QED
    BY <1>2, <2>2, <2>3
<1>8. ASSUME NEW s \in Satellite, NEW r \in Recipient, Forget(s, r) \/ ReceiveAnswer(s, r)
      PROVE  PlacesOK'
  <2>1. row' = [row EXCEPT ![s][r] = "none"]
    BY <1>8 DEF Forget, ReceiveAnswer, Drop
  <2>2. UNCHANGED <<doc, grabbed, run, adding, astray>>
    BY <1>8 DEF Forget, ReceiveAnswer
  <2>3. \A t \in Satellite, q \in Recipient : row'[t][q] # "none" => row'[t][q] = row[t][q]
    BY <2>1 DEF TypeOK
  <2>4. \A q \in Recipient : SameStatus(q) /\ FewerPlaces(q)
    BY <2>2, <2>3 DEF SameStatus, FewerPlaces
  <2> QED
    BY <1>2, <2>2, <2>4
<1>9. ASSUME NEW s \in Satellite, NEW r \in Recipient, NEW o \in Reported,
             GrabReport(s, r, o)
      PROVE  PlacesOK'
  <2>1. UNCHANGED <<doc, run, adding, astray>> /\ MayReport(s, r, o) /\ grabbed = {}
    BY <1>9 DEF GrabReport
  <2>2. row[s][r] # "none"
    BY <2>1 DEF MayReport, Reported
  <2>3. \A t \in Satellite, q \in Recipient : q # r => row'[t][q] = row[t][q]
    BY <1>9 DEF GrabReport, TypeOK
  <2>4. \A g \in grabbed' : g.rcpt = r
    BY <1>9 DEF GrabReport
  <2>5. ASSUME NEW q \in Recipient \ astray, q # r PROVE PlaceOK(q)'
    <3>1. SameStatus(q) /\ FewerPlaces(q)
      BY <2>1, <2>3, <2>4, <2>5 DEF SameStatus, FewerPlaces
    <3> QED
      BY <1>0, <3>1, PlaceStays
  <2>6. ASSUME r \notin astray PROVE PlaceOK(r)'
    <3>1. PlaceOK(r) /\ Agrees(row[s][r], doc[r])
      BY <1>0, <2>2, <2>6 DEF PlaceOK, RowsOK
    <3>2. doc[r] # NoDoc
      BY <2>2, <3>1 DEF Agrees, NoDoc, DsnFirst, Pending, TypeOK, Row, Reported
    <3>0. PICK g : g = [sat |-> s, rcpt |-> r, outcome |-> o, copy |-> doc[r]]
      OBVIOUS
    <3>3. grabbed' = {g} /\ UNCHANGED row
      BY <1>9, <3>0, <3>2 DEF GrabReport
    <3>4. g.sat = s /\ g.rcpt = r /\ g.outcome = o /\ g.copy = doc[r]
      BY <3>0
    <3>5. Unsettled(doc[r]) \/ o = doc[r].status
      BY <2>1, <3>1 DEF MayReport, Agrees, Unsettled, Reported, TypeOK, Document,
         NoDoc, Pending, Final
    <3>6. \A t \in Satellite : row[t][r] # "none" => t = s
      BY <2>2, <3>1 DEF PlaceOK, RowsOK
    <3>7. Unsettled(g.copy) \/ g.outcome = g.copy.status
      BY <3>4, <3>5
    <3>8. ReportOK(g)'
      BY <2>1, <3>2, <3>3, <3>4, <3>6, <3>7 DEF ReportOK, Fresh, Unsettled, DsnFirst
    <3>9. RowsOK(r)'
      BY <2>1, <3>1, <3>3 DEF PlaceOK, RowsOK, Agrees, DsnFirst
    <3>10. \A u \in run : r \notin u.batch
      BY <2>2, <3>1 DEF PlaceOK, Somewhere
    <3> QED
      BY <2>1, <3>3, <3>8, <3>9, <3>10 DEF PlaceOK
  <2>7. NotThere'
    BY <1>0, <2>1 DEF NotThere
  <2> QED
    BY <1>1, <2>1, <2>5, <2>6, <2>7
<1>10. CASE StoreReport
  <2>1. PICK g \in grabbed :
          /\ g.rcpt \in Recipient /\ g.sat \in Satellite
          /\ g.copy \in Document /\ g.outcome \in Reported
          /\ \A r \in Recipient : r # g.rcpt \/ DsnFirst(g.copy) => doc'[r] = doc[r]
          /\ ~DsnFirst(g.copy) =>
               /\ doc'[g.rcpt] \in Document /\ doc'[g.rcpt].status = g.outcome
          /\ \A s \in Satellite, r \in Recipient :
               row'[s][r] = IF s = g.sat /\ r = g.rcpt /\ row[s][r] # "none"
                              THEN g.outcome ELSE row[s][r]
    BY <1>10, ReportStored
  <2>2. UNCHANGED <<run, adding, astray>> /\ grabbed' = {}
    BY <1>10 DEF StoreReport
  <2>3. ASSUME NEW q \in Recipient \ astray, q # g.rcpt PROVE PlaceOK(q)'
    <3>1. SameStatus(q) /\ FewerPlaces(q)
      BY <2>1, <2>2, <2>3 DEF SameStatus, FewerPlaces
    <3> QED
      BY <1>0, <3>1, PlaceStays
  <2>4. ASSUME g.rcpt \notin astray PROVE PlaceOK(g.rcpt)'
    <3>1. PlaceOK(g.rcpt) /\ ReportOK(g)
      BY <1>0, <2>1, <2>4 DEF PlaceOK
    <3>2. \A s \in Satellite :
            row'[s][g.rcpt] # "none" => s = g.sat /\ row'[s][g.rcpt] = g.outcome
      BY <2>1, <3>1 DEF ReportOK
    <3>3. DsnFirst(g.copy) => DsnFirst(doc'[g.rcpt])
      BY <2>1, <3>1 DEF ReportOK, Fresh, DsnFirst
    <3>4. RowsOK(g.rcpt)'
      BY <2>1, <3>2, <3>3 DEF RowsOK, Agrees, DsnFirst
    <3>5. \A u \in run : g.rcpt \notin u.batch
      BY <3>1 DEF PlaceOK, Somewhere
    <3> QED
      BY <2>2, <3>4, <3>5 DEF PlaceOK
  <2>5. NotThere'
    <3>1. ASSUME NEW a \in adding, a.step = "checked", NEW r \in a.batch
          PROVE  doc'[r] = NoDoc
      <4>1. doc[r] = NoDoc /\ r \in Recipient
        BY <1>0, <3>1 DEF NotThere
      <4>2. CASE r # g.rcpt
        BY <2>1, <4>1, <4>2
      <4>3. r # g.rcpt
        BY <4>1 DEF PlacesOK
      <4> QED
        BY <4>2, <4>3
    <3> QED
      BY <2>2, <3>1 DEF NotThere
  <2> QED
    BY <1>1, <2>2, <2>3, <2>4, <2>5
<1>11. CASE FailToStore \/ RestartMaster
  <2>1. UNCHANGED <<doc, row, astray>> /\ grabbed' = {}
    BY <1>11 DEF FailToStore, RestartMaster
  <2>2. UNCHANGED <<run, adding>> \/ (run' = {} /\ adding' = {})
    BY <1>11 DEF FailToStore, RestartMaster
  <2>3. \A r \in Recipient : SameStatus(r) /\ FewerPlaces(r)
    BY <2>1, <2>2 DEF SameStatus, FewerPlaces
  <2> QED
    BY <1>2, <2>1, <2>2, <2>3
<1>12. ASSUME NEW r \in Recipient, CheckOrphans(r) PROVE PlacesOK'
  <2>1. UNCHANGED <<row, grabbed, run, adding, astray>>
    BY <1>12 DEF CheckOrphans
  <2>2. \A q \in Recipient : SameStatus(q)
    BY <1>12, ClaimsChange
  <2> QED
    BY <1>2, <2>1, <2>2 DEF FewerPlaces
<1>13. ASSUME NEW r \in Recipient, StoreDsn(r) PROVE PlacesOK'
  <2>1. UNCHANGED <<row, grabbed, run, adding, astray>> /\ \A g \in grabbed : g.rcpt # r
    BY <1>13 DEF StoreDsn
  <2>2. /\ doc[r] # NoDoc /\ DsnFirst(doc'[r])
        /\ \A q \in Recipient : q # r => doc'[q] = doc[q]
    BY <1>13, DsnStored DEF StoreDsn
  <2>3. ASSUME NEW q \in Recipient \ astray, q # r PROVE PlaceOK(q)'
    <3>1. SameStatus(q) /\ FewerPlaces(q)
      BY <2>1, <2>2, <2>3 DEF SameStatus, FewerPlaces
    <3> QED
      BY <1>0, <3>1, PlaceStays
  <2>4. r \notin astray => PlaceOK(r)'
    BY <1>0, <2>1, <2>2 DEF PlaceOK, RowsOK, Agrees, Unsettled, Somewhere
  <2>5. NotThere'
    BY <1>0, <2>1, <2>2 DEF NotThere
  <2> QED
    BY <1>1, <2>1, <2>3, <2>4, <2>5
<1> QED
  BY <1>4, <1>5, <1>6, <1>7, <1>8, <1>9, <1>10, <1>11, <1>12, <1>13, TaskPlaces
  DEF PlaceStep, Adding, Rows

(* In a mailing that is ending nobody becomes unhandled.                   *)
LEMMA HandledStay ==
  ASSUME TypeOK, PlacesOK, PlaceStep, Ending,
         \A r \in Existing \ (late \cup astray) : Handled(r)
  PROVE  \A r \in Existing' \ (late' \cup astray') : Handled(r)'
<1> USE DEF satVars, historyVars, countVars, reactorVars
<1>1. ASSUME \A r \in Recipient : SameStatus(r), late \subseteq late',
             astray \subseteq astray'
      PROVE  \A r \in Existing' \ (late' \cup astray') : Handled(r)'
  BY <1>1 DEF SameStatus, Handled, Existing
<1>2. ASSUME UNCHANGED doc PROVE \A r \in Recipient : SameStatus(r)
  BY <1>2 DEF SameStatus
<1>3. CASE UNCHANGED Places \/ CheckAddition \/ CountAddition \/ Obey \/ RestartMaster
           \/ FailToStore
  BY <1>1, <1>2, <1>3 DEF Places, CheckAddition, CountAddition, Obey, RestartMaster,
     FailToStore
<1>4. CASE Rows
  BY <1>1, <1>2, <1>4 DEF Rows, Forget, ReceiveAnswer, GrabReport
<1>5. CASE Insert
  <2>1. PICK a \in adding :
          /\ \A r \in Recipient \ a.batch : doc'[r] = doc[r]
          /\ late' = late \cup a.batch
    BY <1>5, BatchInserted DEF PlacesOK
  <2>2. UNCHANGED astray
    BY <1>5 DEF Insert
  <2> QED
    BY <2>1, <2>2 DEF Handled, Existing
<1>6. CASE Claim \/ \E r \in Recipient : CheckOrphans(r)
  BY <1>1, <1>6, ClaimsChange DEF Claim, CheckOrphans
<1>7. CASE Task /\ ~Claim
  BY <1>1, <1>2, <1>7 DEF Task, ReadMailing, ChooseRecipients, StartRunning, Send
<1>8. CASE StoreReport
  <2>1. PICK g \in grabbed :
          /\ g.rcpt \in Recipient
          /\ \A r \in Recipient : r # g.rcpt \/ DsnFirst(g.copy) => doc'[r] = doc[r]
          /\ ~DsnFirst(g.copy) => doc'[g.rcpt].status = g.outcome
    BY <1>8, ReportStored
  <2>2. UNCHANGED <<late, astray>>
    BY <1>8 DEF StoreReport
  <2>3. ASSUME g.rcpt \notin late \cup astray, ~DsnFirst(g.copy)
        PROVE  g.outcome \in {"FINISHED", "ERROR"}
    <3>1. ReportOK(g)
      BY <2>1, <2>3 DEF PlacesOK, PlaceOK
    <3>2. Handled(g.rcpt)
      BY <2>1, <2>3, <3>1 DEF ReportOK, Fresh, Existing
    <3> QED
      BY <2>3, <3>1, <3>2 DEF ReportOK, Fresh, Unsettled, Handled, Pending
  <2> QED
    BY <2>1, <2>2, <2>3 DEF Handled, Existing
<1>9. ASSUME NEW r \in Recipient, StoreDsn(r)
      PROVE  \A q \in Existing' \ (late' \cup astray') : Handled(q)'
  <2>1. /\ doc'[r].status = "ERROR"
        /\ \A q \in Recipient : q # r => doc'[q] = doc[q]
    BY <1>9, DsnStored
  <2>2. UNCHANGED <<late, astray>>
    BY <1>9 DEF StoreDsn
  <2> QED
    BY <2>1, <2>2 DEF Handled, Existing
<1> QED
  BY <1>3, <1>4, <1>5, <1>6, <1>7, <1>8, <1>9 DEF PlaceStep, Adding

LEMMA EverybodyHandled ==
  ASSUME TypeOK, NoCalls, Unfinished = {}, NEW k \in Closer, LookForUnfinished(k)
  PROVE  \A r \in Existing' \ (late' \cup astray') : Handled(r)'
<1> USE DEF satVars, historyVars, countVars, reactorVars
<1>1. UNCHANGED <<doc, late, astray>>
  BY DEF LookForUnfinished
<1>2. ASSUME NEW r \in Existing PROVE Handled(r)
  <2>1. doc[r].status \in Final \ {"TIMEOUT"}
    BY DEF Unfinished, Existing, TypeOK, Document, NoCalls
  <2> QED
    BY <2>1 DEF Handled, Final
<1> QED
  BY <1>1, <1>2 DEF Handled, Existing

LEMMA InvariantStays ==
  ASSUME TypeOK, TypeOK', ControlInv, [Next]_vars
  PROVE  ControlInv'
<1>1. SessionsOK' /\ Bounded'
  BY StepKeepsSessions, BudgetsFall DEF ControlInv
<1>2. ASSUME Calm' PROVE (NoCalls /\ PlacesOK /\ AllHandled)'
  <2>1. Calm /\ \A e \in Calls : ~Spend(e)
    BY <1>2, BudgetsFall DEF ControlInv
  <2>2. NoCalls /\ PlacesOK /\ AllHandled
    BY <2>1 DEF ControlInv, CalmInv
  <2>3. NoCalls'
    BY <1>2, <2>1, <2>2, NoCallsStays DEF ControlInv
  <2>4. PlaceStep /\ ~scenario.dsnsCross
    BY <2>1, <2>2, PlacesElse DEF ControlInv, NoCalls
  <2>5. PlacesOK'
    BY <2>2, <2>4, PlacesStay
  <2>6. ASSUME Ending' PROVE \A r \in Existing' \ (late' \cup astray') : Handled(r)'
    <3>1. CASE Ending
      BY <2>2, <2>4, <3>1, HandledStay DEF AllHandled
    <3>2. CASE ~Ending
      <4>1. PICK k \in Closer : LookForUnfinished(k) /\ Unfinished = {}
        BY <2>1, <2>2, <2>3, <2>6, <3>2, EndingBefore DEF ControlInv
      <4> QED
        BY <2>2, <4>1, EverybodyHandled
    <3> QED
      BY <3>1, <3>2
  <2> QED
    BY <2>3, <2>5, <2>6 DEF AllHandled
<1> QED
  BY <1>1, <1>2 DEF ControlInv, CalmInv

(* A mailing that ends by itself leaves nobody behind, though it is looked *)
(* at and closed in two steps, by two tasks, and recipients are added,     *)
(* claimed, reported and bounce meanwhile, reports are repeated or fail,   *)
(* satellites are away and the master stops: everyone who was there when   *)
(* it was found to be over was sent or failed, and stays so, unless it was *)
(* chosen while a satellite had it still.                                  *)
THEOREM NobodyIsStranded == Spec => []NobodyStranded
<1>1. Init => ControlInv
  <2> SUFFICES ASSUME Init PROVE ControlInv
    OBVIOUS
  <2>1. budget \in [Event -> Nat] /\ budget = scenario.events
    BY ControlAssumption DEF Init, Scenario
  <2>2. SessionsOK /\ Bounded
    BY <2>1 DEF Init, SessionsOK, Bounded
  <2>3. \A r \in Recipient : doc[r] = NoDoc
    BY DEF Init
  <2>4. Calm => NoCalls
    BY <2>3 DEF Init, Calm, NoCalls, NoDoc
  <2>5. PlacesOK
    BY <2>3 DEF Init, PlacesOK, NotThere, PlaceOK, RowsOK
  <2>6. AllHandled
    BY <2>3 DEF Init, AllHandled, Existing
  <2> QED
    BY <2>2, <2>4, <2>5, <2>6 DEF ControlInv, CalmInv
<1>2. TypeOK /\ TypeOK' /\ ControlInv /\ [Next]_vars => ControlInv'
  BY InvariantStays
<1>3. TypeOK /\ ControlInv => NobodyStranded
  BY DEF ControlInv, CalmInv, Calm, Calls, AllHandled, Handled, Ending, NobodyStranded
<1> QED
  BY <1>1, <1>2, <1>3, ControlTyped, PTL DEF Spec

-----------------------------------------------------------------------------
(* The counters.  Unless one of these events happened or DSNs cross saves, *)
(* ...                                                                     *)
Spoilers == {"pause", "reset", "limit", "stop", "repeat", "away", "failure"}
Quiet == ~scenario.dsnsCross /\ Unused(Spoilers)

(* ... nothing is paused, and nobody's time is up.  One session is in the  *)
(* reactor, which is where calls save what they read; in a thread a close  *)
(* goes on.                                                                *)
NoPause ==
  /\ mailing.status # "PAUSED"
  /\ \A x \in sessions : /\ x.op # "pause" /\ x.copy.status # "PAUSED"
                         /\ x.op = "start" => x.copy.status = "FILLING"
  /\ \A k \in Closer : closer[k] # "overdue"
OneInReactor ==
  /\ \A x, y \in sessions : x.home = "reactor" /\ y.home = "reactor" => x = y
  /\ \A x \in sessions : x.home = "thread" => x.op \in {"close", "pause"}
                                              /\ x.step # "save"

(* A mailing is in use until it was closed, and removed only after that.   *)
InUse(m) == m # NoMailing /\ m.ended = FALSE
EndsMarked ==
  \A x \in sessions :
    /\ x.step = "keep" => x.copy.ended = TRUE
    /\ x.step \in {"empty", "drop"} => x.op = "delete"
    /\ x.step = "release" => x.op = "pause"
    /\ x.op = "delete" /\ x.step \in {"tell", "empty", "drop"} => ~InUse(mailing)

(* The documents of the mailing: the one stored and what a call may save.  *)
ToSave == {x \in sessions : x.step = "save" /\ x.op # "start"}
Versions == {m \in {mailing} \cup {x.copy : x \in ToSave} : InUse(m)}

(* As long as one of them is in use, who is claimed is pending or bounced, *)
(* a satellite works on what it claimed only, the reports thread has the   *)
(* status of what it read, and what was chosen is nowhere until it is sent.*)
ChosenOK(u, r) ==
  /\ doc[r] # NoDoc /\ Unsettled(doc[r])
  /\ doc[r].inProgress <=> u.step = "claimed"
  /\ u.step = "claimed" => doc[r].client = u.sat
  /\ \A s \in Satellite : row[s][r] # "working"
  /\ \A g \in grabbed : g.rcpt # r
ClaimedBy(s, r) == doc[r].inProgress /\ doc[r].client = s
ClaimOK(r) ==
  /\ doc[r].inProgress => Unsettled(doc[r])
  /\ \A s \in Satellite : row[s][r] = "working" => ClaimedBy(s, r)
  /\ \A g \in grabbed : g.rcpt = r => Fresh(g) /\ ClaimedBy(g.sat, r)
  /\ \A u \in run : r \in u.batch => ChosenOK(u, r)
ClaimsOK ==
  /\ NotThere /\ \A u \in run : u.step = "read" => u.batch = {}
  /\ Unused({"dsn", "unsent"}) => \A g \in grabbed : g.outcome # "READY"
  /\ \A r \in Recipient : ClaimOK(r)

(* Each of them is exact, so it does not matter which is saved.            *)
Exact(c) ==
  LET all == Plus(c, Plus(counted, noticed)) IN
  /\ all.total + AddedNotCounted = Cardinality(Existing)
  /\ all.pending + AddedNotCounted = Cardinality(OfStatus(Pending))
  /\ all.sent = Cardinality(OfStatus({"FINISHED"}))
  /\ all.error = Cardinality(OfStatus({"ERROR"}))
  /\ Unused({"dsn", "unsent"}) => all.soft = Cardinality(OfStatus({"WARNING"}))

OneAddition == \A a, b \in adding : a = b

ExactInv ==
  Versions # {} => ClaimsOK /\ \A m \in Versions : Exact(m.count)
CountInv ==
  /\ OneInReactor /\ OneAddition
  /\ Quiet => NoPause /\ EndsMarked /\ ExactInv

(* Spoilers are spent for good.                                            *)
LEMMA QuietBefore ==
  ASSUME TypeOK, Bounded, [Next]_vars
  PROVE  /\ UNCHANGED scenario
         /\ Quiet' => Quiet /\ \A e \in Spoilers : ~Spend(e)
         /\ Unused({"dsn", "unsent"})' =>
              Unused({"dsn", "unsent"}) /\ ~Spend("dsn") /\ ~Spend("unsent")
<1>1. /\ \A e \in Event : budget[e] \in Nat /\ scenario.events[e] \in Nat
      /\ budget \in [Event -> Nat]
  BY ControlAssumption DEF TypeOK, Scenario
<1>2. \A e \in Event : budget'[e] <= budget[e]
  BY <1>1, Spends DEF Spend
<1>3. \A e \in Event : Spend(e) => budget'[e] = budget[e] - 1
  BY <1>1 DEF Spend
<1>4. \A e \in Event : budget'[e] \in Int
  BY <1>1, Spends DEF Spend
<1>5. scenario' = scenario
  BY Spends
<1>6. Spoilers \subseteq Event /\ "dsn" \in Event /\ "unsent" \in Event
  BY DEF Spoilers, Event
<1>7. \A e \in Event : budget'[e] = scenario.events[e]
                          => budget[e] = scenario.events[e] /\ ~Spend(e)
  BY <1>1, <1>2, <1>3, <1>4 DEF Bounded
<1>8. ASSUME NEW E \in SUBSET Event, Unused(E)'
      PROVE  Unused(E) /\ \A e \in E : ~Spend(e)
  BY <1>5, <1>7, <1>8 DEF Unused
<1>9. Unused(Spoilers)' => Unused(Spoilers) /\ \A e \in Spoilers : ~Spend(e)
  BY <1>6, <1>8
<1>10. Unused({"dsn", "unsent"})' =>
         Unused({"dsn", "unsent"}) /\ \A e \in {"dsn", "unsent"} : ~Spend(e)
  BY <1>6, <1>8
<1> QED
  BY <1>5, <1>9, <1>10 DEF Quiet

(* A session goes on where it was, or in a thread.                         *)
LEMMA OneInReactorStays ==
  ASSUME TypeOK, SessionsOK, OneInReactor, [Next]_vars
  PROVE  OneInReactor'
<1>0. \A x \in sessions : x \in Session
  BY DEF TypeOK
<1>1. CASE UNCHANGED sessions
  BY <1>1 DEF OneInReactor
<1>2. ASSUME NEW y, y.home = "reactor", ReactorFree, sessions' = sessions \cup {y}
      PROVE  OneInReactor'
  BY <1>2 DEF OneInReactor, ReactorFree
<1>3. ASSUME NEW x \in sessions, NEW y, Becomes(x, {y}) \/ Becomes(x, {}),
             \/ y.home = x.home /\ (x.home = "thread" => y.op = x.op /\ y.step # "save")
             \/ y.home = "thread" /\ y.op \in {"close", "pause"} /\ y.step # "save"
      PROVE  OneInReactor'
  BY <1>3 DEF OneInReactor, Becomes
<1>9. ASSUME NEW x \in sessions, Becomes(x, {}) PROVE OneInReactor'
  BY <1>9 DEF OneInReactor, Becomes
<1>4. ASSUME NEW event \in Event, NEW op \in Op, NEW step, Starts(event, op, step)
      PROVE  OneInReactor'
  BY <1>2, <1>4 DEF Starts
<1>5. CASE (\E op \in Op : Call(op)) \/ Purge
  BY <1>4, <1>5 DEF Call, Purge, RpcOp, RestOp, Event, Op
<1>6. ASSUME NEW k \in Closer, EndMailing(k) PROVE OneInReactor'
  BY <1>2, <1>6 DEF EndMailing
<1>7. CASE RestartMaster
  BY <1>7 DEF RestartMaster, OneInReactor
<1>8. CASE SessionStep
  <2>1. CASE SaveCall
    <3>1. PICK x \in sessions :
            /\ x.step = "save"
            /\ SaveStart(x) \/ SavePause(x) \/ SaveClose(x) \/ SaveEdit(x)
      BY <2>1 DEF SaveCall
    <3>2. CASE SaveStart(x) \/ SaveEdit(x)
      BY <1>9, <3>2 DEF SaveStart, SaveEdit
    <3>3. CASE SavePause(x)
      <4>1. PICK m : Becomes(x, {[x EXCEPT !.home = "thread", !.step = "keep", !.copy = m]})
        BY <3>3 DEF SavePause
      <4> DEFINE y == [x EXCEPT !.home = "thread", !.step = "keep", !.copy = m]
      <4>2. y.home = "thread" /\ y.op = "pause" /\ y.step = "keep"
        BY <1>0, <3>3 DEF SavePause, Session
      <4>3. Becomes(x, {y})
        BY <4>1
      <4> HIDE DEF y
      <4> QED
        BY <1>3, <4>2, <4>3
    <3>4. CASE SaveClose(x)
      <4> DEFINE y == [x EXCEPT !.step = "grab",
                                !.home = IF x.op = "close" THEN "thread" ELSE x.home]
      <4>1. Becomes(x, {y})
        BY <3>4 DEF SaveClose
      <4>2. /\ y.op = x.op /\ y.step = "grab"
            /\ y.home = IF x.op = "close" THEN "thread" ELSE x.home
        BY <1>0 DEF Session
      <4> HIDE DEF y
      <4> QED
        BY <1>3, <4>1, <4>2
    <3> QED
      BY <3>1, <3>2, <3>3, <3>4
  <2>2. ASSUME NEW x \in sessions, NEW step \in Step \ {"save"},
               Becomes(x, {[x EXCEPT !.step = step]}) \/ Becomes(x, {})
        PROVE  OneInReactor'
    <3> DEFINE y == [x EXCEPT !.step = step]
    <3>1. y.home = x.home /\ y.op = x.op /\ y.step # "save"
      BY <1>0 DEF Session
    <3> HIDE DEF y
    <3> QED
      BY <1>3, <2>2, <3>1 DEF y
  <2>3. ASSUME NEW x \in sessions, NEW step \in Step \ {"save"}, NEW m,
               Becomes(x, {[x EXCEPT !.step = step, !.copy = m]}) \/ Becomes(x, {})
        PROVE  OneInReactor'
    <3> DEFINE y == [x EXCEPT !.step = step, !.copy = m]
    <3>1. y.home = x.home /\ y.op = x.op /\ y.step # "save"
      BY <1>0 DEF Session
    <3> HIDE DEF y
    <3> QED
      BY <1>3, <2>3, <3>1 DEF y
  <2>4. CASE GrabToClose \/ CountToClose
    BY <2>3, <2>4 DEF GrabToClose, CountToClose, Step
  <2>5. CASE Tell
    <3>1. PICK x \in sessions :
            Becomes(x, CASE x.op = "pause" -> {[x EXCEPT !.step = "release"]}
                         [] x.op = "delete" -> {[x EXCEPT !.step = "empty"]}
                         [] OTHER -> {})
      BY <2>5 DEF Tell
    <3> QED
      BY <2>2, <3>1 DEF Step
  <2>6. CASE Keep \/ Release \/ RemoveRecipients \/ RemoveMailing
    BY <2>2, <2>6 DEF Keep, Release, RemoveRecipients, RemoveMailing, Step
  <2> QED
    BY <1>8, <2>1, <2>4, <2>5, <2>6 DEF SessionStep
<1> QED
  BY <1>1, <1>5, <1>6, <1>7, <1>8, SessionsElse

(* Who saves is alone in the reactor.                                      *)
LEMMA Alone ==
  ASSUME TypeOK, OneInReactor
  PROVE  /\ \A x \in sessions : x.step = "save" => x.home = "reactor"
         /\ \A x \in sessions : x.op \notin {"close", "pause"} => x.home = "reactor"
         /\ ReactorFree => ToSave = {}
         /\ \A x, y \in sessions : x.home = "reactor" /\ y.step = "save" => x = y
BY DEF TypeOK, OneInReactor, Session, ReactorFree, ToSave

LEMMA MailingParts ==
  ASSUME TypeOK
  PROVE  /\ NoMailing.status = "NONE" /\ NoMailing.ended = FALSE
         /\ \A m \in Mailing : m # NoMailing
         /\ mailing # NoMailing => mailing \in Mailing
         /\ \A x \in sessions : x \in Session /\ x.copy \in Mailing
BY DEF TypeOK, NoMailing, Mailing, MailingStatus, Session

(* What changes the mailing, and is no save of a session.                  *)
LEMMA MailingGoesOn ==
  ASSUME TypeOK, [Next]_vars
  PROVE  \/ SessionStep
         \/ UNCHANGED mailing
         \/ mailing # NoMailing /\ mailing' # NoMailing /\ UNCHANGED sessions
            /\ mailing'.ended = mailing.ended
            /\ (mailing'.status = mailing.status \/ mailing'.status = "RUNNING")
            /\ (\/ mailing'.count = mailing.count
                \/ CountAddition \/ CountReports \/ CountDsn)
PROOF
<1> USE DEF satVars, historyVars, countVars, reactorVars
<1>0. mailing # NoMailing => mailing \in Mailing
  BY MailingParts
<1>1. ASSUME NEW d, Increase(d), mailing # NoMailing
      PROVE  /\ mailing' # NoMailing /\ mailing'.ended = mailing.ended
             /\ mailing'.status = mailing.status
  <2> DEFINE c == Plus(mailing.count, d)
  <2>1. mailing' = [mailing EXCEPT !.count = c]
    BY <1>1 DEF Increase
  <2> HIDE DEF c
  <2>2. mailing'.status = mailing.status /\ mailing'.ended = mailing.ended
    BY <1>0, <1>1, <2>1 DEF Mailing
  <2>3. mailing.status # NoMailing.status
    BY <1>0, <1>1 DEF Mailing, MailingStatus, NoMailing
  <2> QED
    BY <2>2, <2>3
<1>2. CASE Reports \/ CountDsn
  BY <1>1, <1>2 DEF Reports, StoreReport, FailToStore, CountReports, CountDsn, Increase
<1>3. CASE Adding
  BY <1>1, <1>3 DEF Adding, CheckAddition, Insert, CountAddition, Increase
<1>4. CASE Task
  <2>1. CASE StartRunning
    <3>1. mailing' = mailing \/
          (mailing # NoMailing
           /\ mailing' = [mailing EXCEPT !.status = "RUNNING", !.started = TRUE])
      BY <2>1 DEF StartRunning, Started
    <3>2. ASSUME mailing # NoMailing,
                 mailing' = [mailing EXCEPT !.status = "RUNNING", !.started = TRUE]
          PROVE  /\ mailing'.status = "RUNNING" /\ mailing'.ended = mailing.ended
                 /\ mailing'.count = mailing.count /\ mailing' # NoMailing
      BY <1>0, <3>2 DEF Mailing, NoMailing
    <3> QED
      BY <2>1, <3>1, <3>2 DEF StartRunning
  <2> QED
    BY <1>4, <2>1 DEF Task, ReadMailing, ChooseRecipients, Claim, Send
<1>5. CASE (\E op \in Op : Call(op)) \/ Purge
  BY <1>5 DEF Call, Purge, Starts
<1>6. CASE (\E k \in Closer : EndMailing(k)) \/ RestartMaster
  BY <1>6 DEF EndMailing, RestartMaster
<1> QED
  BY <1>2, <1>3, <1>4, <1>5, <1>6, SessionsElse

(* Nothing is paused, and what was closed is removed closed.               *)
LEMMA NoPauseStays ==
  ASSUME TypeOK, SessionsOK, OneInReactor, NoPause, EndsMarked, [Next]_vars,
         \A e \in Spoilers : ~Spend(e)
  PROVE  NoPause' /\ EndsMarked'
PROOF
<1> USE DEF satVars, historyVars, countVars, reactorVars
<1>0. /\ \A x \in sessions : /\ x \in Session /\ SessionOK(x) /\ x.copy \in Mailing
                             /\ x.op # "pause" /\ x.copy.status # "PAUSED"
                             /\ x.op = "start" => x.step = "save"
      /\ mailing.status # "PAUSED"
  BY MailingParts DEF SessionsOK, SessionOK, NoPause
<1> DEFINE Closers == \A k \in Closer : closer'[k] # "overdue"
           Good(y) == /\ y.op # "pause" /\ y.copy.status # "PAUSED"
                      /\ y.op = "start" => y.copy.status = "FILLING"
                      /\ y.step = "keep" => y.copy.ended = TRUE
                      /\ y.step \in {"empty", "drop"} => y.op = "delete"
                      /\ y.step # "release"
           Gone(y, m) == y.op = "delete" /\ y.step \in {"tell", "empty", "drop"}
                           => ~InUse(m)
<1>1. Closers
  <2>1. ASSUME NEW k \in Closer, FindMailing(k) \/ Expire(k) \/ LookForUnfinished(k)
                                \/ EndMailing(k)
        PROVE  Closers
    <3>1. \E to \in {"found", "over", "idle"} : closer' = [closer EXCEPT ![k] = to]
      BY <2>1 DEF FindMailing, Expire, LookForUnfinished, EndMailing, Goes, Spoilers
    <3> QED
      BY <3>1 DEF NoPause, TypeOK
  <2>2. CASE ForcePurge
    BY <2>2 DEF ForcePurge, Goes, NoPause, TypeOK, Closer
  <2>3. CASE RestartMaster
    BY <2>3 DEF RestartMaster
  <2>4. CASE UNCHANGED closer
    BY <2>4 DEF NoPause
  <2> QED
    BY <2>1, <2>2, <2>3, <2>4, ClosersElse DEF Closing
<1>2. \A x \in sessions : Good(x) /\ Gone(x, mailing)
  BY <1>0 DEF EndsMarked, NoPause
<1>3. ASSUME mailing'.status # "PAUSED", \A y \in sessions' : Good(y) /\ Gone(y, mailing')
      PROVE  NoPause' /\ EndsMarked'
  BY <1>1, <1>3 DEF NoPause, EndsMarked
<1>4. ASSUME NEW x \in sessions, x.home = "reactor", NEW Y, \A y \in Y : Good(y),
             \A y \in Y : Gone(y, mailing'), Becomes(x, Y),
             mailing'.status # "PAUSED"
      PROVE  NoPause' /\ EndsMarked'
  <2>1. \A y \in sessions \ {x} : y.op # "delete"
    BY <1>4, Alone DEF OneInReactor
  <2> QED
    BY <1>2, <1>3, <1>4, <2>1 DEF Becomes
<1> HIDE DEF Closers
<1>5. ASSUME NEW x \in sessions, NEW Y, \A y \in Y : Good(y) /\ Gone(y, mailing),
             Becomes(x, Y), UNCHANGED mailing
      PROVE  NoPause' /\ EndsMarked'
  BY <1>0, <1>2, <1>3, <1>5 DEF Becomes
<1>6. CASE SessionStep
  <2>1. CASE SaveCall
    <3>1. PICK x \in sessions :
            /\ x.step = "save"
            /\ SaveStart(x) \/ SavePause(x) \/ SaveClose(x) \/ SaveEdit(x)
      BY <2>1 DEF SaveCall
    <3>2. x.home = "reactor"
      BY <3>1, Alone
    <3>3. CASE SaveStart(x)
      <4>1. Resumed(x.copy).status \in {"RUNNING", "READY"}
        BY <1>0 DEF Resumed, Mailing
      <4>2. mailing # NoMailing => Activated(mailing).status = "READY"
        BY MailingParts DEF Activated, Mailing
      <4>3. mailing'.status # "PAUSED" /\ Becomes(x, {})
        BY <1>0, <3>3, <4>1, <4>2 DEF SaveStart, Put
      <4> QED
        BY <1>4, <3>2, <4>3
    <3>4. CASE SaveClose(x)
      <4> DEFINE y == [x EXCEPT !.step = "grab",
                                !.home = IF x.op = "close" THEN "thread" ELSE x.home]
      <4>1. Becomes(x, {y}) /\ mailing' = [x.copy EXCEPT !.status = "FINISHED"]
        BY <3>4 DEF SaveClose, Put
      <4>2. mailing'.status = "FINISHED"
        BY <1>0, <4>1 DEF Mailing
      <4>3. y.op = x.op /\ y.step = "grab" /\ y.copy = x.copy
        BY <1>0 DEF Session
      <4>4. Good(y) /\ Gone(y, mailing')
        BY <1>0, <3>4, <4>3 DEF SaveClose
      <4> HIDE DEF y
      <4> QED
        BY <1>4, <3>2, <4>1, <4>2, <4>4
    <3>5. CASE SaveEdit(x)
      BY <1>0, <1>4, <3>2, <3>5 DEF SaveEdit, Put
    <3>6. ~SavePause(x)
      BY <1>0 DEF SavePause
    <3> QED
      BY <3>1, <3>3, <3>4, <3>5, <3>6
  <2>2. CASE GrabToClose
    <3>1. PICK x \in sessions :
            /\ x.step = "grab"
            /\ Becomes(x, IF mailing = NoMailing THEN {}
                          ELSE {[x EXCEPT !.step = "count", !.copy = mailing]})
      BY <2>2 DEF GrabToClose
    <3> DEFINE y == [x EXCEPT !.step = "count", !.copy = mailing]
    <3>2. y.op = x.op /\ y.step = "count" /\ y.copy = mailing
      BY <1>0 DEF Session
    <3>3. Good(y) /\ Gone(y, mailing)
      BY <1>0, <3>1, <3>2
    <3>4. Becomes(x, {y}) \/ Becomes(x, {})
      BY <3>1
    <3> HIDE DEF y
    <3> QED
      BY <1>5, <2>2, <3>3, <3>4 DEF GrabToClose
  <2>3. CASE CountToClose
    <3>1. PICK x \in sessions :
            /\ x.step = "count"
            /\ Becomes(x, {[x EXCEPT !.step = "keep", !.copy = Closed(x.copy)]})
      BY <2>3 DEF CountToClose
    <3> DEFINE y == [x EXCEPT !.step = "keep", !.copy = Closed(x.copy)]
               c == Recounted(x.copy.count)
    <3>2. y.op = x.op /\ y.step = "keep" /\ y.copy = Closed(x.copy)
      BY <1>0 DEF Session
    <3>3. Closed(x.copy) =
            [x.copy EXCEPT !.status = "FINISHED", !.ended = TRUE, !.count = c]
      BY DEF Closed
    <3> HIDE DEF c
    <3>4. Closed(x.copy).status = "FINISHED" /\ Closed(x.copy).ended = TRUE
      BY <1>0, <3>3 DEF Mailing
    <3> HIDE DEF y
    <3>5. Good(y) /\ Gone(y, mailing)
      BY <1>0, <3>1, <3>2, <3>4
    <3>6. Becomes(x, {y}) /\ UNCHANGED mailing
      BY <2>3, <3>1 DEF CountToClose, y
    <3> QED
      BY <1>5, <3>5, <3>6
  <2>4. CASE Keep
    <3>1. PICK x \in sessions : /\ x.step = "keep" /\ Put(x.copy)
                                /\ Becomes(x, {[x EXCEPT !.step = "tell"]})
      BY <2>4 DEF Keep
    <3> DEFINE y == [x EXCEPT !.step = "tell"]
    <3>2. y.op = x.op /\ y.step = "tell" /\ y.copy = x.copy
      BY <1>0 DEF Session
    <3>3. mailing' = x.copy /\ x.copy.ended = TRUE
      BY <1>2, <3>1 DEF Put
    <3>4. ~InUse(mailing') /\ mailing'.status # "PAUSED"
      BY <1>0, <3>3 DEF InUse
    <3>5. Good(y) /\ Becomes(x, {y})
      BY <1>0, <3>1, <3>2
    <3> HIDE DEF y
    <3> QED
      BY <1>2, <1>3, <3>4, <3>5 DEF Becomes
  <2>5. CASE Tell
    <3>1. PICK x \in sessions :
            /\ x.step = "tell"
            /\ Becomes(x, CASE x.op = "pause" -> {[x EXCEPT !.step = "release"]}
                            [] x.op = "delete" -> {[x EXCEPT !.step = "empty"]}
                            [] OTHER -> {})
      BY <2>5 DEF Tell
    <3> DEFINE y == [x EXCEPT !.step = "empty"]
    <3>2. y.op = x.op /\ y.step = "empty" /\ y.copy = x.copy
      BY <1>0 DEF Session
    <3>3. Becomes(x, {}) \/ (x.op = "delete" /\ Becomes(x, {y}))
      BY <1>0, <3>1
    <3>4. x.op = "delete" => Good(y) /\ Gone(y, mailing)
      BY <1>0, <1>2, <3>1, <3>2
    <3> HIDE DEF y
    <3> QED
      BY <1>5, <2>5, <3>3, <3>4 DEF Tell
  <2>6. CASE RemoveRecipients
    <3>1. PICK x \in sessions :
            x.step = "empty" /\ Becomes(x, {[x EXCEPT !.step = "drop"]})
      BY <2>6 DEF RemoveRecipients
    <3> DEFINE y == [x EXCEPT !.step = "drop"]
    <3>2. y.op = x.op /\ y.step = "drop" /\ y.copy = x.copy
      BY <1>0 DEF Session
    <3>3. Good(y) /\ Gone(y, mailing)
      BY <1>0, <1>2, <3>1, <3>2
    <3>4. Becomes(x, {y})
      BY <3>1
    <3> HIDE DEF y
    <3> QED
      BY <1>5, <2>6, <3>3, <3>4 DEF RemoveRecipients
  <2>7. CASE RemoveMailing
    <3>1. PICK x \in sessions : x.step = "drop" /\ Becomes(x, {})
      BY <2>7 DEF RemoveMailing
    <3>2. x.home = "reactor"
      BY <1>2, <3>1, Alone
    <3>3. mailing'.status # "PAUSED"
      BY <2>7, MailingParts DEF RemoveMailing
    <3> QED
      BY <1>4, <3>1, <3>2, <3>3
  <2>8. ~Release
    BY <1>2 DEF Release
  <2> QED
    BY <1>6, <2>1, <2>2, <2>3, <2>4, <2>5, <2>6, <2>7, <2>8 DEF SessionStep
<1>7. CASE ~SessionStep
  <2>1. mailing'.status # "PAUSED" /\ (InUse(mailing') => InUse(mailing))
    BY <1>0, <1>7, MailingGoesOn DEF InUse
  <2>2. ASSUME NEW y \in sessions' PROVE Good(y) /\ Gone(y, mailing')
    <3>1. CASE y \in sessions
      BY <1>2, <2>1, <3>1
    <3>2. CASE y \notin sessions
      <4>1. ASSUME NEW event \in Event, NEW op \in {"start", "edit", "close", "delete"},
                   op = "start" => mailing.status = "FILLING",
                   NEW step \in {"save", "grab"}, Starts(event, op, step)
            PROVE  Good(y) /\ Gone(y, mailing')
        <5>1. y.op = op /\ y.step = step /\ y.copy = mailing
          BY <3>2, <4>1 DEF Starts
        <5> QED
          BY <1>0, <4>1, <5>1
      <4>2. ASSUME NEW op \in Op, Call(op) PROVE Good(y) /\ Gone(y, mailing')
        <5>1. op \in RpcOp \cup RestOp /\ op \in Event /\ Starts(op, op, "save")
          BY <4>2 DEF Call, RpcOp, RestOp, Event
        <5>2. op # "pause"
          BY <5>1 DEF Starts, Spoilers
        <5>3. op = "start" => mailing.status = "FILLING"
          BY <1>0, <4>2 DEF Call, Allowed
        <5> QED
          BY <4>1, <5>1, <5>2, <5>3 DEF RpcOp, RestOp
      <4>3. CASE Purge
        BY <4>1, <4>3 DEF Purge, Event
      <4>4. ASSUME NEW k \in Closer, EndMailing(k) PROVE Good(y) /\ Gone(y, mailing')
        <5>1. y.op = "end" /\ y.step = "grab" /\ y.copy = Created
          BY <3>2, <4>4 DEF EndMailing
        <5>2. Created.status = "FILLING"
          BY DEF Created, NoMailing
        <5> QED
          BY <5>1, <5>2
      <4>5. ~RestartMaster /\ sessions' # sessions
        BY <3>2 DEF RestartMaster, Spoilers
      <4> QED
        BY <1>7, <4>2, <4>3, <4>4, <4>5, SessionsElse
    <3> QED
      BY <3>1, <3>2
  <2> QED
    BY <1>3, <2>1, <2>2
<1> QED
  BY <1>6, <1>7

(* What a step saves, or is going to save, was there to be saved: only     *)
(* increments in the reactor, where no session is then, change the         *)
(* counters of a mailing that is in use.                                   *)
VersionsSame == \A m \in Versions' : \E v \in Versions : v.count = m.count

LEMMA VersionsStay ==
  ASSUME TypeOK, SessionsOK, OneInReactor, NoPause, EndsMarked, [Next]_vars,
         \A e \in Spoilers : ~Spend(e)
  PROVE  VersionsSame \/ CountAddition \/ CountReports \/ CountDsn
PROOF
<1>0. /\ \A x \in sessions : /\ x \in Session /\ SessionOK(x) /\ x.copy \in Mailing
                             /\ x.op # "pause" /\ x.copy.status # "PAUSED"
      /\ mailing # NoMailing => mailing \in Mailing
  BY MailingParts DEF SessionsOK, NoPause
<1> DEFINE Old(m) == InUse(m) => \E v \in Versions : v.count = m.count
<1>1. Old(mailing) /\ \A x \in ToSave : Old(x.copy)
  BY DEF Versions
<1>2. ASSUME Old(mailing'), \A x \in ToSave' : Old(x.copy) PROVE VersionsSame
  BY <1>2 DEF VersionsSame, Versions, InUse
<1>3. ASSUME NEW x \in sessions, NEW Y, \A y \in Y : y.step # "save", Becomes(x, Y),
             Old(mailing')
      PROVE  VersionsSame
  <2>1. \A y \in ToSave' : y \in ToSave
    BY <1>3 DEF ToSave, Becomes
  <2> QED
    BY <1>1, <1>2, <1>3, <2>1
<1>4. ASSUME NEW x \in sessions, NEW step \in Step \ {"save"}, Old(mailing'),
             Becomes(x, {[x EXCEPT !.step = step]}) \/ Becomes(x, {})
      PROVE  VersionsSame
  <2> DEFINE y == [x EXCEPT !.step = step]
  <2>1. y.step # "save"
    BY <1>0 DEF Session
  <2>2. Becomes(x, {y}) \/ Becomes(x, {})
    BY <1>4
  <2> HIDE DEF y, Old
  <2> QED
    BY <1>3, <1>4, <2>1, <2>2
<1>5. ASSUME NEW x \in sessions, NEW step \in Step \ {"save"}, NEW m, Old(mailing'),
             Becomes(x, {[x EXCEPT !.step = step, !.copy = m]}) \/ Becomes(x, {})
      PROVE  VersionsSame
  <2> DEFINE y == [x EXCEPT !.step = step, !.copy = m]
  <2>1. y.step # "save"
    BY <1>0 DEF Session
  <2>2. Becomes(x, {y}) \/ Becomes(x, {})
    BY <1>5
  <2> HIDE DEF y, Old
  <2> QED
    BY <1>3, <1>5, <2>1, <2>2
<1>6. CASE SessionStep
  <2>1. CASE SaveCall
    <3>1. PICK x \in sessions :
            /\ x.step = "save"
            /\ SaveStart(x) \/ SavePause(x) \/ SaveClose(x) \/ SaveEdit(x)
      BY <2>1 DEF SaveCall
    <3>2. CASE SaveStart(x)
      <4>1. Becomes(x, {})
        BY <3>2 DEF SaveStart
      <4>2. CASE x.copy.status = "FILLING"
        <5>1. mailing' = mailing \/ (mailing # NoMailing /\ mailing' = Activated(mailing))
          BY <3>2, <4>2 DEF SaveStart
        <5>2. mailing # NoMailing =>
                /\ Activated(mailing).ended = mailing.ended
                /\ Activated(mailing).count = mailing.count
          BY <1>0 DEF Activated, Mailing
        <5>3. Old(mailing')
          BY <1>1, <5>1, <5>2 DEF InUse
        <5> HIDE DEF Old
        <5> QED
          BY <1>3, <4>1, <5>3
      <4>3. x.copy.status = "FILLING"
        BY <3>2 DEF SaveStart, NoPause
      <4> QED
        BY <4>2, <4>3
    <3>3. CASE SaveClose(x)
      <4> DEFINE y == [x EXCEPT !.step = "grab",
                                !.home = IF x.op = "close" THEN "thread" ELSE x.home]
      <4>1. Becomes(x, {y}) /\ mailing' = [x.copy EXCEPT !.status = "FINISHED"]
        BY <3>3 DEF SaveClose, Put
      <4>2. mailing'.ended = x.copy.ended /\ mailing'.count = x.copy.count
        BY <1>0, <4>1 DEF Mailing
      <4>3. y.step = "grab"
        BY <1>0 DEF Session
      <4>4. x.copy # NoMailing /\ x \in ToSave
        BY <1>0, <3>1, <3>3, MailingParts DEF SaveClose, ToSave
      <4>5. Old(mailing')
        BY <1>1, <4>2, <4>4 DEF InUse
      <4> HIDE DEF y, Old
      <4> QED
        BY <1>3, <4>1, <4>3, <4>5
    <3>4. CASE SaveEdit(x)
      <4>1. mailing' = x.copy /\ Becomes(x, {}) /\ x \in ToSave
        BY <3>1, <3>4 DEF SaveEdit, Put, ToSave
      <4>2. Old(mailing')
        BY <1>1, <4>1
      <4> HIDE DEF Old
      <4> QED
        BY <1>3, <4>1, <4>2
    <3>5. ~SavePause(x)
      BY <1>0 DEF SavePause
    <3> QED
      BY <3>1, <3>2, <3>3, <3>4, <3>5
  <2>2. CASE GrabToClose \/ CountToClose
    <3>1. Old(mailing')
      BY <1>1, <2>2 DEF GrabToClose, CountToClose
    <3> HIDE DEF Old
    <3> QED
      BY <1>5, <2>2, <3>1 DEF GrabToClose, CountToClose, Step
  <2>3. CASE Keep
    <3>1. PICK x \in sessions : /\ x.step = "keep" /\ Put(x.copy)
                                /\ Becomes(x, {[x EXCEPT !.step = "tell"]})
      BY <2>3 DEF Keep
    <3>2. mailing' = x.copy /\ x.copy.ended = TRUE
      BY <1>0, <3>1 DEF Put, EndsMarked
    <3>3. Old(mailing')
      BY <3>2 DEF InUse
    <3> HIDE DEF Old
    <3> QED
      BY <1>4, <3>1, <3>3 DEF Step
  <2>4. CASE Tell
    <3>1. PICK x \in sessions :
            Becomes(x, CASE x.op = "pause" -> {[x EXCEPT !.step = "release"]}
                         [] x.op = "delete" -> {[x EXCEPT !.step = "empty"]}
                         [] OTHER -> {})
      BY <2>4 DEF Tell
    <3>2. Old(mailing')
      BY <1>1, <2>4 DEF Tell
    <3>3. Becomes(x, {}) \/ Becomes(x, {[x EXCEPT !.step = "empty"]})
      BY <1>0, <3>1
    <3>4. "empty" \in Step \ {"save"}
      BY DEF Step
    <3> HIDE DEF Old
    <3> QED
      BY <1>4, <3>2, <3>3, <3>4, Zenon
  <2>5. CASE RemoveRecipients \/ Release
    <3>1. Old(mailing')
      BY <1>1, <2>5 DEF RemoveRecipients, Release
    <3> HIDE DEF Old
    <3> QED
      BY <1>4, <2>5, <3>1 DEF RemoveRecipients, Release, Step
  <2>6. CASE RemoveMailing
    <3>1. Old(mailing')
      BY <2>6 DEF RemoveMailing, InUse
    <3> HIDE DEF Old
    <3> QED
      BY <1>4, <2>6, <3>1 DEF RemoveMailing, Step
  <2> QED
    BY <1>6, <2>1, <2>2, <2>3, <2>4, <2>5, <2>6 DEF SessionStep
<1>7. CASE ~SessionStep /\ ~(CountAddition \/ CountReports \/ CountDsn)
  <2>1. Old(mailing')
    BY <1>1, <1>7, MailingGoesOn DEF InUse
  <2>2. ASSUME NEW y \in ToSave' PROVE Old(y.copy)
    <3>1. CASE y \in sessions
      BY <1>1, <2>2, <3>1 DEF ToSave
    <3>2. CASE y \notin sessions
      <4>1. ASSUME NEW event, NEW op, NEW step, Starts(event, op, step)
            PROVE  Old(y.copy)
        BY <1>1, <2>2, <3>2, <4>1 DEF Starts, ToSave
      <4>2. CASE (\E op \in Op : Call(op)) \/ Purge
        BY <4>1, <4>2 DEF Call, Purge
      <4>3. ASSUME NEW k \in Closer, EndMailing(k) PROVE FALSE
        BY <2>2, <3>2, <4>3 DEF EndMailing, ToSave
      <4>4. ~RestartMaster /\ sessions' # sessions
        BY <2>2, <3>2 DEF RestartMaster, Spoilers, ToSave
      <4> QED
        BY <1>7, <4>2, <4>3, <4>4, SessionsElse
    <3> QED
      BY <3>1, <3>2
  <2> QED
    BY <1>2, <2>1, <2>2
<1> QED
  BY <1>6, <1>7

(* An increment finds nobody who will save the mailing.                    *)
LEMMA VersionsCounted ==
  ASSUME TypeOK, OneInReactor, ReactorFree, UNCHANGED sessions,
         NEW d, Increase(d)
  PROVE  \A m \in Versions' : /\ mailing \in Versions
                              /\ m.count = Plus(mailing.count, d)
<1>1. ToSave = {}
  BY Alone
<1>2. ToSave' = {}
  BY <1>1 DEF ToSave
<1>3. Versions' \subseteq {mailing'} /\ (mailing' \in Versions' => InUse(mailing'))
  BY <1>2 DEF Versions, InUse
<1>4. ASSUME InUse(mailing')
      PROVE  mailing \in Versions /\ mailing'.count = Plus(mailing.count, d)
  <2>1. mailing # NoMailing /\ mailing \in Mailing
    BY <1>4, MailingParts DEF Increase, InUse
  <2> DEFINE c == Plus(mailing.count, d)
  <2>2. mailing' = [mailing EXCEPT !.count = c]
    BY <2>1 DEF Increase
  <2> HIDE DEF c
  <2>3. mailing'.count = c /\ mailing'.ended = mailing.ended
    BY <2>1, <2>2 DEF Mailing
  <2> QED
    BY <1>4, <2>1, <2>3 DEF Versions, InUse, c
<1> QED
  BY <1>3, <1>4

-----------------------------------------------------------------------------
(* What the steps do to the figures.                                       *)
LEMMA ExactParts ==
  ASSUME NEW c
  PROVE  /\ Exact(c) <=>
              /\ c.total + (counted.total + noticed.total) + AddedNotCounted
                   = Cardinality(Existing)
              /\ c.pending + (counted.pending + noticed.pending) + AddedNotCounted
                   = Cardinality(OfStatus(Pending))
              /\ c.sent + (counted.sent + noticed.sent)
                   = Cardinality(OfStatus({"FINISHED"}))
              /\ c.error + (counted.error + noticed.error)
                   = Cardinality(OfStatus({"ERROR"}))
              /\ Unused({"dsn", "unsent"}) =>
                   c.soft + (counted.soft + noticed.soft)
                     = Cardinality(OfStatus({"WARNING"}))
         /\ Exact(c)' <=>
              /\ c.total + (counted'.total + noticed'.total) + AddedNotCounted'
                   = Cardinality(Existing')
              /\ c.pending + (counted'.pending + noticed'.pending) + AddedNotCounted'
                   = Cardinality(OfStatus(Pending)')
              /\ c.sent + (counted'.sent + noticed'.sent)
                   = Cardinality(OfStatus({"FINISHED"})')
              /\ c.error + (counted'.error + noticed'.error)
                   = Cardinality(OfStatus({"ERROR"})')
              /\ Unused({"dsn", "unsent"})' =>
                   c.soft + (counted'.soft + noticed'.soft)
                     = Cardinality(OfStatus({"WARNING"})')
BY DEF Exact, Plus, Counts

LEMMA PlusParts ==
  ASSUME NEW c, NEW d
  PROVE  /\ Plus(c, d).total = c.total + d.total
         /\ Plus(c, d).pending = c.pending + d.pending
         /\ Plus(c, d).sent = c.sent + d.sent
         /\ Plus(c, d).error = c.error + d.error
         /\ Plus(c, d).soft = c.soft + d.soft
BY DEF Plus, Counts

LEMMA SameFigures ==
  ASSUME NEW c, Exact(c), UNCHANGED <<counted, noticed>>,
         AddedNotCounted' = AddedNotCounted, Existing' = Existing,
         \A S : OfStatus(S)' = OfStatus(S),
         Unused({"dsn", "unsent"})' => Unused({"dsn", "unsent"})
  PROVE  Exact(c)'
BY ExactParts

LEMMA SameStatuses ==
  ASSUME \A r \in Recipient : /\ doc'[r] # NoDoc <=> doc[r] # NoDoc
                              /\ doc'[r].status = doc[r].status
  PROVE  Existing' = Existing /\ \A S : OfStatus(S)' = OfStatus(S)
<1>1. Existing' = Existing
  BY DEF Existing
<1> QED
  BY <1>1 DEF OfStatus, Existing

(* One recipient gets another status.                                      *)
One(b) == IF b THEN 1 ELSE 0
LEMMA OneChanges ==
  ASSUME TypeOK, NEW r \in Recipient, doc[r] # NoDoc, NEW d \in Document,
         doc' = [doc EXCEPT ![r] = d]
  PROVE  /\ Existing' = Existing
         /\ \A S : /\ Cardinality(OfStatus(S)) \in Nat
                   /\ Cardinality(OfStatus(S)') =
                        Cardinality(OfStatus(S)) + One(d.status \in S)
                          - One(doc[r].status \in S)
<1>1. \A q \in Recipient : doc'[q] = IF q = r THEN d ELSE doc[q]
  BY DEF TypeOK
<1>2. Existing' = Existing /\ r \in Existing
  BY <1>1, DocumentStatus DEF Existing
<1>3. ASSUME NEW S
      PROVE  /\ Cardinality(OfStatus(S)) \in Nat
             /\ Cardinality(OfStatus(S)') =
                  Cardinality(OfStatus(S)) + One(d.status \in S)
                    - One(doc[r].status \in S)
  <2> DEFINE T == OfStatus(S) \ {r}
  <2>1. OfStatus(S)' = IF d.status \in S THEN T \cup {r} ELSE T
    BY <1>1, <1>2 DEF OfStatus, Existing
  <2>2. OfStatus(S) = IF doc[r].status \in S THEN T \cup {r} ELSE T
    BY <1>2 DEF OfStatus, Existing
  <2>3. T \in SUBSET Recipient /\ r \notin T
    BY DEF OfStatus, Existing
  <2> HIDE DEF T
  <2>4. IsFiniteSet(T) /\ Cardinality(T) \in Nat
    BY <2>3, Countable
  <2>5. Cardinality(T \cup {r}) = Cardinality(T) + 1
    BY <2>3, <2>4, FS_AddElement
  <2> QED
    BY <2>1, <2>2, <2>4, <2>5 DEF One
<1> QED
  BY <1>2, <1>3

LEMMA AddedIsInt ==
  ASSUME TypeOK
  PROVE  AddedNotCounted \in Int
<1>1. CASE Inserted = {}
  BY <1>1 DEF AddedNotCounted
<1>2. CASE Inserted # {}
  <2> DEFINE a == CHOOSE a \in Inserted : TRUE
  <2>1. a \in Inserted
    BY <1>2
  <2>2. a.batch \in SUBSET Recipient
    BY <2>1 DEF Inserted, TypeOK, Addition
  <2>3. Cardinality(a.batch) \in Nat
    BY <2>2, Countable
  <2> QED
    BY <1>2, <2>3 DEF AddedNotCounted
<1> QED
  BY <1>1, <1>2

(* The reports thread stores what it has found out of a recipient.         *)
LEMMA ReportExact ==
  ASSUME TypeOK, ClaimsOK, StoreReport, NEW c \in Counters, Exact(c),
         Unused({"dsn", "unsent"})' => Unused({"dsn", "unsent"})
  PROVE  Exact(c)'
PROOF
<1> USE DEF historyVars, countVars, satVars, reactorVars
<1>1. PICK g \in grabbed :
        /\ g.rcpt \in Recipient /\ g.copy \in Document /\ g.outcome \in Reported
        /\ doc' = IF DsnFirst(g.copy) THEN doc
                  ELSE [doc EXCEPT ![g.rcpt] =
                          [g.copy EXCEPT !.status = g.outcome, !.inProgress = FALSE,
                                         !.client = g.sat]]
        /\ counted' = Plus(counted, Delta(g.copy, g.outcome))
  BY DEF StoreReport, TypeOK, Grabbed
<1> DEFINE r == g.rcpt
           o == g.outcome
           d == [g.copy EXCEPT !.status = o, !.inProgress = FALSE, !.client = g.sat]
<1>2. /\ UNCHANGED <<noticed, adding>> /\ counted \in Counters /\ noticed \in Counters
      /\ Unused({"dsn", "unsent"})' => o # "READY" /\ Unused({"dsn", "unsent"})
  BY DEF StoreReport, TypeOK, ClaimsOK
<1>3. AddedNotCounted' = AddedNotCounted
  BY <1>2 DEF AddedNotCounted, Inserted
<1>4. /\ r \in Recipient /\ g.copy \in Document /\ doc[r] \in Document /\ doc[r] # NoDoc
      /\ g.copy.status = doc[r].status /\ g.copy.dsn = doc[r].dsn
      /\ o \in Reported /\ g.sat \in Satellite
  BY <1>1 DEF TypeOK, Grabbed, ClaimsOK, ClaimOK, Fresh
<1>5. doc[r].status \in Pending \/ DsnFirst(doc[r])
  BY <1>1 DEF ClaimsOK, ClaimOK, ClaimedBy, Unsettled
<1>6. DsnFirst(g.copy) <=> DsnFirst(doc[r])
  BY <1>4 DEF DsnFirst
<1>7. CASE DsnFirst(g.copy)
  <2>1. doc' = doc /\ counted' = Plus(counted, Zero)
    BY <1>1, <1>7 DEF Delta
  <2>2. /\ counted'.total = counted.total /\ counted'.pending = counted.pending
        /\ counted'.sent = counted.sent /\ counted'.error = counted.error
        /\ counted'.soft = counted.soft
    BY <1>2, <2>1, PlusParts DEF Counters, Zero, Counts
  <2>3. Existing' = Existing /\ \A S : OfStatus(S)' = OfStatus(S)
    BY <2>1 DEF OfStatus, Existing
  <2> QED
    BY <1>2, <1>3, <2>2, <2>3, ExactParts
<1>8. CASE ~DsnFirst(g.copy)
  <2>1. g.copy.status \in Pending /\ doc[r].status = g.copy.status
    BY <1>4, <1>5, <1>6, <1>8
  <2>2. d \in Document /\ d.status = o
    BY <1>4 DEF Document, Pending, Final, Reported
  <2>3. doc' = [doc EXCEPT ![r] = d]
    BY <1>1, <1>8
  <2> DEFINE w == One(doc[r].status = "WARNING")
             i == Delta(g.copy, o)
  <2>4. /\ i.total = 0 /\ i.pending = One(o \in Pending) - 1
        /\ i.sent = One(o = "FINISHED") /\ i.error = One(o = "ERROR")
        /\ i.soft = One(o \in Pending) - w
    BY <1>4, <1>8, <2>1 DEF Delta, Counts, One, Pending, Reported
  <2>5. /\ counted'.total = counted.total + i.total
        /\ counted'.pending = counted.pending + i.pending
        /\ counted'.sent = counted.sent + i.sent
        /\ counted'.error = counted.error + i.error
        /\ counted'.soft = counted.soft + i.soft
    BY <1>1, PlusParts
  <2> HIDE DEF i, d, r, o
  <2>6. /\ Existing' = Existing
        /\ \A S : /\ Cardinality(OfStatus(S)) \in Nat
                  /\ Cardinality(OfStatus(S)') =
                       Cardinality(OfStatus(S)) + One(o \in S) - One(doc[r].status \in S)
    BY <1>4, <2>2, <2>3, OneChanges
  <2>7. One(doc[r].status \in Pending) = 1
    BY <2>1 DEF One
  <2>8. /\ One(doc[r].status \in {"FINISHED"}) = 0 /\ One(doc[r].status \in {"ERROR"}) = 0
        /\ One(o \in {"FINISHED"}) = One(o = "FINISHED")
        /\ One(o \in {"ERROR"}) = One(o = "ERROR")
        /\ One(doc[r].status \in {"WARNING"}) = w
        /\ o # "READY" => One(o \in {"WARNING"}) = One(o \in Pending)
    BY <2>1 DEF One, Pending
  <2>9. /\ Cardinality(Existing') = Cardinality(Existing)
        /\ Cardinality(OfStatus(Pending)') =
             Cardinality(OfStatus(Pending)) + One(o \in Pending) - 1
        /\ Cardinality(OfStatus({"FINISHED"})') =
             Cardinality(OfStatus({"FINISHED"})) + One(o = "FINISHED")
        /\ Cardinality(OfStatus({"ERROR"})') =
             Cardinality(OfStatus({"ERROR"})) + One(o = "ERROR")
        /\ o # "READY" => Cardinality(OfStatus({"WARNING"})') =
             Cardinality(OfStatus({"WARNING"})) + One(o \in Pending) - w
    BY <2>6, <2>7, <2>8
  <2>10. /\ One(o \in Pending) \in Int /\ One(o = "FINISHED") \in Int
         /\ One(o = "ERROR") \in Int /\ w \in Int
    BY DEF One
  <2>11. /\ counted.total \in Int /\ noticed.total \in Int /\ c.total \in Int
         /\ counted.pending \in Int /\ noticed.pending \in Int /\ c.pending \in Int
         /\ counted.sent \in Int /\ noticed.sent \in Int /\ c.sent \in Int
         /\ counted.error \in Int /\ noticed.error \in Int /\ c.error \in Int
         /\ counted.soft \in Int /\ noticed.soft \in Int /\ c.soft \in Int
    BY <1>2 DEF Counters
  <2>12. AddedNotCounted \in Int
    BY AddedIsInt
  <2>13. \A S : Cardinality(OfStatus(S)) \in Int
    BY <2>6
  <2> HIDE DEF w
  <2>14. /\ c.total + (counted'.total + noticed'.total) + AddedNotCounted'
                = Cardinality(Existing')
         /\ c.pending + (counted'.pending + noticed'.pending) + AddedNotCounted'
                = Cardinality(OfStatus(Pending)')
         /\ c.sent + (counted'.sent + noticed'.sent)
                = Cardinality(OfStatus({"FINISHED"})')
         /\ c.error + (counted'.error + noticed'.error)
                = Cardinality(OfStatus({"ERROR"})')
    BY <1>2, <1>3, <2>4, <2>5, <2>9, <2>10, <2>11, <2>12, <2>13, ExactParts
  <2>15. ASSUME Unused({"dsn", "unsent"})'
         PROVE  c.soft + (counted'.soft + noticed'.soft)
                  = Cardinality(OfStatus({"WARNING"})')
    <3>1. c.soft + (counted.soft + noticed.soft) = Cardinality(OfStatus({"WARNING"}))
      BY <1>2, <2>15, ExactParts
    <3>2. Cardinality(OfStatus({"WARNING"})') =
            Cardinality(OfStatus({"WARNING"})) + One(o \in Pending) - w
      BY <1>2, <2>9, <2>15
    <3>3. noticed' = noticed
      BY <1>2
    <3> QED
      BY <2>4, <2>5, <2>10, <2>11, <3>1, <3>2, <3>3
  <2> QED
    BY <2>14, <2>15, ExactParts
<1> QED
  BY <1>7, <1>8

(* smtpd stores a DSN.                                                     *)
LEMMA DsnExact ==
  ASSUME TypeOK, NEW r \in Recipient, StoreDsn(r),
         NEW c \in Counters, Exact(c),
         Unused({"dsn", "unsent"})' => ~Spend("dsn")
  PROVE  Exact(c)'
PROOF
<1> USE DEF historyVars, countVars, satVars, reactorVars
<1> DEFINE d == [doc[r] EXCEPT !.status = "ERROR", !.dsn = TRUE]
           i == DsnDelta(doc[r].status)
<1>1. /\ UNCHANGED <<counted, adding>> /\ Spend("dsn")
      /\ counted \in Counters /\ noticed \in Counters
      /\ noticed' = Plus(noticed, i)
  BY DEF StoreDsn, TypeOK
<1>2. doc[r] \in Document /\ doc[r] # NoDoc
  BY DEF StoreDsn, TypeOK
<1>3. d \in Document /\ d.status = "ERROR"
  BY <1>2 DEF Document, Pending, Final
<1>4. doc' = [doc EXCEPT ![r] = d]
  BY DEF StoreDsn, TypeOK
<1>5. AddedNotCounted' = AddedNotCounted
  BY <1>1 DEF AddedNotCounted, Inserted
<1> DEFINE st == doc[r].status
<1>6. st \in Pending \cup Final
  BY <1>2, DocumentStatus
<1>7. /\ i.total = 0 /\ i.pending = 0 - One(st \in Pending)
      /\ i.sent = 0 - One(st \in {"FINISHED"}) /\ i.error = 1 - One(st \in {"ERROR"})
  BY <1>6 DEF DsnDelta, Counts, Zero, One, Pending, Final
<1>8. /\ noticed'.total = noticed.total + i.total
      /\ noticed'.pending = noticed.pending + i.pending
      /\ noticed'.sent = noticed.sent + i.sent
      /\ noticed'.error = noticed.error + i.error
  BY <1>1, PlusParts
<1> HIDE DEF i, d, st
<1>9. /\ Existing' = Existing
      /\ \A S : /\ Cardinality(OfStatus(S)) \in Nat
                /\ Cardinality(OfStatus(S)') =
                     Cardinality(OfStatus(S)) + One("ERROR" \in S) - One(st \in S)
  BY <1>2, <1>3, <1>4, OneChanges DEF st
<1>10. /\ One("ERROR" \in Pending) = 0 /\ One("ERROR" \in {"FINISHED"}) = 0
       /\ One("ERROR" \in {"ERROR"}) = 1
  BY DEF One, Pending
<1>11. /\ Cardinality(Existing') = Cardinality(Existing)
       /\ Cardinality(OfStatus(Pending)') =
            Cardinality(OfStatus(Pending)) + 0 - One(st \in Pending)
       /\ Cardinality(OfStatus({"FINISHED"})') =
            Cardinality(OfStatus({"FINISHED"})) + 0 - One(st \in {"FINISHED"})
       /\ Cardinality(OfStatus({"ERROR"})') =
            Cardinality(OfStatus({"ERROR"})) + 1 - One(st \in {"ERROR"})
  BY <1>9, <1>10
<1>12. /\ One(st \in Pending) \in Int /\ One(st \in {"FINISHED"}) \in Int
       /\ One(st \in {"ERROR"}) \in Int
  BY DEF One
<1>13. /\ counted.total \in Int /\ noticed.total \in Int /\ c.total \in Int
       /\ counted.pending \in Int /\ noticed.pending \in Int /\ c.pending \in Int
       /\ counted.sent \in Int /\ noticed.sent \in Int /\ c.sent \in Int
       /\ counted.error \in Int /\ noticed.error \in Int /\ c.error \in Int
  BY <1>1 DEF Counters
<1>14. AddedNotCounted \in Int /\ \A S : Cardinality(OfStatus(S)) \in Int
  BY <1>9, AddedIsInt
<1>15. ~Unused({"dsn", "unsent"})'
  BY <1>1
<1> QED
  BY <1>1, <1>5, <1>7, <1>8, <1>11, <1>12, <1>13, <1>14, <1>15, ExactParts

(* Recipients are inserted, and will be counted.                           *)
LEMMA InsertExact ==
  ASSUME TypeOK, NotThere, OneAddition, Insert, NEW c \in Counters, Exact(c),
         Unused({"dsn", "unsent"})' => Unused({"dsn", "unsent"})
  PROVE  Exact(c)'
PROOF
<1> USE DEF historyVars, countVars, satVars, reactorVars
<1>1. PICK a \in adding :
        /\ a.step = "checked"
        /\ doc' = [r \in Recipient |-> IF r \in a.batch THEN NewDoc ELSE doc[r]]
        /\ adding' = {[a EXCEPT !.step = "inserted"]}
  BY DEF Insert
<1> DEFINE B == a.batch
           n == Cardinality(B)
           b == [a EXCEPT !.step = "inserted"]
<1>2. UNCHANGED <<counted, noticed>> /\ counted \in Counters /\ noticed \in Counters
  BY DEF Insert, TypeOK
<1>3. a \in Addition /\ B \in SUBSET Recipient
  BY DEF TypeOK, Addition
<1>4. AddedNotCounted = 0
  BY <1>1 DEF AddedNotCounted, Inserted, OneAddition
<1>5. AddedNotCounted' = n
  <2>1. b.step = "inserted" /\ b.batch = B
    BY <1>3 DEF Addition
  <2> HIDE DEF b
  <2>2. Inserted' = {b}
    BY <1>1, <2>1 DEF Inserted, b
  <2>3. (CHOOSE x \in {b} : TRUE) = b
    OBVIOUS
  <2> QED
    BY <2>1, <2>2, <2>3 DEF AddedNotCounted
<1>6. \A r \in B : doc[r] = NoDoc
  BY <1>1 DEF NotThere
<1>7. /\ NewDoc.status = "READY" /\ NewDoc # NoDoc
  BY DEF NewDoc, NoDoc
<1>8. \A r \in Recipient : doc'[r] = IF r \in B THEN NewDoc ELSE doc[r]
  BY <1>1
<1> HIDE DEF B
<1>9. Existing' = Existing \cup B /\ Existing \cap B = {}
  BY <1>3, <1>6, <1>7, <1>8 DEF Existing
<1>10. OfStatus(Pending)' = OfStatus(Pending) \cup B /\ OfStatus(Pending) \cap B = {}
  BY <1>3, <1>6, <1>7, <1>8, <1>9 DEF OfStatus, Existing, Pending
<1>11. \A S : "READY" \notin S => OfStatus(S)' = OfStatus(S)
  BY <1>3, <1>6, <1>7, <1>8, <1>9 DEF OfStatus, Existing
<1>12. ASSUME NEW T \in SUBSET Recipient, T \cap B = {}
       PROVE  Cardinality(T \cup B) = Cardinality(T) + n
  <2>1. IsFiniteSet(T) /\ IsFiniteSet(B) /\ Cardinality(T) \in Nat /\ n \in Nat
    BY <1>3, Countable
  <2>2. Cardinality(T \cup B) = Cardinality(T) + Cardinality(B) - Cardinality(T \cap B)
    BY <2>1, FS_Union
  <2>3. Cardinality(T \cap B) = 0
    BY <1>12, FS_EmptySet
  <2> QED
    BY <2>1, <2>2, <2>3 DEF n
<1>13. /\ Cardinality(Existing') = Cardinality(Existing) + n
       /\ Cardinality(OfStatus(Pending)') = Cardinality(OfStatus(Pending)) + n
  BY <1>9, <1>10, <1>12 DEF OfStatus, Existing
<1>14. /\ OfStatus({"FINISHED"})' = OfStatus({"FINISHED"})
       /\ OfStatus({"ERROR"})' = OfStatus({"ERROR"})
       /\ OfStatus({"WARNING"})' = OfStatus({"WARNING"})
  BY <1>11
<1>15. n \in Int
  BY <1>3, Countable
<1>16. /\ Cardinality(Existing) \in Int
       /\ Cardinality(OfStatus(Pending)) \in Int
  BY Countable DEF OfStatus, Existing
<1>17. /\ counted.total \in Int /\ noticed.total \in Int /\ c.total \in Int
       /\ counted.pending \in Int /\ noticed.pending \in Int /\ c.pending \in Int
  BY <1>2 DEF Counters
<1> HIDE DEF n
<1> QED
  BY <1>2, <1>4, <1>5, <1>13, <1>14, <1>15, <1>16, <1>17, ExactParts

(* Increments are applied by the reactor, one at a time.                   *)
LEMMA CountedExact ==
  ASSUME TypeOK, OneAddition, ~scenario.dsnsCross,
         CountAddition \/ CountReports \/ CountDsn,
         NEW c \in Counters, Exact(c),
         Unused({"dsn", "unsent"})' => Unused({"dsn", "unsent"})
  PROVE  /\ ReactorFree /\ UNCHANGED sessions
         /\ \E d : Increase(d) /\ Exact(Plus(c, d))'
PROOF
<1> USE DEF historyVars, countVars, satVars, reactorVars
<1>1. /\ counted \in Counters /\ noticed \in Counters
  BY DEF TypeOK
<1>2. /\ counted.total \in Int /\ noticed.total \in Int /\ c.total \in Int
      /\ counted.pending \in Int /\ noticed.pending \in Int /\ c.pending \in Int
      /\ counted.sent \in Int /\ noticed.sent \in Int /\ c.sent \in Int
      /\ counted.error \in Int /\ noticed.error \in Int /\ c.error \in Int
      /\ counted.soft \in Int /\ noticed.soft \in Int /\ c.soft \in Int
  BY <1>1 DEF Counters
<1>3. AddedNotCounted \in Int
  BY AddedIsInt
<1>4. /\ Zero.total = 0 /\ Zero.pending = 0 /\ Zero.sent = 0 /\ Zero.error = 0
      /\ Zero.soft = 0
  BY DEF Zero, Counts
<1>5. UNCHANGED doc
  BY DEF CountAddition, CountReports, CountDsn
<1>6. Existing' = Existing /\ \A S : OfStatus(S)' = OfStatus(S)
  BY <1>5 DEF Existing, OfStatus
<1>7. CASE CountReports \/ CountDsn
  <2>1. /\ UNCHANGED <<adding, sessions>> /\ ReactorFree
        /\ \/ CountReports /\ noticed' = noticed /\ counted' = Zero /\ Increase(counted)
           \/ CountDsn /\ counted' = counted /\ noticed' = Zero /\ Increase(noticed)
    BY <1>7 DEF CountReports, CountDsn
  <2>2. AddedNotCounted' = AddedNotCounted
    BY <2>1 DEF AddedNotCounted, Inserted
  <2>3. CASE CountReports /\ noticed' = noticed /\ counted' = Zero /\ Increase(counted)
    <3>1. PICK d : d = counted
      OBVIOUS
    <3>2. Exact(Plus(c, d))'
      BY <1>2, <1>3, <1>4, <1>6, <2>2, <2>3, <3>1, ExactParts, PlusParts
    <3> QED
      BY <2>1, <2>3, <3>1, <3>2
  <2>4. CASE CountDsn /\ counted' = counted /\ noticed' = Zero /\ Increase(noticed)
    <3>1. PICK d : d = noticed
      OBVIOUS
    <3>2. Exact(Plus(c, d))'
      BY <1>2, <1>3, <1>4, <1>6, <2>2, <2>4, <3>1, ExactParts, PlusParts
    <3> QED
      BY <2>1, <2>4, <3>1, <3>2
  <2> QED
    BY <2>1, <2>3, <2>4
<1>8. CASE CountAddition
  <2>1. PICK a \in adding : a.step = "inserted" /\ Increase(Added(a))
    BY <1>8 DEF CountAddition
  <2>2. adding' = {} /\ UNCHANGED <<counted, noticed, sessions>> /\ ReactorFree
    BY <1>8 DEF CountAddition
  <2>3. AddedNotCounted' = 0
    BY <2>2 DEF AddedNotCounted, Inserted
  <2>4. AddedNotCounted = Cardinality(a.batch)
    <3>1. Inserted = {a}
      BY <2>1 DEF Inserted, OneAddition
    <3>2. (CHOOSE x \in {a} : TRUE) = a
      OBVIOUS
    <3> QED
      BY <3>1, <3>2 DEF AddedNotCounted
  <2>5. PICK d : d = Added(a)
    OBVIOUS
  <2>6. /\ d.total = AddedNotCounted /\ d.pending = AddedNotCounted
        /\ d.sent = 0 /\ d.error = 0 /\ d.soft = 0
    BY <2>4, <2>5 DEF Added, Counts
  <2>7. PICK n : n = AddedNotCounted
    OBVIOUS
  <2>8. Exact(Plus(c, d))'
    BY <1>2, <1>3, <1>6, <2>2, <2>3, <2>6, <2>7, ExactParts, PlusParts
  <2> QED
    BY <2>1, <2>2, <2>5, <2>8
<1> QED
  BY <1>7, <1>8

(* One call adds at a time.                                                *)
LEMMA OneAdditionStays ==
  ASSUME TypeOK, OneAddition, [Next]_vars
  PROVE  OneAddition'
PROOF
<1>1. \/ UNCHANGED adding \/ adding' = {} \/ \E b : adding' = {b}
  <2> USE DEF satVars, historyVars, countVars, reactorVars
  <2>1. CASE Adding
    BY <2>1 DEF Adding, CheckAddition, Insert, CountAddition
  <2>2. CASE (\E op \in Op : Call(op)) \/ Purge \/ ForcePurge \/ RestartMaster \/ Obey
    BY <2>2 DEF Call, Purge, ForcePurge, Starts, RestartMaster, Obey
  <2>3. CASE Task \/ SessionStep
    BY <2>3 DEF Task, SessionStep, ReadMailing, ChooseRecipients, StartRunning, Claim,
       Send, SaveCall, GrabToClose, CountToClose, Keep, Tell, Release, RemoveRecipients,
       RemoveMailing
  <2>4. CASE Closing \/ Recipients
    BY <2>4 DEF Closing, FindMailing, Expire, LookForUnfinished, EndMailing,
       Recipients, CheckOrphans, StoreDsn, Reset
  <2>5. CASE Rows \/ Reports \/ CountDsn
    BY <2>5 DEF Rows, Forget, ReceiveAnswer, GrabReport, Reports, StoreReport,
       FailToStore, CountReports, CountDsn
  <2> QED
    BY <2>1, <2>2, <2>3, <2>4, <2>5 DEF Next, Change, vars, stateVars
<1> QED
  BY <1>1 DEF OneAddition

(* While a version of the mailing is in use, nothing is released after a   *)
(* pause or removed.                                                       *)
FigureStep ==
  \/ UNCHANGED <<Places, counted, noticed>>
  \/ Adding \/ Task \/ Obey \/ Rows \/ StoreReport \/ CountReports \/ CountDsn
  \/ \E r \in Recipient : CheckOrphans(r) \/ StoreDsn(r)

LEMMA FiguresElse ==
  ASSUME TypeOK, OneInReactor, NoPause, EndsMarked, Versions # {}, [Next]_vars,
         \A e \in Spoilers : ~Spend(e)
  PROVE  FigureStep
PROOF
<1> USE DEF satVars, historyVars, countVars, reactorVars, Places
<1>1. ~Release
  BY DEF Release, NoPause, EndsMarked
<1>2. ~RemoveRecipients
  <2> SUFFICES ASSUME RemoveRecipients PROVE FALSE
    OBVIOUS
  <2>1. PICK x \in sessions : x.step = "empty"
    BY DEF RemoveRecipients
  <2>2. x.op = "delete" /\ ~InUse(mailing)
    BY <2>1 DEF EndsMarked
  <2>3. x.home = "reactor"
    BY <2>2, Alone
  <2>4. ToSave = {}
    BY <2>1, <2>3, Alone DEF ToSave
  <2> QED
    BY <2>2, <2>4 DEF Versions
<1>3. ASSUME SessionStep PROVE FigureStep
  BY <1>1, <1>2, <1>3 DEF SessionStep, SaveCall, GrabToClose, CountToClose, Keep, Tell,
     RemoveMailing, FigureStep
<1>4. ASSUME Closing PROVE FigureStep
  <2>1. \A k \in Closer : ~Expire(k)
    BY DEF Expire, Goes, NoPause
  <2> QED
    BY <1>4, <2>1 DEF Closing, FindMailing, LookForUnfinished, EndMailing, FigureStep
<1>5. ASSUME (\E op \in Op : Call(op)) \/ Purge \/ ForcePurge PROVE FigureStep
  BY <1>5 DEF Call, Purge, ForcePurge, Starts, FigureStep
<1>6. ASSUME UNCHANGED vars PROVE FigureStep
  BY <1>6 DEF vars, stateVars, FigureStep
<1>7. ~RestartMaster /\ ~FailToStore /\ \A r \in Recipient : ~Reset(r)
  BY DEF RestartMaster, FailToStore, Reset, Spoilers
<1> QED
  BY <1>3, <1>4, <1>5, <1>6, <1>7 DEF Next, Change, Recipients, Reports, FigureStep

(* Whatever happens but an increment, a mailing that was exact stays so.   *)
LEMMA FiguresStay ==
  ASSUME TypeOK, OneAddition, ClaimsOK, FigureStep,
         ~CountAddition, ~CountReports, ~CountDsn,
         NEW c \in Counters, Exact(c),
         Unused({"dsn", "unsent"})' => Unused({"dsn", "unsent"}) /\ ~Spend("dsn")
  PROVE  Exact(c)'
PROOF
<1> USE DEF historyVars, countVars, satVars, reactorVars
<1>1. ASSUME UNCHANGED <<doc, adding, counted, noticed>> PROVE Exact(c)'
  <2>1. Existing' = Existing /\ \A S : OfStatus(S)' = OfStatus(S)
    BY <1>1 DEF Existing, OfStatus
  <2>2. AddedNotCounted' = AddedNotCounted
    BY <1>1 DEF AddedNotCounted, Inserted
  <2> QED
    BY <1>1, <2>1, <2>2, SameFigures
<1>2. CASE Claim \/ \E r \in Recipient : CheckOrphans(r)
  <2>1. Existing' = Existing /\ \A S : OfStatus(S)' = OfStatus(S)
    BY <1>2, ClaimsChange, SameStatuses DEF SameStatus
  <2>2. UNCHANGED <<counted, noticed, adding>>
    BY <1>2 DEF Claim, CheckOrphans
  <2>3. AddedNotCounted' = AddedNotCounted
    BY <2>2 DEF AddedNotCounted, Inserted
  <2> QED
    BY <2>1, <2>2, <2>3, SameFigures
<1>3. CASE CheckAddition
  <2>1. UNCHANGED <<doc, counted, noticed>> /\ adding = {}
    BY <1>3 DEF CheckAddition
  <2>2. Existing' = Existing /\ \A S : OfStatus(S)' = OfStatus(S)
    BY <2>1 DEF Existing, OfStatus
  <2>3. Inserted = {} /\ Inserted' = {}
    BY <1>3 DEF CheckAddition, Inserted
  <2>4. AddedNotCounted' = AddedNotCounted
    BY <2>3 DEF AddedNotCounted
  <2> QED
    BY <2>1, <2>2, <2>4, SameFigures
<1>4. CASE Insert
  BY <1>4, InsertExact DEF ClaimsOK
<1>5. ASSUME NEW r \in Recipient, StoreDsn(r) PROVE Exact(c)'
  BY <1>5, DsnExact
<1>6. CASE StoreReport
  BY <1>6, ReportExact
<1>7. CASE UNCHANGED <<Places, counted, noticed>>
  BY <1>1, <1>7 DEF Places
<1>8. CASE Task /\ ~Claim
  BY <1>1, <1>8 DEF Task, ReadMailing, ChooseRecipients, StartRunning, Send
<1>9. CASE Obey \/ Rows
  BY <1>1, <1>9 DEF Obey, Rows, Forget, ReceiveAnswer, GrabReport
<1> QED
  BY <1>2, <1>3, <1>4, <1>5, <1>6, <1>7, <1>8, <1>9 DEF FigureStep, Adding, Task

(* Steps that do not concern a recipient.                                  *)
Elsewhere(r) ==
  /\ doc'[r] = doc[r]
  /\ \A s \in Satellite : row'[s][r] = "working" => row[s][r] = "working"
  /\ \A g \in grabbed' : g.rcpt = r => g \in grabbed
  /\ \A u \in run' : r \in u.batch =>
       \E w \in run : r \in w.batch /\ w.sat = u.sat
                      /\ (w.step = "claimed" <=> u.step = "claimed")

LEMMA ClaimStays ==
  ASSUME NEW r \in Recipient, ClaimOK(r), Elsewhere(r)
  PROVE  ClaimOK(r)'
<1>1. Unsettled(doc[r])' <=> Unsettled(doc[r])
  BY DEF Elsewhere, Unsettled, DsnFirst
<1>2. ASSUME NEW g \in grabbed', g.rcpt = r PROVE Fresh(g)' /\ ClaimedBy(g.sat, r)'
  BY <1>2 DEF Elsewhere, ClaimOK, Fresh, ClaimedBy
<1>3. ASSUME NEW u \in run', r \in u.batch PROVE ChosenOK(u, r)'
  <2>1. PICK w \in run : r \in w.batch /\ w.sat = u.sat
                         /\ (w.step = "claimed" <=> u.step = "claimed")
    BY <1>3 DEF Elsewhere
  <2>2. ChosenOK(w, r)
    BY <2>1 DEF ClaimOK
  <2> QED
    BY <1>1, <2>1, <2>2 DEF ChosenOK, Elsewhere
<1> QED
  BY <1>1, <1>2, <1>3 DEF ClaimOK, Elsewhere, ClaimedBy

LEMMA TaskClaims ==
  ASSUME TypeOK, ClaimsOK, Task, Unused({"dsn", "unsent"})' => Unused({"dsn", "unsent"})
  PROVE  ClaimsOK'
<1> USE DEF satVars, historyVars, countVars, reactorVars
<1>0. /\ \A u \in run : u \in Run /\ u.batch \subseteq Recipient
      /\ \A a \in adding : a.batch \subseteq Recipient
      /\ \A r \in Recipient : ClaimOK(r)
  BY DEF TypeOK, Run, Addition, ClaimsOK
<1>1. ASSUME UNCHANGED grabbed
      PROVE  Unused({"dsn", "unsent"})' => \A g \in grabbed' : g.outcome # "READY"
  BY <1>1 DEF ClaimsOK
<1>2. ASSUME UNCHANGED <<doc, adding>> PROVE NotThere'
  BY <1>2 DEF ClaimsOK, NotThere
<1>3. CASE ReadMailing
  <2>1. UNCHANGED <<doc, row, grabbed, adding>> /\ \A u \in run' : u.batch = {}
    BY <1>3 DEF ReadMailing
  <2>2. \A r \in Recipient : Elsewhere(r)
    BY <2>1 DEF Elsewhere
  <2> QED
    BY <1>0, <1>1, <1>2, <2>1, <2>2, ClaimStays DEF ClaimsOK
<1>4. CASE ChooseRecipients
  <2>1. UNCHANGED <<doc, row, grabbed, adding>>
    BY <1>4 DEF ChooseRecipients
  <2>2. PICK u \in run :
          \/ run' = {}
          \/ \E batch \in SUBSET Eligible(u) :
               run' = {[u EXCEPT !.step = "chosen", !.batch = batch]}
    BY <1>4 DEF ChooseRecipients
  <2>3. CASE run' = {}
    <3>1. \A r \in Recipient : Elsewhere(r)
      BY <2>1, <2>3 DEF Elsewhere
    <3> QED
      BY <1>0, <1>1, <1>2, <2>1, <2>3, <3>1, ClaimStays DEF ClaimsOK
  <2>4. ASSUME NEW batch \in SUBSET Eligible(u),
               run' = {[u EXCEPT !.step = "chosen", !.batch = batch]}
        PROVE  ClaimsOK'
    <3> DEFINE v == [u EXCEPT !.step = "chosen", !.batch = batch]
    <3>1. v.step = "chosen" /\ v.batch = batch
      BY <1>0 DEF Run
    <3>2. run' = {v}
      BY <2>4
    <3> HIDE DEF v
    <3>3. ASSUME NEW r \in Recipient PROVE ClaimOK(r)'
      <4>1. CASE r \notin batch
        <5>1. Elsewhere(r)
          BY <2>1, <3>1, <3>2, <4>1 DEF Elsewhere
        <5> QED
          BY <1>0, <5>1, ClaimStays
      <4>2. CASE r \in batch
        <5>1. doc[r] # NoDoc /\ doc[r].status \in Pending /\ ~doc[r].inProgress
          BY <4>2 DEF Eligible, OfStatus, Existing
        <5>2. /\ \A s \in Satellite : row[s][r] # "working"
              /\ \A g \in grabbed : g.rcpt # r
          BY <1>0, <5>1 DEF ClaimOK, ClaimedBy
        <5>3. ChosenOK(v, r)'
          BY <2>1, <3>1, <5>1, <5>2 DEF ChosenOK, Unsettled
        <5> QED
          BY <2>1, <3>2, <5>1, <5>2, <5>3 DEF ClaimOK
      <4> QED
        BY <4>1, <4>2
    <3> QED
      BY <1>1, <1>2, <2>1, <3>1, <3>2, <3>3 DEF ClaimsOK
  <2> QED
    BY <2>2, <2>3, <2>4
<1>5. CASE StartRunning
  <2>1. PICK u \in run : u.step = "chosen" /\ run' = {[u EXCEPT !.step = "started"]}
    BY <1>5 DEF StartRunning
  <2>2. UNCHANGED <<doc, row, grabbed, adding>>
    BY <1>5 DEF StartRunning
  <2>3. \A v \in run' : v.step = "started" /\ v.batch = u.batch /\ v.sat = u.sat
    BY <1>0, <2>1 DEF Run
  <2>4. \A r \in Recipient : Elsewhere(r)
    BY <2>1, <2>2, <2>3 DEF Elsewhere
  <2> QED
    BY <1>0, <1>1, <1>2, <2>2, <2>3, <2>4, ClaimStays DEF ClaimsOK
<1>6. CASE Claim
  <2>1. PICK u \in run :
          /\ u.step = "started"
          /\ doc' = [r \in Recipient |->
               IF r \in u.batch \cap Existing
                 THEN [doc[r] EXCEPT !.inProgress = TRUE, !.client = u.sat]
                 ELSE doc[r]]
          /\ run' = {[u EXCEPT !.step = "claimed"]}
    BY <1>6 DEF Claim
  <2>2. UNCHANGED <<row, grabbed, adding>>
    BY <1>6 DEF Claim
  <2> DEFINE v == [u EXCEPT !.step = "claimed"]
  <2>3. v.step = "claimed" /\ v.batch = u.batch /\ v.sat = u.sat
    BY <1>0 DEF Run
  <2>4. run' = {v}
    BY <2>1
  <2> HIDE DEF v
  <2>5. ASSUME NEW r \in Recipient PROVE ClaimOK(r)'
    <3>1. CASE r \notin u.batch
      <4>1. Elsewhere(r)
        BY <2>1, <2>2, <2>3, <2>4, <3>1 DEF Elsewhere
      <4> QED
        BY <1>0, <4>1, ClaimStays
    <3>2. CASE r \in u.batch
      <4>1. ChosenOK(u, r)
        BY <1>0, <3>2 DEF ClaimOK
      <4>2. doc[r] \in Document /\ r \in Existing
        BY <4>1 DEF ChosenOK, TypeOK, Existing
      <4>3. doc'[r] = [doc[r] EXCEPT !.inProgress = TRUE, !.client = u.sat]
        BY <2>1, <3>2, <4>2
      <4>4. doc'[r].inProgress /\ doc'[r].client = u.sat
        BY <4>2, <4>3 DEF Document
      <4>5. SameStatus(r)
        BY <1>6, ClaimsChange
      <4>6. Unsettled(doc[r])' /\ doc'[r] # NoDoc
        BY <4>1, <4>5 DEF ChosenOK, SameStatus, Unsettled, DsnFirst
      <4>7. ChosenOK(v, r)'
        BY <2>2, <2>3, <4>1, <4>4, <4>6 DEF ChosenOK
      <4> QED
        BY <2>2, <2>4, <4>1, <4>6, <4>7 DEF ClaimOK, ChosenOK
    <3> QED
      BY <3>1, <3>2
  <2>6. NotThere'
    <3>1. \A r \in Recipient : SameStatus(r)
      BY <1>6, ClaimsChange
    <3> QED
      BY <1>0, <2>2, <3>1 DEF ClaimsOK, NotThere, SameStatus
  <2> QED
    BY <1>1, <2>2, <2>3, <2>4, <2>5, <2>6 DEF ClaimsOK
<1>7. CASE Send
  <2>1. PICK u \in run :
          /\ u.step = "claimed"
          /\ row' = [row EXCEPT ![u.sat] = [r \in Recipient |->
                    IF r \in u.batch /\ row[u.sat][r] = "none"
                      THEN "working" ELSE row[u.sat][r]]]
    BY <1>7 DEF Send
  <2>2. UNCHANGED <<doc, grabbed, adding>> /\ run' = {} /\ u.sat \in Satellite
    BY <1>0, <1>7 DEF Send, Run
  <2>3. \A s \in Satellite, r \in Recipient :
          row'[s][r] = IF s = u.sat /\ r \in u.batch /\ row[s][r] = "none"
                         THEN "working" ELSE row[s][r]
    BY <2>1, <2>2 DEF TypeOK
  <2>4. ASSUME NEW r \in Recipient PROVE ClaimOK(r)'
    <3>1. CASE r \notin u.batch
      <4>1. Elsewhere(r)
        BY <2>2, <2>3, <3>1 DEF Elsewhere
      <4> QED
        BY <1>0, <4>1, ClaimStays
    <3>2. CASE r \in u.batch
      <4>1. ChosenOK(u, r)
        BY <1>0, <3>2 DEF ClaimOK
      <4>2. ClaimedBy(u.sat, r)'
        BY <2>1, <2>2, <4>1 DEF ChosenOK, ClaimedBy
      <4>3. \A s \in Satellite : row'[s][r] = "working" => s = u.sat
        BY <2>3, <4>1 DEF ChosenOK
      <4>4. Unsettled(doc[r])' /\ \A g \in grabbed' : g.rcpt # r
        BY <2>2, <4>1 DEF ChosenOK, Unsettled, DsnFirst
      <4> QED
        BY <2>2, <4>2, <4>3, <4>4 DEF ClaimOK
    <3> QED
      BY <3>1, <3>2
  <2> QED
    BY <1>1, <1>2, <2>2, <2>4 DEF ClaimsOK
<1> QED
  BY <1>3, <1>4, <1>5, <1>6, <1>7 DEF Task

(* Claims stay as they should be.                                          *)
LEMMA ClaimsStay ==
  ASSUME TypeOK, ClaimsOK, FigureStep, ~scenario.dsnsCross,
         \A e \in Spoilers : ~Spend(e),
         Unused({"dsn", "unsent"})' => Unused({"dsn", "unsent"}) /\ ~Spend("unsent")
  PROVE  ClaimsOK'
PROOF
<1> USE DEF historyVars, countVars, satVars, reactorVars
<1>0. /\ \A r \in Recipient : ClaimOK(r)
      /\ NotThere /\ \A u \in run : u.step = "read" => u.batch = {}
      /\ \A a \in adding : a.batch \subseteq Recipient
  BY DEF TypeOK, ClaimsOK, Addition
<1>1. ASSUME UNCHANGED run, grabbed' \subseteq grabbed, NotThere',
             \A r \in Recipient : ClaimOK(r)'
      PROVE  ClaimsOK'
  BY <1>1 DEF ClaimsOK
<1>2. ASSUME UNCHANGED <<run, doc>>, grabbed' \subseteq grabbed, NotThere',
             \A s \in Satellite, r \in Recipient :
               row'[s][r] = "working" => row[s][r] = "working"
      PROVE  ClaimsOK'
  <2>1. \A r \in Recipient : Elsewhere(r)
    BY <1>2 DEF Elsewhere
  <2> QED
    BY <1>0, <1>1, <1>2, <2>1, ClaimStays
<1>3. ASSUME UNCHANGED <<doc, adding>> PROVE NotThere'
  BY <1>0, <1>3 DEF NotThere
<1>4. CASE UNCHANGED <<Places, counted, noticed>> \/ CountReports \/ CountDsn
  BY <1>2, <1>3, <1>4 DEF Places, CountReports, CountDsn
<1>5. CASE CheckAddition \/ CountAddition
  <2>1. UNCHANGED <<doc, row, grabbed, run>>
    BY <1>5 DEF CheckAddition, CountAddition
  <2>2. NotThere'
    BY <1>0, <1>5, <2>1 DEF CheckAddition, CountAddition, NotThere
  <2> QED
    BY <1>2, <2>1, <2>2
<1>6. CASE Insert
  <2>1. PICK a \in adding :
          /\ \A r \in a.batch : doc[r] = NoDoc /\ doc'[r] = NewDoc
          /\ \A r \in Recipient \ a.batch : doc'[r] = doc[r]
          /\ NotThere'
    BY <1>0, <1>6, BatchInserted
  <2>2. UNCHANGED <<row, grabbed, run>>
    BY <1>6 DEF Insert
  <2>3. ASSUME NEW r \in Recipient PROVE ClaimOK(r)'
    <3>1. CASE r \notin a.batch
      <4>1. Elsewhere(r)
        BY <2>1, <2>2, <3>1 DEF Elsewhere
      <4> QED
        BY <1>0, <4>1, ClaimStays
    <3>2. CASE r \in a.batch
      <4>1. doc[r] = NoDoc /\ ~doc[r].inProgress /\ ~doc'[r].inProgress
        <5>1. NoDoc.inProgress = FALSE /\ NewDoc.inProgress = FALSE
          BY DEF NoDoc, NewDoc
        <5> QED
          BY <2>1, <3>2, <5>1
      <4>2. /\ \A s \in Satellite : row[s][r] # "working"
            /\ \A g \in grabbed : g.rcpt # r
            /\ \A u \in run : r \notin u.batch
        BY <1>0, <4>1 DEF ClaimOK, ClaimedBy, ChosenOK
      <4> QED
        BY <2>2, <4>1, <4>2 DEF ClaimOK
    <3> QED
      BY <3>1, <3>2
  <2> QED
    BY <1>1, <2>1, <2>2, <2>3
<1>7. CASE Obey
  <2>1. PICK dropped :
          row' = [s \in Satellite |-> [r \in Recipient |->
                    IF <<s, r>> \in dropped THEN "none" ELSE row[s][r]]]
    BY <1>7 DEF Obey
  <2>2. UNCHANGED <<doc, grabbed, run, adding>>
    BY <1>7 DEF Obey
  <2> QED
    BY <1>2, <1>3, <2>1, <2>2
<1>8. ASSUME NEW s \in Satellite, NEW r \in Recipient, Forget(s, r) \/ ReceiveAnswer(s, r)
      PROVE  ClaimsOK'
  <2>1. row' = [row EXCEPT ![s][r] = "none"]
    BY <1>8 DEF Forget, ReceiveAnswer, Drop
  <2>2. UNCHANGED <<doc, grabbed, run, adding>>
    BY <1>8 DEF Forget, ReceiveAnswer
  <2>3. \A t \in Satellite, q \in Recipient : row'[t][q] = "working" => row[t][q] = "working"
    BY <2>1 DEF TypeOK
  <2> QED
    BY <1>2, <1>3, <2>2, <2>3
<1>9. ASSUME NEW s \in Satellite, NEW r \in Recipient, NEW o \in Reported,
             GrabReport(s, r, o)
      PROVE  ClaimsOK'
  <2>1. UNCHANGED <<doc, run, adding>> /\ MayReport(s, r, o) /\ grabbed = {}
    BY <1>9 DEF GrabReport
  <2>2. row[s][r] = "working" /\ (o = "READY" => Spend("unsent"))
    BY <2>1 DEF MayReport, Spoilers
  <2>3. ClaimOK(r) /\ ClaimedBy(s, r)
    BY <1>0, <2>2 DEF ClaimOK
  <2>4. doc[r] # NoDoc
    BY <2>3 DEF ClaimedBy, NoDoc
  <2>0. PICK g : g = [sat |-> s, rcpt |-> r, outcome |-> o, copy |-> doc[r]]
    OBVIOUS
  <2>5. grabbed' = {g} /\ UNCHANGED row
    BY <1>9, <2>0, <2>4 DEF GrabReport
  <2>6. g.sat = s /\ g.rcpt = r /\ g.outcome = o /\ g.copy = doc[r]
    BY <2>0
  <2>7. ASSUME NEW q \in Recipient, q # r PROVE ClaimOK(q)'
    <3>1. Elsewhere(q)
      BY <2>1, <2>5, <2>6, <2>7 DEF Elsewhere
    <3> QED
      BY <1>0, <3>1, ClaimStays
  <2>8. ClaimOK(r)'
    <3>1. \A u \in run : r \notin u.batch
      BY <2>2, <2>3 DEF ClaimOK, ChosenOK
    <3>2. Fresh(g)' /\ ClaimedBy(s, r)'
      BY <2>1, <2>3, <2>4, <2>6 DEF Fresh, ClaimedBy
    <3>3. doc'[r].inProgress => Unsettled(doc[r])'
      BY <2>1, <2>3 DEF ClaimOK, Unsettled, DsnFirst
    <3>4. \A t \in Satellite : row'[t][r] = "working" => ClaimedBy(t, r)'
      BY <2>1, <2>3, <2>5 DEF ClaimOK, ClaimedBy
    <3> QED
      BY <2>1, <2>5, <2>6, <3>1, <3>2, <3>3, <3>4 DEF ClaimOK
  <2>9. Unused({"dsn", "unsent"})' => \A h \in grabbed' : h.outcome # "READY"
    BY <2>2, <2>5, <2>6
  <2> QED
    BY <1>0, <1>3, <2>1, <2>7, <2>8, <2>9 DEF ClaimsOK
<1>10. CASE StoreReport
  <2>1. PICK g \in grabbed :
          /\ g.rcpt \in Recipient /\ g.sat \in Satellite
          /\ g.outcome \in Reported
          /\ \A r \in Recipient : r # g.rcpt \/ DsnFirst(g.copy) => doc'[r] = doc[r]
          /\ ~DsnFirst(g.copy) => doc'[g.rcpt].inProgress = FALSE
          /\ \A s \in Satellite, r \in Recipient :
               row'[s][r] = IF s = g.sat /\ r = g.rcpt /\ row[s][r] # "none"
                              THEN g.outcome ELSE row[s][r]
    BY <1>10, ReportStored
  <2>2. UNCHANGED <<run, adding>> /\ grabbed' = {}
    BY <1>10 DEF StoreReport
  <2>3. \A s \in Satellite, r \in Recipient : row'[s][r] = "working" => row[s][r] = "working"
    BY <2>1 DEF Reported
  <2>4. ASSUME NEW q \in Recipient, doc'[q] = doc[q] PROVE ClaimOK(q)'
    <3>1. Elsewhere(q)
      BY <2>2, <2>3, <2>4 DEF Elsewhere
    <3> QED
      BY <1>0, <3>1, ClaimStays
  <2>5. ClaimOK(g.rcpt) /\ Fresh(g) /\ ClaimedBy(g.sat, g.rcpt)
    BY <1>0, <2>1 DEF ClaimOK
  <2>6. ASSUME ~DsnFirst(g.copy) PROVE ClaimOK(g.rcpt)'
    <3>1. \A u \in run : g.rcpt \notin u.batch
      BY <2>5 DEF ClaimOK, ChosenOK
    <3>2. ASSUME NEW s \in Satellite PROVE row'[s][g.rcpt] # "working"
      <4>1. CASE row[s][g.rcpt] # "working"
        BY <2>1, <2>3, <4>1
      <4>2. CASE row[s][g.rcpt] = "working"
        <5>1. s = g.sat
          BY <2>5, <4>2 DEF ClaimOK, ClaimedBy
        <5> QED
          BY <2>1, <4>2, <5>1 DEF Reported
      <4> QED
        BY <4>1, <4>2
    <3> QED
      BY <2>1, <2>2, <2>6, <3>1, <3>2 DEF ClaimOK
  <2>7. NotThere'
    BY <1>0, <2>1, <2>2, <2>5 DEF NotThere, Fresh
  <2> QED
    BY <1>1, <2>1, <2>2, <2>4, <2>6, <2>7
<1>11. ASSUME NEW r \in Recipient, CheckOrphans(r) PROVE ClaimsOK'
  <2>1. UNCHANGED <<row, grabbed, run, adding>> /\ Orphan(r) /\ Claimed(r)
    BY <1>11 DEF CheckOrphans, Orphan, Spoilers
  <2>2. doc[r] \in Document /\ doc' = [doc EXCEPT ![r].inProgress = FALSE]
    BY <1>11, <2>1 DEF CheckOrphans, Released, Claimed, TypeOK, NoDoc
  <2>3. doc'[r].inProgress = FALSE /\ \A q \in Recipient : q # r => doc'[q] = doc[q]
    BY <2>2 DEF TypeOK, Document
  <2>4. /\ \A s \in Satellite : row[s][r] # "working"
        /\ \A g \in grabbed : g.rcpt # r
        /\ \A u \in run : r \notin u.batch
    BY <1>0, <2>1 DEF ClaimOK, ClaimedBy, ChosenOK, Orphan, Claimed
  <2>5. ClaimOK(r)'
    BY <2>1, <2>3, <2>4 DEF ClaimOK
  <2>6. ASSUME NEW q \in Recipient, q # r PROVE ClaimOK(q)'
    <3>1. Elsewhere(q)
      BY <2>1, <2>3, <2>6 DEF Elsewhere
    <3> QED
      BY <1>0, <3>1, ClaimStays
  <2>7. NotThere'
    <3>1. \A q \in Recipient : SameStatus(q)
      BY <1>11, ClaimsChange
    <3> QED
      BY <1>0, <2>1, <3>1 DEF NotThere, SameStatus
  <2> QED
    BY <1>1, <2>1, <2>5, <2>6, <2>7
<1>12. ASSUME NEW r \in Recipient, StoreDsn(r) PROVE ClaimsOK'
  <2>1. UNCHANGED <<row, grabbed, run, adding>> /\ \A g \in grabbed : g.rcpt # r
    BY <1>12 DEF StoreDsn
  <2>2. /\ doc[r] # NoDoc /\ doc'[r] # NoDoc /\ DsnFirst(doc'[r])
        /\ doc'[r].inProgress = doc[r].inProgress /\ doc'[r].client = doc[r].client
        /\ \A q \in Recipient : q # r => doc'[q] = doc[q]
    BY <1>12, DsnStored, DocumentStatus DEF StoreDsn
  <2>3. ClaimOK(r)'
    <3>1. Unsettled(doc[r])'
      BY <2>2 DEF Unsettled, DsnFirst
    <3>2. ASSUME NEW u \in run, r \in u.batch PROVE ChosenOK(u, r)'
      <4>1. ChosenOK(u, r)
        BY <1>0, <3>2 DEF ClaimOK
      <4> QED
        BY <2>1, <2>2, <3>1, <4>1 DEF ChosenOK
    <3> QED
      BY <1>0, <2>1, <2>2, <3>1, <3>2 DEF ClaimOK, ClaimedBy
  <2>4. ASSUME NEW q \in Recipient, q # r PROVE ClaimOK(q)'
    <3>1. Elsewhere(q)
      BY <2>1, <2>2, <2>4 DEF Elsewhere
    <3> QED
      BY <1>0, <3>1, ClaimStays
  <2>5. NotThere'
    BY <1>0, <2>1, <2>2 DEF NotThere
  <2> QED
    BY <1>1, <2>1, <2>3, <2>4, <2>5
<1> QED
  BY <1>4, <1>5, <1>6, <1>7, <1>8, <1>9, <1>10, <1>11, <1>12, TaskClaims
  DEF FigureStep, Adding, Rows

LEMMA VersionsAreTyped ==
  ASSUME TypeOK
  PROVE  \A m \in Versions : m.count \in Counters
BY MailingParts DEF Versions, ToSave, InUse, Mailing

(* The invariant is kept: a version of the mailing that is stored or about *)
(* to be is one that was exact before, or has just been incremented while  *)
(* there was no other.                                                     *)
LEMMA ExactStays ==
  ASSUME TypeOK, TypeOK', SessionsOK, Bounded, CountInv, Quiet', [Next]_vars
  PROVE  ExactInv'
PROOF
<1>1. /\ Quiet /\ \A e \in Spoilers : ~Spend(e)
      /\ Unused({"dsn", "unsent"})' =>
           Unused({"dsn", "unsent"}) /\ ~Spend("dsn") /\ ~Spend("unsent")
  BY QuietBefore
<1>2. OneInReactor /\ OneAddition /\ NoPause /\ EndsMarked /\ ExactInv
  BY <1>1 DEF CountInv
<1>3. ~scenario.dsnsCross
  BY <1>1 DEF Quiet
<1> SUFFICES ASSUME NEW m \in Versions'
             PROVE  ClaimsOK' /\ Exact(m.count)'
  <2>1. \A m \in Versions' : ClaimsOK' /\ Exact(m.count)'
    OBVIOUS
  <2> QED
    BY <2>1 DEF ExactInv
<1>4. VersionsSame \/ CountAddition \/ CountReports \/ CountDsn
  BY <1>1, <1>2, VersionsStay
<1>5. CASE CountAddition \/ CountReports \/ CountDsn
  <2>1. CountAddition \/ CountReports \/ CountDsn =>
          \E d : ReactorFree /\ UNCHANGED sessions /\ Increase(d)
    BY <1>3 DEF CountAddition, CountReports, CountDsn, reactorVars
  <2>2. mailing \in Versions
    BY <1>2, <1>5, <2>1, VersionsCounted
  <2>3. PICK c : c = mailing.count
    OBVIOUS
  <2>4. c \in Counters /\ Exact(c)
    <3>1. c \in Counters
      BY <2>2, <2>3, VersionsAreTyped
    <3>2. Exact(mailing.count)
      BY <1>2, <2>2 DEF ExactInv
    <3> QED
      BY <2>3, <3>1, <3>2
  <2>5. PICK d : ReactorFree /\ UNCHANGED sessions /\ Increase(d) /\ Exact(Plus(c, d))'
    BY <1>1, <1>2, <1>3, <1>5, <2>4, CountedExact
  <2>6. m.count = Plus(c, d)
    BY <1>2, <2>3, <2>5, VersionsCounted
  <2>7. FigureStep
    BY <1>1, <1>2, <2>2, FiguresElse
  <2>8. ClaimsOK
    BY <1>2, <2>2 DEF ExactInv
  <2>9. ClaimsOK'
    BY <1>1, <1>3, <2>7, <2>8, ClaimsStay
  <2> QED
    BY <2>5, <2>6, <2>9
<1>6. CASE ~CountAddition /\ ~CountReports /\ ~CountDsn
  <2>1. PICK v \in Versions : v.count = m.count
    BY <1>4, <1>6 DEF VersionsSame
  <2>2. PICK c : c = v.count
    OBVIOUS
  <2>3. c \in Counters
    BY <2>1, <2>2, VersionsAreTyped
  <2>4. Exact(v.count) /\ ClaimsOK
    BY <1>2, <2>1 DEF ExactInv
  <2>5. Exact(c)
    BY <2>2, <2>4
  <2>6. FigureStep
    BY <1>1, <1>2, <2>1, FiguresElse
  <2>7. ClaimsOK'
    BY <1>1, <1>3, <2>4, <2>6, ClaimsStay
  <2>8. Exact(c)'
    BY <1>1, <1>2, <1>6, <2>3, <2>4, <2>5, <2>6, FiguresStay
  <2>9. m.count = c
    BY <2>1, <2>2
  <2> QED
    BY <2>7, <2>8, <2>9
<1> QED
  BY <1>5, <1>6

(* Unless a pause, a reset, the time limit or a stop of the master         *)
(* happened, a report was repeated or not saved, a claim was released      *)
(* while its satellite was away, or DSNs cross saves, the counters of a    *)
(* mailing that was not closed are exact: whatever calls save the mailing  *)
(* over a version they read before, with increments of three writers under *)
(* way, each recipient that is inserted, reported or bounces is counted,   *)
(* and counted once.                                                       *)
THEOREM CountersAreExact == Spec => []CountersExact
<1> DEFINE I == SessionsOK /\ Bounded /\ CountInv
<1>1. Init => I
  <2> SUFFICES ASSUME Init PROVE I
    OBVIOUS
  <2>1. budget \in [Event -> Nat] /\ budget = scenario.events
    BY ControlAssumption DEF Init, Scenario
  <2>2. SessionsOK /\ Bounded
    BY <2>1 DEF Init, SessionsOK, Bounded
  <2>3. OneInReactor /\ OneAddition /\ EndsMarked
    BY DEF Init, OneInReactor, OneAddition, EndsMarked
  <2>4. mailing.status = "FILLING"
    BY DEF Init, Created, NoMailing
  <2>5. NoPause
    BY <2>4 DEF Init, NoPause, Closer
  <2>6. \A r \in Recipient : doc[r] = NoDoc
    BY DEF Init
  <2>7. ClaimsOK
    BY <2>6 DEF Init, ClaimsOK, ClaimOK, NotThere, NoDoc
  <2>8. Versions \subseteq {mailing}
    BY DEF Init, Versions, ToSave
  <2>9. Exact(Zero)
    <3>1. /\ Zero.total = 0 /\ Zero.pending = 0 /\ Zero.sent = 0 /\ Zero.error = 0
          /\ Zero.soft = 0
      BY DEF Zero, Counts
    <3>2. AddedNotCounted = 0
      BY DEF Init, AddedNotCounted, Inserted
    <3>3. Existing = {} /\ \A S : OfStatus(S) = {}
      BY <2>6 DEF Existing, OfStatus
    <3>4. Cardinality({}) = 0
      BY FS_EmptySet
    <3>5. counted = Zero /\ noticed = Zero
      BY DEF Init
    <3> QED
      BY <3>1, <3>2, <3>3, <3>4, <3>5, ExactParts
  <2>10. mailing.count = Zero
    BY DEF Init, Created, NoMailing
  <2>11. ExactInv
    BY <2>7, <2>8, <2>9, <2>10 DEF ExactInv
  <2> QED
    BY <2>2, <2>3, <2>5, <2>11 DEF CountInv
<1>2. TypeOK /\ TypeOK' /\ I /\ [Next]_vars => I'
  <2> SUFFICES ASSUME TypeOK, TypeOK', SessionsOK, Bounded, CountInv, [Next]_vars
               PROVE  I'
    OBVIOUS
  <2>1. SessionsOK' /\ Bounded'
    BY StepKeepsSessions, BudgetsFall
  <2>2. OneInReactor' /\ OneAddition'
    BY OneInReactorStays, OneAdditionStays DEF CountInv
  <2>3. ASSUME Quiet' PROVE (NoPause /\ EndsMarked /\ ExactInv)'
    <3>1. Quiet /\ \A e \in Spoilers : ~Spend(e)
      BY <2>3, QuietBefore
    <3>2. NoPause' /\ EndsMarked'
      BY <3>1, NoPauseStays DEF CountInv
    <3>3. ExactInv'
      BY <2>3, ExactStays
    <3> QED
      BY <3>2, <3>3
  <2> QED
    BY <2>1, <2>2, <2>3 DEF CountInv
<1>3. TypeOK /\ I => CountersExact
  <2> SUFFICES ASSUME TypeOK, CountInv, Undisturbed PROVE Exact(mailing.count)
    BY DEF CountersExact, Exact
  <2>1. Quiet
    BY DEF Undisturbed, Quiet, Spoilers
  <2>2. mailing # NoMailing /\ mailing.ended = FALSE
    BY MailingParts DEF Undisturbed, Mailing
  <2>3. mailing \in Versions
    BY <2>2 DEF Versions, InUse
  <2> QED
    BY <2>1, <2>3 DEF CountInv, ExactInv
<1> QED
  BY <1>1, <1>2, <1>3, ControlTyped, PTL DEF Spec

=============================================================================
