------------------------ MODULE StatusReportsProofs -------------------------
(***************************************************************************)
(* Proofs about StatusReports: a client that is told of an e-mail that was *)
(* kept can have it, a notification outlives the report it crosses, and    *)
(* the pages of a client leave nothing out.                                *)
(*                                                                         *)
(* What the client sees depends on an e-mail that moves: from the          *)
(* satellite, over a connection that may break, to the master, while a     *)
(* write that will show the recipient is under way.  So the invariant says *)
(* of each stage where the e-mail must be, unless it is "lost".            *)
(***************************************************************************)
EXTENDS StatusReports, FiniteSetTheorems, SequenceTheorems, TLAPS

(* The types this needs; those of the cursor and its dates come later, for *)
(* they rest on the order of what is found.                                *)
Typed ==
  /\ doc \in [Recipient -> Document]
  /\ now \in Nat
  /\ writes \subseteq Write /\ requests \subseteq Request
  /\ content \in [Recipient -> SUBSET Place]
  /\ budget \in Scenario /\ scenario \in Scenario

AtMaster(r) == content[r] \cap {"master", "taken"} # {}
Coming(r) == \E q \in requests : q.rcpt = r /\ q.stage = "coming"
Kept(r) == AtMaster(r) \/ "satellite" \in content[r] \/ Coming(r)

(* Recipients whose e-mail is kept, and was not lost.                      *)
NotLost(r) == scenario.backup /\ r \notin lost

(* An e-mail that was sent is somewhere, and at the master when the        *)
(* recipient is shown.                                                     *)
SentKept ==
  \A r \in Recipient : NotLost(r) /\ doc[r].status = "sent" => Kept(r)
ShownAtMaster ==
  \A r \in Recipient :
    NotLost(r) /\ doc[r].status = "sent" /\ doc[r].shown => AtMaster(r)

(* So it is when the write that will say so arrives.                       *)
ReportsKept ==
  \A w \in writes :
    NotLost(w.rcpt) /\ w.kind = "report" /\ w.status = "sent" => Kept(w.rcpt)
ContentsAtMaster ==
  \A w \in writes : NotLost(w.rcpt) /\ w.kind = "content" => AtMaster(w.rcpt)

(* What is asked for is somewhere; what the satellite did not find is at   *)
(* the master or on its way there.                                         *)
RequestsKept == \A q \in requests : NotLost(q.rcpt) => Kept(q.rcpt)
MissingKept ==
  \A q \in requests :
    NotLost(q.rcpt) /\ q.stage = "missing"
      => AtMaster(q.rcpt) \/ Coming(q.rcpt)

(* The thread of reports leaves alone those that were notified.            *)
ReadBeforeDsn == \A w \in writes : w.kind = "report" => w.read # "error"

IInv ==
  /\ Typed /\ SentKept /\ ShownAtMaster
  /\ ReportsKept /\ ContentsAtMaster /\ RequestsKept /\ MissingKept
  /\ ReadBeforeDsn

-----------------------------------------------------------------------------
(* What the steps do to the documents, the writes and the e-mails.         *)
mailVars == <<doc, writes, content, requests, lost>>

TouchStep ==
  \E rs \in SUBSET Recipient :
    \E status \in {"timeout", "ready"} : Touch(rs, status)
GivenStep ==
  \E rs : content' = Given(rs) /\ UNCHANGED <<doc, writes, requests, lost>>

Moves ==
  \/ TouchStep \/ GivenStep \/ RetrieveContents
  \/ \E r \in Recipient :
       \/ \E status \in scenario.outcomes : ReadForReport(r, status)
       \/ ReceiveDsn(r) \/ Cut(r) \/ Purge(r)
  \/ \E w \in writes : WriteStep(w)
  \/ \E q \in requests : RequestStep(q)

LEMMA Steps ==
  ASSUME [Next]_vars
  PROVE  /\ UNCHANGED scenario
         /\ (UNCHANGED mailVars /\ (now' = now \/ now' = now + 1))
            \/ (Moves /\ UNCHANGED now)
PROOF
<1>1. CASE UNCHANGED vars
  BY <1>1 DEF vars, stateVars, docVars, contentVars, mailVars
<1>2. CASE Next
  <2>0. UNCHANGED scenario
    BY <1>2 DEF Next
  <2>1. CASE Tick
    BY <2>0, <2>1 DEF Tick, contentVars, mailVars
  <2>2. CASE Expire
    <3> DEFINE rs == {r \in Recipient : doc[r].status \in {"ready", "soft"}}
    <3>1. rs \in SUBSET Recipient /\ Touch(rs, "timeout")
      BY <2>2 DEF Expire
    <3> HIDE DEF rs
    <3>2. TouchStep
      BY <3>1 DEF TouchStep
    <3> QED
      BY <2>0, <3>1, <3>2 DEF Moves, Touch
  <2>3. CASE RetrieveContents
    BY <2>0, <2>3 DEF Moves, RetrieveContents
  <2>4. CASE StartPoll
    BY <2>0, <2>4 DEF StartPoll, docVars, contentVars, mailVars
  <2>5. CASE CountPoll
    BY <2>0, <2>5 DEF CountPoll, docVars, contentVars, mailVars
  <2>6. CASE LastCount
    BY <2>0, <2>6 DEF LastCount, docVars, contentVars, mailVars
  <2>7. CASE FindPoll
    <3>1. UNCHANGED <<docVars, requests, lost>>
      BY <2>7 DEF FindPoll
    <3>2. content' = content \/ content' = Given(ToSet(Results))
      BY <2>7, Zenon DEF FindPoll
    <3> QED
      BY <2>0, <3>1, <3>2 DEF docVars, mailVars, Moves, GivenStep
  <2>8. ASSUME NEW r \in Recipient, NEW status \in scenario.outcomes,
               ReadForReport(r, status)
        PROVE  Moves /\ UNCHANGED now
    BY <2>8 DEF Moves, ReadForReport
  <2>9. ASSUME NEW r \in Recipient, ReceiveDsn(r)
        PROVE  Moves /\ UNCHANGED now
    BY <2>9 DEF Moves, ReceiveDsn
  <2>10. ASSUME NEW r \in Recipient, Reset(r)
         PROVE  Moves /\ UNCHANGED now
    <3>1. Touch({r}, "ready") /\ {r} \in SUBSET Recipient
      BY <2>10 DEF Reset
    <3>2. TouchStep
      BY <3>1 DEF TouchStep
    <3> QED
      BY <3>1, <3>2 DEF Moves, Touch
  <2>11. ASSUME NEW r \in Recipient, Cut(r)
         PROVE  Moves /\ UNCHANGED now
    BY <2>11 DEF Moves, Cut, docVars
  <2>12. ASSUME NEW r \in Recipient, Reconnect(r)
         PROVE  UNCHANGED mailVars /\ UNCHANGED now
    BY <2>12 DEF Reconnect, docVars, mailVars
  <2>13. ASSUME NEW r \in Recipient, Purge(r)
         PROVE  Moves /\ UNCHANGED now
    BY <2>13 DEF Moves, Purge, docVars
  <2>14. ASSUME NEW rs \in SUBSET Recipient, GetStatus(rs)
         PROVE  Moves /\ UNCHANGED now
    BY <2>14 DEF Moves, GivenStep, GetStatus, docVars
  <2>15. ASSUME NEW w \in writes, WriteStep(w)
         PROVE  Moves /\ UNCHANGED now
    BY <2>15 DEF Moves, WriteStep, StampReport, Commit
  <2>16. ASSUME NEW q \in requests, RequestStep(q)
         PROVE  Moves /\ UNCHANGED now
    BY <2>16 DEF Moves, RequestStep, AnswerRequest, GetContent, docVars
  <2> QED
    BY <1>2, <2>0, <2>1, <2>2, <2>3, <2>4, <2>5, <2>6, <2>7, <2>8, <2>9,
       <2>10, <2>11, <2>12, <2>13, <2>14, <2>15, <2>16 DEF Next, Change, PollStep
<1> QED
  BY <1>1, <1>2

-----------------------------------------------------------------------------
LEMMA TypedInit == ASSUME ReportsAssumption, Init PROVE Typed
PROOF
<1>1. NewDoc \in Document
  BY DEF NewDoc, Document, Status, Final
<1>2. budget \in Scenario /\ scenario \in Scenario
  BY DEF ReportsAssumption, Init
<1> QED
  BY <1>1, <1>2 DEF Init, Typed

LEMMA ContentWriteTyped ==
  ASSUME Typed, NEW r \in Recipient
  PROVE  /\ ContentWrite(r) \in Write
         /\ ContentWrite(r).kind = "content" /\ ContentWrite(r).rcpt = r
BY DEF Typed, ContentWrite, Write, Status, Final

LEMMA AskedTyped ==
  ASSUME NEW r \in Recipient, FreeSlots(r) # {}
  PROVE  /\ AskFor(r) \in Request /\ CallOf(AskFor(r)) \in Call
         /\ AskFor(r).rcpt = r /\ AskFor(r).stage = "asked"
PROOF
<1>1. PICK n \in 1..2 : n = CHOOSE m \in FreeSlots(r) : TRUE
  BY DEF FreeSlots
<1>2. AskFor(r) = [rcpt |-> r, slot |-> n, stage |-> "asked"]
  BY <1>1 DEF AskFor
<1> QED
  BY <1>2 DEF Request, CallOf, Call

LEMMA AfterTyped ==
  ASSUME NEW w \in Write, NEW d \in Document
  PROVE  After(w, d) \in Document
PROOF
<1>1. CASE w.kind = "report"
  <2>1. ShownAfter(w.status) \in BOOLEAN
    BY Zenon DEF ShownAfter
  <2> QED
    BY <1>1, <2>1 DEF After, Document, Write
<1>2. CASE w.kind = "dsn"
  BY <1>2 DEF After, Document, Write, Status, Final
<1>3. CASE w.kind = "content"
  BY <1>3 DEF After, Document, Write
<1> QED
  BY <1>1, <1>2, <1>3 DEF Write

LEMMA GivenTyped ==
  ASSUME Typed, NEW rs
  PROVE  Given(rs) \in [Recipient -> SUBSET Place]
BY DEF Typed, Given, Place

Events == {"ticks", "reports", "dsns", "expiries", "resets", "cuts", "asks", "purges"}

LEMMA SpendTyped ==
  ASSUME Typed, NEW what \in Events, Spend(what) PROVE budget' \in Scenario
PROOF
<1>1. budget[what] - 1 \in Nat
  BY DEF Typed, Scenario, Events, Spend
<1> QED
  BY <1>1 DEF Typed, Scenario, Events, Spend

LEMMA BudgetTyped == ASSUME Typed, [Next]_vars PROVE budget' \in Scenario
PROOF
<1>1. \/ UNCHANGED budget
      \/ \E what \in Events : Spend(what)
  BY DEF Events, Next, Change, vars, stateVars, docVars, Tick, Expire, Reset, Touch,
     RetrieveContents, PollStep, StartPoll, CountPoll, FindPoll, LastCount,
     ReadForReport, ReceiveDsn, Cut, Reconnect, Purge, GetStatus, WriteStep,
     StampReport, Commit, RequestStep, AnswerRequest, GetContent
<1> QED
  BY <1>1, SpendTyped DEF Typed

LEMMA TypedNext == ASSUME Typed, [Next]_vars PROVE Typed'
PROOF
<1>0. budget' \in Scenario /\ scenario' \in Scenario /\ now' \in Nat
  BY Steps, BudgetTyped DEF Typed
<1>1. CASE UNCHANGED mailVars
  BY <1>0, <1>1 DEF Typed, mailVars
<1>2. CASE TouchStep
  <2>1. PICK rs \in SUBSET Recipient, status \in {"timeout", "ready"} :
          Touch(rs, status)
    BY <1>2 DEF TouchStep
  <2>2. doc' \in [Recipient -> Document]
    BY <2>1 DEF Touch, Typed, Document, Status, Final
  <2> QED
    BY <1>0, <2>1, <2>2 DEF Touch, contentVars, Typed
<1>3. CASE GivenStep
  BY <1>0, <1>3, GivenTyped DEF GivenStep, Typed
<1>4. CASE RetrieveContents
  <2> DEFINE asked == {r \in Tried : "master" \notin content[r]}
             new == {AskFor(r) : r \in asked}
  <2>1. Tried \subseteq Recipient
    BY DEF Tried, Hidden
  <2>2. \A r \in asked : FreeSlots(r) # {}
    BY <1>4 DEF RetrieveContents
  <2>3. \A q \in new : q \in Request
    BY <2>1, <2>2, AskedTyped
  <2>4. requests' = requests \cup new
    BY <1>4, Zenon DEF RetrieveContents
  <2>5. writes' = writes \cup {ContentWrite(r) : r \in Tried \ asked}
    BY <1>4 DEF RetrieveContents
  <2>6. writes' \subseteq Write
    BY <2>1, <2>5, ContentWriteTyped DEF Typed
  <2>7. requests' \subseteq Request
    BY <2>3, <2>4 DEF Typed
  <2> QED
    BY <1>0, <1>4, <2>6, <2>7 DEF RetrieveContents, Typed
<1>5. ASSUME NEW r \in Recipient, NEW status \in scenario.outcomes,
             ReadForReport(r, status)
      PROVE  Typed'
  <2> DEFINE w == [kind |-> "report", rcpt |-> r, status |-> status,
                   read |-> doc[r].status, dsn |-> doc[r].dsn, stamp |-> 0]
  <2>1. status \in Status /\ doc[r] \in Document
    BY DEF Typed, Scenario, Status
  <2>2. w \in Write
    BY <2>1 DEF Write, Document
  <2>3. writes' \subseteq Write
    BY <1>5, <2>2 DEF ReadForReport, Typed
  <2>4. content' \in [Recipient -> SUBSET Place]
    BY <1>5 DEF ReadForReport, Typed, Place
  <2> QED
    BY <1>0, <1>5, <2>3, <2>4 DEF ReadForReport, Typed
<1>6. ASSUME NEW r \in Recipient, ReceiveDsn(r)
      PROVE  Typed'
  <2> DEFINE w == [kind |-> "dsn", rcpt |-> r, status |-> "error",
                   read |-> "error", dsn |-> TRUE, stamp |-> now]
  <2>1. w \in Write
    BY DEF Typed, Write, Status, Final
  <2>2. writes' = writes \cup {w}
    BY <1>6 DEF ReceiveDsn
  <2>3. writes' \subseteq Write
    BY <2>1, <2>2 DEF Typed
  <2> QED
    BY <1>0, <1>6, <2>3 DEF ReceiveDsn, contentVars, Typed
<1>7. ASSUME NEW r \in Recipient, Cut(r)
      PROVE  Typed'
  <2>1. requests' \subseteq requests
    BY <1>7 DEF Cut
  <2>2. content' = content \/ KeepFile(r)
    BY <1>7, Zenon DEF Cut
  <2>3. content' \in [Recipient -> SUBSET Place]
    BY <2>2 DEF KeepFile, Typed, Place
  <2> QED
    BY <1>0, <1>7, <2>1, <2>3 DEF Cut, docVars, Typed
<1>8. ASSUME NEW r \in Recipient, Purge(r)
      PROVE  Typed'
  BY <1>0, <1>8 DEF Purge, docVars, Typed
<1>9. ASSUME NEW w \in writes, StampReport(w)
      PROVE  Typed'
  BY <1>0, <1>9 DEF StampReport, contentVars, Typed, Write
<1>10. ASSUME NEW w \in writes, Commit(w)
       PROVE  Typed'
  <2>1. After(w, doc[w.rcpt]) \in Document
    BY AfterTyped DEF Typed, Write
  <2> QED
    BY <1>0, <1>10, <2>1 DEF Commit, contentVars, Typed
<1>11. ASSUME NEW q \in requests, AnswerRequest(q)
       PROVE  Typed'
  BY <1>0, <1>11 DEF AnswerRequest, docVars, Typed, Request
<1>12. ASSUME NEW q \in requests, GetContent(q)
       PROVE  Typed'
  <2>1. writes' \subseteq Write
    BY <1>12, ContentWriteTyped DEF GetContent, Typed, Request
  <2>2. content' \in [Recipient -> SUBSET Place]
    BY <1>12 DEF GetContent, Typed, Request, Place
  <2> QED
    BY <1>0, <1>12, <2>1, <2>2 DEF GetContent, Typed
<1> QED
  BY Steps, <1>1, <1>2, <1>3, <1>4, <1>5, <1>6, <1>7, <1>8, <1>9, <1>10, <1>11,
     <1>12 DEF Moves, WriteStep, RequestStep

-----------------------------------------------------------------------------
(* An e-mail that is not lost stays where it is or moves on.               *)
LEMMA LostStays == ASSUME [Next]_vars PROVE lost \subseteq lost'
BY Steps DEF mailVars, Moves, TouchStep, Touch, GivenStep, RetrieveContents,
   ReadForReport, ReceiveDsn, Cut, Purge, WriteStep, StampReport, Commit,
   RequestStep, AnswerRequest, GetContent, contentVars, pollVars

LEMMA NotLostBefore ==
  ASSUME [Next]_vars, NEW r, NotLost(r)' PROVE NotLost(r)
BY Steps, LostStays DEF NotLost

LEMMA KeptStays ==
  ASSUME Typed, [Next]_vars, NEW r \in Recipient, NotLost(r)'
  PROVE  /\ AtMaster(r) => AtMaster(r)'
         /\ Kept(r) => Kept(r)'
PROOF
<1> USE DEF AtMaster, Coming, Kept
<1>1. CASE UNCHANGED <<content, requests>>
  BY <1>1
<1>2. CASE GivenStep
  BY <1>2 DEF GivenStep, Given, Typed
<1>3. CASE RetrieveContents
  BY <1>3 DEF RetrieveContents
<1>4. ASSUME NEW s \in Recipient, NEW status \in scenario.outcomes,
             ReadForReport(s, status)
      PROVE  /\ AtMaster(r) => AtMaster(r)'
             /\ Kept(r) => Kept(r)'
  BY <1>4 DEF ReadForReport, Typed
<1>5. ASSUME NEW s \in Recipient, Cut(s)
      PROVE  /\ AtMaster(r) => AtMaster(r)'
             /\ Kept(r) => Kept(r)'
  <2>1. requests' = {q \in requests : q.rcpt # s}
    BY <1>5 DEF Cut
  <2>2. \/ \A q \in requests : q.rcpt = s => q.stage # "coming"
        \/ lost' = lost \cup {s}
        \/ KeepFile(s)
    BY <1>5 DEF Cut
  <2>3. content' = content \/ KeepFile(s)
    BY <1>5, Zenon DEF Cut
  <2>4. /\ content[r] \subseteq content'[r]
        /\ KeepFile(s) /\ r = s => "satellite" \in content'[r]
    BY <2>3 DEF KeepFile, Typed
  <2> QED
    BY <2>1, <2>2, <2>4 DEF NotLost
<1>6. ASSUME NEW s \in Recipient, Purge(s)
      PROVE  /\ AtMaster(r) => AtMaster(r)'
             /\ Kept(r) => Kept(r)'
  BY <1>6 DEF Purge, NotLost, Typed
<1>7. ASSUME NEW q \in requests, AnswerRequest(q)
      PROVE  /\ AtMaster(r) => AtMaster(r)'
             /\ Kept(r) => Kept(r)'
  <2>1. AtMaster(r) => AtMaster(r)'
    BY <1>7 DEF AnswerRequest, Typed, Request
  <2>2. Coming(r) => Coming(r)'
    BY <1>7 DEF AnswerRequest
  <2>3. ASSUME "satellite" \in content[r], q.rcpt = r
        PROVE  Coming(r)'
    <3> DEFINE p == [q EXCEPT !.stage = "coming"]
    <3>1. p \in requests'
      BY <1>7, <2>3 DEF AnswerRequest
    <3>2. p.rcpt = r /\ p.stage = "coming"
      BY <2>3 DEF Typed, Request
    <3> QED
      BY <3>1, <3>2
  <2>4. ASSUME "satellite" \in content[r], q.rcpt # r
        PROVE  "satellite" \in content'[r]
    BY <1>7, <2>4 DEF AnswerRequest, Typed, Request
  <2> QED
    BY <2>1, <2>2, <2>3, <2>4
<1>8. ASSUME NEW q \in requests, GetContent(q)
      PROVE  /\ AtMaster(r) => AtMaster(r)'
             /\ Kept(r) => Kept(r)'
  BY <1>8 DEF GetContent, Typed, Request
<1> QED
  BY Steps, <1>1, <1>2, <1>3, <1>4, <1>5, <1>6, <1>7, <1>8
  DEF Moves, mailVars, TouchStep, Touch, contentVars, WriteStep, StampReport,
      Commit, RequestStep, ReceiveDsn

-----------------------------------------------------------------------------
(* Documents change by a write that arrives, or are expired or reset.      *)
LEMMA DocSteps ==
  ASSUME [Next]_vars
  PROVE  doc' = doc \/ TouchStep \/ \E w \in writes : Commit(w)
BY Steps DEF mailVars, Moves, GivenStep, RetrieveContents, ReadForReport,
   ReceiveDsn, Cut, Purge, WriteStep, StampReport, RequestStep, AnswerRequest,
   GetContent, docVars

LEMMA SentKeptNext ==
  ASSUME IInv, [Next]_vars PROVE SentKept' /\ ShownAtMaster'
PROOF
<1> SUFFICES ASSUME NEW r \in Recipient, NotLost(r)', doc'[r].status = "sent"
             PROVE  Kept(r)' /\ (doc'[r].shown => AtMaster(r)')
  BY DEF SentKept, ShownAtMaster
<1>0. /\ NotLost(r)
      /\ Kept(r) => Kept(r)'
      /\ AtMaster(r) => AtMaster(r)'
  BY NotLostBefore, KeptStays DEF IInv
<1>1. CASE doc'[r] = doc[r]
  BY <1>0, <1>1 DEF IInv, SentKept, ShownAtMaster
<1>2. CASE TouchStep
  <2>1. PICK rs \in SUBSET Recipient, status \in {"timeout", "ready"} :
          Touch(rs, status)
    BY <1>2 DEF TouchStep
  <2>2. r \notin rs
    BY <2>1 DEF Touch, IInv, Typed, Document
  <2>3. doc'[r] = doc[r]
    BY <2>1, <2>2 DEF Touch
  <2> QED
    BY <1>1, <2>3
<1>3. ASSUME NEW w \in writes, Commit(w), w.rcpt = r
      PROVE  Kept(r)' /\ (doc'[r].shown => AtMaster(r)')
  <2>0. w \in Write /\ doc[r] \in Document
    BY DEF IInv, Typed
  <2>1. doc'[r] = After(w, doc[r])
    BY <1>3 DEF Commit, IInv, Typed
  <2>2. CASE w.kind = "report"
    <3>1. doc'[r].status = w.status /\ doc'[r].shown = ShownAfter(w.status)
      BY <2>1, <2>2 DEF After
    <3>2. Kept(r)
      BY <1>0, <1>3, <2>2, <3>1 DEF IInv, ReportsKept
    <3>3. ~doc'[r].shown
      BY <1>0, <3>1, Zenon DEF ShownAfter, NotLost
    <3> QED
      BY <1>0, <3>2, <3>3
  <2>3. CASE w.kind = "dsn"
    BY <2>0, <2>1, <2>3 DEF After, Document
  <2>4. CASE w.kind = "content"
    BY <1>0, <1>3, <2>4 DEF IInv, ContentsAtMaster, Kept
  <2> QED
    BY <2>0, <2>2, <2>3, <2>4 DEF Write
<1>4. ASSUME NEW w \in writes, Commit(w), w.rcpt # r
      PROVE  doc'[r] = doc[r]
  BY <1>4 DEF Commit, IInv, Typed
<1> QED
  BY DocSteps, <1>1, <1>2, <1>3, <1>4

(* Where writes come from.                                                 *)
LEMMA ReportSteps ==
  ASSUME Typed, [Next]_vars, NEW w \in writes', w.kind = "report"
  PROVE  \/ \E v \in writes : /\ v.kind = "report" /\ v.rcpt = w.rcpt
                              /\ v.status = w.status /\ v.read = w.read
         \/ /\ ReadForReport(w.rcpt, w.status) /\ w.rcpt \in Recipient
            /\ ~Notified(w.rcpt) /\ w.read = doc[w.rcpt].status
PROOF
<1> DEFINE Older == \E v \in writes : /\ v.kind = "report" /\ v.rcpt = w.rcpt
                                      /\ v.status = w.status /\ v.read = w.read
<1>1. CASE w \in writes
  BY <1>1
<1>2. CASE UNCHANGED writes
  BY <1>1, <1>2
<1>3. CASE RetrieveContents
  <2>1. Tried \subseteq Recipient
    BY DEF Tried, Hidden
  <2>2. \/ w \in writes
        \/ \E r \in Tried : w = ContentWrite(r)
    BY <1>3 DEF RetrieveContents
  <2> QED
    BY <1>1, <2>1, <2>2, ContentWriteTyped
<1>4. ASSUME NEW r \in Recipient, NEW status \in scenario.outcomes,
             ReadForReport(r, status), w \notin writes
      PROVE  /\ ReadForReport(w.rcpt, w.status) /\ w.rcpt \in Recipient
             /\ ~Notified(w.rcpt) /\ w.read = doc[w.rcpt].status
  <2>1. ~Notified(r)
    BY <1>4 DEF ReadForReport
  <2>2. w = [kind |-> "report", rcpt |-> r, status |-> status,
             read |-> doc[r].status, dsn |-> doc[r].dsn, stamp |-> 0]
    BY <1>4, <2>1 DEF ReadForReport
  <2>3. w.rcpt = r /\ w.status = status /\ w.read = doc[r].status
    BY <2>2
  <2> QED
    BY <1>4, <2>1, <2>3
<1>5. ASSUME NEW r \in Recipient, ReceiveDsn(r)
      PROVE  w \in writes
  BY <1>5 DEF ReceiveDsn
<1>6. ASSUME NEW v \in writes, StampReport(v)
      PROVE  Older
  BY <1>1, <1>6 DEF StampReport, Typed, Write
<1>7. ASSUME NEW v \in writes, Commit(v)
      PROVE  w \in writes
  BY <1>7 DEF Commit
<1>8. ASSUME NEW q \in requests, GetContent(q)
      PROVE  w \in writes
  BY <1>8, ContentWriteTyped DEF GetContent, Typed, Request
<1> QED
  BY Steps, <1>1, <1>2, <1>3, <1>4, <1>5, <1>6, <1>7, <1>8
  DEF mailVars, Moves, TouchStep, Touch, GivenStep, WriteStep, RequestStep,
      Cut, Purge, AnswerRequest, docVars

LEMMA ContentSteps ==
  ASSUME Typed, [Next]_vars, NEW w \in writes', w.kind = "content"
  PROVE  \/ w \in writes
         \/ w.rcpt \in Recipient /\ "master" \in content[w.rcpt]
         \/ \E q \in requests : q.rcpt = w.rcpt /\ GetContent(q)
PROOF
<1>2. CASE UNCHANGED writes
  BY <1>2
<1>3. CASE RetrieveContents
  <2> DEFINE asked == {r \in Tried : "master" \notin content[r]}
  <2>1. Tried \subseteq Recipient
    BY DEF Tried, Hidden
  <2>2. \/ w \in writes
        \/ \E r \in Tried \ asked : w = ContentWrite(r)
    BY <1>3 DEF RetrieveContents
  <2> QED
    BY <2>1, <2>2, ContentWriteTyped
<1>4. ASSUME NEW r \in Recipient, NEW status \in scenario.outcomes,
             ReadForReport(r, status)
      PROVE  w \in writes
  BY <1>4 DEF ReadForReport
<1>5. ASSUME NEW r \in Recipient, ReceiveDsn(r)
      PROVE  w \in writes
  BY <1>5 DEF ReceiveDsn
<1>6. ASSUME NEW v \in writes, StampReport(v)
      PROVE  w \in writes
  BY <1>6 DEF StampReport, Typed, Write
<1>7. ASSUME NEW v \in writes, Commit(v)
      PROVE  w \in writes
  BY <1>7 DEF Commit
<1>8. ASSUME NEW q \in requests, GetContent(q), w \notin writes
      PROVE  q.rcpt = w.rcpt
  BY <1>8, ContentWriteTyped DEF GetContent, Typed, Request
<1> QED
  BY Steps, <1>2, <1>3, <1>4, <1>5, <1>6, <1>7, <1>8
  DEF mailVars, Moves, TouchStep, Touch, GivenStep, WriteStep, RequestStep,
      Cut, Purge, AnswerRequest, docVars

LEMMA ReportsKeptNext == ASSUME IInv, [Next]_vars PROVE ReportsKept'
PROOF
<1> SUFFICES ASSUME NEW w \in writes', NotLost(w.rcpt)',
                    w.kind = "report", w.status = "sent"
             PROVE  Kept(w.rcpt)'
  BY DEF ReportsKept
<1>0. w.rcpt \in Recipient /\ NotLost(w.rcpt)
  BY TypedNext, NotLostBefore DEF IInv, Typed, Write
<1>1. ASSUME NEW v \in writes, v.kind = "report", v.rcpt = w.rcpt,
             v.status = w.status
      PROVE  Kept(w.rcpt)'
  BY <1>0, <1>1, KeptStays DEF IInv, ReportsKept
<1>2. ASSUME ReadForReport(w.rcpt, w.status)
      PROVE  Kept(w.rcpt)'
  <2>1. scenario.backup
    BY <1>0 DEF NotLost
  <2>2. "satellite" \in content'[w.rcpt]
    BY <1>0, <1>2, <2>1 DEF ReadForReport, IInv, Typed
  <2> QED
    BY <2>2 DEF Kept
<1> QED
  BY <1>1, <1>2, ReportSteps DEF IInv

LEMMA ContentsAtMasterNext == ASSUME IInv, [Next]_vars PROVE ContentsAtMaster'
PROOF
<1> SUFFICES ASSUME NEW w \in writes', NotLost(w.rcpt)', w.kind = "content"
             PROVE  AtMaster(w.rcpt)'
  BY DEF ContentsAtMaster
<1>0. w.rcpt \in Recipient /\ NotLost(w.rcpt)
  BY TypedNext, NotLostBefore DEF IInv, Typed, Write
<1>1. CASE w \in writes
  BY <1>0, <1>1, KeptStays DEF IInv, ContentsAtMaster
<1>2. CASE "master" \in content[w.rcpt]
  BY <1>0, <1>2, KeptStays DEF IInv, AtMaster
<1>3. ASSUME NEW q \in requests, q.rcpt = w.rcpt, GetContent(q)
      PROVE  AtMaster(w.rcpt)'
  <2>1. CASE q.stage = "coming"
    BY <1>0, <1>3, <2>1 DEF GetContent, AtMaster, IInv, Typed
  <2>2. CASE q.stage = "missing"
    <3>1. ~\E p \in requests : p.rcpt = q.rcpt /\ p # q
      BY <1>3, <2>2 DEF GetContent, NotLost
    <3>2. ~Coming(w.rcpt)
      BY <1>3, <2>2, <3>1 DEF Coming
    <3>3. AtMaster(w.rcpt)
      BY <1>0, <1>3, <2>2, <3>2 DEF IInv, MissingKept
    <3> QED
      BY <1>0, <3>3, KeptStays DEF IInv
  <2> QED
    BY <1>3, <2>1, <2>2 DEF GetContent, IInv, Typed, Request
<1> QED
  BY <1>1, <1>2, <1>3, ContentSteps DEF IInv

(* Where requests come from.                                               *)
LEMMA RequestSteps ==
  ASSUME Typed, [Next]_vars, NEW q \in requests'
  PROVE  \/ q \in requests
         \/ q.rcpt \in Hidden /\ q.stage = "asked"
         \/ \E p \in requests : p.rcpt = q.rcpt /\ AnswerRequest(p)
PROOF
<1>1. CASE UNCHANGED requests
  BY <1>1
<1>2. CASE RetrieveContents
  <2>1. \/ q \in requests
        \/ \E r \in Tried : FreeSlots(r) # {} /\ q = AskFor(r)
    BY <1>2 DEF RetrieveContents
  <2> QED
    BY <2>1, AskedTyped DEF Tried, Hidden
<1>3. ASSUME NEW r \in Recipient, Cut(r)
      PROVE  q \in requests
  BY <1>3 DEF Cut
<1>4. ASSUME NEW p \in requests, AnswerRequest(p), q \notin requests
      PROVE  p.rcpt = q.rcpt
  BY <1>4 DEF AnswerRequest, Typed, Request
<1>5. ASSUME NEW p \in requests, GetContent(p)
      PROVE  q \in requests
  BY <1>5 DEF GetContent
<1> QED
  BY Steps, <1>1, <1>2, <1>3, <1>4, <1>5
  DEF mailVars, Moves, TouchStep, Touch, GivenStep, WriteStep, StampReport,
      Commit, RequestStep, ReadForReport, ReceiveDsn, Purge, docVars, contentVars

LEMMA RequestsKeptNext == ASSUME IInv, [Next]_vars PROVE RequestsKept'
PROOF
<1> SUFFICES ASSUME NEW q \in requests', NotLost(q.rcpt)'
             PROVE  Kept(q.rcpt)'
  BY DEF RequestsKept
<1>0. q.rcpt \in Recipient /\ NotLost(q.rcpt)
  BY TypedNext, NotLostBefore DEF IInv, Typed, Request
<1>1. Kept(q.rcpt)
  BY <1>0, RequestSteps DEF IInv, RequestsKept, SentKept, Hidden
<1> QED
  BY <1>0, <1>1, KeptStays DEF IInv

LEMMA MissingKeptNext == ASSUME IInv, [Next]_vars PROVE MissingKept'
PROOF
<1> SUFFICES ASSUME NEW q \in requests', NotLost(q.rcpt)', q.stage = "missing"
             PROVE  AtMaster(q.rcpt)' \/ Coming(q.rcpt)'
  BY DEF MissingKept
<1>0. q.rcpt \in Recipient /\ NotLost(q.rcpt)
  BY TypedNext, NotLostBefore DEF IInv, Typed, Request
<1>1. ASSUME NEW p \in requests, p.rcpt = q.rcpt, AnswerRequest(p), q \notin requests
      PROVE  AtMaster(q.rcpt) \/ Coming(q.rcpt)
  <2>1. "satellite" \notin content[q.rcpt]
    BY <1>1 DEF AnswerRequest, IInv, Typed, Request
  <2>2. Kept(q.rcpt)
    BY <1>0, <1>1 DEF IInv, RequestsKept
  <2> QED
    BY <2>1, <2>2 DEF Kept
<1>2. AtMaster(q.rcpt) \/ Coming(q.rcpt)
  BY <1>0, <1>1, RequestSteps DEF IInv, MissingKept
<1>3. CASE AtMaster(q.rcpt)
  BY <1>0, <1>3, KeptStays DEF IInv
<1>4. ASSUME NEW p \in requests, p.rcpt = q.rcpt, p.stage = "coming"
      PROVE  AtMaster(q.rcpt)' \/ Coming(q.rcpt)'
  <2>1. CASE p \in requests'
    BY <1>4, <2>1 DEF Coming
  <2>2. ASSUME NEW s \in requests, GetContent(s), s = p
        PROVE  AtMaster(q.rcpt)'
    BY <1>0, <1>4, <2>2 DEF GetContent, AtMaster, IInv, Typed
  <2>3. ASSUME NEW s \in requests, RequestStep(s), p \notin requests'
        PROVE  GetContent(s) /\ s = p
    BY <1>4, <2>3 DEF RequestStep, AnswerRequest, GetContent
  <2>4. ASSUME NEW r \in Recipient, Cut(r), p \notin requests'
        PROVE  FALSE
    BY <1>0, <1>4, <2>4 DEF Cut, NotLost
  <2> QED
    BY Steps, <2>1, <2>2, <2>3, <2>4
    DEF mailVars, Moves, TouchStep, Touch, GivenStep, WriteStep, StampReport,
        Commit, ReadForReport, ReceiveDsn, Purge, docVars, contentVars,
        RetrieveContents
<1> QED
  BY <1>2, <1>3, <1>4 DEF Coming

LEMMA ReadBeforeDsnNext == ASSUME IInv, [Next]_vars PROVE ReadBeforeDsn'
PROOF
<1> SUFFICES ASSUME NEW w \in writes', w.kind = "report"
             PROVE  w.read # "error"
  BY DEF ReadBeforeDsn
<1>1. ASSUME ReadForReport(w.rcpt, w.status), ~Notified(w.rcpt),
             w.read = doc[w.rcpt].status
      PROVE  w.read # "error"
  BY <1>1 DEF ReadForReport, Notified, ByDsn
<1> QED
  BY <1>1, ReportSteps DEF IInv, ReadBeforeDsn

-----------------------------------------------------------------------------
LEMMA InitIInv == ASSUME ReportsAssumption, Init PROVE IInv
PROOF
<1>1. /\ writes = {} /\ requests = {}
      /\ \A r \in Recipient : doc[r].status = "ready"
  BY DEF Init, NewDoc
<1> QED
  BY <1>1, TypedInit DEF IInv, SentKept, ShownAtMaster, ReportsKept,
     ContentsAtMaster, RequestsKept, MissingKept, ReadBeforeDsn

LEMMA NextIInv == ASSUME IInv, [Next]_vars PROVE IInv'
PROOF
<1>1. Typed'
  BY TypedNext DEF IInv
<1>2. SentKept' /\ ShownAtMaster'
  BY SentKeptNext
<1>3. ReportsKept'
  BY ReportsKeptNext
<1>4. ContentsAtMaster'
  BY ContentsAtMasterNext
<1>5. RequestsKept'
  BY RequestsKeptNext
<1>6. MissingKept'
  BY MissingKeptNext
<1>7. ReadBeforeDsn'
  BY ReadBeforeDsnNext
<1> QED
  BY <1>1, <1>2, <1>3, <1>4, <1>5, <1>6, <1>7 DEF IInv

LEMMA Invariance == Spec => []IInv
PROOF
<1>1. Init => IInv
  BY InitIInv, ReportsAssumption
<1>2. IInv /\ [Next]_vars => IInv'
  BY NextIInv
<1> QED
  BY <1>1, <1>2, PTL DEF Spec

(* A recipient that is shown to clients as sent, of a mailing that keeps   *)
(* customized e-mails, has its e-mail at the master, or had it there when  *)
(* a client took it, unless it was lost on the way or purged: for any      *)
(* number of recipients, reports, resets, notifications, cut connections   *)
(* and requests that cross.                                                *)
THEOREM ContentIsThere == Spec => []ContentComesFirst
PROOF
<1>1. IInv => ContentComesFirst
  BY DEF IInv, ShownAtMaster, NotLost, AtMaster, ContentComesFirst
<1> QED
  BY <1>1, Invariance, PTL

LEMMA DsnKeptStep ==
  ASSUME IInv, [Next]_vars, NEW r \in Recipient, ByDsn(doc[r])
  PROVE  \/ doc'[r].status = "error"
         \/ budget'.resets # budget.resets
         \/ \E w \in writes : /\ w.kind = "report" /\ w.rcpt = r
                              /\ w.read # "error"
PROOF
<1>0. doc[r].status = "error" /\ doc[r] \in Document
  BY DEF ByDsn, IInv, Typed
<1>1. CASE UNCHANGED doc
  BY <1>0, <1>1
<1>2. CASE Expire
  BY <1>0, <1>2 DEF Expire, Touch
<1>3. ASSUME NEW s \in Recipient, Reset(s)
      PROVE  budget'.resets # budget.resets
  BY <1>3 DEF Reset, Spend, IInv, Typed, Scenario
<1>4. ASSUME NEW w \in writes, Commit(w)
      PROVE  \/ doc'[r].status = "error"
             \/ \E v \in writes : /\ v.kind = "report" /\ v.rcpt = r
                                  /\ v.read # "error"
  <2>0. w \in Write
    BY DEF IInv, Typed
  <2>1. CASE w.rcpt # r
    BY <1>0, <1>4, <2>1 DEF Commit, IInv, Typed
  <2>2. ASSUME w.rcpt = r
        PROVE  doc'[r] = After(w, doc[r])
    BY <1>4, <2>2 DEF Commit, IInv, Typed
  <2>3. CASE w.kind = "report"
    BY <2>1, <2>3, <1>0, <1>4 DEF IInv, ReadBeforeDsn
  <2>4. CASE w.rcpt = r /\ w.kind \in {"dsn", "content"}
    BY <1>0, <2>2, <2>4 DEF After, Document
  <2> QED
    BY <2>0, <2>1, <2>3, <2>4 DEF Write
<1> QED
  BY <1>1, <1>2, <1>3, <1>4
  DEF Next, Change, vars, stateVars, docVars, Tick, RetrieveContents, PollStep,
      StartPoll, CountPoll, FindPoll, LastCount, ReadForReport, ReceiveDsn, Cut,
      Reconnect, Purge, GetStatus, WriteStep, StampReport, RequestStep,
      AnswerRequest, GetContent

(* A recipient that was notified of stays "error" in every step, unless a  *)
(* client resets it or a report that was read before the notification is   *)
(* still to be stored: then, and only then, the report may win.            *)
THEOREM NotificationOutlives == Spec => DsnKept
PROOF
<1> DEFINE Keeps ==
      \A r \in Recipient :
        ByDsn(doc[r]) => \/ doc'[r].status = "error"
                       \/ budget'.resets # budget.resets
                       \/ \E w \in writes : /\ w.kind = "report" /\ w.rcpt = r
                                            /\ w.read # "error"
<1>1. IInv /\ [Next]_vars => [Keeps]_vars
  BY DsnKeptStep
<1>2. [][Keeps]_vars => DsnKept
  BY PTL DEF DsnKept
<1> QED
  BY <1>1, <1>2, Invariance, PTL DEF Spec

-----------------------------------------------------------------------------
(* The calls of the client that polls.                                     *)

(* The documents a search goes through, and their order, for any documents *)
(* and date to start from.                                                 *)
OlderIn(d, r, s) ==
  \/ d[r].modified < d[s].modified
  \/ d[r].modified = d[s].modified /\ Rank[r] < Rank[s]
FoundIn(d, from) ==
  {r \in Recipient : d[r].status # "ready" /\ d[r].shown /\ d[r].modified >= from}
EarlierIn(d, from, r) == {s \in FoundIn(d, from) : OlderIn(d, s, r)}
SinceIn(d, from) ==
  [i \in 1..Cardinality(FoundIn(d, from)) |->
     CHOOSE r \in FoundIn(d, from) : Cardinality(EarlierIn(d, from, r)) = i - 1]

LEMMA SinceIsSinceIn == Since = SinceIn(doc, cursor.from)
<1>1. Found = FoundIn(doc, cursor.from)
  BY DEF Found, Matching, FoundIn
<1>2. \A r, s : Before(s, r) <=> OlderIn(doc, s, r)
  BY DEF Before, ByRank, OlderIn
<1>3. \A r : {s \in FoundIn(doc, cursor.from) : Before(s, r)} = EarlierIn(doc, cursor.from, r)
  BY <1>2 DEF EarlierIn
<1> DEFINE F == FoundIn(doc, cursor.from)
           B(r) == {s \in F : Before(s, r)}
           E(r) == EarlierIn(doc, cursor.from, r)
<1>4. Since = [i \in 1..Cardinality(Found) |->
                 CHOOSE r \in Found : Cardinality({s \in Found : Before(s, r)}) = i - 1]
  BY DEF Since
<1>5. Found = F
  BY <1>1
<1> HIDE DEF F
<1>6. Since = [i \in 1..Cardinality(F) |-> CHOOSE r \in F : Cardinality(B(r)) = i - 1]
  BY <1>4, <1>5
<1>7. SinceIn(doc, cursor.from)
        = [i \in 1..Cardinality(F) |-> CHOOSE r \in F : Cardinality(E(r)) = i - 1]
  BY DEF SinceIn, F
<1>8. \A r : B(r) = E(r)
  BY <1>3 DEF F
<1> HIDE DEF B, E
<1>9. ASSUME NEW i PROVE (CHOOSE r \in F : Cardinality(B(r)) = i - 1)
                         = (CHOOSE r \in F : Cardinality(E(r)) = i - 1)
  BY <1>8
<1> QED BY <1>6, <1>7, <1>9

(* It is a strict order of all recipients.                                 *)
LEMMA OlderOrders ==
  ASSUME NEW d \in [Recipient -> Document], NEW r \in Recipient, NEW s \in Recipient,
         NEW t \in Recipient
  PROVE  /\ ~ OlderIn(d, r, r)
         /\ r = s \/ OlderIn(d, r, s) \/ OlderIn(d, s, r)
         /\ OlderIn(d, r, s) => ~ OlderIn(d, s, r)
         /\ OlderIn(d, r, s) /\ OlderIn(d, s, t) => OlderIn(d, r, t)
<1>1. /\ d[r].modified \in Nat /\ d[s].modified \in Nat /\ d[t].modified \in Nat
      /\ Rank[r] \in Nat /\ Rank[s] \in Nat /\ Rank[t] \in Nat
  BY ReportsAssumption DEF Document
<1>2. Rank[r] = Rank[s] => r = s
  BY ReportsAssumption
<1> QED BY <1>1, <1>2 DEF OlderIn

(* There are finitely many of them.                                        *)
LEMMA FoundFinite ==
  ASSUME NEW d, NEW from, NEW r
  PROVE  /\ FoundIn(d, from) \subseteq Recipient
         /\ IsFiniteSet(FoundIn(d, from)) /\ Cardinality(FoundIn(d, from)) \in Nat
         /\ EarlierIn(d, from, r) \subseteq FoundIn(d, from)
         /\ IsFiniteSet(EarlierIn(d, from, r)) /\ Cardinality(EarlierIn(d, from, r)) \in Nat
<1>1. FoundIn(d, from) \in SUBSET Recipient
  BY DEF FoundIn
<1>2. EarlierIn(d, from, r) \in SUBSET FoundIn(d, from)
  BY DEF EarlierIn
<1>3. IsFiniteSet(FoundIn(d, from))
  BY <1>1, ReportsAssumption, FS_Subset
<1>4. IsFiniteSet(EarlierIn(d, from, r))
  BY <1>2, <1>3, FS_Subset
<1> QED BY <1>1, <1>2, <1>3, <1>4, FS_CardinalityType

(* More come before what is later.                                         *)
LEMMA MoreEarlier ==
  ASSUME NEW d \in [Recipient -> Document], NEW from,
         NEW r \in FoundIn(d, from), NEW s \in FoundIn(d, from), OlderIn(d, r, s)
  PROVE  Cardinality(EarlierIn(d, from, r)) < Cardinality(EarlierIn(d, from, s))
<1> DEFINE Er == EarlierIn(d, from, r)
           Es == EarlierIn(d, from, s)
<1>1. r \in Recipient /\ s \in Recipient /\ \A t \in FoundIn(d, from) : t \in Recipient
  BY FoundFinite
<1>2. Er \in SUBSET Es
  BY <1>1, OlderOrders DEF EarlierIn
<1>3. r \in Es /\ r \notin Er
  BY <1>1, OlderOrders DEF EarlierIn
<1>4. /\ IsFiniteSet(Es)
      /\ Cardinality(Er) \in Nat /\ Cardinality(Es) \in Nat
  BY FoundFinite
<1> HIDE DEF Er, Es
<1>5. Cardinality(Er) <= Cardinality(Es) /\ (Cardinality(Es) = Cardinality(Er) => Es = Er)
  BY <1>2, <1>4, FS_Subset
<1>6. Cardinality(Er) < Cardinality(Es)
  BY <1>3, <1>4, <1>5
<1> QED BY <1>6 DEF Er, Es

(* Each place is that of one recipient.                                    *)
LEMMA PlacesTaken ==
  ASSUME NEW d \in [Recipient -> Document], NEW from
  PROVE  /\ \A r \in FoundIn(d, from) :
              Cardinality(EarlierIn(d, from, r)) \in 0..(Cardinality(FoundIn(d, from)) - 1)
         /\ \A r, s \in FoundIn(d, from) :
              Cardinality(EarlierIn(d, from, r)) = Cardinality(EarlierIn(d, from, s)) => r = s
         /\ \A i \in 1..Cardinality(FoundIn(d, from)) :
              \E r \in FoundIn(d, from) : Cardinality(EarlierIn(d, from, r)) = i - 1
<1> DEFINE F == FoundIn(d, from)
           n == Cardinality(F)
           f == [r \in F |-> Cardinality(EarlierIn(d, from, r))]
           T == 0..(n - 1)
<1>1. F \subseteq Recipient /\ IsFiniteSet(F) /\ n \in Nat
  BY FoundFinite
<1>2. ASSUME NEW r \in F PROVE f[r] \in T
  <2> DEFINE E == EarlierIn(d, from, r)
  <2>1. E \in SUBSET F /\ Cardinality(E) \in Nat
    BY FoundFinite
  <2>2. r \notin E
    BY <1>1, OlderOrders DEF EarlierIn
  <2>3. f[r] = Cardinality(E)
    OBVIOUS
  <2> HIDE DEF E, F, f
  <2>4. Cardinality(E) <= n /\ (n = Cardinality(E) => F = E)
    BY <1>1, <2>1, FS_Subset
  <2> QED BY <1>1, <1>2, <2>1, <2>2, <2>3, <2>4
<1>3. ASSUME NEW r \in F, NEW s \in F, f[r] = f[s] PROVE r = s
  <2>1. /\ f[r] = Cardinality(EarlierIn(d, from, r))
        /\ f[s] = Cardinality(EarlierIn(d, from, s))
        /\ f[r] \in Nat /\ f[s] \in Nat
    BY FoundFinite
  <2>2. r = s \/ OlderIn(d, r, s) \/ OlderIn(d, s, r)
    BY <1>1, OlderOrders
  <2>3. OlderIn(d, r, s) => f[r] < f[s]
    BY <2>1, MoreEarlier
  <2>4. OlderIn(d, s, r) => f[s] < f[r]
    BY <2>1, MoreEarlier
  <2> HIDE DEF f, F
  <2> QED BY <1>3, <2>1, <2>2, <2>3, <2>4
<1>4. f \in [F -> T]
  BY <1>2
<1>5. IsFiniteSet(T) /\ Cardinality(T) = n
  <2> HIDE DEF n
  <2>1. 0 \in Int /\ n - 1 \in Int
    BY <1>1
  <2> QED BY <1>1, <2>1, FS_Interval
<1>6. f \in Surjection(F, T)
  <2> HIDE DEF F, T, f
  <2>1. f \in Injection(F, T)
    BY <1>3, <1>4 DEF Injection, IsInjective
  <2> QED BY <1>5, <2>1, FS_Injection DEF n
<1>7. ASSUME NEW i \in 1..n PROVE \E r \in F : f[r] = i - 1
  <2>1. i - 1 \in T
    BY <1>1
  <2> HIDE DEF F, T, f
  <2> QED BY <1>6, <2>1 DEF Surjection
<1>8. \A r \in F : f[r] = Cardinality(EarlierIn(d, from, r))
  OBVIOUS
<1> HIDE DEF f
<1> QED BY <1>2, <1>3, <1>7, <1>8

(* A search has every recipient it goes through once, the oldest first:    *)
(* each at the place that counts those before it.                          *)
LEMMA SinceOrdered ==
  ASSUME NEW d \in [Recipient -> Document], NEW from
  PROVE  /\ SinceIn(d, from) \in Seq(Recipient)
         /\ Len(SinceIn(d, from)) = Cardinality(FoundIn(d, from))
         /\ \A i \in 1..Len(SinceIn(d, from)) :
              /\ SinceIn(d, from)[i] \in FoundIn(d, from)
              /\ Cardinality(EarlierIn(d, from, SinceIn(d, from)[i])) = i - 1
         /\ \A r \in FoundIn(d, from) :
              /\ Cardinality(EarlierIn(d, from, r)) + 1 \in 1..Len(SinceIn(d, from))
              /\ SinceIn(d, from)[Cardinality(EarlierIn(d, from, r)) + 1] = r
<1> DEFINE F == FoundIn(d, from)
           n == Cardinality(F)
           P(r) == Cardinality(EarlierIn(d, from, r))
           s == SinceIn(d, from)
<1>1. F \subseteq Recipient /\ n \in Nat
  BY FoundFinite
<1>2. /\ \A r \in F : P(r) \in 0..(n - 1)
      /\ \A r, q \in F : P(r) = P(q) => r = q
      /\ \A i \in 1..n : \E r \in F : P(r) = i - 1
  BY PlacesTaken
<1>3. s = [i \in 1..n |-> CHOOSE r \in F : P(r) = i - 1]
  BY DEF SinceIn
<1> HIDE DEF F, n, P, s
<1>4. ASSUME NEW i \in 1..n PROVE s[i] \in F /\ P(s[i]) = i - 1
  <2>1. s[i] = CHOOSE r \in F : P(r) = i - 1
    BY <1>3
  <2>2. \E r \in F : P(r) = i - 1
    BY <1>2
  <2> QED BY <2>1, <2>2
<1>5. s \in [1..n -> Recipient]
  BY <1>1, <1>3, <1>4
<1>6. s \in Seq(Recipient) /\ Len(s) = n
  BY <1>1, <1>5
<1>7. ASSUME NEW r \in F PROVE P(r) + 1 \in 1..n /\ s[P(r) + 1] = r
  <2>1. P(r) \in 0..(n - 1)
    BY <1>2
  <2>2. P(r) + 1 \in 1..n /\ (P(r) + 1) - 1 = P(r)
    BY <1>1, <2>1
  <2>3. s[P(r) + 1] \in F /\ P(s[P(r) + 1]) = P(r)
    <3>1. s[P(r) + 1] \in F /\ P(s[P(r) + 1]) = (P(r) + 1) - 1
      BY <2>2, <1>4
    <3> QED BY <3>1, <2>2
  <2> QED BY <1>2, <2>2, <2>3
<1>8. /\ s \in Seq(Recipient) /\ Len(s) = n
      /\ \A i \in 1..Len(s) : s[i] \in F /\ P(s[i]) = i - 1
      /\ \A r \in F : P(r) + 1 \in 1..Len(s) /\ s[P(r) + 1] = r
  BY <1>4, <1>6, <1>7
<1> QED BY <1>8 DEF F, n, P, s

-----------------------------------------------------------------------------
(* What a page holds, and what is ahead of the client.                     *)
LEMMA PageIs ==
  ASSUME NEW s \in Seq(Recipient), Since = s, NEW from \in Nat, from # 0, NEW to \in Nat
  PROVE  /\ Page(from, to) \in Seq(Recipient)
         /\ Len(Page(from, to)) \in Nat
         /\ \A i \in 1..Len(Page(from, to)) :
              /\ from + i - 1 \in 1..Len(s) /\ from + i - 1 <= to
              /\ Page(from, to)[i] = s[from + i - 1]
         /\ \A k \in from..to : k <= Len(s) =>
              k - from + 1 \in 1..Len(Page(from, to)) /\ Page(from, to)[k - from + 1] = s[k]
<1> DEFINE m == IF to < Len(s) THEN to ELSE Len(s)
           page == SubSeq(s, from, m)
<1>1. Page(from, to) = page
  BY DEF Page
<1>2. m \in Nat /\ m <= to /\ m <= Len(s) /\ Len(s) \in Nat /\ from \in Int
  OBVIOUS
<1>3. m = to \/ m = Len(s)
  OBVIOUS
<1> HIDE DEF m
<1>4. \A i \in from..m : s[i] \in Recipient
  BY <1>2
<1>5. /\ page \in Seq(Recipient)
      /\ Len(page) = IF from <= m THEN m - from + 1 ELSE 0
      /\ \A i \in 1..(m - from + 1) : page[i] = s[from + i - 1]
  BY <1>2, <1>4, SubSeqProperties
<1> HIDE DEF page
<1>6. Len(page) \in Nat
  BY <1>5
<1>7. \A i \in 1..Len(page) :
        /\ from + i - 1 \in 1..Len(s) /\ from + i - 1 <= to
        /\ page[i] = s[from + i - 1]
  BY <1>2, <1>5
<1>8. ASSUME NEW k \in from..to, k <= Len(s)
      PROVE  k - from + 1 \in 1..Len(page) /\ page[k - from + 1] = s[k]
  <2>1. from <= k /\ k <= m /\ from <= m /\ k \in Nat
    BY <1>2, <1>3, <1>8
  <2>2. k - from + 1 \in 1..(m - from + 1) /\ Len(page) = m - from + 1
    BY <1>2, <1>5, <2>1
  <2>3. from + (k - from + 1) - 1 = k
    BY <2>1
  <2>4. page[k - from + 1] = s[from + (k - from + 1) - 1]
    BY <1>5, <2>2
  <2> QED BY <2>2, <2>3, <2>4
<1> QED BY <1>1, <1>5, <1>6, <1>7, <1>8

(* What follows the offset.                                                *)
LEMMA AheadIs ==
  ASSUME NEW s \in Seq(Recipient), NEW offset \in Nat
  PROVE  ToSet(SubSeq(s, offset + 1, Len(s))) = {s[k] : k \in (offset + 1)..Len(s)}
<1> DEFINE rest == SubSeq(s, offset + 1, Len(s))
<1>1. Len(s) \in Nat /\ offset + 1 \in Int /\ \A i \in (offset + 1)..Len(s) : s[i] \in Recipient
  OBVIOUS
<1>2. /\ rest \in Seq(Recipient)
      /\ Len(rest) = IF offset + 1 <= Len(s) THEN Len(s) - (offset + 1) + 1 ELSE 0
      /\ \A i \in 1..(Len(s) - (offset + 1) + 1) : rest[i] = s[(offset + 1) + i - 1]
  BY <1>1, SubSeqProperties
<1> HIDE DEF rest
<1>3. ToSet(rest) = {rest[i] : i \in 1..Len(rest)}
  BY <1>2 DEF ToSet
<1>4. ASSUME NEW i \in 1..Len(rest)
      PROVE  \E k \in (offset + 1)..Len(s) : rest[i] = s[k]
  <2>1. offset + i \in (offset + 1)..Len(s) /\ (offset + 1) + i - 1 = offset + i
    BY <1>1, <1>2
  <2>2. i \in 1..(Len(s) - (offset + 1) + 1)
    BY <1>1, <1>2
  <2> QED BY <1>2, <2>1, <2>2
<1>5. ASSUME NEW k \in (offset + 1)..Len(s)
      PROVE  \E i \in 1..Len(rest) : rest[i] = s[k]
  <2>1. /\ k - offset \in 1..Len(rest) /\ (offset + 1) + (k - offset) - 1 = k
        /\ k - offset \in 1..(Len(s) - (offset + 1) + 1)
    BY <1>1, <1>2
  <2> QED BY <1>2, <2>1
<1>6. ToSet(rest) = {s[k] : k \in (offset + 1)..Len(s)}
  <2> DEFINE R == {rest[i] : i \in 1..Len(rest)}
             A == {s[k] : k \in (offset + 1)..Len(s)}
  <2>1. ASSUME NEW x \in R PROVE x \in A
    <3>1. PICK i \in 1..Len(rest) : x = rest[i]
      OBVIOUS
    <3> QED BY <3>1, <1>4
  <2>2. ASSUME NEW x \in A PROVE x \in R
    <3>1. PICK k \in (offset + 1)..Len(s) : x = s[k]
      OBVIOUS
    <3> QED BY <3>1, <1>5
  <2>3. ToSet(rest) = R
    BY <1>3
  <2> HIDE DEF R, A
  <2>4. R = A
    BY <2>1, <2>2
  <2> QED BY <2>3, <2>4 DEF A
<1> QED BY <1>6 DEF rest

(* What is found later in a search is later.                               *)
LEMMA SinceSorted ==
  ASSUME NEW d \in [Recipient -> Document], NEW from,
         NEW j \in 1..Len(SinceIn(d, from)), NEW k \in 1..Len(SinceIn(d, from)), j < k
  PROVE  OlderIn(d, SinceIn(d, from)[j], SinceIn(d, from)[k])
<1> DEFINE r == SinceIn(d, from)[j]
           q == SinceIn(d, from)[k]
           P(x) == Cardinality(EarlierIn(d, from, x))
<1>1. /\ r \in FoundIn(d, from) /\ q \in FoundIn(d, from)
      /\ P(r) = j - 1 /\ P(q) = k - 1
  BY SinceOrdered
<1>2. r \in Recipient /\ q \in Recipient
  BY <1>1, FoundFinite
<1>3. OlderIn(d, q, r) => P(q) < P(r)
  BY <1>1, MoreEarlier
<1>4. r = q \/ OlderIn(d, r, q) \/ OlderIn(d, q, r)
  BY <1>2, OlderOrders
<1>5. j \in Int /\ k \in Int
  OBVIOUS
<1> HIDE DEF r, q, P
<1>6. ~(P(q) < P(r)) /\ r # q
  BY <1>1, <1>5
<1>7. OlderIn(d, r, q)
  BY <1>3, <1>4, <1>6
<1> QED BY <1>7 DEF r, q

(* The results of the last date come before what follows them, also in the *)
(* next search.                                                            *)
LEMMA OffsetBefore ==
  ASSUME NEW d \in [Recipient -> Document], NEW from, NEW date \in Nat,
         NEW results \in Seq(Recipient), NEW offset \in Nat,
         NEW k \in 1..Len(SinceIn(d, from)), offset + Len(results) < k,
         \A i \in 1..Len(results) : results[i] = SinceIn(d, from)[offset + i]
  PROVE  Cardinality({i \in DOMAIN results : d[results[i]].modified = date})
           <= Cardinality(EarlierIn(d, date, SinceIn(d, from)[k]))
<1> DEFINE s == SinceIn(d, from)
           x == s[k]
           I == {i \in DOMAIN results : d[results[i]].modified = date}
           E == EarlierIn(d, date, x)
           f == [i \in I |-> results[i]]
<1>1. DOMAIN results = 1..Len(results) /\ Len(results) \in Nat /\ k \in Nat
  OBVIOUS
<1>2. ASSUME NEW i \in I
      PROVE  /\ offset + i \in 1..Len(s) /\ offset + i < k
             /\ results[i] = s[offset + i]
  BY <1>1
<1>3. ASSUME NEW i \in I PROVE results[i] \in E
  <2>1. results[i] \in FoundIn(d, from)
    BY <1>2, SinceOrdered
  <2>2. results[i] \in FoundIn(d, date)
    <3>1. d[results[i]].modified = date /\ date >= date
      OBVIOUS
    <3> QED BY <2>1, <3>1 DEF FoundIn
  <2>3. OlderIn(d, results[i], x)
    <3> HIDE DEF I
    <3> QED BY <1>2, SinceSorted
  <2> QED BY <2>2, <2>3 DEF EarlierIn
<1>4. ASSUME NEW i \in I, NEW j \in I, results[i] = results[j] PROVE i = j
  <2>1. /\ offset + i \in 1..Len(s) /\ results[i] = s[offset + i]
        /\ offset + j \in 1..Len(s) /\ results[j] = s[offset + j]
    BY <1>2
  <2>2. /\ Cardinality(EarlierIn(d, from, results[i])) = (offset + i) - 1
        /\ Cardinality(EarlierIn(d, from, results[j])) = (offset + j) - 1
    <3>1. \A n \in 1..Len(s) : Cardinality(EarlierIn(d, from, s[n])) = n - 1
      BY SinceOrdered
    <3> HIDE DEF s, I
    <3> QED BY <2>1, <3>1
  <2>3. (offset + i) - 1 = (offset + j) - 1
    BY <1>4, <2>2
  <2>4. i \in Nat /\ j \in Nat
    BY <1>1
  <2> HIDE DEF I
  <2> QED BY <2>3, <2>4
<1>5. IsFiniteSet(E)
  BY FoundFinite
<1>6. f \in Injection(I, E)
  <2> HIDE DEF I, E
  <2>1. f \in [I -> E]
    BY <1>3
  <2>2. \A i, j \in I : f[i] = f[j] => i = j
    BY <1>4
  <2> HIDE DEF f
  <2> QED BY <2>1, <2>2 DEF Injection, IsInjective
<1> HIDE DEF f, E, I
<1>7. Cardinality(I) <= Cardinality(E)
  BY <1>5, <1>6, FS_Injection
<1> QED BY <1>7 DEF E, I

(* As long as the cursor keeps its date, nothing is left out by an offset  *)
(* that is not increased.                                                  *)
LEMMA AheadKept ==
  ASSUME Typed, cursor \in Cursor, doc' = doc, cursor'.from = cursor.from,
         cursor'.offset \in Nat, cursor'.offset <= cursor.offset
  PROVE  Ahead \subseteq Ahead'
<1> DEFINE s == SinceIn(doc, cursor.from)
<1>1. s \in Seq(Recipient) /\ Len(s) \in Nat
  BY SinceOrdered DEF Typed
<1>2. Since = s
  BY SinceIsSinceIn
<1>3. Since' = s
  <2>1. (Since = SinceIn(doc, cursor.from))'
    BY SinceIsSinceIn, PTL
  <2>2. Since' = SinceIn(doc', cursor'.from)
    BY <2>1
  <2> QED BY <2>2
<1>4. cursor.offset \in Nat
  BY DEF Cursor
<1> HIDE DEF s
<1>5. Ahead = {s[k] : k \in (cursor.offset + 1)..Len(s)}
  BY <1>1, <1>2, <1>4, AheadIs DEF Ahead
<1>6. Ahead' = {s[k] : k \in (cursor'.offset + 1)..Len(s)}
  BY <1>1, <1>3, AheadIs DEF Ahead
<1>7. ASSUME NEW k \in (cursor.offset + 1)..Len(s) PROVE k \in (cursor'.offset + 1)..Len(s)
  BY <1>1, <1>4
<1> QED BY <1>5, <1>6, <1>7

-----------------------------------------------------------------------------
(* What a search does to the cursor.                                       *)
LEMMA FindPollIs ==
  ASSUME Typed, cursor \in Cursor, FindPoll
  PROVE  \E results \in Seq(Recipient) :
           /\ results = Results
           /\ Len(results) \in Nat /\ Len(results) <= scenario.limit
           /\ \A i \in 1..Len(results) :
                /\ cursor.offset + i \in 1..Len(Since)
                /\ results[i] = Since[cursor.offset + i]
           /\ \A k \in (cursor.offset + 1)..Len(Since) :
                k <= cursor.offset + scenario.limit =>
                  \E i \in 1..Len(results) : results[i] = Since[k]
           /\ \/ /\ results = <<>>
                 /\ cursor' = [from |-> now, count |-> 0, offset |-> 0]
                 /\ UNCHANGED <<last, known>>
              \/ /\ results # <<>> /\ known' = known \cup ToSet(results)
                 /\ last' = doc[results[Len(results)]].modified
                 /\ \/ cursor' = [cursor EXCEPT !.offset = cursor.offset + Len(results)]
                    \/ cursor' = [from |-> last', count |-> 0,
                                  offset |-> OffsetIn(results, last')]
<1> DEFINE s == Since
           from == cursor.offset + 1
           to == cursor.offset + scenario.limit
           results == Results
<1>1. s \in Seq(Recipient)
  BY SinceOrdered, SinceIsSinceIn DEF Typed
<1>2. /\ cursor.offset \in Nat /\ scenario.limit \in Nat /\ scenario.limit # 0
      /\ from \in Nat /\ from # 0 /\ to \in Nat
  BY DEF Cursor, Typed, Scenario
<1>3. results = Page(from, to)
  BY DEF Results
<1>4. Len(s) \in Nat
  BY <1>1
<1> HIDE DEF s
<1>5. /\ results \in Seq(Recipient) /\ Len(results) \in Nat
      /\ \A i \in 1..Len(results) :
           /\ from + i - 1 \in 1..Len(s) /\ from + i - 1 <= to
           /\ results[i] = s[from + i - 1]
      /\ \A k \in from..to : k <= Len(s) =>
           k - from + 1 \in 1..Len(results) /\ results[k - from + 1] = s[k]
  <2> HIDE DEF from, to, results
  <2>1. Since = s
    BY DEF s
  <2>2. /\ Page(from, to) \in Seq(Recipient) /\ Len(Page(from, to)) \in Nat
        /\ \A i \in 1..Len(Page(from, to)) :
             /\ from + i - 1 \in 1..Len(s) /\ from + i - 1 <= to
             /\ Page(from, to)[i] = s[from + i - 1]
        /\ \A k \in from..to : k <= Len(s) =>
             /\ k - from + 1 \in 1..Len(Page(from, to))
             /\ Page(from, to)[k - from + 1] = s[k]
    BY <1>1, <1>2, <2>1, PageIs
  <2> QED BY <1>3, <2>2
<1>6. \/ /\ results = <<>>
         /\ cursor' = [from |-> now, count |-> 0, offset |-> 0]
         /\ UNCHANGED <<last, known>>
      \/ /\ results # <<>> /\ known' = known \cup ToSet(results)
         /\ last' = doc[results[Len(results)]].modified
         /\ \/ cursor' = [cursor EXCEPT !.offset = cursor.offset + Len(results)]
            \/ cursor' = [from |-> last', count |-> 0,
                          offset |-> OffsetIn(results, last')]
  BY DEF FindPoll
<1> HIDE DEF results
<1>7. \A i \in 1..Len(results) :
        cursor.offset + i \in 1..Len(s) /\ results[i] = s[cursor.offset + i]
  <2>1. \A i \in 1..Len(results) : from + i - 1 = cursor.offset + i
    BY <1>2, <1>5
  <2> HIDE DEF from
  <2> QED BY <1>5, <2>1
<1>8. Len(results) <= scenario.limit
  <2>1. CASE Len(results) = 0
    BY <1>2, <2>1
  <2>2. CASE Len(results) # 0
    <3>1. Len(results) \in 1..Len(results)
      BY <1>5, <2>2
    <3>2. from + Len(results) - 1 <= to
      BY <3>1, <1>5
    <3> QED BY <3>2, <1>2, <1>5
  <2> QED BY <2>1, <2>2
<1>9. ASSUME NEW k \in (cursor.offset + 1)..Len(s), k <= cursor.offset + scenario.limit
      PROVE  \E i \in 1..Len(results) : results[i] = s[k]
  <2>1. k \in from..to /\ k <= Len(s)
    BY <1>2, <1>4, <1>9
  <2> HIDE DEF from, to
  <2> QED BY <1>5, <2>1
<1>10. results \in Seq(Recipient) /\ results = Results
  BY <1>5 DEF results
<1> QED BY <1>5, <1>6, <1>7, <1>8, <1>9, <1>10 DEF s

(* What is ahead and not among the results is ahead of the cursor it       *)
(* returns.                                                                *)
LEMMA FindLeavesNone ==
  ASSUME Typed, cursor \in Cursor, FindPoll
  PROVE  Ahead \subseteq Ahead' \cup known'
<1>1. PICK results \in Seq(Recipient) :
        /\ Len(results) \in Nat /\ Len(results) <= scenario.limit
        /\ \A i \in 1..Len(results) :
             /\ cursor.offset + i \in 1..Len(Since)
             /\ results[i] = Since[cursor.offset + i]
        /\ \A k \in (cursor.offset + 1)..Len(Since) :
             k <= cursor.offset + scenario.limit =>
               \E i \in 1..Len(results) : results[i] = Since[k]
        /\ \/ /\ results = <<>>
              /\ cursor' = [from |-> now, count |-> 0, offset |-> 0]
              /\ UNCHANGED <<last, known>>
           \/ /\ results # <<>> /\ known' = known \cup ToSet(results)
              /\ last' = doc[results[Len(results)]].modified
              /\ \/ cursor' = [cursor EXCEPT !.offset = cursor.offset + Len(results)]
                 \/ cursor' = [from |-> last', count |-> 0,
                               offset |-> OffsetIn(results, last')]
  BY FindPollIs
<1> DEFINE s == SinceIn(doc, cursor.from)
           offset == cursor.offset
           limit == scenario.limit
           next == SinceIn(doc, cursor'.from)
<1>2. doc \in [Recipient -> Document] /\ doc' = doc
  BY DEF Typed, FindPoll, docVars
<1>3. Since = s /\ s \in Seq(Recipient) /\ Len(s) \in Nat
  BY <1>2, SinceIsSinceIn, SinceOrdered
<1>4. Since' = next /\ next \in Seq(Recipient) /\ Len(next) \in Nat
  <2>1. (Since = SinceIn(doc, cursor.from))'
    BY SinceIsSinceIn, PTL
  <2>2. Since' = SinceIn(doc', cursor'.from)
    BY <2>1
  <2> QED BY <1>2, <2>2, SinceOrdered
<1>5. offset \in Nat /\ limit \in Nat /\ limit # 0 /\ now \in Nat
  BY DEF Cursor, Typed, Scenario
<1>6. Ahead = {s[k] : k \in (offset + 1)..Len(s)}
  <2> HIDE DEF s, offset
  <2>1. ToSet(SubSeq(s, offset + 1, Len(s))) = {s[k] : k \in (offset + 1)..Len(s)}
    BY <1>3, <1>5, AheadIs
  <2> QED BY <1>3, <2>1 DEF Ahead, offset
<1>7. cursor'.offset \in Nat => Ahead' = {next[k] : k \in (cursor'.offset + 1)..Len(next)}
  <2> HIDE DEF next
  <2>1. cursor'.offset \in Nat =>
          ToSet(SubSeq(next, cursor'.offset + 1, Len(next)))
            = {next[k] : k \in (cursor'.offset + 1)..Len(next)}
    BY <1>4, AheadIs
  <2> QED BY <1>4, <2>1 DEF Ahead
<1> SUFFICES ASSUME NEW k \in (offset + 1)..Len(s)
             PROVE  s[k] \in Ahead' \cup known'
  BY <1>6
<1>8. k \in Nat /\ k \in 1..Len(s)
  BY <1>3, <1>5
<1>9. CASE k <= offset + limit
  <2>1. PICK i \in 1..Len(results) : results[i] = s[k]
    BY <1>1, <1>3, <1>9
  <2>2. results # <<>>
    BY <2>1
  <2>3. DOMAIN results = 1..Len(results)
    OBVIOUS
  <2>4. s[k] \in ToSet(results)
    BY <2>1, <2>3 DEF ToSet
  <2> QED BY <1>1, <2>2, <2>4
<1>10. CASE k > offset + limit
  <2>1. results # <<>>
    <3>1. offset + 1 \in (offset + 1)..Len(s) /\ offset + 1 <= offset + limit
      BY <1>3, <1>5, <1>8, <1>10
    <3>2. \E i \in 1..Len(results) : TRUE
      BY <1>1, <1>3, <3>1
    <3> QED BY <3>2
  <2>2. offset + Len(results) < k
    BY <1>1, <1>5, <1>8, <1>10
  <2>3. CASE cursor' = [cursor EXCEPT !.offset = cursor.offset + Len(results)]
    <3>1. cursor'.from = cursor.from /\ cursor'.offset = offset + Len(results)
      BY <2>3 DEF Cursor
    <3>2. cursor'.offset \in Nat /\ next = s
      BY <1>1, <1>5, <3>1
    <3>3. k \in (cursor'.offset + 1)..Len(next)
      BY <1>1, <1>3, <1>5, <1>8, <2>2, <3>1, <3>2
    <3>4. next[k] \in Ahead'
      BY <1>7, <3>2, <3>3
    <3> QED BY <3>2, <3>4
  <2>4. CASE cursor' = [from |-> last', count |-> 0, offset |-> OffsetIn(results, last')]
    <3> DEFINE n == Len(results)
               x == s[k]
               place == Cardinality(EarlierIn(doc, last', x))
    <3>1. n \in 1..n /\ results[n] = s[offset + n] /\ offset + n \in 1..Len(s)
          /\ last' = doc[results[n]].modified
      <4>1. n \in Nat /\ n # 0
        BY <1>1, <2>1
      <4>2. n \in 1..n
        BY <4>1
      <4> QED BY <1>1, <1>3, <2>1, <4>2
    <3>2. OlderIn(doc, results[n], x)
      BY <1>2, <1>8, <2>2, <3>1, SinceSorted
    <3>3. x \in FoundIn(doc, cursor.from) /\ x \in Recipient
      BY <1>2, <1>8, SinceOrdered, FoundFinite
    <3>4. results[n] \in Recipient /\ last' \in Nat /\ doc[x].modified \in Nat
      BY <1>2, <3>1, <3>3 DEF Document
    <3>5. x \in FoundIn(doc, last')
      <4>1. doc[x].modified >= last'
        BY <3>1, <3>2, <3>4 DEF OlderIn
      <4> QED BY <3>3, <4>1 DEF FoundIn
    <3>6. OffsetIn(results, last') <= place
      <4>1. \A i \in 1..Len(results) : results[i] = s[offset + i]
        BY <1>1, <1>3
      <4>2. Cardinality({i \in DOMAIN results : doc[results[i]].modified = last'}) <= place
        BY <1>2, <1>5, <1>8, <2>2, <3>4, <4>1, OffsetBefore
      <4> QED BY <4>2 DEF OffsetIn
    <3>7. cursor'.from = last' /\ cursor'.offset = OffsetIn(results, last')
      BY <2>4
    <3>8. place + 1 \in 1..Len(next) /\ next[place + 1] = x /\ place \in Nat
      BY <1>2, <3>5, <3>7, SinceOrdered, FoundFinite
    <3>9. cursor'.offset \in Nat
      <4> DEFINE I == {i \in DOMAIN results : doc[results[i]].modified = last'}
      <4>1. I \in SUBSET (1..Len(results))
        OBVIOUS
      <4> HIDE DEF I
      <4>2. IsFiniteSet(I)
        <5>1. 1 \in Int /\ Len(results) \in Int
          BY <1>1
        <5>2. IsFiniteSet(1..Len(results))
          BY <5>1, FS_Interval
        <5> QED BY <4>1, <5>2, FS_Subset
      <4>3. Cardinality(I) \in Nat
        BY <4>2, FS_CardinalityType
      <4> QED BY <3>7, <4>3 DEF OffsetIn, I
    <3> HIDE DEF place, x, next
    <3>10. place + 1 \in (cursor'.offset + 1)..Len(next)
      BY <1>4, <3>6, <3>7, <3>8, <3>9
    <3>11. x \in Ahead'
      BY <1>7, <3>8, <3>9, <3>10
    <3> QED BY <3>11 DEF x
  <2> QED BY <1>1, <2>1, <2>3, <2>4
<1> QED BY <1>5, <1>8, <1>9, <1>10

-----------------------------------------------------------------------------
(* The rest of the state keeps its type.                                   *)
OneReport ==
  \A v, w \in writes : v.kind = "report" /\ w.kind = "report" => v = w
ClientTyped ==
  /\ cursor \in Cursor /\ last \in Nat
  /\ poll \in {"idle", "count", "find", "last"} /\ left \in BOOLEAN
  /\ linked \subseteq Recipient /\ awaited \subseteq Call
  /\ known \subseteq Recipient /\ excused \subseteq Recipient
  /\ lost \subseteq Recipient
  /\ OneReport

(* The steps of the calls that poll are the only ones to move the cursor.  *)
LEMMA PollSteps ==
  ASSUME [Next]_vars
  PROVE  UNCHANGED <<poll, cursor, last>> \/ StartPoll \/ CountPoll \/ FindPoll \/ LastCount
BY DEF Next, Change, vars, stateVars, pollVars, Tick, Expire, Reset, Touch,
   RetrieveContents, PollStep, ReadForReport, ReceiveDsn, Cut, Reconnect, Purge,
   GetStatus, WriteStep, StampReport, Commit, RequestStep, AnswerRequest, GetContent

(* What is counted is finite.                                              *)
LEMMA AtFinite ==
  ASSUME NEW t
  PROVE  Cardinality(At(t)) \in Nat
<1>1. At(t) \in SUBSET Recipient
  BY DEF At, Matching
<1>2. IsFiniteSet(At(t))
  BY <1>1, ReportsAssumption, FS_Subset
<1> QED BY <1>2, FS_CardinalityType

LEMMA OffsetTyped ==
  ASSUME NEW results \in Seq(Recipient), NEW date
  PROVE  OffsetIn(results, date) \in Nat
<1> DEFINE I == {i \in DOMAIN results : doc[results[i]].modified = date}
<1>1. I \in SUBSET (1..Len(results)) /\ 1 \in Int /\ Len(results) \in Int
  OBVIOUS
<1> HIDE DEF I
<1>2. IsFiniteSet(1..Len(results))
  BY <1>1, FS_Interval
<1>3. IsFiniteSet(I)
  BY <1>1, <1>2, FS_Subset
<1>4. Cardinality(I) \in Nat
  BY <1>3, FS_CardinalityType
<1> QED BY <1>4 DEF OffsetIn, I

LEMMA CursorTyped ==
  ASSUME Typed, cursor \in Cursor, last \in Nat, [Next]_vars
  PROVE  cursor' \in Cursor /\ last' \in Nat
<1>1. CASE UNCHANGED <<poll, cursor, last>>
  BY <1>1
<1>2. CASE StartPoll
  BY <1>2 DEF StartPoll
<1>3. CASE CountPoll
  BY <1>3, AtFinite DEF CountPoll, Recount, Cursor
<1>4. CASE FindPoll
  <2>1. PICK results \in Seq(Recipient) :
          /\ Len(results) \in Nat
          /\ \/ /\ cursor' = [from |-> now, count |-> 0, offset |-> 0]
                /\ last' = last
             \/ /\ results # <<>>
                /\ last' = doc[results[Len(results)]].modified
                /\ \/ cursor' = [cursor EXCEPT !.offset = cursor.offset + Len(results)]
                   \/ cursor' = [from |-> last', count |-> 0,
                                 offset |-> OffsetIn(results, last')]
    BY <1>4, FindPollIs
  <2>2. CASE cursor' = [from |-> now, count |-> 0, offset |-> 0] /\ last' = last
    BY <2>2 DEF Cursor, Typed
  <2>3. CASE /\ results # <<>>
             /\ last' = doc[results[Len(results)]].modified
             /\ \/ cursor' = [cursor EXCEPT !.offset = cursor.offset + Len(results)]
                \/ cursor' = [from |-> last', count |-> 0,
                              offset |-> OffsetIn(results, last')]
    <3>1. results[Len(results)] \in Recipient
      BY <2>3
    <3>2. last' \in Nat
      BY <2>3, <3>1 DEF Typed, Document
    <3>3. OffsetIn(results, last') \in Nat
      BY OffsetTyped
    <3> QED BY <2>1, <2>3, <3>2, <3>3 DEF Cursor
  <2> QED BY <2>1, <2>2, <2>3
<1>5. CASE LastCount
  BY <1>5, AtFinite DEF LastCount, Cursor
<1> QED BY <1>1, <1>2, <1>3, <1>4, <1>5, PollSteps

(* What the client gets are recipients.                                    *)
LEMMA GotTyped ==
  ASSUME Typed, cursor \in Cursor
  PROVE  ToSet(Results) \subseteq Recipient /\ SkippedBlindly \subseteq Recipient
<1>1. Since \in Seq(Recipient)
  BY SinceOrdered, SinceIsSinceIn DEF Typed
<1>2. cursor.offset \in Nat /\ cursor.offset + scenario.limit \in Nat
      /\ cursor.offset + 1 \in Nat /\ cursor.offset + 1 # 0
  BY DEF Cursor, Typed, Scenario
<1>3. Results \in Seq(Recipient)
  BY <1>1, <1>2, PageIs DEF Results
<1>4. Page(1, cursor.offset) \in Seq(Recipient)
  <2>1. 1 \in Nat /\ 1 # 0
    OBVIOUS
  <2> QED BY <1>1, <1>2, <2>1, PageIs
<1>5. ToSet(Results) \subseteq Recipient /\ ToSet(Page(1, cursor.offset)) \subseteq Recipient
  BY <1>3, <1>4 DEF ToSet
<1> QED BY <1>5 DEF SkippedBlindly

(* The types, step by step.                                                *)
LEMMA TouchedTyped ==
  ASSUME Typed, ClientTyped, NEW rs \in SUBSET Recipient, NEW status, Touch(rs, status)
  PROVE  /\ known' \subseteq Recipient /\ excused' \subseteq Recipient
         /\ left' \in BOOLEAN /\ UNCHANGED <<writes, contentVars, poll, cursor, last>>
BY DEF Touch, ClientTyped, Shifted

LEMMA ClientTypedNext ==
  ASSUME Typed, ClientTyped, [Next]_vars PROVE ClientTyped'
<1>0. cursor' \in Cursor /\ last' \in Nat
  BY CursorTyped DEF ClientTyped
<1> DEFINE Rest == /\ poll' \in {"idle", "count", "find", "last"} /\ left' \in BOOLEAN
                   /\ linked' \subseteq Recipient /\ awaited' \subseteq Call
                   /\ known' \subseteq Recipient /\ excused' \subseteq Recipient
                   /\ lost' \subseteq Recipient
                   /\ OneReport'
<1> SUFFICES Rest
  BY <1>0 DEF ClientTyped
<1> USE DEF ClientTyped
<1>a. UNCHANGED writes => OneReport'
  BY DEF OneReport
<1>b. ASSUME NEW new, \A w \in new : w.kind # "report", writes' \subseteq writes \cup new
      PROVE  OneReport'
  BY <1>b DEF OneReport
<1>1. CASE UNCHANGED vars
  BY <1>1, <1>a DEF vars, stateVars, docVars, contentVars, pollVars
<1>2. CASE Tick
  BY <1>2, <1>a DEF Tick, contentVars, pollVars
<1>3. CASE Expire
  <2> DEFINE rs == {r \in Recipient : doc[r].status \in {"ready", "soft"}}
  <2>1. rs \in SUBSET Recipient /\ Touch(rs, "timeout")
    BY <1>3 DEF Expire
  <2> HIDE DEF rs
  <2> QED BY <2>1, <1>a, TouchedTyped DEF contentVars
<1>4. CASE RetrieveContents
  <2> DEFINE asked == {r \in Tried : "master" \notin content[r]}
             new == {ContentWrite(r) : r \in Tried \ asked}
  <2>1. Tried \subseteq Recipient
    BY DEF Tried, Hidden
  <2>2. awaited' \subseteq Call
    <3>1. awaited' \subseteq {CallOf(AskFor(r)) : r \in asked}
      BY <1>4 DEF RetrieveContents
    <3>2. \A r \in asked : FreeSlots(r) # {}
      BY <1>4 DEF RetrieveContents
    <3>3. \A r \in asked : CallOf(AskFor(r)) \in Call
      BY <2>1, <3>2, AskedTyped
    <3> QED
      BY <3>1, <3>3
  <2>3. writes' = writes \cup new
    BY <1>4 DEF RetrieveContents
  <2>4. \A w \in new : w.kind # "report"
    BY <2>1, ContentWriteTyped
  <2> HIDE DEF new
  <2>5. OneReport'
    BY <2>3, <2>4, <1>b
  <2> QED BY <1>4, <2>2, <2>5 DEF RetrieveContents, pollVars
<1>5. CASE StartPoll
  BY <1>5, <1>a DEF StartPoll, docVars, contentVars
<1>6. CASE CountPoll
  BY <1>6, <1>a DEF CountPoll, docVars, contentVars
<1>7. CASE FindPoll
  <2>1. known' \subseteq Recipient /\ excused' \subseteq Recipient
    <3>1. known' = known \/ known' = known \cup ToSet(Results)
      BY <1>7 DEF FindPoll
    <3>2. excused' = excused \cup SkippedBlindly
      BY <1>7 DEF FindPoll
    <3> QED BY <3>1, <3>2, GotTyped
  <2>2. poll' \in {"idle", "last"} /\ left' \in BOOLEAN
    BY <1>7 DEF FindPoll
  <2> QED BY <1>7, <2>1, <2>2, <1>a DEF FindPoll, docVars
<1>8. CASE LastCount
  BY <1>8, <1>a DEF LastCount, docVars, contentVars
<1>9. ASSUME NEW r \in Recipient, NEW status \in scenario.outcomes, ReadForReport(r, status)
      PROVE  Rest
  <2>1. \A w \in writes : w.kind # "report"
    BY <1>9 DEF ReadForReport, OneThread
  <2>2. \E new : writes' \subseteq writes \cup {new}
    BY <1>9 DEF ReadForReport
  <2>3. OneReport'
    BY <2>1, <2>2 DEF OneReport
  <2> QED BY <1>9, <2>3 DEF ReadForReport, pollVars
<1>10. ASSUME NEW r \in Recipient, ReceiveDsn(r) PROVE Rest
  <2> DEFINE w == [kind |-> "dsn", rcpt |-> r, status |-> "error", read |-> "error",
                   dsn |-> TRUE, stamp |-> now]
  <2>1. writes' = writes \cup {w} /\ w.kind # "report"
    BY <1>10 DEF ReceiveDsn
  <2> DEFINE new == {w}
  <2> HIDE DEF w
  <2>2. writes' \subseteq writes \cup new /\ \A v \in new : v.kind # "report"
    BY <2>1
  <2> HIDE DEF new
  <2>3. OneReport'
    BY <2>2, <1>b
  <2> QED BY <1>10, <2>3 DEF ReceiveDsn, contentVars, pollVars
<1>11. ASSUME NEW r \in Recipient, Reset(r) PROVE Rest
  <2>1. {r} \in SUBSET Recipient /\ Touch({r}, "ready")
    BY <1>11 DEF Reset
  <2> QED BY <2>1, <1>a, TouchedTyped DEF contentVars
<1>12. ASSUME NEW r \in Recipient, Cut(r) PROVE Rest
  BY <1>12, <1>a DEF Cut, docVars, pollVars
<1>13. ASSUME NEW r \in Recipient, Reconnect(r) PROVE Rest
  BY <1>13, <1>a DEF Reconnect, docVars, pollVars
<1>14. ASSUME NEW r \in Recipient, Purge(r) PROVE Rest
  BY <1>14, <1>a DEF Purge, docVars, pollVars
<1>15. ASSUME NEW rs \in SUBSET Recipient, GetStatus(rs) PROVE Rest
  BY <1>15, <1>a DEF GetStatus, docVars, pollVars
<1>16. ASSUME NEW w \in writes, StampReport(w) PROVE Rest
  <2> DEFINE stamped == [w EXCEPT !.stamp = now]
  <2>1. writes' = (writes \ {w}) \cup {stamped}
    BY <1>16 DEF StampReport
  <2> HIDE DEF stamped
  <2>2. w.kind = "report"
    BY <1>16 DEF StampReport
  <2>3. \A v \in writes \ {w} : v.kind # "report"
    BY <2>2 DEF OneReport
  <2>4. OneReport'
    BY <2>1, <2>3 DEF OneReport
  <2> QED BY <1>16, <2>4 DEF StampReport, contentVars, pollVars
<1>17. ASSUME NEW w \in writes, Commit(w) PROVE Rest
  <2>1. w.rcpt \in Recipient
    BY DEF Typed, Write
  <2>2. known' \subseteq Recipient /\ excused' \subseteq Recipient /\ left' \in BOOLEAN
    BY <1>17, <2>1 DEF Commit, Shifted
  <2>3. OneReport'
    BY <1>17 DEF Commit, OneReport
  <2> QED BY <1>17, <2>2, <2>3 DEF Commit, contentVars
<1>18. ASSUME NEW q \in requests, AnswerRequest(q) PROVE Rest
  BY <1>18, <1>a DEF AnswerRequest, docVars, pollVars
<1>19. ASSUME NEW q \in requests, GetContent(q) PROVE Rest
  <2>1. q.rcpt \in Recipient
    BY DEF Typed, Request
  <2>2. lost' \subseteq Recipient /\ awaited' \subseteq Call
    BY <1>19, <2>1 DEF GetContent
  <2>3. OneReport'
    <3> DEFINE new == {ContentWrite(q.rcpt)}
    <3>1. writes' \subseteq writes \cup new
      BY <1>19 DEF GetContent
    <3>2. \A w \in new : w.kind # "report"
      BY <2>1, ContentWriteTyped
    <3> HIDE DEF new
    <3> QED BY <3>1, <3>2, <1>b
  <2> QED BY <1>19, <2>2, <2>3 DEF GetContent, pollVars
<1> HIDE DEF Rest
<1> QED
  BY <1>1, <1>2, <1>3, <1>4, <1>5, <1>6, <1>7, <1>8, <1>9, <1>10, <1>11, <1>12, <1>13,
     <1>14, <1>15, <1>16, <1>17, <1>18, <1>19
     DEF Next, Change, PollStep, WriteStep, RequestStep

LEMMA ClientTypedFirst == Init => ClientTyped
<1> SUFFICES ASSUME Init PROVE ClientTyped
  OBVIOUS
<1>1. cursor \in Cursor /\ last \in Nat
  BY DEF Init, Cursor
<1>2. writes = {} => OneReport
  BY DEF OneReport
<1> QED BY <1>1, <1>2 DEF Init, ClientTyped

LEMMA ClientInvariance == Spec => [](Typed /\ ClientTyped)
<1>1. Typed /\ ClientTyped /\ [Next]_vars => (Typed /\ ClientTyped)'
  BY TypedNext, ClientTypedNext
<1>2. Init => Typed /\ ClientTyped
  BY TypedInit, ClientTypedFirst, ReportsAssumption
<1> QED BY <1>1, <1>2, PTL DEF Spec

(* The state of documents, writes, contents and calls of the client keeps  *)
(* its type, and one report at most is read or on its way: the thread of   *)
(* reports is one.                                                         *)
THEOREM ReportsTyped == Spec => []TypeOK
<1>1. Typed /\ ClientTyped => TypeOK
  <2> SUFFICES ASSUME Typed, ClientTyped PROVE TypeOK
    OBVIOUS
  <2> DEFINE R == {w \in writes : w.kind = "report"}
  <2>1. Cardinality(R) <= 1
    <3>1. \A v, w \in R : v = w
      BY DEF ClientTyped, OneReport
    <3> HIDE DEF R
    <3>2. CASE R = {}
      BY <3>2, FS_EmptySet
    <3>3. CASE R # {}
      <4>0. PICK w \in R : TRUE
        BY <3>3
      <4>1. R = {w}
        BY <3>1, <4>0
      <4> QED BY <4>1, FS_Singleton
    <3> QED BY <3>2, <3>3
  <2> QED BY <2>1 DEF Typed, ClientTyped, TypeOK
<1> QED BY <1>1, ClientInvariance, PTL

(* What a search would find after what the client got is not left out by   *)
(* the client's own steps: not where a page ends among recipients of one   *)
(* date, nor where the offset starts over, nor where the cursor moves to   *)
(* the last date and its offset to the results of that date.               *)
THEOREM PagesLeaveNoneOut == Spec => NoneLeftOut
<1>1. Typed /\ ClientTyped /\ [Next]_vars
        => [doc' = doc => Ahead \subseteq Ahead' \cup known']_vars
  <2> SUFFICES ASSUME Typed, ClientTyped, [Next]_vars, doc' = doc
               PROVE  Ahead \subseteq Ahead' \cup known'
    OBVIOUS
  <2>0. cursor \in Cursor /\ cursor.offset \in Nat
    BY DEF ClientTyped, Cursor
  <2>1. CASE UNCHANGED <<poll, cursor, last>>
    BY <2>0, <2>1, AheadKept
  <2>2. CASE StartPoll
    BY <2>0, <2>2, AheadKept DEF StartPoll
  <2>3. CASE CountPoll
    <3>1. cursor'.from = cursor.from /\ cursor'.offset \in {0, cursor.offset}
      BY <2>0, <2>3 DEF CountPoll, Recount, Cursor
    <3> QED BY <2>0, <3>1, AheadKept
  <2>4. CASE FindPoll
    BY <2>0, <2>4, FindLeavesNone
  <2>5. CASE LastCount
    <3>1. cursor'.from = cursor.from /\ cursor'.offset = cursor.offset
      BY <2>0, <2>5 DEF LastCount, Cursor
    <3> QED BY <2>0, <3>1, AheadKept
  <2> QED BY <2>1, <2>2, <2>3, <2>4, <2>5, PollSteps
<1> QED BY <1>1, ClientInvariance, PTL DEF Spec, NoneLeftOut
=============================================================================
