----------------------- MODULE SatelliteContentProofs -----------------------
(***************************************************************************)
(* Proofs about SatelliteContent: no e-mail is older than the content the  *)
(* satellite started with, or than the one its thread had to work with.    *)
(***************************************************************************)
EXTENDS SatelliteContent, TLAPS, FiniteSetTheorems

-----------------------------------------------------------------------------
(* The inductive invariant.                                                *)

(* The parts of TypeOK, by who changes them.                               *)
MasterOK ==
  /\ version \in Nat /\ phase \in Phase /\ owed \in BOOLEAN
  /\ granted \subseteq Recipient
LinkOK ==
  /\ linked \in BOOLEAN /\ orders \in Seq(Order) /\ pages \subseteq Recipient
  /\ request \in Request
  /\ answer \in Nat
DocOK ==
  /\ doc \in Doc /\ row \in [Recipient -> Status]
  /\ cache \in Nat /\ file \in [Recipient -> Nat]
OneParses ==
  \A r, s \in Recipient : stage[r] = "cache" /\ stage[s] = "cache" => r = s
ThreadsOK ==
  /\ stage \in [Recipient -> Stage]
  /\ held \in [Recipient -> Nat] /\ due \in [Recipient -> Nat]
  /\ late \in [files: SUBSET Recipient, cache: BOOLEAN]
  /\ OneParses
Mail == [content: Nat, due: Nat, booted: Nat]
HistoryOK ==
  /\ booted \in Nat /\ sent \subseteq Mail
  /\ budget \in Scenario /\ scenario \in Scenario
Typed == MasterOK /\ LinkOK /\ DocOK /\ ThreadsOK /\ HistoryOK

(* What the satellite has, or is about to have, is of no time before it    *)
(* started.                                                                *)
SinceBoot(v) == v = 0 \/ v >= booted
AllSinceBoot ==
  /\ version >= booted
  /\ request \in {"content", "saving"} => answer >= booted
  /\ SinceBoot(doc.content) /\ SinceBoot(cache)
  /\ \A r \in Recipient : SinceBoot(file[r]) /\ SinceBoot(held[r])

(* As long as content is asked for the document is not complete.           *)
Asking ==
  /\ request # "no" => ~doc.downloaded
  /\ ~doc.present => doc.content = 0 /\ ~doc.downloaded /\ cache = 0
  /\ doc.downloaded => doc.content # 0
  /\ request \in {"content", "saving"} => answer # 0
  /\ version # 0

(* What is not late is of the document: a file of a complete one, the      *)
(* cache of one whose new content is not about to be saved.                *)
FilesFresh ==
  \A r \in Recipient :
    file[r] # 0 /\ r \notin late.files => file[r] = doc.content /\ doc.downloaded
CacheFresh ==
  cache # 0 /\ ~late.cache =>
    cache = doc.content /\ (doc.downloaded \/ request # "saving")

(* A thread works with what it had to, or with something newer.            *)
HeldFresh(r) ==
  /\ stage[r] \in {"cache", "customize", "write"} => held[r] >= due[r]
  /\ stage[r] = "queued" /\ file[r] # 0 => file[r] >= due[r]

Fresh ==
  /\ Asking /\ FilesFresh /\ CacheFresh
  /\ \A r \in Recipient : HeldFresh(r)

IInv == Typed /\ AllSinceBoot /\ RestartRefreshes /\ Fresh /\ FreshContent

-----------------------------------------------------------------------------
(* Lemmas.                                                                 *)

LEMMA Documents ==
  /\ NoDoc \in Doc /\ ~NoDoc.present /\ NoDoc.content = 0 /\ ~NoDoc.downloaded
  /\ NewDoc \in Doc /\ NewDoc.present /\ NewDoc.content = 0 /\ ~NewDoc.downloaded
BY DEF NoDoc, NewDoc, Doc

LEMMA Nothing ==
  /\ Nobody \in [Recipient -> Nat] /\ \A r \in Recipient : Nobody[r] = 0
  /\ NothingLate \in [files: SUBSET Recipient, cache: BOOLEAN]
  /\ NothingLate.files = {} /\ ~NothingLate.cache
BY DEF Nobody, NothingLate

LEMMA Spent ==
  ASSUME budget \in Scenario, NEW e \in Event, Spend(e)
  PROVE  budget' \in Scenario
BY DEF Spend, Scenario

LEMMA Said ==
  ASSUME LinkOK, NEW order \in Order, Say(order)
  PROVE  orders' \in Seq(Order)
BY DEF LinkOK, Say

LEMMA NoOrders == <<>> \in Seq(Order)
OBVIOUS

(* What is left of the orders when one is obeyed.                          *)
LEMMA Obeyed ==
  ASSUME LinkOK, orders # <<>>
  PROVE  Tail(orders) \in Seq(Order)
BY DEF LinkOK

(* Actions of the master, of the connection, and of the satellite.         *)
MasterSteps ==
  \/ Edit \/ Pause \/ Start \/ Finish \/ TellClose \/ AnswerRequest
  \/ Disconnect \/ Reconnect \/ CheckForMissing
  \/ \E r \in Recipient : SendPage(r) \/ Release(r)
DocumentSteps ==
  \/ ObeyChange \/ ObeyClose \/ GetContent \/ SaveContent \/ GetDelete
  \/ \E r \in Recipient : ReceivePage(r)
RecipientSteps ==
  \E r \in Recipient : Take(r) \/ ThreadStep(r) \/ Report(r)

LEMMA Steps ==
  [Next]_vars =>
    \/ MasterSteps \/ DocumentSteps \/ RecipientSteps \/ Restart
    \/ UNCHANGED vars
BY DEF Next, Change, MasterSteps, DocumentSteps, RecipientSteps

LEMMA ScenarioStays == [Next]_vars => UNCHANGED scenario
BY DEF Next, vars

(* Steps of the master leave what the satellite has alone.                 *)
LEMMA MasterElse ==
  ASSUME Typed, MasterSteps
  PROVE  UNCHANGED <<satVars, historyVars>>
BY DEF MasterSteps, Edit, Pause, Start, Finish, Leave, TellClose,
       AnswerRequest, Disconnect, Reconnect, CheckForMissing, SendPage, Release

-----------------------------------------------------------------------------
(* Types.                                                                  *)

LEMMA TypedInit == Init => Typed
<1> SUFFICES ASSUME Init PROVE Typed
  OBVIOUS
<1>1. MasterOK /\ LinkOK
  BY NoOrders DEF Init, MasterOK, LinkOK, Phase, Request
<1>2. DocOK
  BY Documents, Nothing DEF Init, DocOK, Status
<1>3. ThreadsOK
  BY Nothing DEF Init, ThreadsOK, OneParses, Stage
<1>4. HistoryOK
  BY ContentAssumption DEF Init, HistoryOK
<1> QED
  BY <1>1, <1>2, <1>3, <1>4 DEF Typed

LEMMA MasterTyped ==
  ASSUME Typed, MasterSteps, UNCHANGED scenario
  PROVE  Typed'
<1> USE DEF masterVars, linkVars, threadVars, satVars, historyVars
<1>1. DocOK' /\ ThreadsOK'
  BY MasterElse DEF Typed, DocOK, ThreadsOK, OneParses
<1>2. CASE Edit \/ TellClose
  <2>1. orders' \in Seq(Order)
    BY <1>2, Said DEF Edit, TellClose, Order, Typed
  <2>2. budget' \in Scenario
    BY <1>2, Spent DEF Edit, TellClose, Typed, HistoryOK, Event
  <2> QED
    <3>1. CASE Edit
      BY <1>1, <2>1, <2>2, <3>1
      DEF Typed, MasterOK, LinkOK, HistoryOK, Edit
    <3>2. CASE TellClose
      BY <1>1, <2>1, <2>2, <3>2
      DEF Typed, MasterOK, LinkOK, HistoryOK, TellClose
    <3> QED
      BY <1>2, <3>1, <3>2
<1>3. CASE Pause \/ Start \/ Finish
  <2>1. budget' \in Scenario
    BY <1>3, Spent DEF Pause, Start, Finish, Leave, Typed, HistoryOK, Event
  <2>2. owed' \in BOOLEAN
    BY <1>3, Zenon DEF Pause, Start, Finish, Leave, Typed, MasterOK
  <2> QED
    BY <1>1, <1>3, <2>1, <2>2
    DEF Typed, MasterOK, LinkOK, HistoryOK, Pause, Start, Finish, Leave, Phase
<1>4. CASE AnswerRequest \/ Reconnect \/ CheckForMissing
           \/ \E r \in Recipient : Release(r)
  BY <1>1, <1>4 DEF Typed, MasterOK, LinkOK, HistoryOK, Request, AnswerRequest,
                    Reconnect, CheckForMissing, Release
<1>5. CASE Disconnect
  <2>1. budget' \in Scenario
    BY <1>5, Spent DEF Disconnect, Typed, HistoryOK, Event
  <2> QED
    BY <1>1, <1>5, <2>1, NoOrders
    DEF Typed, MasterOK, LinkOK, HistoryOK, Request, Disconnect, Cut
<1>6. CASE \E r \in Recipient : SendPage(r)
  <2>1. budget' \in Scenario
    BY <1>6, Spent DEF SendPage, Typed, HistoryOK, Event
  <2> QED
    BY <1>1, <1>6, <2>1 DEF Typed, MasterOK, LinkOK, HistoryOK, SendPage
<1> QED
  BY <1>2, <1>3, <1>4, <1>5, <1>6 DEF MasterSteps

LEMMA DocumentTyped ==
  ASSUME Typed, DocumentSteps, UNCHANGED scenario
  PROVE  Typed'
<1> USE DEF masterVars, linkVars, threadVars, satVars, historyVars
<1>1. MasterOK' /\ ThreadsOK' /\ HistoryOK'
  BY DEF Typed, MasterOK, ThreadsOK, OneParses, HistoryOK, DocumentSteps,
         ObeyChange, ObeyClose, GetContent, SaveContent, GetDelete, ReceivePage
<1>2. LinkOK'
  <2>1. orders' \in Seq(Order)
    BY Obeyed DEF Typed, LinkOK, DocumentSteps, ObeyChange, ObeyClose,
                  GetContent, SaveContent, GetDelete, ReceivePage
  <2> QED
    BY <2>1 DEF Typed, LinkOK, Request, DocumentSteps, ObeyChange, ObeyClose,
                GetContent, SaveContent, GetDelete, ReceivePage
<1>3. DocOK'
  <2>1. CASE ObeyChange
    BY <2>1, Nothing DEF Typed, DocOK, ObeyChange, Invalidate, Doc
  <2>2. CASE ObeyClose \/ GetDelete
    BY <2>2, Nothing, Documents
    DEF Typed, DocOK, Status, ObeyClose, GetDelete, CloseMailing
  <2>3. CASE GetContent
    BY <2>3 DEF Typed, DocOK, GetContent, EmptyCache
  <2>4. CASE SaveContent
    BY <2>4 DEF Typed, DocOK, LinkOK, SaveContent, Doc
  <2>5. CASE \E r \in Recipient : ReceivePage(r)
    BY <2>5, Documents DEF Typed, DocOK, Status, ReceivePage
  <2> QED
    BY <2>1, <2>2, <2>3, <2>4, <2>5 DEF DocumentSteps
<1> QED
  BY <1>1, <1>2, <1>3 DEF Typed

LEMMA RestartTyped ==
  ASSUME Typed, Restart, UNCHANGED scenario
  PROVE  Typed'
<1> USE DEF masterVars, linkVars, threadVars, satVars, historyVars
<1>1. budget' \in Scenario
  BY Spent DEF Restart, Typed, HistoryOK, Event
<1>2. MasterOK' /\ LinkOK' /\ HistoryOK'
  BY <1>1, NoOrders DEF Restart, Typed, MasterOK, LinkOK, Request, HistoryOK
<1>3. DocOK'
  BY Documents, Nothing DEF Restart, DeleteAllFiles, Typed, DocOK, Status
<1>4. ThreadsOK'
  BY Nothing DEF Restart, ThreadsOK, OneParses, Stage
<1> QED
  BY <1>2, <1>3, <1>4 DEF Typed

LEMMA RecipientTyped ==
  ASSUME Typed, RecipientSteps, UNCHANGED scenario
  PROVE  Typed'
<1> USE DEF masterVars, linkVars, threadVars, satVars, historyVars, Known
<1>1. PICK r \in Recipient : Take(r) \/ ThreadStep(r) \/ Report(r)
  BY DEF RecipientSteps
<1>2. MasterOK' /\ LinkOK'
  BY <1>1
  DEF Typed, MasterOK, LinkOK, Take, ThreadStep, Look, Parse, PutInCache,
      Customize, Write, FailToWrite, Saves, Abandon, Deliver, FailToDeliver,
      Report
<1>3. DocOK'
  <2>1. row' \in [Recipient -> Status] /\ doc' = doc
    BY <1>1
    DEF Typed, DocOK, Status, Take, ThreadStep, Look, Parse, PutInCache,
        Customize, Write, FailToWrite, Saves, Abandon, Deliver,
        FailToDeliver, Report
  <2>2. cache' \in Nat /\ file' \in [Recipient -> Nat]
    BY <1>1
    DEF Typed, DocOK, ThreadsOK, Take, ThreadStep, Look, Parse, PutInCache,
        Customize, Write, FailToWrite, Saves, Abandon, Deliver,
        FailToDeliver, Report
  <2> QED
    BY <2>1, <2>2 DEF Typed, DocOK
<1>4. HistoryOK'
  <2>1. CASE Deliver(r)
    BY <2>1 DEF Deliver, Typed, HistoryOK, DocOK, ThreadsOK, Mail
  <2>3. CASE FailToWrite(r)
    BY <2>3, Spent DEF FailToWrite, Typed, HistoryOK, Event
  <2>2. CASE ~Deliver(r) /\ ~FailToWrite(r)
    BY <1>1, <2>2 DEF Typed, HistoryOK, Take, ThreadStep, Look, Parse,
              PutInCache, Customize, Write, Abandon, FailToDeliver, Report
  <2> QED
    BY <2>1, <2>2, <2>3
<1>5. ThreadsOK'
  <2>1. PICK st \in Stage :
          /\ stage' = [stage EXCEPT ![r] = st]
          /\ st = "cache" => LockFree \/ stage[r] = "cache"
    BY <1>1
    DEF Typed, ThreadsOK, Take, ThreadStep, Look, Parse, PutInCache,
        Customize, Write, FailToWrite, Saves, Abandon, Deliver,
        FailToDeliver, Report, Enters, Stage
  <2>2. stage' \in [Recipient -> Stage] /\ OneParses'
    BY <2>1 DEF Typed, ThreadsOK, OneParses, LockFree
  <2>3. held' \in [Recipient -> Nat]
    BY <1>1
    DEF Typed, ThreadsOK, DocOK, Doc, Take, ThreadStep, Look, Parse,
        PutInCache, Customize, Write, FailToWrite, Saves, Abandon, Deliver,
        FailToDeliver, Report
  <2>4. due' \in [Recipient -> Nat]
    BY <1>1
    DEF Typed, ThreadsOK, DocOK, Doc, Take, ThreadStep, Look, Parse,
        PutInCache, Customize, Write, FailToWrite, Saves, Abandon, Deliver,
        FailToDeliver, Report, Owes
  <2>5. late' \in [files: SUBSET Recipient, cache: BOOLEAN]
    <3>1. CASE PutInCache(r)
      <4>1. IsLate(r) \in BOOLEAN
        BY DEF IsLate
      <4> HIDE DEF IsLate
      <4> QED
        BY <3>1, <4>1 DEF PutInCache, Typed, ThreadsOK
    <3>2. CASE Write(r)
      BY <3>2 DEF Write, Typed, ThreadsOK
    <3>3. CASE UNCHANGED late
      BY <3>3 DEF Typed, ThreadsOK
    <3> QED
      BY <1>1, <3>1, <3>2, <3>3
      DEF Take, ThreadStep, Look, Parse, Customize, FailToWrite, Abandon,
          Deliver, FailToDeliver, Report
  <2> QED
    BY <2>2, <2>3, <2>4, <2>5 DEF ThreadsOK
<1> QED
  BY <1>2, <1>3, <1>4, <1>5 DEF Typed

LEMMA TypedNext == Typed /\ [Next]_vars => Typed'
<1> SUFFICES ASSUME Typed, [Next]_vars PROVE Typed'
  OBVIOUS
<1>1. CASE UNCHANGED vars
  BY <1>1 DEF vars, stateVars, masterVars, linkVars, threadVars, satVars,
              historyVars, Typed, MasterOK, LinkOK, DocOK, ThreadsOK,
              OneParses, HistoryOK
<1> QED
  BY <1>1, Steps, ScenarioStays, MasterTyped, DocumentTyped, RestartTyped,
     RecipientTyped

-----------------------------------------------------------------------------
(* Nothing of before the start.                                            *)

LEMMA BootNext ==
  ASSUME Typed, AllSinceBoot, RestartRefreshes, [Next]_vars
  PROVE  AllSinceBoot' /\ RestartRefreshes'
<1> USE DEF vars, stateVars, masterVars, linkVars, threadVars, satVars,
            historyVars, Known, AllSinceBoot, SinceBoot
<1>0. /\ version \in Nat /\ booted \in Nat /\ answer \in Nat /\ cache \in Nat
      /\ doc.content \in Nat /\ file \in [Recipient -> Nat]
      /\ held \in [Recipient -> Nat]
  BY DEF Typed, MasterOK, LinkOK, DocOK, ThreadsOK, HistoryOK, Doc
<1>1. CASE MasterSteps
  <2>1. version' >= version
    BY <1>0, <1>1
    DEF MasterSteps, Edit, Pause, Start, Finish, Leave, TellClose,
        AnswerRequest, Disconnect, Reconnect, CheckForMissing, SendPage,
        Release
  <2>2. request' \in {"content", "saving"} =>
          \/ request \in {"content", "saving"} /\ answer' = answer
          \/ answer' = version
    BY <1>1
    DEF MasterSteps, Edit, Pause, Start, Finish, Leave, TellClose, Cut,
        AnswerRequest, Disconnect, Reconnect, CheckForMissing, SendPage,
        Release
  <2>3. version' \in Nat
    BY TypedNext DEF Typed, MasterOK
  <2>4. UNCHANGED <<doc, cache, file, held, booted, sent>>
    BY <1>1, MasterElse
  <2>5. version' >= booted' /\ (request' \in {"content", "saving"} => answer' >= booted')
    BY <1>0, <2>1, <2>2, <2>3, <2>4
  <2> QED
    BY <2>4, <2>5 DEF RestartRefreshes
<1>2. CASE DocumentSteps
  <2>1. UNCHANGED <<version, answer, booted, sent, held>>
    BY <1>2 DEF DocumentSteps, ObeyChange, ObeyClose, GetContent, SaveContent,
                GetDelete, ReceivePage
  <2>2. request' \in {"content", "saving"} => request \in {"content", "saving"}
    BY <1>2 DEF DocumentSteps, ObeyChange, ObeyClose, GetContent, SaveContent,
                GetDelete, ReceivePage
  <2>3. \/ doc'.content \in {doc.content, 0}
        \/ request = "saving" /\ doc'.content = answer
    <3>1. CASE ObeyChange
      BY <3>1 DEF ObeyChange, Invalidate, Typed, DocOK, Doc
    <3>2. CASE ObeyClose \/ GetDelete
      BY <3>2, Documents DEF ObeyClose, GetDelete, CloseMailing
    <3>3. CASE GetContent \/ SaveContent
      BY <3>3 DEF GetContent, SaveContent
    <3>4. CASE \E r \in Recipient : ReceivePage(r)
      BY <3>4, Documents DEF ReceivePage
    <3> QED
      BY <1>2, <3>1, <3>2, <3>3, <3>4 DEF DocumentSteps
  <2>4. /\ cache' \in {cache, 0}
        /\ \A r \in Recipient : file'[r] \in {file[r], 0}
    BY <1>2, Nothing
    DEF DocumentSteps, ObeyChange, Invalidate, ObeyClose, CloseMailing,
        GetContent, EmptyCache, SaveContent, GetDelete, ReceivePage
  <2> QED
    BY <1>0, <2>1, <2>2, <2>3, <2>4 DEF RestartRefreshes
<1>3. CASE RecipientSteps
  <2>1. PICK r \in Recipient : Take(r) \/ ThreadStep(r) \/ Report(r)
    BY <1>3 DEF RecipientSteps
  <2>2. UNCHANGED <<version, request, answer, booted, doc>>
    BY <2>1
    DEF Take, ThreadStep, Look, Parse, PutInCache, Customize, Write,
        FailToWrite, Saves, Abandon, Deliver, FailToDeliver, Report
  <2>3. /\ cache' \in {cache, held[r]}
        /\ \A s \in Recipient : /\ held'[s] \in {held[s], cache, doc.content}
                                /\ file'[s] \in {file[s], held[s], 0}
    BY <1>0, <2>1
    DEF Take, ThreadStep, Look, Parse, PutInCache, Customize, Write,
        FailToWrite, Abandon, Deliver, FailToDeliver, Report
  <2>4. AllSinceBoot'
    BY <1>0, <2>2, <2>3
  <2>5. RestartRefreshes'
    <3>1. CASE Deliver(r)
      BY <2>4, <3>1, <1>0 DEF Deliver, RestartRefreshes
    <3>2. CASE sent' = sent
      BY <3>2 DEF RestartRefreshes
    <3> QED
      BY <2>1, <3>1, <3>2
      DEF Take, ThreadStep, Look, Parse, PutInCache, Customize, Write,
          FailToWrite, Saves, Abandon, FailToDeliver, Report
  <2> QED
    BY <2>4, <2>5
<1>4. CASE Restart
  BY <1>0, <1>4, Nothing, Documents
  DEF Restart, DeleteAllFiles, RestartRefreshes
<1>5. CASE UNCHANGED vars
  BY <1>5 DEF RestartRefreshes
<1> QED
  BY <1>1, <1>2, <1>3, <1>4, <1>5, Steps

-----------------------------------------------------------------------------
(* Nothing older than what a thread had to work with.                      *)

LEMMA AskingNext ==
  ASSUME Typed, Fresh, [Next]_vars
  PROVE  Asking'
<1> USE DEF vars, stateVars, masterVars, linkVars, threadVars, satVars,
            historyVars, Known, Fresh, Asking
<1>0. /\ version \in Nat /\ doc.content \in Nat
      /\ doc.present \in BOOLEAN /\ doc.downloaded \in BOOLEAN /\ doc \in Doc
  BY DEF Typed, MasterOK, DocOK, Doc
<1>1. CASE CheckForMissing
  BY <1>0, <1>1 DEF CheckForMissing, Misses
<1>2. CASE MasterSteps /\ ~CheckForMissing
  <2>1. /\ version' # 0
        /\ request' # "no" => request # "no"
        /\ request' \in {"content", "saving"} =>
             answer' = version
               \/ (request \in {"content", "saving"} /\ answer' = answer)
    BY <1>0, <1>2
    DEF MasterSteps, Edit, Pause, Start, Finish, Leave, TellClose,
        AnswerRequest, Disconnect, Reconnect, SendPage, Release, Cut
  <2> QED
    BY <1>2, <2>1, MasterElse
<1>3. CASE ObeyChange
  BY <1>0, <1>3 DEF ObeyChange, Invalidate, Doc
<1>4. CASE ObeyClose \/ GetDelete
  BY <1>4, Documents DEF ObeyClose, GetDelete, CloseMailing
<1>5. CASE GetContent
  BY <1>5 DEF GetContent, EmptyCache
<1>6. CASE SaveContent
  BY <1>6 DEF SaveContent
<1>7. CASE \E r \in Recipient : ReceivePage(r)
  BY <1>0, <1>7, Documents DEF ReceivePage
<1>8. CASE RecipientSteps
  <2>1. UNCHANGED <<version, request, answer, doc>>
    BY <1>8
    DEF RecipientSteps, Take, ThreadStep, Look, Parse, PutInCache,
        Customize, Write, FailToWrite, Saves, Abandon, Deliver,
        FailToDeliver, Report
  <2>2. ~doc.present => cache' = cache
    BY <1>8
    DEF RecipientSteps, Take, ThreadStep, Look, Parse, PutInCache,
        Customize, Write, FailToWrite, Saves, Abandon, Deliver,
        FailToDeliver, Report
  <2> QED
    BY <2>1, <2>2
<1>9. CASE Restart
  BY <1>9, Documents DEF Restart
<1>10. CASE UNCHANGED vars
  BY <1>10
<1> QED
  BY <1>1, <1>2, <1>3, <1>4, <1>5, <1>6, <1>7, <1>8, <1>9, <1>10, Steps
  DEF DocumentSteps

(* What the satellite keeps is stale only when it is marked late.          *)
LEMMA KeptNext ==
  ASSUME Typed, Fresh, [Next]_vars
  PROVE  FilesFresh' /\ CacheFresh'
<1> USE DEF vars, stateVars, masterVars, linkVars, threadVars, satVars,
            historyVars, Known, Fresh, FilesFresh, CacheFresh
<1>0. /\ doc \in Doc /\ file \in [Recipient -> Nat]
      /\ held \in [Recipient -> Nat]
      /\ late \in [files: SUBSET Recipient, cache: BOOLEAN]
      /\ doc.present \in BOOLEAN /\ doc.downloaded \in BOOLEAN
  BY DEF Typed, DocOK, ThreadsOK, Doc
<1>1. CASE MasterSteps
  <2>1. request' = "saving" => request = "saving"
    BY <1>1
    DEF MasterSteps, Edit, Pause, Start, Finish, Leave, TellClose, Cut,
        AnswerRequest, Disconnect, Reconnect, CheckForMissing, SendPage,
        Release
  <2> QED
    BY <1>1, <2>1, MasterElse
<1>2. CASE ObeyChange
  <2>1. doc'.content = doc.content /\ UNCHANGED <<cache, late, request>>
    BY <1>0, <1>2 DEF ObeyChange, Invalidate, Doc
  <2>2. \A r \in Recipient : file'[r] = 0
    BY <1>2, Nothing DEF ObeyChange, Invalidate
  <2>3. request = "saving" => ~doc.downloaded
    BY DEF Asking
  <2> QED
    BY <2>1, <2>2, <2>3
<1>3. CASE ObeyClose \/ GetDelete
  BY <1>3, Nothing DEF ObeyClose, GetDelete, CloseMailing
<1>4. CASE GetContent
  BY <1>4 DEF GetContent, EmptyCache
<1>5. CASE SaveContent
  <2>1. ~doc.downloaded /\ request = "saving" /\ request' = "no"
    BY <1>5 DEF SaveContent, Asking
  <2>2. /\ \A r \in Recipient : file[r] = 0 \/ r \in late.files
        /\ cache = 0 \/ late.cache
    BY <2>1
  <2> QED
    BY <1>5, <2>2 DEF SaveContent
<1>6. CASE \E r \in Recipient : ReceivePage(r)
  <2>1. UNCHANGED <<cache, file, late, request>>
    BY <1>6 DEF ReceivePage
  <2>2. doc' = doc \/ ~doc.present
    BY <1>6 DEF ReceivePage
  <2>3. ~doc.present => /\ cache = 0
                        /\ \A r \in Recipient : file[r] = 0 \/ r \in late.files
    BY DEF Asking
  <2> QED
    BY <2>1, <2>2, <2>3
<1>7. CASE RecipientSteps
  <2>1. PICK r \in Recipient : Take(r) \/ ThreadStep(r) \/ Report(r)
    BY <1>7 DEF RecipientSteps
  <2>2. CASE PutInCache(r)
    <3>1. /\ cache' = held[r] /\ late'.cache = IsLate(r)
          /\ late'.files = late.files /\ UNCHANGED <<doc, file, request>>
      BY <1>0, <2>2 DEF PutInCache
    <3> QED
      BY <3>1 DEF IsLate
  <2>3. CASE Write(r)
    <3>1. /\ file' = [file EXCEPT ![r] = held[r]]
          /\ late'.files = IF IsLate(r) THEN late.files \cup {r} ELSE late.files \ {r}
          /\ late'.cache = late.cache /\ UNCHANGED <<doc, cache, request>>
      BY <1>0, <2>3 DEF Write
    <3>2. FilesFresh'
      BY <1>0, <3>1 DEF IsLate
    <3> QED
      BY <3>1, <3>2
  <2>4. CASE ~PutInCache(r) /\ ~Write(r)
    <3>1. /\ UNCHANGED <<doc, cache, request, late>>
          /\ \A s \in Recipient : file'[s] \in {file[s], 0}
      BY <1>0, <2>1, <2>4
      DEF Take, ThreadStep, Look, Parse, Customize, FailToWrite, Abandon,
          Deliver, FailToDeliver, Report
    <3> QED
      BY <3>1
  <2> QED
    BY <2>2, <2>3, <2>4
<1>8. CASE Restart
  BY <1>8, Nothing DEF Restart, DeleteAllFiles
<1>9. CASE UNCHANGED vars
  BY <1>9
<1> QED
  BY <1>1, <1>2, <1>3, <1>4, <1>5, <1>6, <1>7, <1>8, <1>9, Steps
  DEF DocumentSteps

LEMMA HeldNext ==
  ASSUME Typed, Fresh, [Next]_vars, NEW r \in Recipient
  PROVE  HeldFresh(r)'
<1> USE DEF vars, stateVars, masterVars, linkVars, threadVars, satVars,
            historyVars, Known
<1>0. /\ doc \in Doc /\ doc.content \in Nat /\ file \in [Recipient -> Nat]
      /\ held \in [Recipient -> Nat] /\ due \in [Recipient -> Nat]
      /\ stage \in [Recipient -> Stage] /\ cache \in Nat
      /\ HeldFresh(r) /\ FilesFresh /\ CacheFresh
  BY DEF Typed, DocOK, ThreadsOK, Doc, Fresh
<1>1. CASE MasterSteps
  BY <1>0, <1>1, MasterElse DEF HeldFresh
<1>2. CASE DocumentSteps
  <2>1. UNCHANGED threadVars /\ file'[r] \in {file[r], 0}
    BY <1>2, Nothing
    DEF DocumentSteps, ObeyChange, Invalidate, ObeyClose, CloseMailing,
        GetContent, SaveContent, GetDelete, ReceivePage
  <2> QED
    BY <1>0, <2>1 DEF HeldFresh
<1>3. CASE RecipientSteps
  <2>1. PICK s \in Recipient : Take(s) \/ ThreadStep(s) \/ Report(s)
    BY <1>3 DEF RecipientSteps
  <2>2. CASE s # r
    <3>1. /\ stage'[r] = stage[r] /\ held'[r] = held[r] /\ due'[r] = due[r]
          /\ file'[r] = file[r]
      BY <1>0, <2>1, <2>2
      DEF Take, ThreadStep, Look, Parse, PutInCache, Customize, Write,
          FailToWrite, Saves, Abandon, Deliver, FailToDeliver, Report,
          Enters, Owes
    <3> QED
      BY <1>0, <3>1 DEF HeldFresh
  <2>3. CASE Look(r)
    <3>1. /\ stage'[r] = (IF file[r] # 0 THEN "queued" ELSE "parse")
          /\ due'[r] = (IF r \in late.files THEN 0 ELSE doc.content)
          /\ file' = file
      BY <1>0, <2>3 DEF Look, Enters, Owes
    <3> QED
      BY <1>0, <3>1 DEF HeldFresh, FilesFresh
  <2>4. CASE Parse(r)
    <3>1. /\ held'[r] = (IF cache # 0 THEN cache ELSE doc.content)
          /\ stage'[r] \in {"cache", "customize"}
          /\ due'[r] = (IF cache # 0 /\ late.cache THEN 0 ELSE doc.content)
      BY <1>0, <2>4 DEF Parse, Enters, Owes
    <3> QED
      BY <1>0, <3>1 DEF HeldFresh, CacheFresh
  <2>5. CASE PutInCache(r) \/ Customize(r)
    <3>1. /\ stage[r] \in {"cache", "customize"}
          /\ stage'[r] \in {"customize", "write"}
          /\ held' = held /\ due' = due
      BY <1>0, <2>5 DEF PutInCache, Customize, Enters
    <3> QED
      BY <1>0, <3>1 DEF HeldFresh
  <2>6. CASE Write(r)
    <3>1. /\ stage[r] = "write" /\ stage'[r] = "queued"
          /\ file'[r] = held[r] /\ due' = due
      BY <1>0, <2>6 DEF Write, Enters
    <3> QED
      BY <1>0, <3>1 DEF HeldFresh
  <2>7. CASE \/ Take(r) \/ FailToWrite(r) \/ Abandon(r) \/ Deliver(r)
             \/ FailToDeliver(r)
    <3>1. stage'[r] \in {"no", "look"}
      BY <1>0, <2>7
      DEF Take, FailToWrite, Abandon, Deliver, FailToDeliver, Enters
    <3> QED
      BY <3>1 DEF HeldFresh
  <2>8. CASE Report(r)
    BY <1>0, <2>8 DEF Report, HeldFresh
  <2> QED
    BY <2>1, <2>2, <2>3, <2>4, <2>5, <2>6, <2>7, <2>8 DEF ThreadStep
<1>4. CASE Restart
  BY <1>4 DEF Restart, HeldFresh
<1>5. CASE UNCHANGED vars
  BY <1>0, <1>5 DEF HeldFresh
<1> QED
  BY <1>1, <1>2, <1>3, <1>4, <1>5, Steps

LEMMA SentNext ==
  ASSUME Typed, Fresh, FreshContent, [Next]_vars
  PROVE  FreshContent'
<1> USE DEF vars, stateVars, masterVars, linkVars, threadVars, satVars,
            historyVars, Known
<1>1. CASE \E r \in Recipient : Deliver(r)
  <2>1. PICK r \in Recipient : Deliver(r)
    BY <1>1
  <2>2. file[r] >= due[r]
    BY <2>1 DEF Deliver, Fresh, HeldFresh
  <2>3. sent' = sent \cup {[content |-> file[r], due |-> due[r],
                            booted |-> booted]}
    BY <2>1 DEF Deliver
  <2> QED
    BY <2>2, <2>3 DEF FreshContent
<1>2. CASE RecipientSteps /\ ~\E r \in Recipient : Deliver(r)
  BY <1>2
  DEF RecipientSteps, Take, ThreadStep, Look, Parse, PutInCache, Customize,
      Write, FailToWrite, Saves, Abandon, FailToDeliver, Report, FreshContent
<1>3. CASE MasterSteps
  BY <1>3, MasterElse DEF FreshContent
<1>4. CASE DocumentSteps \/ Restart \/ UNCHANGED vars
  BY <1>4 DEF DocumentSteps, ObeyChange, ObeyClose, GetContent, SaveContent,
              GetDelete, ReceivePage, Restart, FreshContent
<1> QED
  BY <1>1, <1>2, <1>3, <1>4, Steps

-----------------------------------------------------------------------------
(* Theorems.                                                               *)

LEMMA Invariant == Spec => []IInv
<1>1. Init => IInv
  <2> SUFFICES ASSUME Init PROVE IInv
    OBVIOUS
  <2>1. AllSinceBoot /\ RestartRefreshes /\ FreshContent
    BY Nothing, Documents
    DEF Init, AllSinceBoot, SinceBoot, RestartRefreshes, FreshContent
  <2>2. Fresh
    BY Nothing, Documents
    DEF Init, Fresh, Asking, FilesFresh, CacheFresh, HeldFresh
  <2> QED
    BY <2>1, <2>2, TypedInit DEF IInv
<1>2. IInv /\ [Next]_vars => IInv'
  <2> SUFFICES ASSUME IInv, [Next]_vars PROVE IInv'
    OBVIOUS
  <2>1. Fresh'
    BY AskingNext, KeptNext, HeldNext DEF IInv, Fresh
  <2> QED
    BY <2>1, TypedNext, BootNext, SentNext DEF IInv
<1> QED
  BY <1>1, <1>2, PTL DEF Spec

LEMMA OneAtATime ==
  ASSUME OneParses
  PROVE  Cardinality({r \in Recipient : stage[r] = "cache"}) <= 1
<1> DEFINE parsing == {r \in Recipient : stage[r] = "cache"}
<1>1. parsing = {} \/ \E r : parsing = {r}
  BY DEF OneParses
<1>2. Cardinality({}) = 0 /\ \A r : Cardinality({r}) = 1
  BY FS_EmptySet, FS_Singleton
<1> HIDE DEF parsing
<1>3. Cardinality(parsing) \in {0, 1}
  BY <1>1, <1>2, Zenon
<1> QED
  BY <1>3 DEF parsing

(* Every variable keeps its type, and one thread at a time is between the  *)
(* read of the document and the cache: the lock is held that long.         *)
THEOREM ContentTyped == Spec => []TypeOK
<1>1. IInv => TypeOK
  BY OneAtATime
  DEF IInv, TypeOK, Typed, MasterOK, LinkOK, DocOK, Status, ThreadsOK,
      HistoryOK, Mail
<1> QED
  BY <1>1, Invariant, PTL

(* After a restart nothing leaves that is older than what the master had   *)
(* at the start, however answers, threads, files and the cache cross.      *)
THEOREM RestartForgets == Spec => []RestartRefreshes
<1>1. IInv => RestartRefreshes
  BY DEF IInv
<1> QED
  BY <1>1, Invariant, PTL

(* A thread sends nothing older than the document it has read, but for     *)
(* what was made while the content was being replaced.                     *)
THEOREM NothingStaleIsSent == Spec => []FreshContent
<1>1. IInv => FreshContent
  BY DEF IInv
<1> QED
  BY <1>1, Invariant, PTL

=============================================================================
