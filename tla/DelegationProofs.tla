-------------------------- MODULE DelegationProofs --------------------------
(***************************************************************************)
(* Theorems about Delegation, for all recipients, satellites, limits and   *)
(* numbers of mishaps: type correctness, that a delegation whose outcome   *)
(* is recorded is never sent again, that the master calls FINISHED only    *)
(* what was mailed, that a recipient has one holder and is mailed once as  *)
(* long as everything stays up, and that no outcome is dropped before the  *)
(* master handled it; and that Delegation implements Ledger.               *)
(***************************************************************************)
EXTENDS Delegation, TLAPS

-----------------------------------------------------------------------------
(* What the fields of a document or a row change to.                       *)
LEMMA Released == \A d \in Document : [d EXCEPT !.inProgress = FALSE] \in Document
  BY DEF Document

LEMMA Claimed ==
  \A d \in Document, s \in Satellite :
    [d EXCEPT !.inProgress = TRUE, !.client = s] \in Document
  BY DEF Document

LEMMA UpdatedType ==
  \A d \in Document, st \in DocStatus, s \in Satellite :
    Updated(d, st, s) \in Document
  BY DEF Document, Updated

LEMMA SavedType ==
  \A t \in Token, o \in Outcome, b \in BOOLEAN : Saved(t, o, b) \in Row
  BY DEF Saved, Row, RowStatus, Token

LEMMA InvalidatedType ==
  \A w \in Row \cup {NoRow} : Invalidated(w) \in Row \cup {NoRow}
  BY DEF Row, NoRow, RowStatus, Invalidated

LEMMA VerifiedType ==
  ASSUME NEW w \in Row \cup {NoRow}, NEW R, NEW r
  PROVE  Verified(w, r \in R) \in Row \cup {NoRow}
  BY DEF Row, NoRow, RowStatus, Verified

LEMMA SaveType ==
  ASSUME row \in [Satellite -> [Recipient -> Row \cup {NoRow}]],
         NEW s \in Satellite, NEW r \in Recipient, NEW w \in Row, Save(s, r, w)
  PROVE  row' \in [Satellite -> [Recipient -> Row \cup {NoRow}]]
  BY DEF Save

LEMMA SpendType ==
  ASSUME budget \in [Mishap -> Nat], NEW m \in Mishap, Spend(m)
  PROVE  budget' \in [Mishap -> Nat]
  BY DEF Spend

LEMMA MailedType ==
  ASSUME budget \in [Mishap -> Nat], mailed \subseteq Token,
         NEW t \in Token, NEW failed, MayBeMailed(t, failed)
  PROVE  /\ budget' \in [Mishap -> Nat]
         /\ mailed' \subseteq Token /\ mailed' \subseteq mailed \cup {t}
         /\ mailed \subseteq mailed'
         /\ UNCHANGED budget \/ Spend("noAnswer")
  BY SpendType DEF MayBeMailed, Mishap

LEMMA OrphanedTypes ==
  ASSUME MasterOK, NEW s \in Satellite, Orphaned(s), UNCHANGED <<grabbed, lost>>
  PROVE  MasterOK'
<1>1. \A j \in Job : [j EXCEPT !.live = FALSE] \in Job
  BY DEF Job
<1>2. pool' \in Seq(Job)
  BY <1>1 DEF MasterOK, Orphaned
<1>3. \A sel \in Selection : [sel EXCEPT !.live = FALSE] \in Selection
  BY DEF Selection
<1>4. selection' \subseteq Selection
  BY <1>3 DEF MasterOK, Orphaned
<1>5. pool # <<>> => pool' # <<>>
  BY DEF MasterOK, Orphaned
<1> QED
  BY <1>2, <1>4, <1>5 DEF MasterOK

LEMMA HandledTypes ==
  ASSUME pool \in Seq(Job), pool # <<>>, NEW i \in Item, NEW ok \in SUBSET Recipient,
         Handled(i, ok)
  PROVE  pool' \in Seq(Job)
<1>1. Head(pool) \in Job /\ Tail(pool) \in Seq(Job)
  OBVIOUS
<1>2. [Head(pool) EXCEPT !.todo = @ \ {i}, !.ok = @ \cup ok] \in Job
  BY <1>1 DEF Job
<1> QED
  BY <1>1, <1>2 DEF Handled

(* Every variable keeps its type.                                          *)
THEOREM Typing == Spec => []TypeOK
<1>1. Init => TypeOK
  <2> SUFFICES ASSUME Init PROVE TypeOK
    OBVIOUS
  <2>1. budget \in [Mishap -> Nat]
    <3>1. scenario \in Scenario /\ budget = scenario.mishaps
      BY DelegationAssumption DEF Init
    <3> QED
      BY <3>1 DEF Scenario
  <2> QED
    BY <2>1, DelegationAssumption DEF Init, TypeOK, Document, DocStatus, DocsOK,
       MasterOK, LinksOK, SatellitesOK, HistoryOK
<1>2. TypeOK /\ [Next]_vars => TypeOK'
  <2> SUFFICES ASSUME TypeOK, [Next]_vars PROVE TypeOK'
    OBVIOUS
  <2> USE DEF TypeOK, docVars, masterVars, linkVars, satVars, historyVars
  <2>1. ASSUME NEW s \in Satellite, Select(s) PROVE TypeOK'
    <3>1. MasterOK'
      BY <2>1 DEF Select, MasterOK, Selection, Eligible
    <3> QED
      BY <2>1, <3>1
      DEF Select, DocsOK, MasterOK, LinksOK, SatellitesOK, HistoryOK
  <2>2. ASSUME NEW s \in Satellite, AnswerCheck(s) PROVE TypeOK'
    <3>1. MasterOK'
      BY <2>2 DEF AnswerCheck, MasterOK, LinksOK
    <3>2. LinksOK'
      BY <2>2 DEF AnswerCheck, LinksOK
    <3> QED
      BY <2>2, <3>1, <3>2
      DEF AnswerCheck, DocsOK, MasterOK, LinksOK, SatellitesOK, HistoryOK
  <2>3. ASSUME NEW s \in Satellite, ReleaseOrphans(s) PROVE TypeOK'
    <3>1. DocsOK'
      BY <2>3, Released DEF ReleaseOrphans, DocsOK
    <3>2. MasterOK'
      BY <2>3 DEF ReleaseOrphans, MasterOK
    <3> QED
      BY <2>3, <3>1, <3>2
      DEF ReleaseOrphans, DocsOK, MasterOK, LinksOK, SatellitesOK, HistoryOK
  <2>4. ASSUME NEW s \in Satellite, AnswerVerify(s) PROVE TypeOK'
    <3>1. LinksOK'
      BY <2>4 DEF AnswerVerify, LinksOK
    <3> QED
      BY <2>4, <3>1
      DEF AnswerVerify, DocsOK, MasterOK, LinksOK, SatellitesOK, HistoryOK
  <2>5. ASSUME NEW s \in Satellite, Disconnect(s) PROVE TypeOK'
    <3>1. MasterOK'
      BY <2>5, OrphanedTypes DEF Disconnect, Orphaned
    <3>2. LinksOK'
      BY <2>5 DEF Disconnect, LinksOK, LinksDown
    <3>3. budget' \in [Mishap -> Nat]
      BY <2>5, SpendType DEF Disconnect, Mishap
    <3> QED
      BY <2>5, <3>1, <3>2, <3>3
      DEF Disconnect, DocsOK, MasterOK, LinksOK, SatellitesOK, HistoryOK
  <2>6. ASSUME NEW s \in Satellite, Connect(s) PROVE TypeOK'
    <3>1. LinksOK'
      BY <2>6 DEF Connect, LinksOK
    <3>2. SatellitesOK'
      BY <2>6, InvalidatedType DEF Connect, SatellitesOK
    <3> QED
      BY <2>6, <3>1, <3>2
      DEF Connect, DocsOK, MasterOK, LinksOK, SatellitesOK, HistoryOK
  <2>7. ASSUME NEW s \in Satellite, StopSatellite(s) PROVE TypeOK'
    <3>1. MasterOK'
      BY <2>7, OrphanedTypes DEF StopSatellite, Orphaned
    <3>2. LinksOK'
      BY <2>7 DEF StopSatellite, LinksOK, LinksDown
    <3>3. SatellitesOK'
      <4>1. ASSUME NEW t \in work[s], NEW o \in Outcome,
                   Save(s, t.rcpt, Saved(t, o, FALSE))
            PROVE  row' \in [Satellite -> [Recipient -> Row \cup {NoRow}]]
        <5>1. t \in Token /\ t.rcpt \in Recipient
          BY DEF SatellitesOK, Token
        <5>2. Saved(t, o, FALSE) \in Row
          BY <5>1, SavedType
        <5> QED
          BY <4>1, <5>1, <5>2, SaveType DEF SatellitesOK
      <4> QED
        BY <2>7, <4>1 DEF StopSatellite, SatellitesOK
    <3>4. HistoryOK'
      BY <2>7 DEF StopSatellite, HistoryOK, SatellitesOK
    <3>5. budget' \in [Mishap -> Nat]
      BY <2>7, SpendType DEF StopSatellite, Mishap
    <3> QED
      BY <2>7, <3>1, <3>2, <3>3, <3>4, <3>5
      DEF StopSatellite, DocsOK, MasterOK, LinksOK, SatellitesOK, HistoryOK
  <2>8. ASSUME NEW s \in Satellite, ReceivePage(s) PROVE TypeOK'
    <3>1. LinksOK'
      BY <2>8 DEF ReceivePage, LinksOK
    <3>2. SatellitesOK'
      BY <2>8 DEF ReceivePage, SatellitesOK, LinksOK, Row, RowStatus, Token
    <3>3. HistoryOK'
      BY <2>8 DEF ReceivePage, HistoryOK, LinksOK, Token
    <3> QED
      BY <2>8, <3>1, <3>2, <3>3
      DEF ReceivePage, DocsOK, MasterOK, LinksOK, SatellitesOK, HistoryOK
  <2>9. ASSUME NEW s \in Satellite, ApplyVerify(s) PROVE TypeOK'
    <3>1. LinksOK'
      BY <2>9 DEF ApplyVerify, LinksOK
    <3>2. SatellitesOK'
      <4>1. ASSUME NEW r \in Recipient
            PROVE  Verified(row[s][r], r \in claimed[s]) \in Row \cup {NoRow}
        <5>1. row[s][r] \in Row \cup {NoRow}
          BY DEF SatellitesOK
        <5> QED
          BY <5>1, VerifiedType
      <4> QED
        BY <2>9, <4>1 DEF ApplyVerify, SatellitesOK
    <3> QED
      BY <2>9, <3>1, <3>2
      DEF ApplyVerify, DocsOK, MasterOK, LinksOK, SatellitesOK, HistoryOK
  <2>10. ASSUME NEW s \in Satellite, SendReport(s) PROVE TypeOK'
    <3>1. ASSUME NEW r \in Present(s)
          PROVE  ItemOf(RowToken(s, r), row[s][r].status) \in Item
      BY DEF Present, SatellitesOK, ItemOf, RowToken, Row, Item
    <3>2. PICK batch \in SUBSET Reportable(s) :
            pool' = Append(pool,
              [sat |-> s, ok |-> {}, live |-> TRUE,
               todo |-> {ItemOf(RowToken(s, r), row[s][r].status) :
                           r \in batch}])
      BY <2>10 DEF SendReport
    <3> DEFINE todo == {ItemOf(RowToken(s, r), row[s][r].status) :
                           r \in batch}
    <3>3. todo \subseteq Item
      BY <3>1, <3>2 DEF Reportable
    <3> HIDE DEF todo
    <3>4. [sat |-> s, ok |-> {}, live |-> TRUE, todo |-> todo] \in Job
      BY <3>3 DEF Job
    <3>5. /\ pool' = Append(pool,
                [sat |-> s, ok |-> {}, live |-> TRUE, todo |-> todo])
          /\ pool \in Seq(Job)
      BY <3>2 DEF MasterOK, todo
    <3>6. pool' \in Seq(Job) /\ pool' # <<>>
      BY <3>4, <3>5
    <3>7. MasterOK'
      BY <2>10, <3>6 DEF SendReport, MasterOK
    <3> QED
      BY <2>10, <3>7
      DEF SendReport, DocsOK, MasterOK, LinksOK, SatellitesOK, HistoryOK
  <2>11. ASSUME NEW s \in Satellite, ReceiveAck(s) PROVE TypeOK'
    <3>1. LinksOK'
      BY <2>11 DEF ReceiveAck, LinksOK
    <3>2. SatellitesOK'
      BY <2>11 DEF ReceiveAck, SatellitesOK
    <3> QED
      BY <2>11, <3>1, <3>2
      DEF ReceiveAck, DocsOK, MasterOK, LinksOK, SatellitesOK, HistoryOK
  <2>12. ASSUME NEW s \in Satellite, NEW r \in Recipient, StartSending(s, r)
       PROVE  TypeOK'
    <3>1. SatellitesOK'
      <4>1. row[s][r] \in Row
        BY <2>12 DEF StartSending, Sendable, SatellitesOK
      <4>2. [row[s][r] EXCEPT !.status = "IN_PROGRESS", !.inProgress = TRUE]
              \in Row
        BY <4>1 DEF Row, RowStatus
      <4>3. RowToken(s, r) \in Token
        BY <4>1 DEF RowToken, Row, Token
      <4> QED
        BY <2>12, <4>2, <4>3, SaveType DEF StartSending, SatellitesOK
    <3> QED
      BY <2>12, <3>1
      DEF StartSending, DocsOK, MasterOK, LinksOK, SatellitesOK, HistoryOK
  <2>13. ASSUME NEW s \in Satellite, NEW r \in Recipient, RefuseDomain(s, r)
       PROVE  TypeOK'
    <3>1. SatellitesOK'
      <4>1. row[s][r] \in Row
        BY <2>13 DEF RefuseDomain, Sendable, SatellitesOK
      <4>2. [row[s][r] EXCEPT !.finished = TRUE] \in Row
        BY <4>1 DEF Row
      <4> QED
        BY <2>13, <4>2, SaveType DEF RefuseDomain, SatellitesOK
    <3>2. HistoryOK'
      BY <2>13
      DEF RefuseDomain, HistoryOK, SatellitesOK, Sendable, RowToken, ItemOf,
          Item, Row, RowStatus
    <3> QED
      BY <2>13, <3>1, <3>2
      DEF RefuseDomain, DocsOK, MasterOK, LinksOK, SatellitesOK, HistoryOK
  <2>14. ASSUME NEW s \in Satellite, NEW t \in work[s], CustomizerFails(s, t)
       PROVE  TypeOK'
    <3>1. SatellitesOK'
      BY <2>14, SavedType, SaveType
      DEF CustomizerFails, SatellitesOK, Save, Token, Outcome
    <3>2. budget' \in [Mishap -> Nat]
      BY <2>14, SpendType DEF CustomizerFails, Mishap
    <3> QED
      BY <2>14, <3>1, <3>2
      DEF CustomizerFails, DocsOK, MasterOK, LinksOK, SatellitesOK, HistoryOK
  <2>15. ASSUME NEW s \in Satellite, NEW t \in work[s], NEW o \in Outcome,
              EndSending(s, t, o)
       PROVE  TypeOK'
    <3>1. SatellitesOK'
      BY <2>15, SavedType, SaveType DEF EndSending, SatellitesOK, Save, Token
    <3>2. t \in Token /\ ItemOf(t, o) \in Item
      BY DEF SatellitesOK, Token, ItemOf, Item, RowStatus
    <3>3. mailed' \subseteq Token /\ budget' \in [Mishap -> Nat]
      BY <2>15, <3>2, MailedType DEF EndSending, HistoryOK
    <3>4. HistoryOK'
      BY <2>15, <3>2, <3>3 DEF EndSending, HistoryOK
    <3> QED
      BY <2>15, <3>1, <3>3, <3>4
      DEF EndSending, DocsOK, MasterOK, LinksOK, SatellitesOK, HistoryOK
  <2>28. ASSUME NEW s \in Satellite, NEW t \in work[s],
                NEW o \in {"WARNING", "ERROR"}, GiveUp(s, t, o)
         PROVE  TypeOK'
    <3>1. t \in Token /\ t.rcpt \in Recipient /\ o \in Outcome
      BY DEF SatellitesOK, Token, Outcome
    <3>2. SatellitesOK'
      BY <2>28, <3>1, SavedType, SaveType DEF GiveUp, SatellitesOK
    <3>3. HistoryOK'
      BY <2>28, <3>1 DEF GiveUp, HistoryOK, Token, ItemOf, Item, RowStatus
    <3>4. budget' \in [Mishap -> Nat]
      BY <2>28, SpendType DEF GiveUp, Mishap
    <3> QED
      BY <2>28, <3>2, <3>3, <3>4 DEF GiveUp, DocsOK, MasterOK, LinksOK
  <2>29. ASSUME NEW s \in Satellite, NEW t \in zombies[s], EndZombie(s, t)
         PROVE  TypeOK'
    <3>1. t \in Token /\ t.rcpt \in Recipient
      BY DEF SatellitesOK, Token
    <3>2. SatellitesOK'
      BY <2>29, <3>1, SavedType, SaveType DEF EndZombie, SatellitesOK, Outcome
    <3>3. HistoryOK'
      <4>1. ItemOf(t, "FINISHED") \in Item
        BY <3>1 DEF Token, ItemOf, Item, RowStatus, Outcome
      <4>2. mailed' \subseteq Token
        BY <2>29, <3>1, MailedType DEF EndZombie, HistoryOK
      <4> QED
        BY <2>29, <4>1, <4>2 DEF EndZombie, HistoryOK
    <3>4. budget' \in [Mishap -> Nat]
      BY <2>29, <3>1, MailedType DEF EndZombie, HistoryOK
    <3> QED
      BY <2>29, <3>2, <3>3, <3>4 DEF EndZombie, DocsOK, MasterOK, LinksOK
  <2>16. ASSUME NEW r \in Recipient, GrowOld(r) PROVE TypeOK'
    <3>1. DocsOK'
      BY <2>16 DEF GrowOld, DocsOK
    <3> QED
      BY <2>16, <3>1
      DEF GrowOld, DocsOK, MasterOK, LinksOK, SatellitesOK, HistoryOK
  <2>17. ASSUME NEW r \in Recipient, BecomeDue(r) PROVE TypeOK'
    <3>1. DocsOK'
      <4>1. [doc[r] EXCEPT !.due = TRUE] \in Document
        BY DEF DocsOK, Document
      <4> QED
        BY <2>17, <4>1 DEF BecomeDue, DocsOK
    <3> QED
      BY <2>17, <3>1
      DEF BecomeDue, DocsOK, MasterOK, LinksOK, SatellitesOK, HistoryOK
  <2>18. ASSUME NEW r \in Recipient, StoreDsn(r) PROVE TypeOK'
    <3>1. DocsOK'
      <4>1. [doc[r] EXCEPT !.status = "ERROR", !.dsn = TRUE] \in Document
        BY DEF DocsOK, Document, DocStatus, Outcome
      <4> QED
        BY <2>18, <4>1 DEF StoreDsn, DocsOK
    <3>2. budget' \in [Mishap -> Nat]
      BY <2>18, SpendType DEF StoreDsn, Mishap
    <3> QED
      BY <2>18, <3>1, <3>2
      DEF StoreDsn, DocsOK, MasterOK, LinksOK, SatellitesOK, HistoryOK
  <2>19. ASSUME NEW r \in Recipient, Reset(r) PROVE TypeOK'
    <3>1. DocsOK'
      <4>1. [doc[r] EXCEPT !.status = "READY"] \in Document
        BY DEF DocsOK, Document, DocStatus
      <4> QED
        BY <2>19, <4>1 DEF Reset, DocsOK
    <3>2. budget' \in [Mishap -> Nat]
      BY <2>19, SpendType DEF Reset, Mishap
    <3> QED
      BY <2>19, <3>1, <3>2
      DEF Reset, DocsOK, MasterOK, LinksOK, SatellitesOK, HistoryOK
  <2>20. CASE Mark
    <3> PICK sel \in selection : Marked(sel)
      BY <2>20 DEF Mark
    <3> sel.sat \in Satellite /\ sel.batch \subseteq Recipient
      BY DEF MasterOK, Selection
    <3>1. DocsOK'
      <4>1. doc' \in [Recipient -> Document]
        BY Claimed DEF Marked, DocsOK
      <4>2. delegated' \in [Recipient -> Nat]
        <5>1. \A r \in Recipient : delegated[r] \in Nat /\ delegated[r] + 1 \in Nat
          BY DEF DocsOK
        <5> QED
          BY <5>1 DEF Marked
      <4> QED
        BY <4>1, <4>2 DEF Marked, DocsOK
    <3>2. MasterOK'
      BY <2>20 DEF Mark, MasterOK
    <3>3. LinksOK'
      <4>1. PageOf(sel.batch) \subseteq Token
        BY DEF PageOf, Token, DocsOK
      <4> QED
        <5>1. pages' \in [Satellite -> SUBSET SUBSET Token]
          <6>1. CASE sel.live
            <7>1. pages[sel.sat] \cup {PageOf(sel.batch)} \in SUBSET SUBSET Token
              BY <4>1 DEF LinksOK
            <7> QED
              BY <6>1, <7>1 DEF Marked, LinksOK
          <6>2. CASE ~sel.live
            BY <6>2 DEF Marked, LinksOK
          <6> QED
            BY <6>1, <6>2
        <5> QED
          BY <2>20, <5>1 DEF Mark, LinksOK
    <3> QED
      BY <2>20, <3>1, <3>2, <3>3
      DEF Mark, DocsOK, MasterOK, LinksOK, SatellitesOK, HistoryOK
  <2>21. CASE Grab
    <3>1. MasterOK'
      <4>1. Head(pool) \in Job
        BY <2>21 DEF Grab, MasterOK
      <4>2. \A i \in Head(pool).todo : i \in Item /\ i.rcpt \in Recipient
        BY <4>1 DEF Job, Item
      <4>3. \A i \in Head(pool).todo : [item |-> i, doc |-> doc[i.rcpt]] \in Grabbed
        BY <4>2 DEF Grabbed, DocsOK
      <4> QED
        BY <2>21, <4>3 DEF Grab, MasterOK
    <3> QED
      BY <2>21, <3>1
      DEF Grab, DocsOK, MasterOK, LinksOK, SatellitesOK, HistoryOK
  <2>22. CASE StoreReport
    <3> PICK g \in grabbed : Stored(g)
      BY <2>22 DEF StoreReport
    <3> g.doc \in Document /\ g.item \in Item /\ g.item.rcpt \in Recipient
      BY DEF MasterOK, Grabbed, Item
    <3> pool # <<>> /\ Head(pool) \in Job
      BY DEF MasterOK
    <3> Head(pool).sat \in Satellite
      BY DEF Job
    <3>1. DocsOK'
      BY <2>22, UpdatedType DEF StoreReport, Stored, Storable, DocsOK
    <3>2. MasterOK'
      <4>1. pool' \in Seq(Job)
        BY HandledTypes DEF Stored, MasterOK
      <4> QED
        BY <2>22, <4>1 DEF StoreReport, MasterOK
    <3>3. HistoryOK'
      BY <2>22 DEF StoreReport, Stored, HistoryOK
    <3> QED
      BY <2>22, <3>1, <3>2, <3>3
      DEF StoreReport, DocsOK, MasterOK, LinksOK, SatellitesOK, HistoryOK
  <2>23. CASE FailToStore
    <3>1. MasterOK'
      <4>1. PICK g \in grabbed : Handled(g.item, {})
        BY <2>23 DEF FailToStore
      <4>2. g.item \in Item /\ pool # <<>>
        BY DEF MasterOK, Grabbed
      <4>3. pool' \in Seq(Job)
        BY <4>1, <4>2, HandledTypes DEF MasterOK
      <4> QED
        BY <2>23, <4>3 DEF FailToStore, MasterOK
    <3>2. budget' \in [Mishap -> Nat]
      BY <2>23, SpendType DEF FailToStore, Mishap
    <3> QED
      BY <2>23, <3>1, <3>2
      DEF FailToStore, DocsOK, MasterOK, LinksOK, SatellitesOK, HistoryOK
  <2>24. CASE FinishReport
    <3>1. MasterOK'
      BY <2>24 DEF FinishReport, MasterOK
    <3>2. LinksOK'
      <4>1. Head(pool) \in Job
        BY <2>24 DEF FinishReport, MasterOK
      <4>2. Head(pool).sat \in Satellite /\ Head(pool).ok \subseteq Recipient
        BY <4>1 DEF Job
      <4> QED
        BY <2>24, <4>2 DEF FinishReport, LinksOK
    <3> QED
      BY <2>24, <3>1, <3>2
      DEF FinishReport, DocsOK, MasterOK, LinksOK, SatellitesOK, HistoryOK
  <2>25. CASE CheckOrphans
    <3>1. MasterOK'
      BY <2>25 DEF CheckOrphans, MasterOK, Unasked, Orphans, LinksOK, DocsOK
    <3>2. LinksOK'
      BY <2>25 DEF CheckOrphans, LinksOK, Orphans, DocsOK
    <3> QED
      BY <2>25, <3>1, <3>2
      DEF CheckOrphans, DocsOK, MasterOK, LinksOK, SatellitesOK, HistoryOK
  <2>26. CASE RestartMaster
    <3>1. MasterOK'
      BY <2>26 DEF RestartMaster, MasterOK
    <3>2. LinksOK'
      BY <2>26 DEF RestartMaster, LinksOK, LinksDown
    <3>3. budget' \in [Mishap -> Nat]
      BY <2>26, SpendType DEF RestartMaster, Mishap
    <3> QED
      BY <2>26, <3>1, <3>2, <3>3
      DEF RestartMaster, DocsOK, MasterOK, LinksOK, SatellitesOK, HistoryOK
  <2>27. CASE UNCHANGED vars
    BY <2>27 DEF vars, stateVars, DocsOK, MasterOK, LinksOK, SatellitesOK, HistoryOK
  <2> QED
    BY <2>1, <2>2, <2>3, <2>4, <2>5, <2>6, <2>7, <2>8, <2>9, <2>10, <2>11,
       <2>12, <2>13, <2>14, <2>15, <2>16, <2>17, <2>18, <2>19, <2>20, <2>21,
       <2>22, <2>23, <2>24, <2>25, <2>26, <2>27,
       <2>28, <2>29
    DEF Next, Change, MasterNext, SatelliteNext
<1> QED
  BY <1>1, <1>2, PTL DEF Spec

-----------------------------------------------------------------------------
(* Why nothing is sent again: every delegation is a page on its way, or    *)
(* the business of a single satellite.                                     *)

(* s has the row of t.                                                     *)
HasRow(s, t) == t.rcpt \in Present(s) /\ row[s][t.rcpt].deleg = t.deleg

(* No delegation is ahead of the master's count.                           *)
Counted ==
  /\ \A t \in RecordedTokens : t.deleg <= delegated[t.rcpt]
  /\ \A s \in Satellite :
       /\ \A t \in work[s] : t.deleg <= delegated[t.rcpt]
       /\ \A r \in Present(s) : row[s][r].deleg <= delegated[r]
       /\ \A page \in pages[s] : \A t \in page : t.deleg <= delegated[t.rcpt]

(* What is on its way to a satellite is in one page, and nowhere else.     *)
PagesFresh ==
  \A s \in Satellite : \A page \in pages[s] : \A t \in page :
    /\ t \notin RecordedTokens
    /\ \A s2 \in Satellite :
         /\ t \notin work[s2] /\ ~HasRow(s2, t)
         /\ \A page2 \in pages[s2] : t \in page2 => s2 = s /\ page2 = page

(* The row of a delegation and the relay that sends it are at one place.   *)
OneSatellite ==
  \A s \in Satellite : \A s2 \in Satellite \ {s} :
    /\ \A t \in Sending(s) : t \notin Sending(s2) /\ ~HasRow(s2, t)
    /\ \A r \in Present(s) \cap Present(s2) : row[s][r].deleg # row[s2][r].deleg

(* An outcome is recorded last: the row is finished and no relay sends it. *)
RecordedLast ==
  \A s \in Satellite :
    /\ work[s] \cap RecordedTokens = {}
    /\ \A r \in Present(s) :
         /\ RowToken(s, r) \in RecordedTokens => row[s][r].finished
         /\ RowToken(s, r) \in work[s] => row[s][r].inProgress
    /\ ~booted[s] => work[s] = {}

(* A relay is given up with an outcome.                                    *)
ZombiesRecorded == \A s \in Satellite : zombies[s] \subseteq RecordedTokens

NotSentInv ==
  Counted /\ PagesFresh /\ OneSatellite /\ RecordedLast /\ ZombiesRecorded

(* Rows and relays may go, and pages be lost: nothing is sent again.       *)
LEMMA Fading ==
  ASSUME TypeOK, TypeOK', NotSentInv, UNCHANGED <<delegated, recorded>>,
         \A s \in Satellite : /\ pages'[s] \subseteq pages[s]
                              /\ work'[s] \subseteq work[s]
                              /\ zombies'[s] \subseteq zombies[s]
                              /\ ~booted'[s] => work'[s] = {},
         \A s \in Satellite, r \in Recipient :
           row'[s][r] # NoRow =>
             /\ row[s][r] # NoRow
             /\ row'[s][r].deleg = row[s][r].deleg
             /\ row'[s][r].finished = row[s][r].finished
             /\ row'[s][r].inProgress = row[s][r].inProgress \/ work'[s] = {}
  PROVE  NotSentInv'
<1>1. RecordedTokens' = RecordedTokens
  BY DEF RecordedTokens
<1>2. \A s \in Satellite : \A r \in Present(s)' :
        r \in Present(s) /\ RowToken(s, r)' = RowToken(s, r)
  BY DEF Present, RowToken
<1>3. \A s \in Satellite, t \in Token : HasRow(s, t)' => HasRow(s, t)
  BY <1>2 DEF HasRow, Present
<1>4. \A s \in Satellite : /\ \A page \in pages[s] : page \subseteq Token
                           /\ Sending(s) \subseteq Token
                           /\ Sending(s)' \subseteq Sending(s)
  BY DEF TypeOK, LinksOK, SatellitesOK, Sending
<1>5. Counted'
  BY <1>1, <1>2 DEF NotSentInv, Counted, Present
<1>6. PagesFresh'
  BY <1>1, <1>3, <1>4 DEF NotSentInv, PagesFresh
<1>7. OneSatellite'
  BY <1>2, <1>3, <1>4 DEF NotSentInv, OneSatellite, Present
<1>8. RecordedLast'
  BY <1>1, <1>2 DEF NotSentInv, RecordedLast, Present
<1>9. ZombiesRecorded'
  BY <1>1 DEF NotSentInv, ZombiesRecorded
<1> QED
  BY <1>5, <1>6, <1>7, <1>8, <1>9 DEF NotSentInv

LEMMA NoRowIsNone == NoRow \notin Row
  BY DEF NoRow, Row, RowStatus, Outcome

(* A relay is done with t, or given up, or ends after it was given up: the *)
(* row of t is saved, and t may be recorded.                               *)
LEMMA Settling ==
  ASSUME TypeOK, TypeOK', NotSentInv, UNCHANGED delegated,
         NEW s \in Satellite, NEW t \in Sending(s),
         NEW w \in Row, w.deleg = t.deleg, Save(s, t.rcpt, w),
         work'[s] \subseteq work[s] \ {t},
         \A x \in Satellite \ {s} : work'[x] = work[x],
         \A x \in Satellite : /\ pages'[x] \subseteq pages[x]
                              /\ ~booted'[x] => work'[x] = {}
                              /\ Sending(x)' \subseteq Sending(x)
                              /\ zombies'[x] \subseteq RecordedTokens',
         RecordedTokens' \in {RecordedTokens, RecordedTokens \cup {t}},
         t \in RecordedTokens' => w.finished
  PROVE  NotSentInv'
<1>1. /\ t \in Token /\ t.rcpt \in Recipient
      /\ \A x \in Satellite : /\ work[x] \subseteq Token
                              /\ Sending(x) \subseteq Token
                              /\ work'[x] \subseteq work[x]
                              /\ \A page \in pages[x] : page \subseteq Token
                              /\ work[x] \subseteq Sending(x)
  <2>1. \A x \in Satellite : /\ Sending(x) \subseteq Token
                             /\ work[x] \subseteq Sending(x)
                             /\ \A page \in pages[x] : page \subseteq Token
    BY DEF TypeOK, SatellitesOK, LinksOK, Sending
  <2>2. \A x \in Satellite : work'[x] \subseteq work[x]
    OBVIOUS
  <2> QED
    BY <2>1, <2>2 DEF Token
<1>2. \A x \in Satellite, r \in Recipient :
        row'[x][r] = IF x = s /\ r = t.rcpt THEN w ELSE row[x][r]
  BY <1>1 DEF Save, TypeOK, SatellitesOK
<1>3. \A x \in Satellite, r \in Recipient :
        r \in Present(x)' <=> r \in Present(x) \/ (x = s /\ r = t.rcpt)
  BY <1>1, <1>2, NoRowIsNone DEF Present
<1>4. \A x \in Satellite, u \in Token :
        HasRow(x, u)' => HasRow(x, u) \/ (x = s /\ u = t)
  BY <1>1, <1>2, <1>3 DEF HasRow, Token
(* What is recorded, or being sent, is on no page and of no other place.   *)
<1>5. \A x \in Satellite \ {s} : t \notin Sending(x) /\ ~HasRow(x, t)
  BY DEF NotSentInv, OneSatellite
<1>6. /\ t.deleg <= delegated[t.rcpt]
      /\ \A x \in Satellite : \A page \in pages[x] : t \notin page
  BY DEF NotSentInv, Counted, PagesFresh, ZombiesRecorded, Sending
<1>7. Counted'
  BY <1>1, <1>2, <1>3, <1>6 DEF NotSentInv, Counted, Present
<1>8. PagesFresh'
  BY <1>1, <1>4, <1>6 DEF NotSentInv, PagesFresh
<1>9. OneSatellite'
  <2> SUFFICES ASSUME NEW x \in Satellite, NEW y \in Satellite \ {x}
               PROVE  /\ \A u \in Sending(x)' : u \notin Sending(y)' /\ ~HasRow(y, u)'
                      /\ \A r \in Present(x)' \cap Present(y)' :
                           row'[x][r].deleg # row'[y][r].deleg
    BY DEF OneSatellite
  <2>1. \A u \in Sending(x)' : u \notin Sending(y)' /\ ~HasRow(y, u)'
    BY <1>1, <1>4, <1>5 DEF NotSentInv, OneSatellite
  <2>2. ASSUME NEW r \in Present(x)' \cap Present(y)'
        PROVE  row'[x][r].deleg # row'[y][r].deleg
    <3>1. CASE r = t.rcpt /\ (x = s \/ y = s)
      BY <1>1, <1>2, <1>3, <1>5, <3>1 DEF HasRow, Present
    <3>2. CASE ~(r = t.rcpt /\ (x = s \/ y = s))
      BY <1>2, <1>3, <3>2 DEF NotSentInv, OneSatellite, Present
    <3> QED
      BY <3>1, <3>2
  <2> QED
    BY <2>1, <2>2
<1>10. RecordedLast'
  <2> SUFFICES ASSUME NEW x \in Satellite
               PROVE  /\ work'[x] \cap RecordedTokens' = {}
                      /\ \A r \in Present(x)' :
                           /\ RowToken(x, r)' \in RecordedTokens'
                                => row'[x][r].finished
                           /\ RowToken(x, r)' \in work'[x] => row'[x][r].inProgress
    BY DEF RecordedLast
  <2>1. work'[x] \cap RecordedTokens' = {}
    BY <1>1, <1>5 DEF NotSentInv, RecordedLast
  <2>2. ASSUME NEW r \in Present(x)'
        PROVE  /\ RowToken(x, r)' \in RecordedTokens' => row'[x][r].finished
               /\ RowToken(x, r)' \in work'[x] => row'[x][r].inProgress
    <3>1. CASE x = s /\ r = t.rcpt
      <4>1. RowToken(x, r)' = t /\ row'[x][r] = w
        BY <1>1, <1>2, <3>1 DEF RowToken, Token
      <4> QED
        BY <3>1, <4>1
    <3>2. CASE ~(x = s /\ r = t.rcpt)
      <4>1. /\ r \in Present(x) /\ row'[x][r] = row[x][r]
            /\ RowToken(x, r)' = RowToken(x, r)
        BY <1>2, <1>3, <3>2 DEF Present, RowToken
      <4>2. RowToken(x, r) # t
        BY <1>5, <3>2, <4>1 DEF RowToken, HasRow
      <4> QED
        BY <1>1, <4>1, <4>2 DEF NotSentInv, RecordedLast
    <3> QED
      BY <3>1, <3>2
  <2> QED
    BY <2>1, <2>2
<1>11. ZombiesRecorded'
  BY DEF ZombiesRecorded
<1> QED
  BY <1>7, <1>8, <1>9, <1>10, <1>11 DEF NotSentInv

(* A relay starts on a row: it is sent by nobody and not recorded.         *)
LEMMA Starting ==
  ASSUME TypeOK, TypeOK', NotSentInv,
         NEW s \in Satellite, NEW r \in Recipient, StartSending(s, r)
  PROVE  NotSentInv'
<1> DEFINE t == RowToken(s, r)
<1>1. /\ row[s][r] \in Row /\ ~row[s][r].finished /\ ~row[s][r].inProgress
      /\ r \in Present(s) /\ booted[s]
  BY DEF StartSending, Sendable, TypeOK, SatellitesOK, Present
<1>2. t \in Token /\ HasRow(s, t) /\ t.rcpt = r
  BY <1>1 DEF RowToken, Token, Row, HasRow
<1>3. /\ RecordedTokens' = RecordedTokens
      /\ UNCHANGED <<delegated, pages, booted, zombies>>
      /\ work' = [work EXCEPT ![s] = @ \cup {t}]
  BY DEF StartSending, RecordedTokens, docVars, linkVars, historyVars
<1>4. /\ \A x \in Satellite : \A q \in Recipient :
           ~(x = s /\ q = r) => row'[x][q] = row[x][q]
      /\ row'[s][r] # NoRow /\ row'[s][r].inProgress
      /\ row'[s][r].finished = row[s][r].finished
      /\ row'[s][r].deleg = row[s][r].deleg
  <2>1. row' = [row EXCEPT ![s][r] = [row[s][r] EXCEPT !.status = "IN_PROGRESS",
                                                       !.inProgress = TRUE]]
    BY DEF StartSending, Save
  <2>2. row'[s][r] = [row[s][r] EXCEPT !.status = "IN_PROGRESS", !.inProgress = TRUE]
    BY <2>1 DEF TypeOK, SatellitesOK
  <2>3. row'[s][r].status = "IN_PROGRESS" /\ row'[s][r].inProgress
        /\ row'[s][r].finished = row[s][r].finished
        /\ row'[s][r].deleg = row[s][r].deleg
    BY <1>1, <2>2 DEF Row
  <2> QED
    BY <2>1, <2>3 DEF TypeOK, SatellitesOK, NoRow
<1>5. \A x \in Satellite : \A q \in Recipient :
         /\ row'[x][q].deleg = row[x][q].deleg
         /\ q \in Present(x)' <=> q \in Present(x)
         /\ RowToken(x, q)' = RowToken(x, q)
  BY <1>1, <1>4 DEF Present, RowToken
<1>6. \A x \in Satellite : \A u \in Token : HasRow(x, u)' <=> HasRow(x, u)
  BY <1>5 DEF HasRow, Token
<1>7. \A x \in Satellite : /\ \A page \in pages[x] : page \subseteq Token
                           /\ work[x] \subseteq Token
                           /\ work'[x] = IF x = s THEN work[x] \cup {t} ELSE work[x]
                           /\ Sending(x) \subseteq Token
                           /\ Sending(x)' = IF x = s THEN Sending(x) \cup {t}
                                                   ELSE Sending(x)
  BY <1>3 DEF TypeOK, LinksOK, SatellitesOK, Sending
<1>8. t \notin RecordedTokens
  BY <1>1 DEF NotSentInv, RecordedLast
<1>9. Counted'
  BY <1>1, <1>2, <1>3, <1>4, <1>5, <1>7 DEF NotSentInv, Counted, HasRow, Present
<1>10. PagesFresh'
  <2>1. \A x \in Satellite : \A page \in pages[x] : t \notin page
    BY <1>2 DEF NotSentInv, PagesFresh
  <2>2. \A x \in Satellite : \A page \in pages[x] : \A u \in page :
          \A y \in Satellite : u \notin work'[y] /\ ~HasRow(y, u)'
    <3> SUFFICES ASSUME NEW x \in Satellite, NEW page \in pages[x], NEW u \in page,
                        NEW y \in Satellite
                 PROVE  u \notin work'[y] /\ ~HasRow(y, u)'
      OBVIOUS
    <3>1. u \in Token /\ u # t
      BY <1>7, <2>1
    <3>2. u \notin work[y] /\ ~HasRow(y, u)
      BY DEF NotSentInv, PagesFresh
    <3> QED
      BY <1>6, <1>7, <3>1, <3>2
  <2> QED
    BY <1>3, <2>2 DEF NotSentInv, PagesFresh
<1>11. OneSatellite'
  <2>1. \A x \in Satellite \ {s} : t \notin Sending(x) /\ ~HasRow(x, t)
    BY <1>2, <1>5 DEF NotSentInv, OneSatellite, HasRow, RowToken, Present
  <2>2. ASSUME NEW x \in Satellite, NEW y \in Satellite \ {x}, NEW u \in Sending(x)'
        PROVE  u \notin Sending(y)' /\ ~HasRow(y, u)'
    <3>1. CASE u \in Sending(x) /\ u # t
      <4>1. u \in Token /\ u \notin Sending(y) /\ ~HasRow(y, u)
        BY <1>7, <3>1 DEF NotSentInv, OneSatellite
      <4> QED
        BY <1>6, <1>7, <3>1, <4>1
    <3>2. CASE u = t
      <4>1. x = s
        BY <1>7, <2>1, <3>2
      <4> QED
        BY <1>2, <1>6, <1>7, <2>1, <3>2, <4>1
    <3> QED
      BY <1>7, <3>1, <3>2
  <2>3. \A x \in Satellite : \A y \in Satellite \ {x} :
          \A q \in Present(x)' \cap Present(y)' : row'[x][q].deleg # row'[y][q].deleg
    BY <1>5 DEF NotSentInv, OneSatellite, Present
  <2> QED
    BY <2>2, <2>3 DEF OneSatellite
<1>12. RecordedLast'
  BY <1>1, <1>2, <1>3, <1>4, <1>5, <1>7, <1>8
  DEF NotSentInv, RecordedLast, Present, RowToken
<1>13. ZombiesRecorded'
  BY <1>3 DEF NotSentInv, ZombiesRecorded
<1> QED
  BY <1>9, <1>10, <1>11, <1>12, <1>13 DEF NotSentInv

(* A row refused as it is: it is recorded while no relay sends it.         *)
LEMMA Refusing ==
  ASSUME TypeOK, TypeOK', NotSentInv,
         NEW s \in Satellite, NEW r \in Recipient, RefuseDomain(s, r)
  PROVE  NotSentInv'
<1> DEFINE t == RowToken(s, r)
<1>1. /\ row[s][r] \in Row /\ ~row[s][r].inProgress
      /\ r \in Present(s)
  BY DEF RefuseDomain, Sendable, TypeOK, SatellitesOK, Present
<1>2. t \in Token /\ HasRow(s, t) /\ t.rcpt = r
  BY <1>1 DEF RowToken, Token, Row, HasRow
<1>3. /\ RecordedTokens' = RecordedTokens \cup {t}
      /\ UNCHANGED <<delegated, pages, booted, work, zombies>>
  <2>1. TokenOf(ItemOf(t, "READY")) = t
    BY DEF TokenOf, ItemOf, RowToken
  <2>2. recorded' = recorded \cup {ItemOf(t, "READY")}
    BY DEF RefuseDomain
  <2>3. RecordedTokens' = RecordedTokens \cup {t}
    BY <2>1, <2>2 DEF RecordedTokens
  <2> QED
    BY <2>3 DEF RefuseDomain, docVars, linkVars
<1>4. /\ \A x \in Satellite : \A q \in Recipient :
           ~(x = s /\ q = r) => row'[x][q] = row[x][q]
      /\ row'[s][r] # NoRow /\ row'[s][r].finished
      /\ row'[s][r].inProgress = row[s][r].inProgress
      /\ row'[s][r].deleg = row[s][r].deleg
  <2>1. row' = [row EXCEPT ![s][r] = [row[s][r] EXCEPT !.finished = TRUE]]
    BY DEF RefuseDomain, Save
  <2>2. row'[s][r] = [row[s][r] EXCEPT !.finished = TRUE]
    BY <2>1 DEF TypeOK, SatellitesOK
  <2>3. row'[s][r].finished = TRUE
        /\ row'[s][r].inProgress = row[s][r].inProgress
        /\ row'[s][r].deleg = row[s][r].deleg
    BY <1>1, <2>2 DEF Row
  <2> QED
    BY <2>1, <2>3 DEF TypeOK, SatellitesOK, NoRow
<1>5. \A x \in Satellite : \A q \in Recipient :
         /\ row'[x][q].deleg = row[x][q].deleg
         /\ q \in Present(x)' <=> q \in Present(x)
         /\ RowToken(x, q)' = RowToken(x, q)
  BY <1>1, <1>4 DEF Present, RowToken
<1>6. \A x \in Satellite : \A u \in Token : HasRow(x, u)' <=> HasRow(x, u)
  BY <1>5 DEF HasRow, Token
<1>7. \A x \in Satellite : /\ \A page \in pages[x] : page \subseteq Token
                           /\ work[x] \subseteq Token
                           /\ Sending(x) \subseteq Token
                           /\ Sending(x)' = Sending(x)
                           /\ work[x] \subseteq Sending(x)
  BY <1>3 DEF TypeOK, LinksOK, SatellitesOK, Sending
<1>8. \A x \in Satellite : t \notin work[x]
  BY <1>1, <1>2, <1>7 DEF NotSentInv, RecordedLast, OneSatellite
<1>9. Counted'
  BY <1>1, <1>2, <1>3, <1>5 DEF NotSentInv, Counted, HasRow, Present
<1>10. PagesFresh'
  BY <1>2, <1>3, <1>6, <1>7 DEF NotSentInv, PagesFresh
<1>11. OneSatellite'
  BY <1>3, <1>5, <1>6, <1>7 DEF NotSentInv, OneSatellite, Present
<1>12. RecordedLast'
  <2>1. ASSUME NEW x \in Satellite, NEW q \in Present(x)', ~(x = s /\ q = r)
        PROVE  /\ q \in Present(x) /\ row'[x][q] = row[x][q]
               /\ RowToken(x, q)' = RowToken(x, q) /\ RowToken(x, q) # t
    BY <1>1, <1>2, <1>4, <1>5, <2>1
    DEF NotSentInv, OneSatellite, RowToken, Present
  <2>2. \A x \in Satellite : /\ work'[x] \cap RecordedTokens' = {}
                             /\ ~booted'[x] => work'[x] = {}
    BY <1>3, <1>8 DEF NotSentInv, RecordedLast
  <2>3. ASSUME NEW x \in Satellite, NEW q \in Present(x)'
        PROVE  /\ RowToken(x, q)' \in RecordedTokens' => row'[x][q].finished
               /\ RowToken(x, q)' \in work'[x] => row'[x][q].inProgress
    <3>1. CASE x = s /\ q = r
      BY <1>3, <1>4, <1>5, <1>8, <3>1
    <3>2. CASE ~(x = s /\ q = r)
      BY <1>3, <2>1, <3>2 DEF NotSentInv, RecordedLast
    <3> QED
      BY <3>1, <3>2
  <2> QED
    BY <2>2, <2>3 DEF RecordedLast
<1>13. ZombiesRecorded'
  BY <1>3 DEF NotSentInv, ZombiesRecorded
<1> QED
  BY <1>9, <1>10, <1>11, <1>12, <1>13 DEF NotSentInv

(* A page arrives: what it gives a row was nowhere else.                   *)
LEMMA Receiving ==
  ASSUME TypeOK, TypeOK', NotSentInv, NEW s \in Satellite, ReceivePage(s)
  PROVE  NotSentInv'
<1>1. PICK page \in pages[s] :
        /\ row' = [row EXCEPT ![s] = [r \in Recipient |->
             IF @[r] = NoRow /\ \E t \in page : t.rcpt = r
               THEN [status |-> "READY", inProgress |-> FALSE,
                     finished |-> FALSE,
                     deleg |-> (CHOOSE t \in page : t.rcpt = r).deleg]
               ELSE @[r]]]
        /\ pages' = [pages EXCEPT ![s] = @ \ {page}]
  BY DEF ReceivePage
<1>2. /\ RecordedTokens' = RecordedTokens
      /\ UNCHANGED <<delegated, work, booted, zombies>>
  BY DEF ReceivePage, RecordedTokens, docVars, historyVars
<1>3. \A x \in Satellite : /\ \A p \in pages[x] : p \subseteq Token
                           /\ work[x] \subseteq Token
                           /\ Sending(x) \subseteq Token
                           /\ Sending(x)' = Sending(x)
                           /\ pages'[x] \subseteq pages[x]
  BY <1>1, <1>2 DEF TypeOK, LinksOK, SatellitesOK, Sending
<1>4. page \notin pages'[s]
  BY <1>1 DEF TypeOK, LinksOK
(* A row is what it was, or has a delegation of the page.                  *)
<1>5. ASSUME NEW x \in Satellite, NEW r \in Present(x)'
      PROVE  \/ r \in Present(x) /\ row'[x][r] = row[x][r]
             \/ /\ x = s /\ r \notin Present(x)
                /\ RowToken(x, r)' \in page /\ RowToken(x, r)' \in Token
                /\ ~row'[x][r].finished
  <2>1. CASE x # s \/ row[x][r] # NoRow \/ ~\E t \in page : t.rcpt = r
    BY <1>1, <2>1 DEF TypeOK, SatellitesOK, Present
  <2>2. CASE x = s /\ row[x][r] = NoRow /\ \E t \in page : t.rcpt = r
    <3> DEFINE t == CHOOSE u \in page : u.rcpt = r
    <3>1. t \in page /\ t.rcpt = r /\ t \in Token
      BY <1>3, <2>2
    <3>2. row'[x][r] = [status |-> "READY", inProgress |-> FALSE,
                        finished |-> FALSE, deleg |-> t.deleg]
      BY <1>1, <2>2 DEF TypeOK, SatellitesOK, Present
    <3>3. RowToken(x, r)' = t
      BY <3>1, <3>2 DEF RowToken, Token
    <3> QED
      BY <2>2, <3>1, <3>2, <3>3 DEF Present
  <2> QED
    BY <2>1, <2>2
<1>6. ASSUME NEW x \in Satellite, NEW u \in Token, HasRow(x, u)'
      PROVE  HasRow(x, u) \/ (x = s /\ u \in page)
  BY <1>5, <1>6 DEF HasRow, RowToken, Token
<1>7. Counted'
  BY <1>1, <1>2, <1>3, <1>5 DEF NotSentInv, Counted, Present, RowToken, Token
<1>8. PagesFresh'
  <2>1. ASSUME NEW x \in Satellite, NEW p \in pages'[x], NEW t \in p,
               NEW y \in Satellite
        PROVE  ~HasRow(y, t)'
    BY <1>1, <1>3, <1>4, <1>6 DEF NotSentInv, PagesFresh
  <2> QED
    BY <1>2, <1>3, <2>1 DEF NotSentInv, PagesFresh
<1>9. OneSatellite'
  <2>1. ASSUME NEW x \in Satellite, NEW y \in Satellite \ {x},
               NEW r \in Present(x)' \cap Present(y)'
        PROVE  row'[x][r].deleg # row'[y][r].deleg
    <3>1. CASE r \in Present(x) /\ r \in Present(y)
      BY <1>5, <3>1 DEF NotSentInv, OneSatellite
    <3>2. CASE r \notin Present(x) \/ r \notin Present(y)
      BY <1>1, <1>5, <3>2
      DEF NotSentInv, PagesFresh, HasRow, RowToken, Token, Present
    <3> QED
      BY <3>1, <3>2
  <2>2. ASSUME NEW x \in Satellite, NEW y \in Satellite \ {x}, NEW t \in Sending(x)
        PROVE  t \notin Sending(y) /\ ~HasRow(y, t)'
    <3>1. t \notin page
      BY <1>1 DEF NotSentInv, PagesFresh, ZombiesRecorded, Sending
    <3> QED
      BY <1>3, <1>6, <3>1 DEF NotSentInv, OneSatellite
  <2> QED
    BY <1>3, <2>1, <2>2 DEF OneSatellite
<1>10. RecordedLast'
  <2>1. ASSUME NEW x \in Satellite, NEW r \in Present(x)'
        PROVE  /\ RowToken(x, r)' \in RecordedTokens => row'[x][r].finished
               /\ RowToken(x, r)' \in work[x] => row'[x][r].inProgress
    <3>1. CASE r \in Present(x) /\ row'[x][r] = row[x][r]
      <4>1. RowToken(x, r)' = RowToken(x, r)
        BY <3>1 DEF RowToken
      <4> QED
        BY <3>1, <4>1 DEF NotSentInv, RecordedLast
    <3>2. CASE ~(r \in Present(x) /\ row'[x][r] = row[x][r])
      <4>1. x = s /\ RowToken(x, r)' \in page
        BY <1>5, <3>2
      <4>2. RowToken(x, r)' \notin RecordedTokens /\ RowToken(x, r)' \notin work[x]
        BY <4>1 DEF NotSentInv, PagesFresh
      <4> QED
        BY <4>2
    <3> QED
      BY <3>1, <3>2
  <2> QED
    BY <1>2, <2>1 DEF NotSentInv, RecordedLast
<1>11. ZombiesRecorded'
  BY <1>2 DEF NotSentInv, ZombiesRecorded
<1> QED
  BY <1>7, <1>8, <1>9, <1>10, <1>11 DEF NotSentInv

(* A new page: the master counts one more for each of its recipients.      *)
LEMMA Marking ==
  ASSUME TypeOK, TypeOK', NotSentInv, Mark
  PROVE  NotSentInv'
<1>1. PICK sel \in selection : Marked(sel)
  BY DEF Mark
<1>2. sel.sat \in Satellite /\ sel.batch \subseteq Recipient
  BY DEF TypeOK, MasterOK, Selection
<1> DEFINE new == PageOf(sel.batch)
<1>3. /\ RecordedTokens' = RecordedTokens
      /\ UNCHANGED <<row, work, booted, zombies>>
      /\ \A x \in Satellite : Present(x)' = Present(x) /\ Sending(x)' = Sending(x)
      /\ \A x \in Satellite, t \in Token : HasRow(x, t)' = HasRow(x, t)
  BY DEF Mark, RecordedTokens, Present, HasRow, Sending, satVars, historyVars
<1>4. \A x \in Satellite : \A p \in pages'[x] :
        p \in pages[x] \/ (x = sel.sat /\ p = new)
  <2>1. CASE sel.live
    BY <1>1, <1>2, <2>1 DEF Marked, TypeOK, LinksOK
  <2>2. CASE ~sel.live
    BY <1>1, <2>2 DEF Marked
  <2> QED
    BY <2>1, <2>2
<1>5. \A r \in Recipient : delegated[r] \in Nat /\ delegated'[r] \in Nat
                           /\ delegated[r] <= delegated'[r]
  <2> SUFFICES ASSUME NEW r \in Recipient
               PROVE  /\ delegated[r] \in Nat /\ delegated'[r] \in Nat
                      /\ delegated[r] <= delegated'[r]
    OBVIOUS
  <2>1. delegated[r] \in Nat
    BY DEF TypeOK, DocsOK
  <2>2. delegated'[r] = IF r \in sel.batch THEN delegated[r] + 1 ELSE delegated[r]
    BY <1>1 DEF Marked
  <2> QED
    BY <2>1, <2>2
<1>6. \A t \in new : /\ t \in Token /\ t.deleg = delegated[t.rcpt] + 1
                     /\ t.deleg = delegated'[t.rcpt]
  <2> SUFFICES ASSUME NEW r \in sel.batch
               PROVE  LET t == [rcpt |-> r, deleg |-> delegated[r] + 1] IN
                      /\ t \in Token /\ t.deleg = delegated[t.rcpt] + 1
                      /\ t.deleg = delegated'[t.rcpt]
    BY DEF PageOf
  <2>1. r \in Recipient /\ delegated[r] \in Nat
    BY <1>2, <1>5
  <2>2. delegated'[r] = delegated[r] + 1
    BY <1>1, <2>1 DEF Marked
  <2> QED
    BY <2>1, <2>2 DEF Token
<1>7. /\ RecordedTokens \subseteq Token
      /\ \A x \in Satellite : /\ work[x] \subseteq Token
                              /\ Sending(x) \subseteq Token
                              /\ \A p \in pages[x] : p \subseteq Token
                              /\ \A r \in Present(x) : row[x][r].deleg \in Nat
  BY NoRowIsNone
  DEF TypeOK, LinksOK, SatellitesOK, HistoryOK, RecordedTokens, TokenOf, Token,
      Item, Present, Row, Sending
(* Nothing there has the number of a new delegation.                       *)
<1>8. \A t \in Token : t.deleg <= delegated[t.rcpt] => t \notin new
  BY <1>5, <1>6 DEF Token
<1>9. \A t \in new : /\ t \notin RecordedTokens
                     /\ \A x \in Satellite :
                          /\ t \notin work[x] /\ ~HasRow(x, t)
                          /\ \A p \in pages[x] : t \notin p
  <2> SUFFICES ASSUME NEW t \in new
               PROVE  /\ t \notin RecordedTokens
                      /\ \A x \in Satellite :
                           /\ t \notin work[x] /\ ~HasRow(x, t)
                           /\ \A p \in pages[x] : t \notin p
    OBVIOUS
  <2>1. ~(t.deleg <= delegated[t.rcpt])
    BY <1>6, <1>8
  <2> QED
    BY <2>1 DEF NotSentInv, Counted, HasRow
<1>10. Counted'
  <2>1. \A t \in Token : t.deleg <= delegated[t.rcpt] => t.deleg <= delegated'[t.rcpt]
    BY <1>5 DEF Token
  <2>2. \A x \in Satellite : \A r \in Present(x) : row[x][r].deleg <= delegated'[r]
    BY <1>5, <1>7 DEF NotSentInv, Counted, Present
  <2>3. \A x \in Satellite : \A p \in pages'[x] : \A t \in p :
          t.deleg <= delegated'[t.rcpt]
    BY <1>4, <1>5, <1>6, <1>7, <2>1 DEF NotSentInv, Counted, Token
  <2> QED
    BY <1>3, <1>7, <2>1, <2>2, <2>3 DEF NotSentInv, Counted
<1>11. PagesFresh'
  BY <1>3, <1>4, <1>7, <1>6, <1>9 DEF NotSentInv, PagesFresh
<1>12. OneSatellite'
  BY <1>3, <1>7 DEF NotSentInv, OneSatellite
<1>13. RecordedLast' /\ ZombiesRecorded'
  BY <1>3 DEF NotSentInv, RecordedLast, ZombiesRecorded, RowToken
<1> QED
  BY <1>10, <1>11, <1>12, <1>13 DEF NotSentInv

LEMMA NothingSentAgain == Spec => []NotSentInv
<1>1. Init => NotSentInv
  BY DEF Init, NotSentInv, Counted, PagesFresh, OneSatellite, RecordedLast,
         ZombiesRecorded, RecordedTokens, Present, Sending
<1>2. TypeOK /\ TypeOK' /\ NotSentInv /\ [Next]_vars => NotSentInv'
  <2> SUFFICES ASSUME TypeOK, TypeOK', NotSentInv, [Next]_vars
               PROVE  NotSentInv'
    OBVIOUS
  <2> USE DEF docVars, masterVars, linkVars, satVars, historyVars
  <2>1. CASE UNCHANGED <<delegated, pages, recorded, satVars>>
    BY <2>1, Fading DEF NotSentInv, RecordedLast
  <2>2. CASE Mark
    BY <2>2, Marking
  <2>3. ASSUME NEW s \in Satellite, Disconnect(s) PROVE NotSentInv'
    BY <2>3, Fading DEF Disconnect, LinksDown, NotSentInv, RecordedLast
  <2>4. CASE RestartMaster
    BY <2>4, Fading DEF RestartMaster, LinksDown, NotSentInv, RecordedLast
  <2>5. ASSUME NEW s \in Satellite, Connect(s) PROVE NotSentInv'
    <3>1. ASSUME NEW x \in Satellite, NEW r \in Recipient, row'[x][r] # NoRow
          PROVE  /\ row[x][r] # NoRow
                 /\ row'[x][r].deleg = row[x][r].deleg
                 /\ row'[x][r].finished = row[x][r].finished
                 /\ row'[x][r].inProgress = row[x][r].inProgress \/ work'[x] = {}
      <4>1. CASE row'[x][r] = row[x][r]
        BY <3>1, <4>1
      <4>2. CASE row'[x][r] # row[x][r]
        <5>1. x = s /\ ~booted[s] /\ row'[x][r] = Invalidated(row[x][r])
          BY <2>5, <4>2 DEF Connect, TypeOK, SatellitesOK
        <5>2. work'[x] = {}
          BY <2>5, <5>1 DEF Connect, NotSentInv, RecordedLast
        <5>3. row[x][r] \in Row
          BY <4>2, <5>1 DEF Invalidated, TypeOK, SatellitesOK
        <5> QED
          BY <5>1, <5>2, <5>3, NoRowIsNone DEF Invalidated, Row
      <4> QED
        BY <4>1, <4>2
    <3>2. \A x \in Satellite : ~booted'[x] => work'[x] = {}
      BY <2>5 DEF Connect, NotSentInv, RecordedLast, TypeOK, SatellitesOK
    <3> QED
      BY <2>5, <3>1, <3>2, Fading DEF Connect
  <2>6. ASSUME NEW s \in Satellite, ApplyVerify(s) PROVE NotSentInv'
    <3>1. ASSUME NEW x \in Satellite, NEW r \in Recipient, row'[x][r] # NoRow
          PROVE  /\ row[x][r] # NoRow
                 /\ row'[x][r].deleg = row[x][r].deleg
                 /\ row'[x][r].finished = row[x][r].finished
                 /\ row'[x][r].inProgress = row[x][r].inProgress
      <4>1. CASE row'[x][r] = row[x][r]
        BY <3>1, <4>1
      <4>2. CASE row'[x][r] # row[x][r]
        <5>1. row'[x][r] = Verified(row[x][r], r \in claimed[x])
          BY <2>6, <4>2 DEF ApplyVerify, TypeOK, SatellitesOK
        <5>2. row[x][r] \in Row
          <6>1. row[x][r] \in Row \cup {NoRow}
            BY DEF TypeOK, SatellitesOK
          <6>2. row[x][r] = NoRow => Verified(row[x][r], r \in claimed[x]) = NoRow
            BY DEF Verified, NoRow
          <6> QED
            BY <3>1, <5>1, <6>1, <6>2
        <5> QED
          BY <3>1, <5>1, <5>2, NoRowIsNone DEF Verified, Row
      <4> QED
        BY <4>1, <4>2
    <3>2. /\ UNCHANGED <<delegated, recorded, pages, work, booted, zombies>>
          /\ \A x \in Satellite : ~booted'[x] => work'[x] = {}
      BY <2>6 DEF ApplyVerify, NotSentInv, RecordedLast
    <3> QED
      BY <3>1, <3>2, Fading
  <2>7. ASSUME NEW s \in Satellite, ReceiveAck(s) PROVE NotSentInv'
    <3>1. \A x \in Satellite, r \in Recipient :
            row'[x][r] # NoRow => row'[x][r] = row[x][r]
      BY <2>7 DEF ReceiveAck, TypeOK, SatellitesOK
    <3> QED
      BY <2>7, <3>1, Fading DEF ReceiveAck, NotSentInv, RecordedLast
  <2>8. ASSUME NEW s \in Satellite, StopSatellite(s) PROVE NotSentInv'
    <3>1. /\ RecordedTokens' = RecordedTokens /\ UNCHANGED <<delegated, recorded>>
          /\ \A x \in Satellite : /\ pages'[x] \subseteq pages[x]
                                  /\ work'[x] = IF x = s THEN {} ELSE work[x]
                                  /\ zombies'[x] = IF x = s THEN {} ELSE zombies[x]
                                  /\ ~booted'[x] => work'[x] = {}
      BY <2>8 DEF StopSatellite, LinksDown, RecordedTokens, NotSentInv,
                  RecordedLast, TypeOK, SatellitesOK
    <3>2. CASE UNCHANGED row
      BY <3>1, <3>2, Fading
    <3>3. ASSUME NEW t \in work[s], NEW o \in Outcome,
                 Save(s, t.rcpt, Saved(t, o, FALSE))
          PROVE  NotSentInv'
      <4>1. t \in Token /\ t \in Sending(s) /\ t \notin RecordedTokens
        BY DEF TypeOK, SatellitesOK, Sending, NotSentInv, RecordedLast
      <4>2. Saved(t, o, FALSE) \in Row /\ Saved(t, o, FALSE).deleg = t.deleg
        BY <4>1, SavedType DEF Saved
      <4>3. \A x \in Satellite : /\ Sending(x)' \subseteq Sending(x)
                                /\ zombies'[x] \subseteq RecordedTokens'
        BY <3>1 DEF Sending, NotSentInv, ZombiesRecorded
      <4> QED
        BY <3>1, <3>3, <4>1, <4>2, <4>3, Settling
    <3> QED
      BY <2>8, <3>2, <3>3 DEF StopSatellite
  <2>9. ASSUME NEW s \in Satellite, ReceivePage(s) PROVE NotSentInv'
    BY <2>9, Receiving
  <2>10. ASSUME NEW s \in Satellite, NEW r \in Recipient,
                StartSending(s, r) \/ RefuseDomain(s, r)
         PROVE  NotSentInv'
    BY <2>10, Starting, Refusing
  <2>11. ASSUME NEW s \in Satellite, NEW t \in Sending(s), NEW o \in Outcome,
                NEW done \in BOOLEAN, Save(s, t.rcpt, Saved(t, o, done)),
                work' = [work EXCEPT ![s] = @ \ {t}],
                \/ zombies' = zombies
                \/ zombies' = [zombies EXCEPT ![s] = @ \ {t}]
                \/ zombies' = [zombies EXCEPT ![s] = @ \cup {t}] /\ done,
                UNCHANGED <<delegated, pages, booted>>,
                \/ recorded' = recorded /\ ~done /\ t \in work[s]
                \/ recorded' = recorded \cup {ItemOf(t, o)} /\ done
         PROVE  NotSentInv'
    <3>1. t \in Token
      BY DEF TypeOK, SatellitesOK, Sending
    <3>2. /\ Saved(t, o, done) \in Row /\ Saved(t, o, done).deleg = t.deleg
          /\ Saved(t, o, done).finished = done
      BY <3>1, SavedType DEF Saved
    <3>3. TokenOf(ItemOf(t, o)) = t
      BY <3>1 DEF TokenOf, ItemOf, Token
    <3>4. \/ RecordedTokens' = RecordedTokens /\ ~done /\ t \in work[s]
          \/ RecordedTokens' = RecordedTokens \cup {t} /\ done
      BY <2>11, <3>3 DEF RecordedTokens
    <3>5. t \in RecordedTokens' => done
      BY <3>4 DEF NotSentInv, RecordedLast
    <3>6. /\ \A x \in Satellite \ {s} : work'[x] = work[x]
          /\ work'[s] \subseteq work[s] \ {t}
          /\ \A x \in Satellite : ~booted'[x] => work'[x] = {}
      BY <2>11 DEF TypeOK, SatellitesOK, NotSentInv, RecordedLast
    <3>7. \A x \in Satellite : /\ Sending(x)' \subseteq Sending(x)
                              /\ zombies'[x] \subseteq RecordedTokens'
      BY <2>11, <3>4
      DEF TypeOK, SatellitesOK, NotSentInv, ZombiesRecorded, Sending
    <3> QED
      BY <2>11, <3>2, <3>4, <3>5, <3>6, <3>7, Settling
  <2>12. ASSUME NEW s \in Satellite, NEW t \in work[s], CustomizerFails(s, t)
         PROVE  NotSentInv'
    BY <2>12, <2>11 DEF CustomizerFails, Outcome, Sending
  <2>13. ASSUME NEW s \in Satellite, NEW t \in work[s], NEW o \in Outcome,
                EndSending(s, t, o)
         PROVE  NotSentInv'
    BY <2>13, <2>11 DEF EndSending, Sending
  <2>18. ASSUME NEW s \in Satellite, NEW t \in work[s],
                NEW o \in {"WARNING", "ERROR"}, GiveUp(s, t, o)
         PROVE  NotSentInv'
    BY <2>18, <2>11 DEF GiveUp, Sending, Outcome
  <2>19. ASSUME NEW s \in Satellite, NEW t \in zombies[s], EndZombie(s, t)
         PROVE  NotSentInv'
    <3>1. CASE UNCHANGED <<row, recorded>>
      BY <2>19, <3>1, Fading DEF EndZombie, NotSentInv, RecordedLast, TypeOK,
         SatellitesOK
    <3>2. CASE recorded' = recorded \cup {ItemOf(t, "FINISHED")}
      <4>1. work' = [work EXCEPT ![s] = @ \ {t}]
        <5>1. t \notin work[s]
          BY DEF NotSentInv, ZombiesRecorded, RecordedLast
        <5> QED
          BY <2>19, <5>1 DEF EndZombie, TypeOK, SatellitesOK
      <4>2. CASE Save(s, t.rcpt, Saved(t, "FINISHED", TRUE))
        BY <2>19, <2>11, <3>2, <4>1, <4>2 DEF EndZombie, Sending, Outcome
      <4> QED
        BY <2>19, <3>1, <4>2 DEF EndZombie
    <3> QED
      BY <2>19, <3>1, <3>2 DEF EndZombie
  <2>14. ASSUME NEW s \in Satellite,
                \/ Select(s) \/ AnswerCheck(s) \/ ReleaseOrphans(s)
                \/ AnswerVerify(s) \/ SendReport(s)
         PROVE  UNCHANGED <<delegated, pages, recorded, satVars>>
    BY <2>14 DEF Select, AnswerCheck, ReleaseOrphans, AnswerVerify, SendReport
  <2>15. ASSUME NEW r \in Recipient,
                GrowOld(r) \/ BecomeDue(r) \/ StoreDsn(r) \/ Reset(r)
         PROVE  UNCHANGED <<delegated, pages, recorded, satVars>>
    BY <2>15 DEF GrowOld, BecomeDue, StoreDsn, Reset
  <2>16. ASSUME Grab \/ StoreReport \/ FailToStore \/ FinishReport \/ CheckOrphans
         PROVE  UNCHANGED <<delegated, pages, recorded, satVars>>
    BY <2>16 DEF Grab, StoreReport, FailToStore, FinishReport, CheckOrphans
  <2>17. UNCHANGED vars => UNCHANGED <<delegated, pages, recorded, satVars>>
    BY DEF vars, stateVars
  <2> QED
    BY <2>1, <2>2, <2>3, <2>4, <2>5, <2>6, <2>7, <2>8, <2>9, <2>10, <2>12,
       <2>13,
       <2>14, <2>15, <2>16, <2>17, <2>18, <2>19
    DEF Next, Change, MasterNext, SatelliteNext
<1> QED
  BY <1>1, <1>2, Typing, PTL DEF Spec

(* NotSentAgain, of any number of recipients, satellites and mishaps: a    *)
(* delegation whose outcome a satellite recorded is never sent again, and  *)
(* no two relays send the same one.                                        *)
THEOREM NeverSentAgain == Spec => []NotSentAgain
<1>1. NotSentInv => NotSentAgain
  BY DEF NotSentInv, RecordedLast, OneSatellite, NotSentAgain, Sendable, Present
<1> QED
  BY <1>1, NothingSentAgain, PTL

-----------------------------------------------------------------------------
(* Why the master is right when it says FINISHED: so is every row, every   *)
(* item of a report and every copy of a document on the way to it.         *)
Mailed(r) == \E t \in mailed : t.rcpt = r

RowsRight ==
  \A s \in Satellite, r \in Recipient : row[s][r].status = "FINISHED" => Mailed(r)

ReportsRight ==
  \A n \in DOMAIN pool : \A i \in pool[n].todo :
    i.status = "FINISHED" => Mailed(i.rcpt)

CopiesRight ==
  \A g \in grabbed :
    /\ g.item.status = "FINISHED" => Mailed(g.item.rcpt)
    /\ g.doc.status = "FINISHED" => Mailed(g.item.rcpt)

SentInv == RowsRight /\ ReportsRight /\ CopiesRight /\ SentMeansMailed

(* A job gives up an item when it is handled, and no other job changes.    *)
LEMMA HandledTodo ==
  ASSUME pool \in Seq(Job), pool # <<>>, NEW i, NEW ok, Handled(i, ok)
  PROVE  \A n \in DOMAIN pool' : n \in DOMAIN pool /\ pool'[n].todo \subseteq pool[n].todo
<1> DEFINE head == [Head(pool) EXCEPT !.todo = @ \ {i}, !.ok = @ \cup ok]
<1>1. /\ Head(pool) = pool[1] /\ Head(pool) \in Job
      /\ Tail(pool) \in Seq(Job) /\ Len(Tail(pool)) = Len(pool) - 1
      /\ \A n \in 1..Len(Tail(pool)) : Tail(pool)[n] = pool[n + 1]
      /\ DOMAIN pool = 1..Len(pool) /\ Len(pool) \in Nat
  OBVIOUS
<1>2. head.todo \subseteq pool[1].todo
  BY <1>1 DEF Job
<1>3. pool' = <<head>> \o Tail(pool)
  BY DEF Handled
<1> HIDE DEF head
<1>4. /\ DOMAIN pool' = 1..Len(pool) /\ pool'[1] = head
      /\ \A n \in 2..Len(pool) : pool'[n] = pool[n]
  BY <1>1, <1>3
<1> QED
  BY <1>1, <1>2, <1>4

(* What the steps of a satellite, and those of the master, leave alone.    *)
LEMMA SatelliteFrame ==
  ASSUME NEW s \in Satellite, SatelliteNext(s)
  PROVE  /\ UNCHANGED <<doc, grabbed>>
         /\ mailed \subseteq mailed'
         /\ UNCHANGED pool \/ Orphaned(s) \/ SendReport(s)
<1> USE DEF docVars, masterVars, historyVars
<1>1. CASE Disconnect(s) \/ Connect(s) \/ StopSatellite(s)
  BY <1>1 DEF Disconnect, Connect, StopSatellite
<1>2. CASE ReceivePage(s) \/ ApplyVerify(s) \/ SendReport(s) \/ ReceiveAck(s)
  BY <1>2 DEF ReceivePage, ApplyVerify, SendReport, ReceiveAck
<1>3. ASSUME NEW r \in Recipient, StartSending(s, r) \/ RefuseDomain(s, r)
      PROVE  UNCHANGED <<doc, grabbed, pool, mailed>>
  BY <1>3 DEF StartSending, RefuseDomain
<1>4. ASSUME NEW t, CustomizerFails(s, t)
      PROVE  UNCHANGED <<doc, grabbed, pool, mailed>>
  BY <1>4 DEF CustomizerFails
<1>5. ASSUME NEW t, NEW o, EndSending(s, t, o) \/ GiveUp(s, t, o) \/ EndZombie(s, t)
      PROVE  UNCHANGED <<doc, grabbed, pool>> /\ mailed \subseteq mailed'
  BY <1>5 DEF EndSending, GiveUp, EndZombie, MayBeMailed
<1> QED
  BY <1>1, <1>2, <1>3, <1>4, <1>5 DEF SatelliteNext

LEMMA MasterFrame ==
  ASSUME MasterNext
  PROVE  UNCHANGED <<row, mailed>>
<1> USE DEF satVars, historyVars
<1>1. ASSUME NEW s \in Satellite,
             Select(s) \/ AnswerCheck(s) \/ ReleaseOrphans(s) \/ AnswerVerify(s)
      PROVE  UNCHANGED <<row, mailed>>
  BY <1>1 DEF Select, AnswerCheck, ReleaseOrphans, AnswerVerify
<1>2. ASSUME NEW r \in Recipient,
             GrowOld(r) \/ BecomeDue(r) \/ StoreDsn(r) \/ Reset(r)
      PROVE  UNCHANGED <<row, mailed>>
  BY <1>2 DEF GrowOld, BecomeDue, StoreDsn, Reset
<1>3. CASE Mark \/ Grab \/ StoreReport \/ FailToStore \/ FinishReport
             \/ CheckOrphans \/ RestartMaster
  BY <1>3 DEF Mark, Grab, StoreReport, FailToStore, FinishReport, CheckOrphans,
     RestartMaster
<1> QED
  BY <1>1, <1>2, <1>3 DEF MasterNext

(* Where what is reported comes from: what is in a report was in one, or   *)
(* it is a row that can be reported; what is copied was in a report.       *)
ReportedRow(i) ==
  \E s \in Satellite : \E r \in Reportable(s) :
    i = ItemOf(RowToken(s, r), row[s][r].status)

LEMMA ReportsComeFromRows ==
  ASSUME TypeOK, [Next]_vars, NEW n \in DOMAIN pool', NEW i \in pool'[n].todo
  PROVE  (\E m \in DOMAIN pool : i \in pool[m].todo) \/ ReportedRow(i)
<1> USE DEF docVars, masterVars, linkVars, satVars, historyVars
<1>1. CASE \E m \in DOMAIN pool : pool'[n].todo \subseteq pool[m].todo
  BY <1>1
<1>2. ASSUME StoreReport \/ FailToStore
      PROVE  \E m \in DOMAIN pool : pool'[n].todo \subseteq pool[m].todo
  <2>1. pool \in Seq(Job) /\ pool # <<>>
    BY <1>2 DEF StoreReport, FailToStore, TypeOK, MasterOK
  <2>2. \E j, ok : Handled(j, ok)
    BY <1>2 DEF StoreReport, Stored, FailToStore
  <2> QED
    BY <2>1, <2>2, HandledTodo
<1>3. ASSUME FinishReport
      PROVE  \E m \in DOMAIN pool : pool'[n].todo \subseteq pool[m].todo
  <2>1. pool \in Seq(Job) /\ pool # <<>> /\ pool' = Tail(pool)
    BY <1>3 DEF FinishReport, TypeOK, MasterOK
  <2>2. /\ DOMAIN pool = 1..Len(pool) /\ Len(pool) \in Nat
        /\ DOMAIN pool' = 1..(Len(pool) - 1)
        /\ \A k \in DOMAIN pool' : pool'[k] = pool[k + 1]
    BY <2>1
  <2>3. n + 1 \in DOMAIN pool /\ pool'[n].todo \subseteq pool[n + 1].todo
    BY <2>2
  <2> QED
    BY <2>3
<1>4. ASSUME NEW s \in Satellite, Orphaned(s)
      PROVE  \E m \in DOMAIN pool : pool'[n].todo \subseteq pool[m].todo
  <2>1. \A k \in DOMAIN pool : pool[k] \in Job
    BY DEF TypeOK, MasterOK
  <2> QED
    BY <1>4, <2>1 DEF Orphaned, Job
<1>5. ASSUME NEW s \in Satellite, SendReport(s)
      PROVE  (\E m \in DOMAIN pool : i \in pool[m].todo) \/ ReportedRow(i)
  <2>1. PICK batch \in SUBSET Reportable(s) :
          pool' = Append(pool,
            [sat |-> s, ok |-> {}, live |-> TRUE,
             todo |-> {ItemOf(RowToken(s, r), row[s][r].status) : r \in batch}])
    BY <1>5 DEF SendReport
  <2>2. /\ DOMAIN pool' = 1..(Len(pool) + 1) /\ Len(pool) \in Nat
        /\ DOMAIN pool = 1..Len(pool)
        /\ \A k \in DOMAIN pool : pool'[k] = pool[k]
        /\ pool'[Len(pool) + 1].todo
             = {ItemOf(RowToken(s, r), row[s][r].status) : r \in batch}
    BY <2>1 DEF TypeOK, MasterOK
  <2>3. CASE n \in DOMAIN pool
    BY <2>2, <2>3
  <2>4. CASE n = Len(pool) + 1
    <3>1. PICK r \in batch : i = ItemOf(RowToken(s, r), row[s][r].status)
      BY <2>2, <2>4
    <3> QED
      BY <3>1 DEF ReportedRow
  <2> QED
    BY <2>2, <2>3, <2>4
<1>6. CASE UNCHANGED pool \/ pool' = <<>>
  BY <1>6
<1>7. ASSUME MasterNext
      PROVE  StoreReport \/ FailToStore \/ FinishReport \/ UNCHANGED pool
               \/ pool' = <<>>
  BY <1>7
  DEF MasterNext, Select, AnswerCheck, ReleaseOrphans, AnswerVerify,
      GrowOld, BecomeDue, StoreDsn, Reset, Mark, Grab, CheckOrphans, RestartMaster
<1> QED
  BY <1>1, <1>2, <1>3, <1>4, <1>5, <1>6, <1>7, SatelliteFrame
  DEF Next, Change, vars, stateVars

LEMMA CopiesComeFromReports ==
  ASSUME TypeOK, [Next]_vars, NEW g \in grabbed'
  PROVE  \/ g \in grabbed
         \/ /\ g.doc = doc[g.item.rcpt] /\ g.item.rcpt \in Recipient
            /\ \E n \in DOMAIN pool : g.item \in pool[n].todo
<1> USE DEF docVars, masterVars, linkVars, satVars, historyVars
<1>1. ASSUME Grab
      PROVE  /\ g.doc = doc[g.item.rcpt] /\ g.item.rcpt \in Recipient
             /\ \E n \in DOMAIN pool : g.item \in pool[n].todo
  <2>1. PICK i \in Head(pool).todo : grabbed' = {[item |-> i, doc |-> doc[i.rcpt]]}
    BY <1>1 DEF Grab
  <2>2. Head(pool) = pool[1] /\ 1 \in DOMAIN pool /\ Head(pool) \in Job
    BY <1>1 DEF Grab, TypeOK, MasterOK
  <2>3. i.rcpt \in Recipient
    BY <2>2 DEF Job, Item
  <2> QED
    BY <2>1, <2>2, <2>3
<1>2. CASE UNCHANGED grabbed \/ grabbed' = {}
  BY <1>2
<1>3. ASSUME MasterNext PROVE Grab \/ UNCHANGED grabbed \/ grabbed' = {}
  BY <1>3
  DEF MasterNext, Select, AnswerCheck, ReleaseOrphans, AnswerVerify,
      GrowOld, BecomeDue, StoreDsn, Reset, Mark, StoreReport, FailToStore,
      FinishReport, CheckOrphans, RestartMaster
<1> QED
  BY <1>1, <1>2, <1>3, SatelliteFrame DEF Next, Change, vars, stateVars

(* What a row may become: it goes, comes or is left to be sent, is begun,  *)
(* refused or unsure of itself, or an outcome is saved in it.              *)
RowStep(w, v, s, r) ==
  \/ v = w \/ v = NoRow
  \/ /\ w # NoRow /\ v.finished = w.finished /\ v.deleg = w.deleg
     /\ \/ v.status \in {"READY", "UNVERIFIED"}
        \/ v.status = "IN_PROGRESS" /\ ~w.finished
  \/ /\ w = NoRow /\ v.status = "READY" /\ ~v.finished
     /\ \E page \in pages[s] : [rcpt |-> r, deleg |-> v.deleg] \in page
  \/ /\ w # NoRow /\ w.status = "READY" /\ v.status = "READY" /\ v.deleg = w.deleg
     /\ ItemOf([rcpt |-> r, deleg |-> w.deleg], "READY") \in recorded'
  \/ \E t \in Sending(s), o \in Outcome, done \in BOOLEAN :
       /\ t.rcpt = r /\ v = Saved(t, o, done)
       /\ o = "FINISHED" => t \in mailed'
       /\ done => ItemOf(t, o) \in recorded'

LEMMA RowsStep ==
  ASSUME TypeOK, [Next]_vars, NEW x \in Satellite, NEW q \in Recipient
  PROVE  RowStep(row[x][q], row'[x][q], x, q)
<1> USE DEF docVars, masterVars, linkVars, satVars, historyVars
<1>0. /\ row \in [Satellite -> [Recipient -> Row \cup {NoRow}]]
      /\ row[x][q] \in Row \cup {NoRow} /\ NoRow \notin Row
  BY NoRowIsNone DEF TypeOK, SatellitesOK
<1>1. ASSUME NEW s \in Satellite, NEW t \in Sending(s), NEW o \in Outcome,
             NEW done \in BOOLEAN, Save(s, t.rcpt, Saved(t, o, done)),
             o = "FINISHED" => t \in mailed',
             done => ItemOf(t, o) \in recorded'
      PROVE  RowStep(row[x][q], row'[x][q], x, q)
  <2>1. t.rcpt \in Recipient
    BY DEF Sending, TypeOK, SatellitesOK, Token
  <2>2. CASE x = s /\ q = t.rcpt
    <3>1. row'[x][q] = Saved(t, o, done)
      BY <1>0, <1>1, <2>1, <2>2 DEF Save
    <3> QED
      BY <1>1, <2>2, <3>1 DEF RowStep
  <2>3. CASE ~(x = s /\ q = t.rcpt)
    <3>1. row'[x][q] = row[x][q]
      BY <1>0, <1>1, <2>1, <2>3 DEF Save
    <3> QED
      BY <3>1 DEF RowStep
  <2> QED
    BY <2>2, <2>3
<1>2. CASE UNCHANGED row
  BY <1>2 DEF RowStep
<1>3. ASSUME NEW s \in Satellite, StopSatellite(s)
      PROVE  RowStep(row[x][q], row'[x][q], x, q)
  BY <1>1, <1>2, <1>3 DEF StopSatellite, Sending
<1>4. ASSUME NEW s \in Satellite, NEW t \in work[s], CustomizerFails(s, t)
      PROVE  RowStep(row[x][q], row'[x][q], x, q)
  BY <1>1, <1>4 DEF CustomizerFails, Outcome, Sending
<1>5. ASSUME NEW s \in Satellite, NEW t \in work[s], NEW o \in Outcome,
             EndSending(s, t, o)
      PROVE  RowStep(row[x][q], row'[x][q], x, q)
  BY <1>1, <1>5 DEF EndSending, Sending
<1>6. ASSUME NEW s \in Satellite, NEW t \in work[s],
             NEW o \in {"WARNING", "ERROR"}, GiveUp(s, t, o)
      PROVE  RowStep(row[x][q], row'[x][q], x, q)
  BY <1>1, <1>6 DEF GiveUp, Outcome, Sending
<1>7. ASSUME NEW s \in Satellite, NEW t \in zombies[s], EndZombie(s, t)
      PROVE  RowStep(row[x][q], row'[x][q], x, q)
  BY <1>1, <1>2, <1>7 DEF EndZombie, Outcome, Sending
<1>8. ASSUME NEW s \in Satellite, Connect(s)
      PROVE  RowStep(row[x][q], row'[x][q], x, q)
  <2>1. row'[x][q] = row[x][q] \/ row'[x][q] = Invalidated(row[x][q])
    BY <1>0, <1>8 DEF Connect
  <2>2. row[x][q] \in Row =>
          \/ Invalidated(row[x][q]) = row[x][q]
          \/ /\ Invalidated(row[x][q]).status = "UNVERIFIED"
             /\ Invalidated(row[x][q]).finished = row[x][q].finished
             /\ Invalidated(row[x][q]).deleg = row[x][q].deleg
    BY DEF Invalidated, Row
  <2>3. row[x][q] = NoRow => Invalidated(row[x][q]) = row[x][q]
    BY DEF Invalidated
  <2> QED
    BY <1>0, <2>1, <2>2, <2>3 DEF RowStep
<1>9. ASSUME NEW s \in Satellite, ReceivePage(s)
      PROVE  RowStep(row[x][q], row'[x][q], x, q)
  <2>1. PICK page \in pages[s] :
          row' = [row EXCEPT ![s] = [r \in Recipient |->
            IF @[r] = NoRow /\ \E t \in page : t.rcpt = r
              THEN [status |-> "READY", inProgress |-> FALSE,
                    finished |-> FALSE,
                    deleg |-> (CHOOSE t \in page : t.rcpt = r).deleg]
              ELSE @[r]]]
    BY <1>9 DEF ReceivePage
  <2>2. CASE row'[x][q] = row[x][q]
    BY <2>2 DEF RowStep
  <2>3. CASE row'[x][q] # row[x][q]
    <3> DEFINE t == CHOOSE t \in page : t.rcpt = q
    <3>1. /\ x = s /\ row[x][q] = NoRow
          /\ \E u \in page : u.rcpt = q
          /\ row'[x][q] = [status |-> "READY", inProgress |-> FALSE,
                           finished |-> FALSE, deleg |-> t.deleg]
      BY <1>0, <2>1, <2>3
    <3>2. t \in page /\ t.rcpt = q
      BY <3>1
    <3>3. page \subseteq Token
      BY DEF TypeOK, LinksOK
    <3>4. t = [rcpt |-> q, deleg |-> t.deleg]
      BY <3>2, <3>3 DEF Token
    <3> HIDE DEF t
    <3> QED
      BY <3>1, <3>2, <3>4 DEF RowStep
  <2> QED
    BY <2>2, <2>3
<1>10. ASSUME NEW s \in Satellite, ApplyVerify(s)
       PROVE  RowStep(row[x][q], row'[x][q], x, q)
  <2>1. row'[x][q] = row[x][q] \/ row'[x][q] = Verified(row[x][q], q \in claimed[s])
    BY <1>0, <1>10 DEF ApplyVerify
  <2>2. row[x][q] \in Row =>
          \/ Verified(row[x][q], q \in claimed[s]) \in {row[x][q], NoRow}
          \/ /\ Verified(row[x][q], q \in claimed[s]).status = "READY"
             /\ Verified(row[x][q], q \in claimed[s]).finished = row[x][q].finished
             /\ Verified(row[x][q], q \in claimed[s]).deleg = row[x][q].deleg
    BY DEF Verified, Row
  <2>3. row[x][q] = NoRow => Verified(row[x][q], q \in claimed[s]) = NoRow
    BY DEF Verified
  <2> QED
    BY <1>0, <2>1, <2>2, <2>3 DEF RowStep
<1>11. ASSUME NEW s \in Satellite, ReceiveAck(s)
       PROVE  RowStep(row[x][q], row'[x][q], x, q)
  <2>1. row'[x][q] \in {row[x][q], NoRow}
    BY <1>0, <1>11 DEF ReceiveAck
  <2> QED
    BY <2>1 DEF RowStep
<1>12. ASSUME NEW s \in Satellite, NEW r \in Recipient,
              StartSending(s, r) \/ RefuseDomain(s, r)
       PROVE  RowStep(row[x][q], row'[x][q], x, q)
  <2>1. CASE row'[x][q] = row[x][q]
    BY <2>1 DEF RowStep
  <2>2. CASE row'[x][q] # row[x][q]
    <3>1. x = s /\ q = r /\ Sendable(row[s][r])
      BY <1>0, <1>12, <2>2 DEF StartSending, RefuseDomain, Save
    <3>2. row[s][r] \in Row /\ row[s][r].status = "READY" /\ ~row[s][r].finished
      BY <1>0, <3>1 DEF Sendable
    <3>3. CASE StartSending(s, r)
      <4>1. row'[x][q] =
              [row[s][r] EXCEPT !.status = "IN_PROGRESS", !.inProgress = TRUE]
        BY <1>0, <3>1, <3>3 DEF StartSending, Save
      <4>2. /\ row'[x][q].status = "IN_PROGRESS" /\ row'[x][q].deleg = row[s][r].deleg
            /\ row'[x][q].finished = row[s][r].finished
        BY <3>2, <4>1 DEF Row
      <4> QED
        BY <1>0, <3>1, <3>2, <4>2 DEF RowStep
    <3>4. CASE RefuseDomain(s, r)
      <4>1. /\ row'[x][q] = [row[s][r] EXCEPT !.finished = TRUE]
            /\ ItemOf(RowToken(s, r), "READY") \in recorded'
        BY <1>0, <3>1, <3>4 DEF RefuseDomain, Save
      <4>2. row'[x][q].status = "READY" /\ row'[x][q].deleg = row[s][r].deleg
        BY <3>2, <4>1 DEF Row
      <4> QED
        BY <1>0, <3>1, <3>2, <4>1, <4>2 DEF RowStep, RowToken
    <3> QED
      BY <1>12, <3>3, <3>4
  <2> QED
    BY <2>1, <2>2
<1> QED
  BY <1>2, <1>3, <1>4, <1>5, <1>6, <1>7, <1>8, <1>9, <1>10, <1>11, <1>12, MasterFrame
  DEF Next, Change, SatelliteNext, vars, stateVars, Disconnect, SendReport

(* SentMeansMailed, of any number of recipients, satellites and mishaps:   *)
(* FINISHED at the master means that a mail server accepted an e-mail for  *)
(* that recipient.                                                         *)
THEOREM FinishedWasMailed == Spec => []SentMeansMailed
<1>1. Init => SentInv
  BY DEF Init, SentInv, RowsRight, ReportsRight, CopiesRight, SentMeansMailed,
         NoRow
<1>2. TypeOK /\ TypeOK' /\ SentInv /\ [Next]_vars => SentInv'
  <2> SUFFICES ASSUME TypeOK, TypeOK', SentInv, [Next]_vars
               PROVE  SentInv'
    OBVIOUS
  <2> USE DEF docVars, masterVars, linkVars, satVars, historyVars
  (* What was mailed stays mailed.                                         *)
  <2>1. mailed \subseteq mailed'
    BY SatelliteFrame, MasterFrame DEF Next, Change, vars, stateVars
  <2>2. \A r : Mailed(r) => Mailed(r)'
    BY <2>1 DEF Mailed
  <2>3. RowsRight'
    <3> SUFFICES ASSUME NEW x \in Satellite, NEW q \in Recipient,
                        row'[x][q].status = "FINISHED",
                        row[x][q].status # "FINISHED"
                 PROVE  Mailed(q)'
      BY <2>2 DEF SentInv, RowsRight
    <3>1. RowStep(row[x][q], row'[x][q], x, q)
      BY RowsStep
    <3>2. PICK t \in Sending(x), o \in Outcome, done \in BOOLEAN :
            /\ t.rcpt = q /\ row'[x][q] = Saved(t, o, done)
            /\ o = "FINISHED" => t \in mailed'
      BY <3>1 DEF RowStep, NoRow
    <3> QED
      BY <3>2 DEF Saved, Mailed
  <2>4. ReportsRight'
    <3> SUFFICES ASSUME NEW n \in DOMAIN pool', NEW i \in pool'[n].todo,
                        i.status = "FINISHED"
                 PROVE  Mailed(i.rcpt)
      BY <2>2 DEF ReportsRight
    <3>1. CASE \E m \in DOMAIN pool : i \in pool[m].todo
      BY <3>1 DEF SentInv, ReportsRight
    <3>2. CASE ReportedRow(i)
      BY <3>2 DEF ReportedRow, Reportable, Present, ItemOf, RowToken, SentInv, RowsRight
    <3> QED
      BY <3>1, <3>2, ReportsComeFromRows
  <2>5. CopiesRight'
    <3> SUFFICES ASSUME NEW g \in grabbed'
                 PROVE  /\ g.item.status = "FINISHED" => Mailed(g.item.rcpt)
                        /\ g.doc.status = "FINISHED" => Mailed(g.item.rcpt)
      BY <2>2 DEF CopiesRight
    <3>1. CASE g \in grabbed
      BY <3>1 DEF SentInv, CopiesRight
    <3>2. CASE /\ g.doc = doc[g.item.rcpt] /\ g.item.rcpt \in Recipient
               /\ \E n \in DOMAIN pool : g.item \in pool[n].todo
      BY <3>2 DEF SentInv, ReportsRight, SentMeansMailed, Mailed
    <3> QED
      BY <3>1, <3>2, CopiesComeFromReports
  <2>6. SentMeansMailed'
    <3> SUFFICES ASSUME NEW q \in Recipient, doc'[q].status = "FINISHED",
                        doc[q].status # "FINISHED"
                 PROVE  Mailed(q)'
      BY <2>2 DEF SentInv, SentMeansMailed, Mailed
    <3>1. ASSUME StoreReport PROVE Mailed(q)'
      <4>1. PICK g \in grabbed : Stored(g)
        BY <3>1 DEF StoreReport
      <4>2. q = g.item.rcpt /\ doc'[q] = Updated(g.doc, g.item.status, Head(pool).sat)
        BY <4>1 DEF Stored, TypeOK, DocsOK
      <4>3. g.doc \in Document
        BY DEF TypeOK, MasterOK, Grabbed
      <4>4. g.item.status = "FINISHED"
        BY <4>2, <4>3 DEF Updated, Document
      <4> QED
        BY <2>2, <4>2, <4>4 DEF SentInv, CopiesRight
    <3>2. ASSUME NEW s \in Satellite, ReleaseOrphans(s) PROVE FALSE
      BY <3>2 DEF ReleaseOrphans, TypeOK, DocsOK, Document
    <3>3. ASSUME Mark PROVE FALSE
      <4>1. PICK sel \in selection : Marked(sel)
        BY <3>3 DEF Mark
      <4>2. doc[q] \in Document
        BY DEF TypeOK, DocsOK
      <4>3. doc'[q] = doc[q]
               \/ doc'[q] = [doc[q] EXCEPT !.inProgress = TRUE, !.client = sel.sat]
        BY <4>1 DEF Marked
      <4> QED
        BY <4>2, <4>3 DEF Document
    <3>4. ASSUME NEW r \in Recipient, BecomeDue(r) \/ StoreDsn(r) \/ Reset(r)
          PROVE  FALSE
      BY <3>4 DEF BecomeDue, StoreDsn, Reset, TypeOK, DocsOK, Document
    <3>5. CASE UNCHANGED doc
      BY <3>5
    <3>6. ASSUME NEW s \in Satellite, Select(s) \/ AnswerCheck(s) \/ AnswerVerify(s)
          PROVE  UNCHANGED doc
      BY <3>6 DEF Select, AnswerCheck, AnswerVerify
    <3>7. ASSUME NEW r \in Recipient, GrowOld(r) PROVE UNCHANGED doc
      BY <3>7 DEF GrowOld
    <3>8. ASSUME Grab \/ FailToStore \/ FinishReport \/ CheckOrphans \/ RestartMaster
          PROVE  UNCHANGED doc
      BY <3>8 DEF Grab, FailToStore, FinishReport, CheckOrphans, RestartMaster
    <3> QED
      BY <3>1, <3>2, <3>3, <3>4, <3>5, <3>6, <3>7, <3>8, SatelliteFrame
      DEF Next, Change, MasterNext, vars, stateVars
  <2> QED
    BY <2>3, <2>4, <2>5, <2>6 DEF SentInv
<1>3. SentInv => SentMeansMailed
  BY DEF SentInv
<1> QED
  BY <1>1, <1>2, <1>3, Typing, PTL DEF Spec

-----------------------------------------------------------------------------
(* Reports of a connection: a satellite has one job in the pool that still *)
(* has its connection, or an answer on its way; without a connection it    *)
(* has neither.                                                            *)
JobOf(n, s) == pool[n].live = TRUE /\ pool[n].sat = s
Busy(s) == \E n \in DOMAIN pool : JobOf(n, s)
JobsOf(s) == {n \in DOMAIN pool : JobOf(n, s)}
Todo(s) == UNION {pool[n].todo : n \in JobsOf(s)}
Oks(s) == UNION {pool[n].ok : n \in JobsOf(s)}
Serves(s) == pool # <<>> /\ Head(pool).live = TRUE /\ Head(pool).sat = s

OneJob == \A s \in Satellite : \A m, n \in DOMAIN pool : JobOf(m, s) /\ JobOf(n, s) => m = n
OneReport ==
  \A s \in Satellite : /\ Busy(s) => ack[s] = "none" /\ conn[s]
                       /\ ack[s] = "none" => acked[s] = {}
LinkedOnly ==
  \A s \in Satellite :
    /\ ~conn[s] => /\ ack[s] = "none" /\ verify[s] = "idle"
                   /\ pages[s] = {} /\ asked[s] = {}
    /\ ~booted[s] => ~conn[s]
CopiesAtWork == \A g \in grabbed : g.item \in Head(pool).todo

SelectedLive == \A sel \in selection : sel.live = TRUE => conn[sel.sat]

JobInv == OneJob /\ OneReport /\ LinkedOnly /\ CopiesAtWork /\ SelectedLive

(* What happens to the jobs: the first goes on, ...                        *)
LEMMA JobGoesOn ==
  ASSUME TypeOK, pool # <<>>, OneJob, NEW i \in Item, NEW ok \in SUBSET Recipient,
         Handled(i, ok)
  PROVE  /\ OneJob' /\ \A s \in Satellite : Busy(s)' = Busy(s) /\ Serves(s)' = Serves(s)
         /\ \A s \in Satellite :
              /\ Serves(s) => Todo(s)' = Todo(s) \ {i} /\ Oks(s)' = Oks(s) \cup ok
              /\ ~Serves(s) => Todo(s)' = Todo(s) /\ Oks(s)' = Oks(s)
         /\ pool' # <<>> /\ Head(pool').todo = Head(pool).todo \ {i}
         /\ Head(pool').sat = Head(pool).sat /\ Head(pool').live = Head(pool).live
         /\ \A n \in DOMAIN pool' :
              /\ n \in DOMAIN pool /\ pool'[n].live = pool[n].live
              /\ pool'[n].sat = pool[n].sat
<1> DEFINE head == [Head(pool) EXCEPT !.todo = @ \ {i}, !.ok = @ \cup ok]
<1>0. pool \in Seq(Job)
  BY DEF TypeOK, MasterOK
<1>1. /\ Head(pool) = pool[1] /\ Head(pool) \in Job
      /\ Tail(pool) \in Seq(Job) /\ Len(Tail(pool)) = Len(pool) - 1
      /\ \A n \in 1..Len(Tail(pool)) : Tail(pool)[n] = pool[n + 1]
      /\ DOMAIN pool = 1..Len(pool) /\ Len(pool) \in Nat /\ Len(pool) >= 1
  BY <1>0
<1>2. /\ head.todo = pool[1].todo \ {i} /\ head.ok = pool[1].ok \cup ok
      /\ head.sat = pool[1].sat /\ head.live = pool[1].live
  BY <1>1 DEF Job
<1>3. pool' = <<head>> \o Tail(pool)
  BY DEF Handled
<1> HIDE DEF head
<1>4. /\ DOMAIN pool' = DOMAIN pool /\ pool'[1] = head /\ 1 \in DOMAIN pool
      /\ \A n \in 2..Len(pool) : pool'[n] = pool[n]
      /\ pool' # <<>> /\ Head(pool') = pool'[1]
  BY <1>1, <1>3
<1>5. \A n \in DOMAIN pool : n # 1 => n \in 2..Len(pool)
  BY <1>1
<1>6. /\ \A n \in DOMAIN pool : /\ pool'[n].live = pool[n].live /\ pool'[n].sat = pool[n].sat
                                /\ n # 1 => /\ pool'[n].todo = pool[n].todo
                                            /\ pool'[n].ok = pool[n].ok
      /\ pool'[1].todo = pool[1].todo \ {i} /\ pool'[1].ok = pool[1].ok \cup ok
  BY <1>2, <1>4, <1>5
<1>7. \A s, n : n \in DOMAIN pool => (JobOf(n, s)' <=> JobOf(n, s))
  BY <1>6 DEF JobOf
<1>8. OneJob' /\ \A s \in Satellite : Busy(s)' = Busy(s)
  BY <1>4, <1>7 DEF OneJob, Busy
<1>9. \A s : Serves(s)' = Serves(s) /\ (Serves(s) <=> JobOf(1, s))
  BY <1>1, <1>4, <1>6 DEF Serves, JobOf
<1>10. ASSUME NEW s \in Satellite, Serves(s)
       PROVE  Todo(s)' = Todo(s) \ {i} /\ Oks(s)' = Oks(s) \cup ok
  <2>1. \A n \in DOMAIN pool : JobOf(n, s) <=> n = 1
    BY <1>4, <1>9, <1>10 DEF OneJob
  <2>2. Todo(s) = pool[1].todo /\ Oks(s) = pool[1].ok
    BY <1>4, <2>1 DEF Todo, Oks, JobsOf
  <2>3. Todo(s)' = pool'[1].todo /\ Oks(s)' = pool'[1].ok
    BY <1>4, <1>7, <2>1 DEF Todo, Oks, JobsOf
  <2> QED
    BY <1>6, <2>2, <2>3
<1>11. ASSUME NEW s \in Satellite, ~Serves(s)
       PROVE  Todo(s)' = Todo(s) /\ Oks(s)' = Oks(s)
  <2>1. \A n \in DOMAIN pool : JobOf(n, s) => n # 1
    BY <1>9, <1>11
  <2> QED
    BY <1>4, <1>6, <1>7, <2>1 DEF Todo, Oks, JobsOf
<1> QED
  BY <1>1, <1>4, <1>6, <1>8, <1>9, <1>10, <1>11

(* ... it is done, ...                                                     *)
LEMMA JobIsDone ==
  ASSUME TypeOK, pool # <<>>, OneJob, pool' = Tail(pool), Head(pool).todo = {}
  PROVE  /\ OneJob'
         /\ \A s \in Satellite :
              /\ Serves(s) => /\ Busy(s) /\ Todo(s) = {} /\ Oks(s) = Head(pool).ok
                              /\ ~Busy(s)' /\ Todo(s)' = {} /\ Oks(s)' = {}
              /\ ~Serves(s) => /\ Busy(s)' = Busy(s)
                               /\ Todo(s)' = Todo(s) /\ Oks(s)' = Oks(s)
         /\ \A n \in DOMAIN pool' :
              /\ n + 1 \in DOMAIN pool /\ pool'[n] = pool[n + 1]
<1>0. pool \in Seq(Job)
  BY DEF TypeOK, MasterOK
<1>1. /\ Head(pool) = pool[1] /\ Head(pool) \in Job
      /\ DOMAIN pool = 1..Len(pool) /\ Len(pool) \in Nat /\ Len(pool) >= 1
      /\ DOMAIN pool' = 1..(Len(pool) - 1)
      /\ \A n \in 1..(Len(pool) - 1) : pool'[n] = pool[n + 1]
  BY <1>0
<1>2. \A n \in DOMAIN pool' : n + 1 \in DOMAIN pool /\ n + 1 # 1 /\ pool'[n] = pool[n + 1]
                              /\ n \in Int
  BY <1>1
<1>3. \A n \in DOMAIN pool : n # 1 => n - 1 \in DOMAIN pool' /\ pool[n] = pool'[n - 1]
  BY <1>1
<1>4. \A s : \A n \in DOMAIN pool' : JobOf(n, s)' <=> JobOf(n + 1, s)
  BY <1>2 DEF JobOf
<1>5. OneJob'
  <2> SUFFICES ASSUME NEW s \in Satellite, NEW m \in DOMAIN pool', NEW n \in DOMAIN pool',
                      JobOf(m, s)', JobOf(n, s)'
               PROVE  m = n
    BY DEF OneJob
  <2>1. m + 1 = n + 1
    BY <1>2, <1>4 DEF OneJob
  <2> QED
    BY <1>2, <2>1
<1>6. 1 \in DOMAIN pool /\ \A s : Serves(s) <=> JobOf(1, s)
  BY <1>1 DEF Serves, JobOf
<1>7. ASSUME NEW s \in Satellite, Serves(s)
      PROVE  /\ Busy(s) /\ Todo(s) = {} /\ Oks(s) = Head(pool).ok
             /\ ~Busy(s)' /\ Todo(s)' = {} /\ Oks(s)' = {}
  <2>1. \A n \in DOMAIN pool : JobOf(n, s) <=> n = 1
    BY <1>6, <1>7 DEF OneJob
  <2>2. Busy(s) /\ Todo(s) = {} /\ Oks(s) = Head(pool).ok
    BY <1>1, <1>6, <2>1 DEF Busy, Todo, Oks, JobsOf, Job
  <2>3. \A n \in DOMAIN pool' : ~JobOf(n, s)'
    BY <1>2, <1>4, <2>1
  <2> QED
    BY <2>2, <2>3 DEF Busy, Todo, Oks, JobsOf
<1>8. ASSUME NEW s \in Satellite, ~Serves(s)
      PROVE  /\ Busy(s)' = Busy(s)
             /\ Todo(s)' = Todo(s) /\ Oks(s)' = Oks(s)
  <2>1. \A n \in DOMAIN pool : JobOf(n, s) => n # 1
    BY <1>6, <1>8
  <2>2. \A n \in DOMAIN pool : JobOf(n, s) =>
          \E m \in DOMAIN pool' : JobOf(m, s)' /\ pool'[m] = pool[n]
    BY <1>3, <2>1 DEF JobOf
  <2>3. \A m \in DOMAIN pool' : JobOf(m, s)' =>
          \E n \in DOMAIN pool : JobOf(n, s) /\ pool'[m] = pool[n]
    BY <1>2, <1>4
  <2>4. Busy(s)' = Busy(s)
    BY <2>2, <2>3 DEF Busy
  <2>5. Todo(s)' = Todo(s)
    BY <2>2, <2>3 DEF Todo, JobsOf
  <2>6. Oks(s)' = Oks(s)
    BY <2>2, <2>3 DEF Oks, JobsOf
  <2> QED
    BY <2>4, <2>5, <2>6
<1> QED
  BY <1>2, <1>5, <1>7, <1>8

(* ... a report is queued, ...                                             *)
LEMMA JobIsQueued ==
  ASSUME TypeOK, OneJob, NEW x \in Satellite, ~Busy(x), NEW items \in SUBSET Item,
         pool' = Append(pool, [sat |-> x, ok |-> {}, live |-> TRUE, todo |-> items])
  PROVE  /\ OneJob' /\ Busy(x)' /\ Todo(x)' = items /\ Oks(x)' = {}
         /\ \A s \in Satellite \ {x} : /\ Busy(s)' = Busy(s)
                                       /\ Todo(s)' = Todo(s) /\ Oks(s)' = Oks(s)
         /\ pool # <<>> => Head(pool') = Head(pool)
         /\ \A n \in DOMAIN pool' : \/ n \in DOMAIN pool /\ pool'[n] = pool[n]
                                    \/ pool'[n].sat = x /\ pool'[n].live = TRUE
<1> DEFINE job == [sat |-> x, ok |-> {}, live |-> TRUE, todo |-> items]
<1> PICK N : N = Len(pool) + 1
  OBVIOUS
<1>0. pool \in Seq(Job)
  BY DEF TypeOK, MasterOK
<1>1. /\ DOMAIN pool = 1..Len(pool) /\ Len(pool) \in Nat
      /\ DOMAIN pool' = 1..N /\ pool'[N] = job
      /\ \A n \in 1..Len(pool) : pool'[n] = pool[n]
      /\ pool # <<>> => Head(pool') = Head(pool)
  BY <1>0
<1>2. /\ job.sat = x /\ job.ok = {} /\ job.live = TRUE /\ job.todo = items
  OBVIOUS
<1> HIDE DEF job
<1>3. /\ N \in DOMAIN pool' /\ N \notin DOMAIN pool
      /\ DOMAIN pool' = DOMAIN pool \cup {N}
      /\ \A n \in DOMAIN pool : pool'[n] = pool[n]
  BY <1>1
<1>4. /\ \A s : \A n \in DOMAIN pool : JobOf(n, s)' <=> JobOf(n, s)
      /\ \A s : JobOf(N, s)' <=> s = x
  BY <1>1, <1>2, <1>3 DEF JobOf
<1>5. \A n \in DOMAIN pool : ~JobOf(n, x)
  BY DEF Busy
<1>6. OneJob'
  BY <1>3, <1>4, <1>5 DEF OneJob
<1>7. \A n \in DOMAIN pool' : JobOf(n, x)' <=> n = N
  BY <1>3, <1>4, <1>5
<1>8. Busy(x)' /\ Todo(x)' = items /\ Oks(x)' = {}
  BY <1>1, <1>2, <1>3, <1>7 DEF Busy, Todo, Oks, JobsOf
<1>9. ASSUME NEW s \in Satellite \ {x}
      PROVE  Busy(s)' = Busy(s) /\ Todo(s)' = Todo(s) /\ Oks(s)' = Oks(s)
  <2>1. \A n \in DOMAIN pool' : JobOf(n, s)' <=> n \in DOMAIN pool /\ JobOf(n, s)
    BY <1>3, <1>4
  <2> QED
    BY <1>3, <2>1 DEF Busy, Todo, Oks, JobsOf
<1> QED
  BY <1>1, <1>2, <1>3, <1>6, <1>8, <1>9

(* ... or a connection is lost.                                            *)
LEMMA JobIsLost ==
  ASSUME TypeOK, OneJob, NEW x \in Satellite, Orphaned(x)
  PROVE  /\ OneJob' /\ ~Busy(x)' /\ Todo(x)' = {} /\ Oks(x)' = {}
         /\ \A s \in Satellite \ {x} : /\ Busy(s)' = Busy(s)
                                       /\ Todo(s)' = Todo(s) /\ Oks(s)' = Oks(s)
         /\ pool # <<>> => Head(pool').todo = Head(pool).todo
<1>0. pool \in Seq(Job)
  BY DEF TypeOK, MasterOK
<1>1. /\ DOMAIN pool' = DOMAIN pool
      /\ \A n \in DOMAIN pool :
           /\ pool'[n].sat = pool[n].sat /\ pool'[n].todo = pool[n].todo
           /\ pool'[n].ok = pool[n].ok
           /\ pool'[n].live = TRUE <=> pool[n].live = TRUE /\ pool[n].sat # x
  BY <1>0 DEF Orphaned, Job
<1>2. /\ \A n \in DOMAIN pool : ~JobOf(n, x)'
      /\ \A s : \A n \in DOMAIN pool : s # x => (JobOf(n, s)' <=> JobOf(n, s))
  BY <1>1 DEF JobOf
<1>3. OneJob'
  BY <1>1, <1>2 DEF OneJob
<1>4. ~Busy(x)' /\ Todo(x)' = {} /\ Oks(x)' = {}
  BY <1>1, <1>2 DEF Busy, Todo, Oks, JobsOf
<1>5. ASSUME NEW s \in Satellite \ {x}
      PROVE  Busy(s)' = Busy(s) /\ Todo(s)' = Todo(s) /\ Oks(s)' = Oks(s)
  BY <1>1, <1>2 DEF Busy, Todo, Oks, JobsOf
<1>6. ASSUME pool # <<>> PROVE Head(pool').todo = Head(pool).todo
  <2>1. pool' \in Seq(Job) /\ pool' # <<>>
    <3>1. \A j \in Job : [j EXCEPT !.live = FALSE] \in Job
      BY DEF Job
    <3> QED
      BY <1>0, <1>6, <3>1 DEF Orphaned
  <2>2. Head(pool') = pool'[1] /\ Head(pool) = pool[1] /\ 1 \in DOMAIN pool
    BY <1>0, <1>6, <2>1
  <2> QED
    BY <1>1, <2>2
<1> QED
  BY <1>3, <1>4, <1>5, <1>6

LEMMA LinksGone ==
  ASSUME TypeOK, OneReport, LinkedOnly, NEW S \in SUBSET Satellite, LinksDown(S),
         \A s \in S : ~Busy(s)', \A s \in Satellite \ S : Busy(s)' = Busy(s),
         \A s \in Satellite : booted'[s] = booted[s] \/ s \in S
  PROVE  OneReport' /\ LinkedOnly'
<1>1. \A s \in Satellite : 
        /\ conn'[s] = (conn[s] /\ s \notin S)
        /\ s \in S => /\ ack'[s] = "none" /\ acked'[s] = {} /\ verify'[s] = "idle"
                      /\ pages'[s] = {} /\ asked'[s] = {} /\ ~conn'[s]
        /\ s \notin S => /\ ack'[s] = ack[s] /\ acked'[s] = acked[s] /\ conn'[s] = conn[s]
                         /\ verify'[s] = verify[s] /\ pages'[s] = pages[s]
                         /\ asked'[s] = asked[s]
  BY DEF LinksDown, TypeOK, LinksOK
<1>2. OneReport'
  BY <1>1 DEF OneReport
<1> QED
  BY <1>1, <1>2 DEF LinkedOnly

(* A report is queued on a connection that has none, and its answer leaves *)
(* on the same connection or never.                                        *)
LEMMA JobInvStays ==
  ASSUME TypeOK, TypeOK', JobInv, [Next]_vars
  PROVE  JobInv'
<1> USE DEF docVars, masterVars, linkVars, satVars, historyVars
<1> DEFINE Watched == <<pool, ack, acked, conn, verify, pages, asked, booted, grabbed,
                        selection>>
<1>0. /\ pool \in Seq(Job)
      /\ \A s \in Satellite : conn[s] \in BOOLEAN /\ booted[s] \in BOOLEAN
      /\ conn \in [Satellite -> BOOLEAN] /\ booted \in [Satellite -> BOOLEAN]
      /\ verify \in [Satellite -> {"idle", "asked", "answered"}]
      /\ ack \in [Satellite -> {"none", "first", "behind"}]
      /\ acked \in [Satellite -> SUBSET Recipient]
      /\ asked \in [Satellite -> SUBSET Recipient]
      /\ pages \in [Satellite -> SUBSET SUBSET Token]
      /\ grabbed # {} => pool # <<>>
      /\ selection \subseteq Selection
      /\ \A g \in grabbed : g.item \in Item /\ g.item.rcpt \in Recipient
  BY DEF TypeOK, MasterOK, LinksOK, SatellitesOK, Grabbed, Item
<1>1. ASSUME UNCHANGED pool
      PROVE  /\ OneJob' = OneJob /\ \A s : Busy(s)' = Busy(s)
             /\ \A s : Serves(s)' = Serves(s)
             /\ \A s : Todo(s)' = Todo(s) /\ Oks(s)' = Oks(s)
  BY <1>1 DEF OneJob, Busy, JobOf, Serves, Todo, Oks, JobsOf
<1>2. ASSUME UNCHANGED Watched PROVE JobInv'
  BY <1>1, <1>2 DEF JobInv, OneReport, LinkedOnly, CopiesAtWork, SelectedLive
<1>3. ASSUME NEW s \in Satellite, Select(s) PROVE JobInv'
  <2>1. SelectedLive' /\ UNCHANGED <<pool, ack, acked, conn, verify, pages, asked, booted, grabbed>>
    BY <1>3 DEF Select, SelectedLive
  <2> QED
    BY <1>1, <2>1 DEF JobInv, OneReport, LinkedOnly, CopiesAtWork
<1>4. CASE Mark
  <2>1. UNCHANGED <<pool, ack, acked, conn, verify, asked, booted, grabbed>> /\ selection' = {}
    BY <1>4 DEF Mark
  <2>2. \A s \in Satellite : pages'[s] # pages[s] => conn[s]
    BY <1>0, <1>4 DEF Mark, Marked, JobInv, SelectedLive
  <2>3. LinkedOnly'
    BY <2>1, <2>2 DEF JobInv, LinkedOnly
  <2> QED
    BY <1>1, <2>1, <2>3 DEF JobInv, OneReport, CopiesAtWork, SelectedLive
<1>5. ASSUME NEW s \in Satellite, AnswerCheck(s) PROVE JobInv'
  <2>1. /\ UNCHANGED <<pool, acked, conn, verify, pages, booted, grabbed, selection>>
        /\ asked' = [asked EXCEPT ![s] = {}]
        /\ \A x \in Satellite : ack'[x] = "none" <=> ack[x] = "none"
    BY <1>0, <1>5 DEF AnswerCheck
  <2>2. OneReport' /\ LinkedOnly'
    BY <1>0, <1>1, <2>1 DEF JobInv, OneReport, LinkedOnly
  <2> QED
    BY <1>1, <2>1, <2>2 DEF JobInv, CopiesAtWork, SelectedLive
<1>6. CASE CheckOrphans
  <2>1. /\ UNCHANGED <<pool, ack, acked, conn, verify, pages, booted, grabbed, selection>>
        /\ \A x \in Satellite : ~conn[x] => asked'[x] = {}
    BY <1>6 DEF CheckOrphans
  <2>2. LinkedOnly'
    BY <2>1 DEF JobInv, LinkedOnly
  <2> QED
    BY <1>1, <2>1, <2>2 DEF JobInv, OneReport, CopiesAtWork, SelectedLive
<1>7. ASSUME NEW s \in Satellite, AnswerVerify(s) \/ ApplyVerify(s) \/ Connect(s)
                                  \/ ReceivePage(s)
      PROVE  JobInv'
  <2>1. UNCHANGED <<pool, ack, acked, asked, grabbed, selection>>
    BY <1>7 DEF AnswerVerify, ApplyVerify, Connect, ReceivePage
  <2>2. OneJob' /\ CopiesAtWork' /\ OneReport' /\ SelectedLive'
    <3>1. \A x \in Satellite : conn[x] => conn'[x]
      BY <1>0, <1>7 DEF AnswerVerify, ApplyVerify, Connect, ReceivePage
    <3>2. \A sel \in selection : sel.sat \in Satellite
      BY <1>0 DEF Selection
    <3> QED
      BY <1>1, <2>1, <3>1, <3>2 DEF JobInv, CopiesAtWork, OneReport, SelectedLive
  <2>3. LinkedOnly'
    <3>1. CASE AnswerVerify(s)
      BY <1>0, <3>1 DEF AnswerVerify, JobInv, LinkedOnly
    <3>2. CASE ApplyVerify(s)
      BY <1>0, <3>2 DEF ApplyVerify, JobInv, LinkedOnly
    <3>3. CASE Connect(s)
      <4>1. /\ UNCHANGED <<pages, ack, asked>> /\ conn' = [conn EXCEPT ![s] = TRUE]
            /\ booted' = [booted EXCEPT ![s] = TRUE]
            /\ \A x \in Satellite \ {s} : verify'[x] = verify[x]
        BY <1>0, <3>3 DEF Connect
      <4> QED
        BY <1>0, <4>1 DEF JobInv, LinkedOnly
    <3>4. CASE ReceivePage(s)
      <4>1. /\ UNCHANGED <<conn, booted, ack, verify, asked>>
            /\ \A x \in Satellite : pages'[x] \subseteq pages[x]
        BY <1>0, <3>4 DEF ReceivePage
      <4> QED
        BY <4>1 DEF JobInv, LinkedOnly
    <3> QED
      BY <1>7, <3>1, <3>2, <3>3, <3>4
  <2> QED
    BY <2>2, <2>3 DEF JobInv
<1>8. CASE Grab
  <2>1. UNCHANGED <<pool, ack, acked, conn, verify, pages, asked, booted, selection>>
    BY <1>8 DEF Grab
  <2>2. CopiesAtWork'
    BY <1>8, <2>1 DEF Grab, CopiesAtWork
  <2> QED
    BY <1>1, <2>1, <2>2 DEF JobInv, OneReport, LinkedOnly, SelectedLive
<1>9. CASE StoreReport \/ FailToStore
  <2>1. /\ UNCHANGED <<ack, acked, conn, verify, pages, asked, booted, selection>>
        /\ grabbed' = {}
        /\ \E g \in grabbed, ok \in SUBSET Recipient : Handled(g.item, ok)
    <3>1. CASE StoreReport
      BY <1>0, <3>1 DEF StoreReport, Stored
    <3>2. CASE FailToStore
      BY <1>0, <3>2 DEF FailToStore
    <3> QED
      BY <1>9, <3>1, <3>2
  <2>2. OneJob' /\ \A x \in Satellite : Busy(x)' = Busy(x)
    BY <1>0, <2>1, JobGoesOn DEF JobInv
  <2>3. OneReport' /\ LinkedOnly' /\ SelectedLive'
    BY <2>1, <2>2 DEF JobInv, OneReport, LinkedOnly, SelectedLive
  <2> QED
    BY <2>1, <2>2, <2>3 DEF JobInv, CopiesAtWork
<1>10. CASE FinishReport
  <2>1. /\ UNCHANGED <<conn, verify, pages, asked, booted, selection, grabbed>>
        /\ pool # <<>> /\ grabbed = {} /\ Head(pool).todo = {} /\ pool' = Tail(pool)
        /\ IF Head(pool).live
             THEN /\ ack' = [ack EXCEPT ![Head(pool).sat] =
                        IF asked[Head(pool).sat] = {} THEN "first" ELSE "behind"]
                  /\ acked' = [acked EXCEPT ![Head(pool).sat] = Head(pool).ok]
             ELSE UNCHANGED <<ack, acked>>
    BY <1>10 DEF FinishReport
  <2>2. Head(pool) \in Job
    BY <1>0, <2>1
  <2>3. OneJob' /\ \A x \in Satellite : /\ Serves(x) => Busy(x) /\ ~Busy(x)'
                                        /\ ~Serves(x) => Busy(x)' = Busy(x)
    BY <2>1, JobIsDone DEF JobInv
  <2>4. ASSUME NEW x \in Satellite
        PROVE  /\ ~Serves(x) => ack'[x] = ack[x] /\ acked'[x] = acked[x]
               /\ Serves(x) => ack'[x] # "none"
    <3>1. CASE Head(pool).live
      BY <1>0, <2>1, <2>2, <3>1 DEF Serves, Job
    <3>2. CASE ~Head(pool).live
      BY <2>1, <3>2 DEF Serves
    <3> QED
      BY <3>1, <3>2
  <2>5. OneReport' /\ LinkedOnly'
    BY <2>1, <2>3, <2>4 DEF JobInv, OneReport, LinkedOnly
  <2> QED
    BY <2>1, <2>3, <2>5 DEF JobInv, CopiesAtWork, SelectedLive
<1>11. ASSUME NEW s \in Satellite, Disconnect(s) \/ StopSatellite(s) PROVE JobInv'
  <2>1. /\ LinksDown({s}) /\ Orphaned(s) /\ UNCHANGED grabbed
        /\ \A x \in Satellite : booted'[x] = booted[x] \/ x = s
    BY <1>0, <1>11 DEF Disconnect, StopSatellite
  <2>2. /\ OneJob' /\ ~Busy(s)' /\ \A x \in Satellite \ {s} : Busy(x)' = Busy(x)
        /\ pool # <<>> => Head(pool').todo = Head(pool).todo
    BY <2>1, JobIsLost DEF JobInv
  <2>3. OneReport' /\ LinkedOnly'
    BY <2>1, <2>2, LinksGone DEF JobInv
  <2>4. CopiesAtWork'
    BY <1>0, <2>1, <2>2 DEF JobInv, CopiesAtWork
  <2>5. SelectedLive'
    <3> SUFFICES ASSUME NEW sel \in selection', sel.live = TRUE PROVE conn'[sel.sat]
      BY DEF SelectedLive
    <3>1. PICK old \in selection :
            sel = IF old.sat = s THEN [old EXCEPT !.live = FALSE] ELSE old
      BY <2>1 DEF Orphaned
    <3>2. old \in Selection
      BY <1>0
    <3>3. old.sat # s /\ sel = old
      BY <3>1, <3>2 DEF Selection
    <3> QED
      BY <1>0, <2>1, <3>2, <3>3 DEF JobInv, SelectedLive, LinksDown, Selection
  <2> QED
    BY <2>2, <2>3, <2>4, <2>5 DEF JobInv
<1>12. CASE RestartMaster
  <2>1. /\ LinksDown(Satellite) /\ pool' = <<>> /\ grabbed' = {} /\ selection' = {}
        /\ UNCHANGED booted
    BY <1>12 DEF RestartMaster
  <2>2. OneJob' /\ \A s : ~Busy(s)'
    BY <2>1 DEF OneJob, Busy
  <2>3. OneReport' /\ LinkedOnly'
    BY <2>1, <2>2, LinksGone DEF JobInv
  <2> QED
    BY <2>1, <2>2, <2>3 DEF JobInv, CopiesAtWork, SelectedLive
<1>13. ASSUME NEW s \in Satellite, SendReport(s) PROVE JobInv'
  <2>1. PICK batch \in SUBSET Reportable(s) :
          pool' = Append(pool,
            [sat |-> s, ok |-> {}, live |-> TRUE,
             todo |-> {ItemOf(RowToken(s, r), row[s][r].status) : r \in batch}])
    BY <1>13 DEF SendReport
  <2> DEFINE items == {ItemOf(RowToken(s, r), row[s][r].status) : r \in batch}
  <2>2. items \in SUBSET Item
    BY DEF Reportable, Present, TypeOK, SatellitesOK, ItemOf, RowToken, Row, Item
  <2>3. ~Busy(s) /\ ack[s] = "none" /\ conn[s]
    BY <1>13 DEF SendReport, Reporting, Busy, JobOf
  <2>4. UNCHANGED <<ack, acked, conn, verify, pages, asked, booted, grabbed, selection>>
    BY <1>13 DEF SendReport
  <2>5. /\ OneJob' /\ \A x \in Satellite \ {s} : Busy(x)' = Busy(x)
        /\ pool # <<>> => Head(pool') = Head(pool)
    BY <2>1, <2>2, <2>3, JobIsQueued DEF JobInv
  <2>6. OneReport' /\ LinkedOnly'
    BY <2>3, <2>4, <2>5 DEF JobInv, OneReport, LinkedOnly
  <2> QED
    BY <1>0, <2>4, <2>5, <2>6 DEF JobInv, CopiesAtWork, SelectedLive
<1>14. ASSUME NEW s \in Satellite, ReceiveAck(s) PROVE JobInv'
  <2>1. /\ UNCHANGED <<pool, conn, verify, pages, asked, booted, grabbed, selection>>
        /\ ack' = [ack EXCEPT ![s] = "none"] /\ acked' = [acked EXCEPT ![s] = {}]
    BY <1>14 DEF ReceiveAck
  <2>2. OneReport' /\ LinkedOnly'
    BY <1>0, <1>1, <2>1 DEF JobInv, OneReport, LinkedOnly
  <2> QED
    BY <1>1, <2>1, <2>2 DEF JobInv, CopiesAtWork, SelectedLive
<1>15. ASSUME NEW r \in Recipient, GrowOld(r) \/ BecomeDue(r) \/ StoreDsn(r) \/ Reset(r)
       PROVE  UNCHANGED Watched
  BY <1>15 DEF GrowOld, BecomeDue, StoreDsn, Reset
<1>16. ASSUME NEW s \in Satellite, ReleaseOrphans(s) PROVE UNCHANGED Watched
  BY <1>16 DEF ReleaseOrphans
<1>17. ASSUME NEW s \in Satellite, NEW r \in Recipient, StartSending(s, r) \/ RefuseDomain(s, r)
       PROVE  UNCHANGED Watched
  BY <1>17 DEF StartSending, RefuseDomain
<1>18. ASSUME NEW s \in Satellite, NEW t, CustomizerFails(s, t) \/ EndZombie(s, t)
       PROVE  UNCHANGED Watched
  BY <1>18 DEF CustomizerFails, EndZombie
<1>19. ASSUME NEW s \in Satellite, NEW t, NEW o, EndSending(s, t, o) \/ GiveUp(s, t, o)
       PROVE  UNCHANGED Watched
  BY <1>19 DEF EndSending, GiveUp
<1>20. ASSUME UNCHANGED vars PROVE UNCHANGED Watched
  BY <1>20 DEF vars, stateVars
<1> HIDE DEF Watched
<1>21. ASSUME MasterNext PROVE JobInv'
  BY <1>2, <1>3, <1>4, <1>5, <1>6, <1>7, <1>8, <1>9, <1>10, <1>12, <1>15, <1>16, <1>21
  DEF MasterNext
<1>22. ASSUME NEW s \in Satellite, SatelliteNext(s) PROVE JobInv'
  BY <1>2, <1>7, <1>11, <1>13, <1>14, <1>17, <1>18, <1>19, <1>22 DEF SatelliteNext
<1> QED
  BY <1>2, <1>20, <1>21, <1>22 DEF Next, Change

LEMMA JobsInOrder == Spec => []JobInv
<1>1. Init => JobInv
  BY DEF Init, JobInv, OneJob, OneReport, Busy, LinkedOnly, CopiesAtWork, SelectedLive
<1>2. TypeOK /\ TypeOK' /\ JobInv /\ [Next]_vars => JobInv'
  BY JobInvStays
<1> QED
  BY <1>1, <1>2, Typing, PTL DEF Spec

-----------------------------------------------------------------------------
(* Mishaps are spent and never come back.                                  *)
Budgeted ==
  /\ scenario \in Scenarios
  /\ \A m \in Mishap : budget[m] <= scenario.mishaps[m]

LEMMA Spent ==
  ASSUME [Next]_vars
  PROVE  /\ UNCHANGED scenario
         /\ UNCHANGED budget \/ \E m \in Mishap : Spend(m)
PROOF
<1> USE DEF Mishap
<1>1. ASSUME NEW s \in Satellite,
             \/ Select(s) \/ AnswerCheck(s) \/ ReleaseOrphans(s) \/ AnswerVerify(s)
             \/ Connect(s) \/ ReceivePage(s) \/ ApplyVerify(s) \/ SendReport(s)
             \/ ReceiveAck(s)
      PROVE  UNCHANGED budget
  BY <1>1 DEF Select, AnswerCheck, ReleaseOrphans, AnswerVerify, Connect, ReceivePage,
     ApplyVerify, SendReport, ReceiveAck
<1>2. ASSUME NEW s \in Satellite, Disconnect(s) \/ StopSatellite(s)
      PROVE  \E m \in Mishap : Spend(m)
  BY <1>2 DEF Disconnect, StopSatellite
<1>3. ASSUME NEW r \in Recipient, GrowOld(r) \/ BecomeDue(r) \/ StoreDsn(r) \/ Reset(r)
      PROVE  UNCHANGED budget \/ \E m \in Mishap : Spend(m)
  BY <1>3 DEF GrowOld, BecomeDue, StoreDsn, Reset
<1>4. ASSUME Mark \/ Grab \/ StoreReport \/ FailToStore \/ FinishReport
             \/ CheckOrphans \/ RestartMaster
      PROVE  UNCHANGED budget \/ \E m \in Mishap : Spend(m)
  BY <1>4 DEF Mark, Grab, StoreReport, FailToStore, FinishReport, CheckOrphans,
     RestartMaster
<1>5. ASSUME NEW s \in Satellite, NEW r \in Recipient, StartSending(s, r) \/ RefuseDomain(s, r)
      PROVE  UNCHANGED budget
  BY <1>5 DEF StartSending, RefuseDomain
<1>6. ASSUME NEW s \in Satellite, NEW t, CustomizerFails(s, t) \/ EndZombie(s, t)
      PROVE  UNCHANGED budget \/ \E m \in Mishap : Spend(m)
  BY <1>6 DEF CustomizerFails, EndZombie, MayBeMailed
<1>7. ASSUME NEW s \in Satellite, NEW t, NEW o, EndSending(s, t, o) \/ GiveUp(s, t, o)
      PROVE  UNCHANGED budget \/ \E m \in Mishap : Spend(m)
  BY <1>7 DEF EndSending, GiveUp, MayBeMailed
<1> QED
  BY <1>1, <1>2, <1>3, <1>4, <1>5, <1>6, <1>7
  DEF Next, Change, MasterNext, SatelliteNext, vars, stateVars

LEMMA Unspent ==
  ASSUME TypeOK, Budgeted, [Next]_vars
  PROVE  /\ Budgeted'
         /\ \A m \in Mishap : (budget[m] = scenario.mishaps[m])' =>
              budget[m] = scenario.mishaps[m] /\ ~Spend(m)
<1>1. /\ \A m \in Mishap : budget[m] \in Nat /\ scenario.mishaps[m] \in Nat
      /\ budget \in [Mishap -> Nat]
  BY DelegationAssumption DEF TypeOK, Budgeted, Scenario
<1>2. scenario' = scenario /\ (UNCHANGED budget \/ \E m \in Mishap : Spend(m))
  BY Spent
<1>3. \A m, e \in Mishap : Spend(e) =>
        budget'[m] = IF m = e THEN budget[m] - 1 ELSE budget[m]
  BY <1>1 DEF Spend
<1>4. ASSUME NEW m \in Mishap
      PROVE  budget'[m] <= budget[m] /\ (Spend(m) => budget'[m] < budget[m])
             /\ budget'[m] \in Int
  BY <1>1, <1>2, <1>3
<1>5. Budgeted'
  BY <1>1, <1>2, <1>4 DEF Budgeted
<1> QED
  BY <1>1, <1>2, <1>4, <1>5 DEF Budgeted

LEMMA BudgetsKept == Spec => []Budgeted
<1>1. Init => Budgeted
  BY DelegationAssumption DEF Init, Budgeted, Scenario
<1>2. TypeOK /\ Budgeted /\ [Next]_vars => Budgeted'
  BY Unspent
<1> QED
  BY <1>1, <1>2, Typing, PTL DEF Spec

-----------------------------------------------------------------------------
(* As long as everything stays up, whoever holds a recipient is the one    *)
(* the master believes to hold it.  A satellite is owed the answer for its *)
(* rows until the master has handled a report of them; a page is on its    *)
(* way for an hour at most, and the check of orphans asks for what is      *)
(* older than that.                                                        *)
Answered(s, r) == r \in acked[s] \/ r \in Oks(s)
Owed(s, r) == r \in Present(s) /\ ~Answered(s, r)
Done(s, r) == r \in Present(s) /\ row[s][r].finished = TRUE
Paged(s, r) == \E page \in pages[s] : \E t \in page : t.rcpt = r
ClaimedBy(s, r) == doc[r].inProgress = TRUE /\ doc[r].client = s

(* Nothing was ever lost.                                                  *)
AllUp ==
  /\ \A s \in Satellite :
       /\ conn[s] = booted[s] /\ verify[s] = "idle" /\ zombies[s] = {}
       /\ ~conn[s] => \A r \in Recipient : row[s][r] = NoRow /\ doc[r].client # s
  /\ \A n \in DOMAIN pool : pool[n].live = TRUE
  /\ \A sel \in selection :
       sel.live = TRUE /\ \A r \in sel.batch : doc[r].inProgress = FALSE

RowsUp ==
  \A s \in Satellite :
    /\ \A r \in Recipient : row[s][r].status # "UNVERIFIED"
    /\ \A t \in work[s] : /\ t.rcpt \in Unfinished(s)
                          /\ t.deleg = row[s][t.rcpt].deleg

ReportsUp ==
  \A s \in Satellite :
    /\ \A i \in Todo(s) :
         /\ Done(s, i.rcpt) /\ i.rcpt \notin Oks(s)
         /\ i.deleg = row[s][i.rcpt].deleg /\ i.status = row[s][i.rcpt].status
    /\ \A r \in Recipient : Answered(s, r) => Done(s, r)

PagesUp ==
  \A s \in Satellite :
    /\ \A r \in Recipient : Paged(s, r) => ClaimedBy(s, r) /\ r \notin aged /\ ~Owed(s, r)
    /\ \A p, q \in pages[s] : \A t \in p : \A u \in q : t.rcpt = u.rcpt => p = q

OwedClaimed == \A s \in Satellite, r \in Recipient : Owed(s, r) => ClaimedBy(s, r)

ChecksUp ==
  \A s \in Satellite :
    /\ asked[s] = {} \/ lost[s] = {}
    /\ \A r \in asked[s] : \/ ClaimedBy(s, r) /\ r \in aged
                           \/ r \in Present(s) /\ ~(ack[s] = "first" /\ r \in acked[s])
    /\ \A r \in lost[s] : ClaimedBy(s, r) /\ r \in aged /\ r \notin Present(s)

HandedOver == AllUp /\ RowsUp /\ ReportsUp /\ PagesUp /\ OwedClaimed /\ ChecksUp

(* A step leaves a recipient alone that nobody holds and nobody selected.  *)
Idle(r) ==
  /\ \A s \in Satellite : ~Holds(s, r)
  /\ \A sel \in selection : r \notin sel.batch

LeftAlone(r) ==
  \A s \in Satellite :
    /\ ~Holds(s, r)'
    /\ Owed(s, r)' <=> Owed(s, r)
    /\ Owed(s, r) => row'[s][r].status = row[s][r].status

Quiet == \A r \in Recipient : Idle(r) => LeftAlone(r)

SteadyInv == Steady => HandedOver

LEMMA SamePool ==
  ASSUME UNCHANGED pool
  PROVE  \A s : Todo(s)' = Todo(s) /\ Oks(s)' = Oks(s) /\ Busy(s)' = Busy(s)
  BY DEF Todo, Oks, Busy, JobsOf, JobOf

LEMMA UpFields ==
  ASSUME TypeOK, JobInv
  PROVE  /\ \A s \in Satellite, r \in Recipient :
              /\ Done(s, r) <=> r \in Present(s) /\ r \notin Unfinished(s)
              /\ Unfinished(s) \subseteq Present(s) /\ Present(s) \subseteq Recipient
              /\ row[s][r] = NoRow => r \notin Present(s)
         /\ \A s \in Satellite : /\ Busy(s) => ack[s] = "none" /\ acked[s] = {} /\ conn[s]
                                 /\ ~Busy(s) => Todo(s) = {} /\ Oks(s) = {}
                                 /\ ack[s] # "none" => Todo(s) = {} /\ Oks(s) = {}
<1>1. \A s \in Satellite : \A r \in Present(s) : row[s][r].finished \in BOOLEAN
  BY DEF TypeOK, SatellitesOK, Present, Row
<1>2. ASSUME NEW s \in Satellite, NEW r \in Recipient
      PROVE  /\ Done(s, r) <=> r \in Present(s) /\ r \notin Unfinished(s)
             /\ Unfinished(s) \subseteq Present(s) /\ Present(s) \subseteq Recipient
             /\ row[s][r] = NoRow => r \notin Present(s)
  BY <1>1 DEF Done, Unfinished, Present
<1>3. ASSUME NEW s \in Satellite
      PROVE  /\ Busy(s) => ack[s] = "none" /\ acked[s] = {} /\ conn[s]
             /\ ~Busy(s) => Todo(s) = {} /\ Oks(s) = {}
  BY DEF JobInv, OneReport, Busy, Todo, Oks, JobsOf
<1> QED
  BY <1>2, <1>3

(* Nothing a claim depends on changes: documents get another status, time  *)
(* goes by, a report is being looked at.                                   *)
LEMMA ClaimsStay ==
  ASSUME HandedOver,
         UNCHANGED <<conn, booted, verify, zombies, selection, pool, row, work,
                     pages, asked, lost, ack, acked>>,
         \A r \in Recipient : /\ doc'[r].inProgress = doc[r].inProgress
                              /\ doc'[r].client = doc[r].client
                              /\ r \in aged => r \in aged'
                              /\ r \in aged' => r \in aged \/ \A s \in Satellite : ~Paged(s, r),
         \A sel \in selection : sel.batch \subseteq Recipient,
         \A s \in Satellite : asked[s] \subseteq Recipient /\ lost[s] \subseteq Recipient
  PROVE  HandedOver' /\ Quiet
<1>1. \A s \in Satellite, r \in Recipient :
        /\ (Answered(s, r)' <=> Answered(s, r)) /\ (Done(s, r)' <=> Done(s, r))
        /\ (Paged(s, r)' <=> Paged(s, r)) /\ (ClaimedBy(s, r)' <=> ClaimedBy(s, r))
        /\ (Owed(s, r)' <=> Owed(s, r))
  BY SamePool DEF Answered, Done, Paged, ClaimedBy, Owed, Present
<1>2. \A s : Present(s)' = Present(s) /\ Unfinished(s)' = Unfinished(s)
  BY DEF Present, Unfinished
<1>3. AllUp'
  BY DEF HandedOver, AllUp
<1>4. RowsUp'
  BY <1>2 DEF HandedOver, RowsUp
<1>5. ReportsUp'
  <2>1. ASSUME NEW s \in Satellite, NEW i \in Todo(s)
        PROVE  Done(s, i.rcpt)' <=> Done(s, i.rcpt)
    BY DEF Done, Present
  <2> QED
    BY <1>1, <2>1, SamePool DEF HandedOver, ReportsUp
<1>6. PagesUp' /\ OwedClaimed'
  BY <1>1 DEF HandedOver, PagesUp, OwedClaimed
<1>7. ChecksUp'
  BY <1>1, <1>2 DEF HandedOver, ChecksUp
<1>8. Quiet
  BY <1>1, <1>2 DEF Quiet, Idle, LeftAlone, Holds
<1> QED
  BY <1>3, <1>4, <1>5, <1>6, <1>7, <1>8 DEF HandedOver

(* A satellite changes a row it has not finished, and may be done with it. *)
LEMMA RowGoesOn ==
  ASSUME TypeOK, JobInv, HandedOver,
         UNCHANGED <<conn, booted, verify, zombies, selection, pool, pages, asked, lost,
                     ack, acked, doc, aged>>,
         NEW s \in Satellite, NEW r \in Unfinished(s), NEW w \in Row, Save(s, r, w),
         w.status # "UNVERIFIED", w.deleg = row[s][r].deleg,
         \A x \in Satellite \ {s} : work'[x] = work[x],
         \A t \in work'[s] : t \in work[s] \/ t = RowToken(s, r),
         \A t \in work'[s] : t.rcpt = r => w.finished = FALSE
  PROVE  HandedOver' /\ Quiet
<1>0. /\ row \in [Satellite -> [Recipient -> Row \cup {NoRow}]] /\ r \in Recipient
      /\ r \in Present(s) /\ row[s][r].finished # TRUE /\ w # NoRow
  BY NoRowIsNone DEF TypeOK, SatellitesOK, Unfinished, Present
<1>1. /\ row'[s][r] = w
      /\ \A x \in Satellite, q \in Recipient : x # s \/ q # r => row'[x][q] = row[x][q]
  BY <1>0 DEF Save
<1>2. /\ \A x \in Satellite : Present(x)' = Present(x)
      /\ \A x \in Satellite, q \in Recipient :
           x # s \/ q # r => (q \in Unfinished(x)' <=> q \in Unfinished(x))
      /\ w.finished = FALSE => r \in Unfinished(s)'
  BY <1>0, <1>1 DEF Present, Unfinished
<1>3. \A x \in Satellite, q \in Recipient :
        /\ (Answered(x, q)' <=> Answered(x, q)) /\ (Owed(x, q)' <=> Owed(x, q))
        /\ (Paged(x, q)' <=> Paged(x, q)) /\ (ClaimedBy(x, q)' <=> ClaimedBy(x, q))
        /\ (x # s \/ q # r => (Done(x, q)' <=> Done(x, q)))
  BY <1>1, <1>2, SamePool DEF Answered, Done, Paged, ClaimedBy, Owed
<1>4. ~Done(s, r) /\ ~Answered(s, r)
  BY <1>0, UpFields DEF HandedOver, ReportsUp, Done
<1>5. AllUp'
  <2>1. conn[s]
    BY <1>0 DEF HandedOver, AllUp, Present
  <2> QED
    BY <1>1, <2>1 DEF HandedOver, AllUp
<1>6. RowsUp'
  <2>1. \A x \in Satellite, q \in Recipient : row'[x][q].status # "UNVERIFIED"
    BY <1>1 DEF HandedOver, RowsUp
  <2>2. ASSUME NEW x \in Satellite, NEW t \in work'[x]
        PROVE  t.rcpt \in Unfinished(x)' /\ t.deleg = row'[x][t.rcpt].deleg
    <3>1. CASE x # s
      <4>1. t \in work[x]
        BY <2>2, <3>1
      <4>2. t.rcpt \in Unfinished(x) /\ t.deleg = row[x][t.rcpt].deleg
        BY <4>1 DEF HandedOver, RowsUp
      <4> QED
        BY <1>1, <1>2, <3>1, <4>2 DEF Unfinished, Present
    <3>2. CASE x = s
      <4>1. t.rcpt \in Unfinished(s) /\ t.deleg = row[s][t.rcpt].deleg
        BY <2>2, <3>2 DEF HandedOver, RowsUp, RowToken
      <4>2. t.rcpt \in Recipient
        BY <4>1 DEF Unfinished, Present
      <4>3. CASE t.rcpt # r
        BY <1>1, <1>2, <3>2, <4>1, <4>2, <4>3
      <4>4. CASE t.rcpt = r
        BY <1>1, <1>2, <2>2, <3>2, <4>1, <4>4
      <4> QED
        BY <4>3, <4>4
    <3> QED
      BY <3>1, <3>2
  <2> QED
    BY <2>1, <2>2 DEF RowsUp
<1>7. ReportsUp'
  <2>1. ASSUME NEW x \in Satellite, NEW i \in Todo(x)
        PROVE  /\ Done(x, i.rcpt)' /\ i.rcpt \notin Oks(x)
               /\ i.deleg = row'[x][i.rcpt].deleg /\ i.status = row'[x][i.rcpt].status
    <3>1. /\ Done(x, i.rcpt) /\ i.rcpt \notin Oks(x)
          /\ i.deleg = row[x][i.rcpt].deleg /\ i.status = row[x][i.rcpt].status
      BY DEF HandedOver, ReportsUp
    <3>2. i.rcpt \in Recipient
      BY <3>1 DEF Done, Present
    <3>3. x # s \/ i.rcpt # r
      BY <1>4, <3>1
    <3> QED
      BY <1>1, <1>3, <3>1, <3>2, <3>3
  <2>2. \A x \in Satellite, q \in Recipient : Answered(x, q)' => Done(x, q)'
    BY <1>3, <1>4 DEF HandedOver, ReportsUp
  <2> QED
    BY <2>1, <2>2, SamePool DEF ReportsUp
<1>8. PagesUp' /\ OwedClaimed'
  BY <1>3 DEF HandedOver, PagesUp, OwedClaimed
<1>9. ChecksUp'
  <2>1. \A x \in Satellite : asked[x] \subseteq Recipient /\ lost[x] \subseteq Recipient
    BY DEF TypeOK, LinksOK, MasterOK
  <2> QED
    BY <1>2, <1>3, <2>1 DEF HandedOver, ChecksUp
<1>10. Quiet
  <2>1. Holds(s, r)
    BY DEF Holds
  <2>2. ASSUME NEW q \in Recipient, Idle(q), NEW x \in Satellite
        PROVE  /\ ~Holds(x, q)' /\ (Owed(x, q)' <=> Owed(x, q))
               /\ Owed(x, q) => row'[x][q].status = row[x][q].status
    <3>1. q # r /\ ~Holds(x, q)
      BY <2>1, <2>2 DEF Idle
    <3>2. row'[x][q] = row[x][q] /\ (q \in Unfinished(x)' <=> q \in Unfinished(x))
      BY <1>1, <1>2, <3>1
    <3> QED
      BY <1>3, <3>1, <3>2 DEF Holds
  <2> QED
    BY <2>2 DEF Quiet, LeftAlone
<1> QED
  BY <1>5, <1>6, <1>7, <1>8, <1>9, <1>10 DEF HandedOver

LEMMA SendingGoesOn ==
  ASSUME TypeOK, JobInv, NotSentInv, HandedOver, NEW s \in Satellite,
         \/ \E r \in Recipient : StartSending(s, r) \/ RefuseDomain(s, r)
         \/ \E t \in work[s] : CustomizerFails(s, t) \/ \E o \in Outcome : EndSending(s, t, o)
  PROVE  HandedOver' /\ Quiet
<1> USE DEF docVars, masterVars, linkVars, satVars, historyVars
<1>0. /\ row \in [Satellite -> [Recipient -> Row \cup {NoRow}]]
      /\ work \in [Satellite -> SUBSET Token]
  BY DEF TypeOK, SatellitesOK
<1>1. ASSUME NEW r \in Recipient, StartSending(s, r) \/ RefuseDomain(s, r) PROVE HandedOver' /\ Quiet
  <2>1. /\ row[s][r] \in Row /\ r \in Unfinished(s)
    BY <1>0, <1>1 DEF StartSending, RefuseDomain, Sendable, Unfinished, Present
  <2>2. CASE StartSending(s, r)
    <3> DEFINE w == [row[s][r] EXCEPT !.status = "IN_PROGRESS", !.inProgress = TRUE]
    <3>1. /\ w \in Row /\ w.status # "UNVERIFIED" /\ w.deleg = row[s][r].deleg
          /\ w.finished = row[s][r].finished
      BY <2>1 DEF Row, RowStatus
    <3>2. w.finished = FALSE
      BY <2>1, <3>1 DEF Row, Unfinished
    <3>3. Save(s, r, w) /\ work' = [work EXCEPT ![s] = @ \cup {RowToken(s, r)}]
      BY <2>2 DEF StartSending
    <3>4. UNCHANGED <<conn, booted, verify, zombies, selection, pool, pages, asked, lost,
                      ack, acked, doc, aged>>
      BY <2>2 DEF StartSending
    <3> HIDE DEF w
    <3> QED
      BY <1>0, <2>1, <3>1, <3>2, <3>3, <3>4, RowGoesOn
  <2>3. CASE RefuseDomain(s, r)
    <3> DEFINE w == [row[s][r] EXCEPT !.finished = TRUE]
    <3>1. /\ w \in Row /\ w.status = row[s][r].status /\ w.deleg = row[s][r].deleg
      BY <2>1 DEF Row, RowStatus
    <3>2. w.status # "UNVERIFIED"
      BY <3>1 DEF HandedOver, RowsUp
    <3>3. Save(s, r, w)
      BY <2>3 DEF RefuseDomain
    <3>4. UNCHANGED <<conn, booted, verify, zombies, selection, pool, pages, asked, lost,
                      ack, acked, doc, aged, work>>
      BY <2>3 DEF RefuseDomain
    <3>5. \A t \in work[s] : t.rcpt # r
      <4> SUFFICES ASSUME NEW t \in work[s], t.rcpt = r PROVE FALSE
        OBVIOUS
      <4>1. t \in Token /\ t.deleg = row[s][r].deleg
        BY <1>0 DEF HandedOver, RowsUp
      <4>2. RowToken(s, r) = t
        BY <4>1 DEF RowToken, Token
      <4>3. row[s][r].inProgress
        BY <2>1, <4>2 DEF NotSentInv, RecordedLast, Unfinished
      <4> QED
        BY <2>3, <4>3 DEF RefuseDomain, Sendable
    <3> HIDE DEF w
    <3> QED
      BY <2>1, <3>1, <3>2, <3>3, <3>4, <3>5, RowGoesOn
  <2> QED
    BY <1>1, <2>2, <2>3
<1>2. ASSUME NEW t \in work[s], CustomizerFails(s, t) \/ \E o \in Outcome : EndSending(s, t, o)
      PROVE  HandedOver' /\ Quiet
  <2>1. t \in Token /\ t.rcpt \in Unfinished(s) /\ t.deleg = row[s][t.rcpt].deleg
    BY <1>0 DEF HandedOver, RowsUp
  <2>2. ASSUME NEW u \in work[s], u.rcpt = t.rcpt PROVE u = t
    BY <1>0, <2>1, <2>2 DEF HandedOver, RowsUp, Token
  <2>3. PICK o \in Outcome, done \in BOOLEAN : Save(s, t.rcpt, Saved(t, o, done))
    <3>1. "GENERAL_ERROR" \in Outcome /\ TRUE \in BOOLEAN /\ FALSE \in BOOLEAN
      BY DEF Outcome
    <3> QED
      BY <1>2, <3>1 DEF CustomizerFails, EndSending
  <2>4. /\ work' = [work EXCEPT ![s] = @ \ {t}]
        /\ UNCHANGED <<conn, booted, verify, zombies, selection, pool, pages, asked, lost,
                       ack, acked, doc, aged>>
    BY <1>2 DEF CustomizerFails, EndSending
  <2>5. /\ Saved(t, o, done) \in Row /\ Saved(t, o, done).status # "UNVERIFIED"
        /\ Saved(t, o, done).deleg = row[s][t.rcpt].deleg
    BY <2>1, SavedType DEF Saved, Outcome
  <2>6. \A u \in work'[s] : u \in work[s] /\ u.rcpt # t.rcpt
    BY <1>0, <2>2, <2>4
  <2>7. PICK r \in Unfinished(s), w \in Row : r = t.rcpt /\ w = Saved(t, o, done)
    BY <2>1, <2>5
  <2>8. /\ Save(s, r, w) /\ w.status # "UNVERIFIED" /\ w.deleg = row[s][r].deleg
        /\ \A u \in work'[s] : u \in work[s] /\ u.rcpt # r
        /\ \A x \in Satellite \ {s} : work'[x] = work[x]
    BY <1>0, <2>3, <2>4, <2>5, <2>6, <2>7
  <2> QED
    BY <2>4, <2>8, RowGoesOn
<1> QED
  BY <1>1, <1>2

(* A report is handled: its satellite was owed it, and no other is.        *)
LEMMA ReportGoesOn ==
  ASSUME TypeOK, JobInv, HandedOver, NEW g \in grabbed, NEW ok \in SUBSET {g.item.rcpt},
         Handled(g.item, ok),
         UNCHANGED <<conn, booted, verify, zombies, selection, pages, asked, lost,
                     ack, acked, aged, row, work>>,
         \A r \in Recipient \ {g.item.rcpt} : doc'[r] = doc[r],
         \/ UNCHANGED doc
         \/ /\ ok = {g.item.rcpt} /\ doc'[g.item.rcpt].inProgress = FALSE
            /\ doc'[g.item.rcpt].client = Head(pool).sat
  PROVE  /\ HandedOver'
         /\ \A r \in Recipient \ ok : Idle(r) => LeftAlone(r)
         /\ Owed(Head(pool).sat, g.item.rcpt)
         /\ row[Head(pool).sat][g.item.rcpt].status = g.item.status
         /\ \A x \in Satellite : ~Holds(x, g.item.rcpt) => ~Holds(x, g.item.rcpt)'
         /\ \A x \in Satellite, r \in Recipient : Owed(x, r)' => Owed(x, r)
<1> PICK s, i, rc : s = Head(pool).sat /\ i = g.item /\ rc = g.item.rcpt
  OBVIOUS
<1>0. /\ pool \in Seq(Job) /\ pool # <<>> /\ i \in Item /\ rc \in Recipient /\ rc = i.rcpt
      /\ i \in Head(pool).todo /\ ok \subseteq {rc}
  BY DEF TypeOK, MasterOK, Grabbed, Item, JobInv, CopiesAtWork
<1>00. /\ \A n \in DOMAIN pool : pool[n] \in Job
       /\ Head(pool) = pool[1] /\ 1 \in DOMAIN pool
  BY <1>0
<1>01. \A x \in Satellite : Todo(x) \subseteq Item
  BY <1>00 DEF Todo, JobsOf, Job
<1>1. /\ Head(pool) = pool[1] /\ 1 \in DOMAIN pool /\ pool[1] \in Job /\ s \in Satellite
      /\ pool[1].live = TRUE /\ pool[1].sat = s
  <2>1. pool[1].live = TRUE
    BY <1>00 DEF HandedOver, AllUp
  <2> QED
    BY <1>00, <2>1 DEF Job
<1>2. Serves(s) /\ \A x \in Satellite : Serves(x) <=> x = s
  BY <1>0, <1>1 DEF Serves
<1>3. JobOf(1, s) /\ Busy(s) /\ i \in Todo(s)
  BY <1>0, <1>1 DEF JobOf, Busy, Todo, JobsOf
<1>4. /\ Todo(s)' = Todo(s) \ {i} /\ Oks(s)' = Oks(s) \cup ok
      /\ \A x \in Satellite \ {s} : Todo(x)' = Todo(x) /\ Oks(x)' = Oks(x)
      /\ \A n \in DOMAIN pool' : n \in DOMAIN pool /\ pool'[n].live = pool[n].live
  <2>1. ok \in SUBSET Recipient /\ Handled(i, ok)
    BY <1>0
  <2> QED
    BY <1>0, <1>1, <1>2, <2>1, JobGoesOn DEF JobInv
<1>5. Done(s, rc) /\ rc \notin Oks(s) /\ ack[s] = "none" /\ acked[s] = {} /\ conn[s]
  BY <1>0, <1>1, <1>3, UpFields DEF HandedOver, ReportsUp
<1>6. Owed(s, rc) /\ ClaimedBy(s, rc)
  BY <1>0, <1>1, <1>5 DEF Owed, Answered, Done, HandedOver, OwedClaimed
<1>7. /\ \A x \in Satellite : Present(x)' = Present(x) /\ Unfinished(x)' = Unfinished(x)
      /\ \A x, r : (Paged(x, r)' <=> Paged(x, r)) /\ (Done(x, r)' <=> Done(x, r))
  BY DEF Present, Unfinished, Paged, Done
<1>8. /\ \A x \in Satellite, r \in Recipient :
           /\ Answered(x, r)' <=> Answered(x, r) \/ (x = s /\ r \in ok)
           /\ Owed(x, r)' => Owed(x, r)
      /\ ok # {} => ~Owed(s, rc)'
  <2>1. \A x \in Satellite, r \in Recipient : Answered(x, r)' <=> Answered(x, r) \/ (x = s /\ r \in ok)
    BY <1>1, <1>4 DEF Answered
  <2>2. ok # {} => Answered(s, rc)'
    BY <1>0, <1>1, <1>4 DEF Answered
  <2> QED
    BY <1>7, <2>1, <2>2 DEF Owed
<1>9. \A x \in Satellite, r \in Recipient :
        /\ ClaimedBy(x, r)' => ClaimedBy(x, r)
        /\ ClaimedBy(x, r) => ClaimedBy(x, r)' \/ (r = rc /\ x = s /\ ok = {rc})
  <2>1. ASSUME NEW x \in Satellite, NEW r \in Recipient, r # rc
        PROVE  ClaimedBy(x, r)' <=> ClaimedBy(x, r)
    <3>1. doc'[r] = doc[r]
      BY <1>0, <2>1
    <3> QED
      BY <3>1 DEF ClaimedBy
  <2>2. CASE UNCHANGED doc
    BY <2>2 DEF ClaimedBy
  <2>3. CASE ok = {rc} /\ doc'[rc].inProgress = FALSE
    <3>1. \A x \in Satellite : ClaimedBy(x, rc) => x = s
      BY <1>6 DEF ClaimedBy
    <3>2. \A x \in Satellite : ~ClaimedBy(x, rc)'
      BY <2>3 DEF ClaimedBy
    <3> TAKE x \in Satellite, r \in Recipient
    <3>3. CASE r = rc
      BY <2>3, <3>1, <3>2, <3>3 DEF ClaimedBy
    <3>4. CASE r # rc
      BY <2>1, <3>4
    <3> QED
      BY <3>3, <3>4
  <2> QED
    BY <2>2, <2>3
<1>10. AllUp'
  <2>1. ASSUME NEW r \in Recipient, NEW x \in Satellite, doc[r].client # x, ~conn[x]
        PROVE  doc'[r].client # x
    BY <1>5, <2>1
  <2>2. ASSUME NEW r \in Recipient, doc[r].inProgress = FALSE PROVE doc'[r].inProgress = FALSE
    BY <2>2
  <2>3. \A sel \in selection : sel.batch \subseteq Recipient
    BY DEF TypeOK, MasterOK, Selection
  <2> QED
    BY <1>4, <2>1, <2>2, <2>3 DEF HandedOver, AllUp
<1>11. RowsUp'
  BY <1>7 DEF HandedOver, RowsUp
<1>12. ReportsUp'
  <2>1. ASSUME NEW x \in Satellite, NEW j \in Todo(x)'
        PROVE  /\ Done(x, j.rcpt)' /\ j.rcpt \notin Oks(x)'
               /\ j.deleg = row'[x][j.rcpt].deleg /\ j.status = row'[x][j.rcpt].status
    <3>1. j \in Todo(x) /\ (x = s => j # i)
      BY <1>4
    <3>2. /\ Done(x, j.rcpt) /\ j.rcpt \notin Oks(x)
          /\ j.deleg = row[x][j.rcpt].deleg /\ j.status = row[x][j.rcpt].status
      BY <3>1 DEF HandedOver, ReportsUp
    <3>3. ASSUME x = s PROVE j.rcpt # rc
      <4>1. i.deleg = row[s][rc].deleg /\ i.status = row[s][rc].status
        BY <1>0, <1>01, <1>1, <1>3 DEF HandedOver, ReportsUp
      <4> QED
        BY <1>0, <1>01, <3>1, <3>2, <3>3, <4>1 DEF Item
    <3> QED
      BY <1>4, <1>7, <3>2, <3>3
  <2>2. \A x \in Satellite, r \in Recipient : Answered(x, r)' => Done(x, r)'
    BY <1>5, <1>7, <1>8 DEF HandedOver, ReportsUp
  <2> QED
    BY <2>1, <2>2 DEF ReportsUp
<1>13. OwedClaimed'
  BY <1>8, <1>9 DEF HandedOver, OwedClaimed
<1>14. PagesUp'
  BY <1>6, <1>7, <1>8, <1>9 DEF HandedOver, PagesUp
<1>15. ChecksUp'
  <2>1. \A x \in Satellite : asked[x] \subseteq Recipient /\ lost[x] \subseteq Recipient
    BY DEF TypeOK, LinksOK, MasterOK
  <2>2. rc \in Present(s)
    BY <1>5 DEF Done
  <2> QED
    BY <1>5, <1>7, <1>9, <2>1, <2>2 DEF HandedOver, ChecksUp
<1>16. \A x \in Satellite, r \in Recipient : Holds(x, r)' <=> Holds(x, r)
  BY <1>7 DEF Holds, Paged
<1>17. \A r \in Recipient \ ok : Idle(r) => LeftAlone(r)
  <2>1. \A x \in Satellite, r \in Recipient \ ok : Owed(x, r)' <=> Owed(x, r)
    BY <1>7, <1>8 DEF Owed
  <2> QED
    BY <1>16, <2>1 DEF Idle, LeftAlone
<1>18. row[s][rc].status = i.status
  BY <1>0, <1>1, <1>3 DEF HandedOver, ReportsUp
<1> QED
  BY <1>0, <1>6, <1>8, <1>10, <1>11, <1>12, <1>13, <1>14, <1>15, <1>16, <1>17, <1>18
  DEF HandedOver

(* Reports are sent and answered: what the answer is about is finished.    *)
LEMMA ReportsGoOn ==
  ASSUME TypeOK, JobInv, HandedOver,
         FinishReport \/ \E s \in Satellite : SendReport(s) \/ ReceiveAck(s)
  PROVE  HandedOver' /\ Quiet
<1> USE DEF docVars, masterVars, linkVars, satVars, historyVars
<1>0. /\ pool \in Seq(Job)
      /\ row \in [Satellite -> [Recipient -> Row \cup {NoRow}]]
      /\ ack \in [Satellite -> {"none", "first", "behind"}]
      /\ acked \in [Satellite -> SUBSET Recipient]
      /\ \A x \in Satellite : asked[x] \subseteq Recipient /\ lost[x] \subseteq Recipient
  BY DEF TypeOK, MasterOK, LinksOK, SatellitesOK
<1>00. \A n \in DOMAIN pool : pool[n] \in Job
  BY <1>0
<1>1. ASSUME FinishReport PROVE HandedOver' /\ Quiet
  <2>1. /\ pool # <<>> /\ Head(pool).todo = {} /\ pool' = Tail(pool)
        /\ UNCHANGED <<conn, booted, verify, zombies, selection, row, work, pages, asked,
                       lost, doc, aged>>
        /\ IF Head(pool).live
             THEN /\ ack' = [ack EXCEPT ![Head(pool).sat] =
                        IF asked[Head(pool).sat] = {} THEN "first" ELSE "behind"]
                  /\ acked' = [acked EXCEPT ![Head(pool).sat] = Head(pool).ok]
             ELSE UNCHANGED <<ack, acked>>
    BY <1>1 DEF FinishReport
  <2> PICK s, oks : s = Head(pool).sat /\ oks = Head(pool).ok
    OBVIOUS
  <2>2. Head(pool) = pool[1] /\ 1 \in DOMAIN pool /\ pool[1] \in Job /\ s \in Satellite
    <3>1. Head(pool) = pool[1] /\ 1 \in DOMAIN pool
      BY <1>0, <2>1
    <3> QED
      BY <1>00, <3>1 DEF Job
  <2>3. Head(pool).live = TRUE /\ \A x \in Satellite : Serves(x) <=> x = s
    BY <2>1, <2>2 DEF HandedOver, AllUp, Serves
  <2>4. /\ Todo(s) = {} /\ Oks(s) = oks /\ Todo(s)' = {} /\ Oks(s)' = {} /\ Busy(s)
        /\ \A x \in Satellite \ {s} : Todo(x)' = Todo(x) /\ Oks(x)' = Oks(x)
        /\ \A n \in DOMAIN pool' : n + 1 \in DOMAIN pool /\ pool'[n] = pool[n + 1]
    BY <2>1, <2>2, <2>3, JobIsDone DEF JobInv
  <2>5. /\ acked[s] = {} /\ acked'[s] = oks
        /\ \A x \in Satellite \ {s} : acked'[x] = acked[x] /\ ack'[x] = ack[x]
        /\ asked[s] # {} => ack'[s] = "behind"
    BY <1>0, <2>1, <2>2, <2>3, <2>4, UpFields
  <2>6. /\ \A x \in Satellite : Present(x)' = Present(x) /\ Unfinished(x)' = Unfinished(x)
        /\ \A x, r : /\ Paged(x, r)' <=> Paged(x, r)
                     /\ Done(x, r)' <=> Done(x, r)
                     /\ ClaimedBy(x, r)' <=> ClaimedBy(x, r)
    BY <2>1 DEF Present, Unfinished, Paged, Done, ClaimedBy
  <2>7. \A x \in Satellite, r \in Recipient : Answered(x, r)' <=> Answered(x, r)
    BY <2>4, <2>5 DEF Answered
  <2>8. \A x \in Satellite, r \in Recipient : Owed(x, r)' <=> Owed(x, r)
    BY <2>6, <2>7 DEF Owed
  <2>9. AllUp'
    BY <2>1, <2>4 DEF HandedOver, AllUp
  <2>10. RowsUp'
    BY <2>1, <2>6 DEF HandedOver, RowsUp
  <2>11. ReportsUp'
    <3>1. \A x \in Satellite : \A i \in Todo(x)' : i \in Todo(x) /\ Oks(x)' = Oks(x)
      BY <2>4
    <3>2. \A x \in Satellite : \A i \in Todo(x)' :
             /\ Done(x, i.rcpt)' /\ i.rcpt \notin Oks(x)'
             /\ i.deleg = row'[x][i.rcpt].deleg /\ i.status = row'[x][i.rcpt].status
      BY <2>1, <2>6, <3>1 DEF HandedOver, ReportsUp
    <3>3. \A x \in Satellite, r \in Recipient : Answered(x, r)' => Done(x, r)'
      BY <2>6, <2>7 DEF HandedOver, ReportsUp
    <3> QED
      BY <3>2, <3>3 DEF ReportsUp
  <2>12. PagesUp' /\ OwedClaimed'
    BY <2>1, <2>6, <2>8 DEF HandedOver, PagesUp, OwedClaimed
  <2>13. ChecksUp'
    BY <1>0, <2>1, <2>5, <2>6 DEF HandedOver, ChecksUp
  <2>14. Quiet
    BY <2>1, <2>6, <2>8 DEF Quiet, Idle, LeftAlone, Holds, Paged
  <2> QED
    BY <2>9, <2>10, <2>11, <2>12, <2>13, <2>14 DEF HandedOver
<1>2. ASSUME NEW s \in Satellite, SendReport(s) PROVE HandedOver' /\ Quiet
  <2>1. PICK batch \in SUBSET Reportable(s) :
          pool' = Append(pool,
            [sat |-> s, ok |-> {}, live |-> TRUE,
             todo |-> {ItemOf(RowToken(s, r), row[s][r].status) : r \in batch}])
    BY <1>2 DEF SendReport
  <2> DEFINE items == {ItemOf(RowToken(s, r), row[s][r].status) : r \in batch}
  <2>2. items \in SUBSET Item
    BY DEF Reportable, Present, TypeOK, SatellitesOK, ItemOf, RowToken, Row, Item
  <2>3. ~Busy(s) /\ ack[s] = "none" /\ conn[s]
    BY <1>2 DEF SendReport, Reporting, Busy, JobOf
  <2>4. UNCHANGED <<conn, booted, verify, zombies, selection, row, work, pages, asked,
                    lost, doc, aged, ack, acked>>
    BY <1>2 DEF SendReport
  <2>5. /\ Todo(s)' = items /\ Oks(s)' = {}
        /\ \A x \in Satellite \ {s} : Todo(x)' = Todo(x) /\ Oks(x)' = Oks(x)
        /\ \A n \in DOMAIN pool' : \/ n \in DOMAIN pool /\ pool'[n] = pool[n]
                                   \/ pool'[n].sat = s /\ pool'[n].live = TRUE
    BY <2>1, <2>2, <2>3, JobIsQueued DEF JobInv
  <2>6. /\ \A x \in Satellite : Present(x)' = Present(x) /\ Unfinished(x)' = Unfinished(x)
        /\ \A x, r : /\ Paged(x, r)' <=> Paged(x, r)
                     /\ Done(x, r)' <=> Done(x, r)
                     /\ ClaimedBy(x, r)' <=> ClaimedBy(x, r)
    BY <2>4 DEF Present, Unfinished, Paged, Done, ClaimedBy
  <2>7. /\ \A x \in Satellite : Oks(x)' = Oks(x)
        /\ \A x \in Satellite, r \in Recipient : Answered(x, r)' <=> Answered(x, r)
    BY <2>3, <2>4, <2>5, UpFields DEF Answered
  <2>8. \A x \in Satellite, r \in Recipient : Owed(x, r)' <=> Owed(x, r)
    BY <2>6, <2>7 DEF Owed
  <2>9. AllUp'
    BY <2>4, <2>5 DEF HandedOver, AllUp
  <2>10. RowsUp'
    BY <2>4, <2>6 DEF HandedOver, RowsUp
  <2>11. ReportsUp'
    <3>1. ASSUME NEW i \in items
          PROVE  /\ Done(s, i.rcpt) /\ i.deleg = row[s][i.rcpt].deleg
                 /\ i.status = row[s][i.rcpt].status
      <4>1. PICK r \in batch : i = ItemOf(RowToken(s, r), row[s][r].status)
        OBVIOUS
      <4>2. /\ i.rcpt = r /\ i.deleg = row[s][r].deleg /\ i.status = row[s][r].status
        BY <4>1 DEF ItemOf, RowToken
      <4>3. row[s][r].finished = TRUE /\ r \in Present(s)
        BY <1>0 DEF Reportable, Present, Row
      <4> QED
        BY <4>2, <4>3 DEF Done
    <3>2. ASSUME NEW x \in Satellite, NEW i \in Todo(x)'
          PROVE  /\ Done(x, i.rcpt)' /\ i.rcpt \notin Oks(x)'
                 /\ i.deleg = row'[x][i.rcpt].deleg /\ i.status = row'[x][i.rcpt].status
      <4>1. CASE x = s
        BY <2>4, <2>5, <2>6, <3>1, <3>2, <4>1
      <4>2. CASE x # s
        BY <2>4, <2>5, <2>6, <2>7, <3>2, <4>2 DEF HandedOver, ReportsUp
      <4> QED
        BY <4>1, <4>2
    <3>3. \A x \in Satellite, r \in Recipient : Answered(x, r)' => Done(x, r)'
      BY <2>6, <2>7 DEF HandedOver, ReportsUp
    <3> QED
      BY <3>2, <3>3 DEF ReportsUp
  <2>12. PagesUp' /\ OwedClaimed'
    BY <2>4, <2>6, <2>8 DEF HandedOver, PagesUp, OwedClaimed
  <2>13. ChecksUp'
    BY <1>0, <2>4, <2>6 DEF HandedOver, ChecksUp
  <2>14. Quiet
    BY <2>4, <2>6, <2>8 DEF Quiet, Idle, LeftAlone, Holds, Paged
  <2> QED
    BY <2>9, <2>10, <2>11, <2>12, <2>13, <2>14 DEF HandedOver
<1>3. ASSUME NEW s \in Satellite, ReceiveAck(s) PROVE HandedOver' /\ Quiet
  <2>1. /\ UNCHANGED <<conn, booted, verify, zombies, selection, pool, work, pages, asked,
                       lost, doc, aged>>
        /\ ack[s] = "first" /\ ack' = [ack EXCEPT ![s] = "none"]
        /\ acked' = [acked EXCEPT ![s] = {}]
    BY <1>3 DEF ReceiveAck
  <2>2. /\ \A r \in Recipient : row'[s][r] = IF r \in acked[s] THEN NoRow ELSE row[s][r]
        /\ \A x \in Satellite \ {s} : row'[x] = row[x]
    BY <1>0, <1>3 DEF ReceiveAck
  <2>3. Todo(s) = {} /\ Oks(s) = {} /\ \A x : Todo(x)' = Todo(x) /\ Oks(x)' = Oks(x)
    BY <2>1, UpFields, SamePool
  <2>4. \A r \in acked[s] : r \in Recipient /\ Done(s, r) /\ r \notin Unfinished(s)
    BY <1>0, UpFields DEF HandedOver, ReportsUp, Answered
  <2>5. /\ \A x \in Satellite \ {s} : Present(x)' = Present(x) /\ Unfinished(x)' = Unfinished(x)
        /\ Present(s)' = Present(s) \ acked[s] /\ Unfinished(s)' = Unfinished(s)
    <3>1. ASSUME NEW x \in Satellite \ {s}
          PROVE  Present(x)' = Present(x) /\ Unfinished(x)' = Unfinished(x)
      BY <2>2 DEF Present, Unfinished
    <3>2. Present(s)' = Present(s) \ acked[s]
      BY <2>2 DEF Present
    <3>3. Unfinished(s)' = Unfinished(s)
      <4>1. \A r \in Present(s) \ acked[s] : row'[s][r] = row[s][r]
        BY <2>2 DEF Present
      <4>2. Unfinished(s)' = {r \in Present(s) \ acked[s] : ~row'[s][r].finished}
        BY <3>2 DEF Unfinished
      <4>3. Unfinished(s) \cap acked[s] = {}
        BY <2>4
      <4> QED
        BY <4>1, <4>2, <4>3 DEF Unfinished
    <3> QED
      BY <3>1, <3>2, <3>3
  <2>6. \A x \in Satellite, r \in Recipient :
          /\ Paged(x, r)' <=> Paged(x, r)
          /\ ClaimedBy(x, r)' <=> ClaimedBy(x, r)
          /\ Answered(x, r)' <=> Answered(x, r) /\ x # s
          /\ Done(x, r)' <=> Done(x, r) /\ ~(x = s /\ r \in acked[s])
    <3>1. \A x \in Satellite, r \in Recipient :
            /\ Paged(x, r)' <=> Paged(x, r)
            /\ ClaimedBy(x, r)' <=> ClaimedBy(x, r)
      BY <2>1 DEF Paged, ClaimedBy
    <3>2. \A x \in Satellite, r \in Recipient : Answered(x, r)' <=> Answered(x, r) /\ x # s
      BY <1>0, <2>1, <2>3 DEF Answered
    <3>3. \A x \in Satellite, r \in Recipient :
            Done(x, r)' <=> Done(x, r) /\ ~(x = s /\ r \in acked[s])
      BY <2>2, <2>5 DEF Done
    <3> QED
      BY <3>1, <3>2, <3>3
  <2>7. \A x \in Satellite, r \in Recipient : Owed(x, r)' <=> Owed(x, r)
    BY <1>0, <2>3, <2>5, <2>6 DEF Owed, Answered
  <2>8. AllUp'
    <3>1. \A x \in Satellite, r \in Recipient : row[x][r] = NoRow => row'[x][r] = NoRow
      BY <2>2
    <3> QED
      BY <2>1, <3>1 DEF HandedOver, AllUp
  <2>9. RowsUp'
    <3>1. \A x \in Satellite, r \in Recipient : row'[x][r].status # "UNVERIFIED"
      BY <2>2 DEF HandedOver, RowsUp, NoRow
    <3>2. \A x \in Satellite : \A r \in Unfinished(x) : row'[x][r] = row[x][r]
      BY <2>2, <2>4 DEF Unfinished, Present
    <3> QED
      BY <2>1, <2>5, <3>1, <3>2 DEF HandedOver, RowsUp
  <2>10. ReportsUp'
    <3>1. ASSUME NEW x \in Satellite, NEW i \in Todo(x)'
          PROVE  /\ Done(x, i.rcpt)' /\ i.rcpt \notin Oks(x)'
                 /\ i.deleg = row'[x][i.rcpt].deleg /\ i.status = row'[x][i.rcpt].status
      <4>1. x # s /\ i \in Todo(x) /\ row'[x] = row[x]
        BY <2>2, <2>3, <3>1
      <4>2. /\ Done(x, i.rcpt) /\ i.rcpt \notin Oks(x)
            /\ i.deleg = row[x][i.rcpt].deleg /\ i.status = row[x][i.rcpt].status
        BY <4>1 DEF HandedOver, ReportsUp
      <4>3. i.rcpt \in Recipient
        BY <4>2 DEF Done, Present
      <4> QED
        BY <2>3, <2>6, <4>1, <4>2, <4>3
    <3>2. \A x \in Satellite, r \in Recipient : Answered(x, r)' => Done(x, r)'
      BY <2>6 DEF HandedOver, ReportsUp
    <3> QED
      BY <3>1, <3>2 DEF ReportsUp
  <2>11. PagesUp' /\ OwedClaimed'
    BY <2>1, <2>6, <2>7 DEF HandedOver, PagesUp, OwedClaimed
  <2>12. ChecksUp'
    BY <1>0, <2>1, <2>5, <2>6 DEF HandedOver, ChecksUp
  <2>13. Quiet
    <3>1. \A x \in Satellite, r \in Recipient : Owed(x, r) => row'[x][r] = row[x][r]
      BY <2>2 DEF Owed, Answered
    <3> QED
      BY <2>5, <2>6, <2>7, <3>1 DEF Quiet, Idle, LeftAlone, Holds, Paged
  <2> QED
    BY <2>8, <2>9, <2>10, <2>11, <2>12, <2>13 DEF HandedOver
<1> QED
  BY <1>1, <1>2, <1>3

(* Recipients are claimed, checked and released: nobody holds those that   *)
(* are selected or lost.                                                   *)
LEMMA ClaimsGoOn ==
  ASSUME TypeOK, JobInv, HandedOver,
         Mark \/ CheckOrphans
           \/ \E s \in Satellite : Select(s) \/ AnswerCheck(s) \/ ReleaseOrphans(s)
  PROVE  HandedOver' /\ Quiet
<1> USE DEF docVars, masterVars, linkVars, satVars, historyVars
<1>0. /\ doc \in [Recipient -> Document]
      /\ ack \in [Satellite -> {"none", "first", "behind"}]
      /\ pages \in [Satellite -> SUBSET SUBSET Token]
      /\ asked \in [Satellite -> SUBSET Recipient]
      /\ lost \in [Satellite -> SUBSET Recipient]
      /\ selection \subseteq Selection /\ aged \subseteq Recipient
      /\ conn \in [Satellite -> BOOLEAN]
  BY DEF TypeOK, DocsOK, MasterOK, LinksOK
<1>1. ASSUME UNCHANGED <<row, pool, acked, work>>
      PROVE  /\ \A x \in Satellite : Present(x)' = Present(x) /\ Unfinished(x)' = Unfinished(x)
             /\ \A x \in Satellite : Todo(x)' = Todo(x) /\ Oks(x)' = Oks(x)
             /\ \A x, r : /\ Done(x, r)' <=> Done(x, r)
                          /\ Answered(x, r)' <=> Answered(x, r)
                          /\ Owed(x, r)' <=> Owed(x, r)
             /\ RowsUp' /\ ReportsUp'
             /\ UNCHANGED pages => Quiet
  <2>1. \A x \in Satellite : Present(x)' = Present(x) /\ Unfinished(x)' = Unfinished(x)
    BY <1>1 DEF Present, Unfinished
  <2>2. \A x \in Satellite : Todo(x)' = Todo(x) /\ Oks(x)' = Oks(x)
    BY <1>1, SamePool
  <2>3. \A x, r : /\ Done(x, r)' <=> Done(x, r)
                  /\ Answered(x, r)' <=> Answered(x, r)
                  /\ Owed(x, r)' <=> Owed(x, r)
    BY <1>1, SamePool DEF Done, Answered, Owed, Present
  <2>4. RowsUp'
    BY <1>1, <2>1 DEF HandedOver, RowsUp
  <2>5. ReportsUp'
    BY <1>1, <2>2, <2>3 DEF HandedOver, ReportsUp
  <2>6. UNCHANGED pages => Quiet
    BY <1>1, <2>1, <2>3 DEF Quiet, Idle, LeftAlone, Holds
  <2> QED
    BY <2>1, <2>2, <2>3, <2>4, <2>5, <2>6
<1>2. ASSUME NEW s \in Satellite, Select(s) PROVE HandedOver' /\ Quiet
  <2>1. UNCHANGED <<row, pool, acked, work, conn, booted, verify, zombies, doc, aged, pages,
                    asked, lost, ack>>
    BY <1>2 DEF Select
  <2>2. \A sel \in selection' : sel.live = TRUE /\ \A r \in sel.batch : doc[r].inProgress = FALSE
    <3>1. \A r \in Eligible : doc[r].inProgress = FALSE
      BY <1>0 DEF Eligible, Document
    <3> QED
      BY <1>2, <3>1 DEF Select
  <2>3. AllUp'
    BY <2>1, <2>2 DEF HandedOver, AllUp
  <2>4. PagesUp' /\ OwedClaimed' /\ ChecksUp'
    BY <1>0, <1>1, <2>1 DEF HandedOver, PagesUp, OwedClaimed, ChecksUp, Paged, ClaimedBy
  <2> QED
    BY <1>1, <2>1, <2>3, <2>4 DEF HandedOver
<1>3. ASSUME Mark PROVE HandedOver' /\ Quiet
  <2>1. PICK sel \in selection : Marked(sel)
    BY <1>3 DEF Mark
  <2>2. /\ UNCHANGED <<row, pool, acked, work, conn, booted, verify, zombies, asked, lost, ack>>
        /\ selection' = {}
    BY <1>3 DEF Mark
  <2> PICK s, batch : s = sel.sat /\ batch = sel.batch
    OBVIOUS
  <2>3. /\ s \in Satellite /\ batch \subseteq Recipient /\ sel.live = TRUE /\ conn[s]
        /\ \A r \in batch : doc[r].inProgress = FALSE
    BY <1>0, <2>1 DEF Selection, HandedOver, AllUp, JobInv, SelectedLive
  <2>4. /\ pages' = [pages EXCEPT ![s] = @ \cup {PageOf(batch)}]
        /\ aged' = aged \ batch
        /\ \A r \in Recipient \ batch : doc'[r] = doc[r]
        /\ \A r \in batch : doc'[r].inProgress = TRUE /\ doc'[r].client = s
    <3>1. pages' = [pages EXCEPT ![s] = @ \cup {PageOf(batch)}]
      BY <2>1, <2>3 DEF Marked
    <3>2. /\ aged' = aged \ batch
          /\ doc' = [r \in Recipient |->
                      IF r \in batch
                        THEN [doc[r] EXCEPT !.inProgress = TRUE, !.client = s]
                        ELSE doc[r]]
      BY <2>1 DEF Marked
    <3>3. \A d \in Document : /\ [d EXCEPT !.inProgress = TRUE, !.client = s].inProgress = TRUE
                              /\ [d EXCEPT !.inProgress = TRUE, !.client = s].client = s
      BY DEF Document
    <3> QED
      BY <1>0, <2>3, <3>1, <3>2, <3>3
  <2>5. \A t \in PageOf(batch) : t.rcpt \in batch
    BY DEF PageOf
  <2>6. \A r \in batch : \E t \in PageOf(batch) : t.rcpt = r
    <3> TAKE r \in batch
    <3>1. [rcpt |-> r, deleg |-> delegated[r] + 1] \in PageOf(batch)
      BY DEF PageOf
    <3> QED
      BY <3>1
  <2>7. \A x \in Satellite, r \in Recipient : Paged(x, r)' <=> Paged(x, r) \/ (x = s /\ r \in batch)
    <3>1. \A x \in Satellite : pages'[x] = IF x = s THEN pages[s] \cup {PageOf(batch)} ELSE pages[x]
      BY <1>0, <2>3, <2>4
    <3> HIDE DEF PageOf
    <3> QED
      BY <2>5, <2>6, <3>1 DEF Paged
  <2>8. \A x \in Satellite, r \in batch : ~ClaimedBy(x, r)
    BY <2>3 DEF ClaimedBy
  <2>9. \A x \in Satellite, r \in batch : ~Owed(x, r) /\ ~Paged(x, r)
    BY <2>3, <2>8 DEF HandedOver, OwedClaimed, PagesUp
  <2>10. /\ \A x \in Satellite, r \in Recipient \ batch : ClaimedBy(x, r)' <=> ClaimedBy(x, r)
         /\ \A r \in batch : ClaimedBy(s, r)'
    BY <2>4 DEF ClaimedBy
  <2>11. AllUp'
    <3>1. ASSUME NEW x \in Satellite, ~conn[x]
          PROVE  \A r \in Recipient : row[x][r] = NoRow /\ doc'[r].client # x
      BY <2>3, <2>4, <3>1 DEF HandedOver, AllUp
    <3> QED
      BY <2>2, <3>1 DEF HandedOver, AllUp
  <2>12. PagesUp'
    <3>1. \A x \in Satellite, r \in Recipient :
            Paged(x, r)' => ClaimedBy(x, r)' /\ r \notin aged' /\ ~Owed(x, r)'
      BY <1>1, <2>2, <2>4, <2>7, <2>9, <2>10 DEF HandedOver, PagesUp
    <3>2. ASSUME NEW x \in Satellite, NEW p \in pages'[x], NEW q \in pages'[x],
                 NEW t \in p, NEW u \in q, t.rcpt = u.rcpt
          PROVE  p = q
      <4>1. /\ p \in pages[x] \/ (x = s /\ p = PageOf(batch))
            /\ q \in pages[x] \/ (x = s /\ q = PageOf(batch))
        BY <1>0, <2>3, <2>4
      <4>2. CASE p \in pages[x] /\ q \in pages[x]
        BY <3>2, <4>2 DEF HandedOver, PagesUp
      <4>3. CASE p \in pages[x] /\ x = s /\ q = PageOf(batch)
        <5>1. Paged(s, t.rcpt)
          BY <4>3 DEF Paged
        <5>2. t.rcpt \in batch
          BY <2>5, <3>2, <4>3
        <5> QED
          BY <2>3, <2>9, <5>1, <5>2
      <4>4. CASE q \in pages[x] /\ x = s /\ p = PageOf(batch)
        <5>1. Paged(s, u.rcpt)
          BY <4>4 DEF Paged
        <5>2. u.rcpt \in batch
          BY <2>5, <3>2, <4>4
        <5> QED
          BY <2>3, <2>9, <5>1, <5>2
      <4> QED
        BY <4>1, <4>2, <4>3, <4>4
    <3> QED
      BY <3>1, <3>2 DEF PagesUp
  <2>13. OwedClaimed'
    BY <1>1, <2>2, <2>9, <2>10 DEF HandedOver, OwedClaimed
  <2>14. ChecksUp'
    BY <1>0, <1>1, <2>2, <2>4, <2>8, <2>10 DEF HandedOver, ChecksUp
  <2>15. Quiet
    <3>1. \A x \in Satellite, r \in Recipient :
            Holds(x, r) <=> r \in Unfinished(x) \/ Paged(x, r)
      BY DEF Holds, Paged
    <3>2. \A x \in Satellite, r \in Recipient :
            Holds(x, r)' <=> r \in Unfinished(x)' \/ Paged(x, r)'
      BY DEF Holds, Paged
    <3> QED
      BY <1>1, <2>2, <2>7, <3>1, <3>2 DEF Quiet, Idle, LeftAlone
  <2> QED
    BY <1>1, <2>2, <2>11, <2>12, <2>13, <2>14, <2>15 DEF HandedOver
<1>4. ASSUME CheckOrphans PROVE HandedOver' /\ Quiet
  <2>1. /\ UNCHANGED <<row, pool, acked, work, conn, booted, verify, zombies, selection, doc,
                       aged, pages, ack>>
        /\ asked' = [x \in Satellite |-> IF conn[x] THEN Orphans(x) ELSE {}]
        /\ lost' = [x \in Satellite |-> Unasked(x)]
    BY <1>4 DEF CheckOrphans
  <2>2. /\ \A x \in Satellite : ~conn[x] => Orphans(x) = {}
        /\ \A x \in Satellite : \A r \in Orphans(x) : ClaimedBy(x, r) /\ r \in aged
    BY <1>0 DEF Orphans, ClaimedBy, HandedOver, AllUp, Document
  <2>3. \A x \in Satellite : lost'[x] = {} /\ asked'[x] \subseteq Orphans(x)
    BY <2>1, <2>2 DEF Unasked
  <2>4. AllUp'
    BY <2>1 DEF HandedOver, AllUp
  <2>5. PagesUp' /\ OwedClaimed'
    BY <1>1, <2>1 DEF HandedOver, PagesUp, OwedClaimed, Paged, ClaimedBy
  <2>6. ChecksUp'
    BY <2>1, <2>2, <2>3 DEF ChecksUp, ClaimedBy
  <2> QED
    BY <1>1, <2>1, <2>4, <2>5, <2>6 DEF HandedOver
<1>5. ASSUME NEW s \in Satellite, AnswerCheck(s) PROVE HandedOver' /\ Quiet
  <2>1. /\ UNCHANGED <<row, pool, acked, work, conn, booted, verify, zombies, selection, doc,
                       aged, pages>>
        /\ asked' = [asked EXCEPT ![s] = {}]
        /\ lost' = [lost EXCEPT ![s] = asked[s] \ Present(s)]
        /\ ack' = [ack EXCEPT ![s] = IF @ = "behind" THEN "first" ELSE @]
    BY <1>5 DEF AnswerCheck
  <2>2. AllUp'
    BY <2>1 DEF HandedOver, AllUp
  <2>3. PagesUp' /\ OwedClaimed'
    BY <1>1, <2>1 DEF HandedOver, PagesUp, OwedClaimed, Paged, ClaimedBy
  <2>4. ChecksUp'
    <3>1. \A x, r : ClaimedBy(x, r)' <=> ClaimedBy(x, r)
      BY <2>1 DEF ClaimedBy
    <3>2. /\ asked'[s] = {} /\ lost'[s] = asked[s] \ Present(s)
          /\ \A x \in Satellite \ {s} : asked'[x] = asked[x] /\ lost'[x] = lost[x]
                                        /\ ack'[x] = ack[x]
      BY <1>0, <2>1
    <3> QED
      BY <1>0, <1>1, <2>1, <3>1, <3>2 DEF HandedOver, ChecksUp
  <2> QED
    BY <1>1, <2>1, <2>2, <2>3, <2>4 DEF HandedOver
<1>6. ASSUME NEW s \in Satellite, ReleaseOrphans(s) PROVE HandedOver' /\ Quiet
  <2>1. /\ UNCHANGED <<row, pool, acked, work, conn, booted, verify, zombies, selection,
                       aged, pages, asked, ack>>
        /\ lost[s] # {} /\ lost' = [lost EXCEPT ![s] = {}]
        /\ doc' = [r \in Recipient |->
                    IF r \in lost[s] THEN [doc[r] EXCEPT !.inProgress = FALSE]
                                     ELSE doc[r]]
    BY <1>6 DEF ReleaseOrphans
  <2>2. \A r \in lost[s] : r \in Recipient /\ ClaimedBy(s, r) /\ r \in aged /\ r \notin Present(s)
    BY <1>0 DEF HandedOver, ChecksUp
  <2>3. /\ \A r \in Recipient : doc'[r].client = doc[r].client
        /\ \A r \in lost[s] : doc'[r].inProgress = FALSE
        /\ \A r \in Recipient \ lost[s] : doc'[r] = doc[r]
    BY <1>0, <2>1, <2>2 DEF Document
  <2>4. \A x \in Satellite, r \in Recipient : ClaimedBy(x, r)' <=> ClaimedBy(x, r) /\ r \notin lost[s]
    BY <2>3 DEF ClaimedBy
  <2>5. \A x \in Satellite, r \in lost[s] : ClaimedBy(x, r) => x = s
    BY <2>2 DEF ClaimedBy
  <2>6. \A x \in Satellite, r \in lost[s] : ~Owed(x, r) /\ ~Paged(x, r)
    BY <2>2, <2>5 DEF HandedOver, OwedClaimed, PagesUp, Owed
  <2>7. AllUp'
    <3>1. \A r \in Recipient : doc[r].inProgress = FALSE => doc'[r].inProgress = FALSE
      BY <2>3
    <3>2. \A sel \in selection : sel.batch \subseteq Recipient
      BY <1>0 DEF Selection
    <3> QED
      BY <2>1, <2>3, <3>1, <3>2 DEF HandedOver, AllUp
  <2>8. \A x, r : Paged(x, r)' <=> Paged(x, r)
    BY <2>1 DEF Paged
  <2>9. PagesUp' /\ OwedClaimed'
    BY <1>1, <2>1, <2>4, <2>6, <2>8 DEF HandedOver, PagesUp, OwedClaimed
  <2>10. ChecksUp'
    <3>1. asked[s] = {} /\ lost'[s] = {} /\ \A x \in Satellite \ {s} : lost'[x] = lost[x]
      BY <1>0, <2>1 DEF HandedOver, ChecksUp
    <3> QED
      BY <1>0, <1>1, <2>1, <2>4, <2>5, <3>1 DEF HandedOver, ChecksUp
  <2> QED
    BY <1>1, <2>1, <2>7, <2>9, <2>10 DEF HandedOver
<1> QED
  BY <1>2, <1>3, <1>4, <1>5, <1>6

(* A satellite comes, with nothing yet, and gets what is its own.          *)
LEMMA ArrivalsGoOn ==
  ASSUME TypeOK, JobInv, HandedOver, NEW s \in Satellite, Connect(s) \/ ReceivePage(s)
  PROVE  HandedOver' /\ Quiet
<1> USE DEF docVars, masterVars, linkVars, satVars, historyVars
<1>0. /\ row \in [Satellite -> [Recipient -> Row \cup {NoRow}]]
      /\ conn \in [Satellite -> BOOLEAN] /\ booted \in [Satellite -> BOOLEAN]
      /\ verify \in [Satellite -> {"idle", "asked", "answered"}]
      /\ pages \in [Satellite -> SUBSET SUBSET Token]
      /\ \A x \in Satellite : asked[x] \subseteq Recipient /\ lost[x] \subseteq Recipient
      /\ \A sel \in selection : sel.batch \subseteq Recipient
  BY DEF TypeOK, LinksOK, SatellitesOK, MasterOK, Selection
<1>1. ASSUME Connect(s) PROVE HandedOver' /\ Quiet
  <2>1. /\ UNCHANGED <<doc, aged, selection, pool, lost, pages, asked, ack, acked, work, zombies>>
        /\ ~conn[s] /\ conn' = [conn EXCEPT ![s] = TRUE] /\ booted' = [booted EXCEPT ![s] = TRUE]
        /\ verify' = [verify EXCEPT ![s] =
                       IF \E r \in Recipient : row'[s][r].status = "UNVERIFIED"
                         THEN "asked" ELSE "idle"]
    BY <1>1 DEF Connect
  <2>2. ~booted[s] /\ \A r \in Recipient : row[s][r] = NoRow
    BY <2>1 DEF HandedOver, AllUp
  <2>3. \A x \in Satellite, r \in Recipient : row'[x][r] = row[x][r]
    <3>1. row' = [row EXCEPT ![s] = [r \in Recipient |-> Invalidated(row[s][r])]]
      BY <1>1, <2>2 DEF Connect
    <3>2. Invalidated(NoRow) = NoRow
      BY DEF Invalidated
    <3> HIDE DEF Invalidated
    <3> QED
      BY <1>0, <2>2, <3>1, <3>2
  <2>4. verify'[s] = "idle"
    <3>1. \A r \in Recipient : row'[s][r].status # "UNVERIFIED"
      BY <2>2, <2>3 DEF NoRow
    <3> QED
      BY <1>0, <2>1, <3>1
  <2>5. AllUp'
    <3>1. conn'[s] /\ booted'[s] /\ zombies[s] = {}
      BY <1>0, <2>1 DEF HandedOver, AllUp
    <3>2. ASSUME NEW x \in Satellite \ {s}
          PROVE  /\ conn'[x] = conn[x] /\ booted'[x] = booted[x] /\ verify'[x] = verify[x]
                 /\ zombies'[x] = zombies[x]
      BY <1>0, <2>1
    <3>3. ASSUME NEW x \in Satellite
          PROVE  /\ conn'[x] = booted'[x] /\ verify'[x] = "idle" /\ zombies'[x] = {}
                 /\ ~conn'[x] => \A r \in Recipient : row'[x][r] = NoRow /\ doc'[r].client # x
      <4>1. CASE x = s
        BY <1>0, <2>1, <2>4, <3>1, <4>1
      <4>2. CASE x # s
        BY <2>1, <2>3, <3>2, <4>2 DEF HandedOver, AllUp
      <4> QED
        BY <4>1, <4>2
    <3>4. /\ \A n \in DOMAIN pool' : pool'[n].live = TRUE
          /\ \A sel \in selection' :
               sel.live = TRUE /\ \A r \in sel.batch : doc'[r].inProgress = FALSE
      BY <2>1 DEF HandedOver, AllUp
    <3> QED
      BY <3>3, <3>4 DEF AllUp
  <2>6. \A x \in Satellite : Present(x)' = Present(x) /\ Unfinished(x)' = Unfinished(x)
    BY <2>3 DEF Present, Unfinished
  <2>7. \A x \in Satellite, r \in Recipient :
          /\ Answered(x, r)' <=> Answered(x, r)
          /\ Done(x, r)' <=> Done(x, r)
          /\ Paged(x, r)' <=> Paged(x, r)
          /\ ClaimedBy(x, r)' <=> ClaimedBy(x, r)
          /\ Owed(x, r)' <=> Owed(x, r)
    BY <2>1, <2>3, <2>6, SamePool DEF Answered, Done, Paged, ClaimedBy, Owed
  <2>8. RowsUp'
    <3>1. \A x \in Satellite : Unfinished(x) \subseteq Recipient
      BY DEF Unfinished, Present
    <3> QED
      BY <2>1, <2>3, <2>6, <3>1 DEF HandedOver, RowsUp
  <2>9. ReportsUp'
    <3>1. \A x \in Satellite : \A i \in Todo(x) : i.rcpt \in Recipient
      BY DEF HandedOver, ReportsUp, Done, Present
    <3> QED
      BY <2>1, <2>3, <2>7, <3>1, SamePool DEF HandedOver, ReportsUp
  <2>10. PagesUp' /\ OwedClaimed'
    BY <2>1, <2>7 DEF HandedOver, PagesUp, OwedClaimed
  <2>11. ChecksUp'
    BY <1>0, <2>1, <2>6, <2>7 DEF HandedOver, ChecksUp
  <2>12. Quiet
    BY <2>3, <2>6, <2>7 DEF Quiet, Idle, LeftAlone, Holds, Paged
  <2> QED
    BY <2>5, <2>8, <2>9, <2>10, <2>11, <2>12 DEF HandedOver
<1>2. ASSUME ReceivePage(s) PROVE HandedOver' /\ Quiet
  <2>1. PICK p \in pages[s] :
       /\ row' = [row EXCEPT ![s] = [r \in Recipient |->
            IF row[s][r] = NoRow /\ \E t \in p : t.rcpt = r
              THEN [status |-> "READY", inProgress |-> FALSE,
                    finished |-> FALSE,
                    deleg |-> (CHOOSE t \in p : t.rcpt = r).deleg]
              ELSE row[s][r]]]
       /\ pages' = [pages EXCEPT ![s] = @ \ {p}]
    BY <1>2 DEF ReceivePage
  <2>2. UNCHANGED <<doc, aged, selection, pool, lost, conn, booted, verify, asked, ack, acked,
                    work, zombies>>
    BY <1>2 DEF ReceivePage
  <2> DEFINE Fresh(r) == row[s][r] = NoRow /\ \E t \in p : t.rcpt = r
  <2>3. /\ \A r \in Recipient : Fresh(r) =>
             /\ row'[s][r].status = "READY" /\ row'[s][r].finished = FALSE
             /\ row'[s][r] # NoRow
        /\ \A r \in Recipient : ~Fresh(r) => row'[s][r] = row[s][r]
        /\ \A x \in Satellite \ {s} : row'[x] = row[x]
    BY <1>0, <2>1 DEF NoRow
  <2>4. /\ \A r \in Recipient : Fresh(r) => r \notin Present(s) /\ Paged(s, r)
        /\ \A r \in Recipient : Fresh(r) => ~Paged(s, r)'
    <3>1. pages'[s] = pages[s] \ {p}
      BY <1>0, <2>1
    <3> QED
      BY <3>1 DEF Present, Paged, HandedOver, PagesUp
  <2>5. \A r \in Recipient : Fresh(r) => /\ ClaimedBy(s, r) /\ r \notin aged
                                         /\ ~Answered(s, r)
    BY <2>4 DEF HandedOver, PagesUp, ReportsUp, Done
  <2> HIDE DEF Fresh
  <2>6. /\ \A r \in Recipient : r \in Present(s)' <=> r \in Present(s) \/ Fresh(r)
        /\ \A r \in Recipient : r \in Unfinished(s)' <=> r \in Unfinished(s) \/ Fresh(r)
        /\ \A x \in Satellite \ {s} : Present(x)' = Present(x) /\ Unfinished(x)' = Unfinished(x)
    <3>1. \A r \in Recipient : r \in Present(s)' <=> r \in Present(s) \/ Fresh(r)
      BY <2>3 DEF Present
    <3>2. \A r \in Recipient : r \in Unfinished(s)' <=> r \in Unfinished(s) \/ Fresh(r)
      BY <2>3, <2>4, <3>1 DEF Unfinished
    <3>3. \A x \in Satellite \ {s} : Present(x)' = Present(x) /\ Unfinished(x)' = Unfinished(x)
      BY <2>3 DEF Present, Unfinished
    <3> QED
      BY <3>1, <3>2, <3>3
  <2>7. \A x \in Satellite, r \in Recipient :
          /\ Answered(x, r)' <=> Answered(x, r)
          /\ Done(x, r)' <=> Done(x, r)
          /\ Paged(x, r)' => Paged(x, r)
          /\ ClaimedBy(x, r)' <=> ClaimedBy(x, r)
          /\ Owed(x, r)' <=> Owed(x, r) \/ (x = s /\ Fresh(r))
    <3>1. \A x \in Satellite, r \in Recipient :
            /\ Answered(x, r)' <=> Answered(x, r)
            /\ Paged(x, r)' => Paged(x, r)
            /\ ClaimedBy(x, r)' <=> ClaimedBy(x, r)
      BY <1>0, <2>1, <2>2, SamePool DEF Answered, Paged, ClaimedBy
    <3>2. \A x \in Satellite, r \in Recipient : Done(x, r)' <=> Done(x, r)
      BY <2>3, <2>4, <2>6 DEF Done
    <3>3. \A x \in Satellite, r \in Recipient :
            Owed(x, r)' <=> Owed(x, r) \/ (x = s /\ Fresh(r))
      BY <2>5, <2>6, <3>1 DEF Owed
    <3> QED
      BY <3>1, <3>2, <3>3
  <2>8. AllUp'
    <3>1. conn[s]
      BY <2>1 DEF JobInv, LinkedOnly
    <3> QED
      BY <2>2, <2>3, <3>1 DEF HandedOver, AllUp
  <2>9. RowsUp'
    <3>1. \A x \in Satellite, r \in Recipient : row'[x][r].status # "UNVERIFIED"
      BY <2>3 DEF HandedOver, RowsUp
    <3>2. \A x \in Satellite : \A r \in Unfinished(x) :
            r \in Recipient /\ row'[x][r] = row[x][r] /\ r \in Unfinished(x)'
      BY <2>3, <2>4, <2>6 DEF Unfinished, Present
    <3> QED
      BY <2>2, <3>1, <3>2 DEF HandedOver, RowsUp
  <2>10. ReportsUp'
    <3>1. \A x \in Satellite : \A i \in Todo(x) :
            i.rcpt \in Recipient /\ row'[x][i.rcpt] = row[x][i.rcpt]
      BY <2>3, <2>4 DEF HandedOver, ReportsUp, Done, Present
    <3> QED
      BY <2>2, <2>7, <3>1, SamePool DEF HandedOver, ReportsUp
  <2>11. PagesUp'
    <3>1. \A x \in Satellite : pages'[x] \subseteq pages[x]
      BY <1>0, <2>1
    <3> QED
      BY <2>2, <2>4, <2>7, <3>1 DEF HandedOver, PagesUp
  <2>12. OwedClaimed'
    BY <2>5, <2>7 DEF HandedOver, OwedClaimed
  <2>13. ChecksUp'
    <3>1. \A r \in lost[s] : ~Fresh(r)
      BY <1>0, <2>5 DEF HandedOver, ChecksUp
    <3> QED
      BY <1>0, <2>2, <2>6, <2>7, <3>1 DEF HandedOver, ChecksUp
  <2>14. Quiet
    <3>1. \A x \in Satellite, r \in Recipient :
            Holds(x, r) <=> r \in Unfinished(x) \/ Paged(x, r)
      BY DEF Holds, Paged
    <3>2. \A x \in Satellite, r \in Recipient :
            Holds(x, r)' <=> r \in Unfinished(x)' \/ Paged(x, r)'
      BY DEF Holds, Paged
    <3>3. \A r \in Recipient : Idle(r) => ~Fresh(r)
      BY <2>4, <3>1 DEF Idle
    <3> QED
      BY <2>3, <2>6, <2>7, <3>1, <3>2, <3>3 DEF Quiet, Idle, LeftAlone
  <2> QED
    BY <2>8, <2>9, <2>10, <2>11, <2>12, <2>13, <2>14 DEF HandedOver
<1> QED
  BY <1>1, <1>2

LEMMA StoringGoesOn ==
  ASSUME TypeOK, JobInv, HandedOver, StoreReport \/ FailToStore
  PROVE  HandedOver' /\ (FailToStore => Quiet)
<1> USE DEF docVars, masterVars, linkVars, satVars, historyVars
<1>0. /\ doc \in [Recipient -> Document] /\ \A g \in grabbed : g \in Grabbed
      /\ \A g \in grabbed : g.item.rcpt \in Recipient
  BY DEF TypeOK, DocsOK, MasterOK, Grabbed, Item
<1>1. ASSUME StoreReport PROVE HandedOver'
  <2>1. PICK g \in grabbed : Stored(g)
    BY <1>1 DEF StoreReport
  <2>2. UNCHANGED <<conn, booted, verify, zombies, selection, pages, asked, lost,
                    ack, acked, aged, row, work>>
    BY <1>1 DEF StoreReport
  <2> PICK rc, d : rc = g.item.rcpt /\ d = Updated(g.doc, g.item.status, Head(pool).sat)
    OBVIOUS
  <2>3. d.inProgress = FALSE /\ d.client = Head(pool).sat
    BY <1>0 DEF Updated, Grabbed, Document
  <2>4. UNCHANGED doc \/ doc' = [doc EXCEPT ![rc] = d]
    BY <2>1 DEF Stored
  <2>5. /\ \A r \in Recipient \ {rc} : doc'[r] = doc[r]
        /\ UNCHANGED doc \/ (doc'[rc].inProgress = FALSE /\ doc'[rc].client = Head(pool).sat)
    BY <1>0, <2>3, <2>4
  <2>6. Handled(g.item, {rc})
    BY <2>1 DEF Stored
  <2> QED
    BY <2>2, <2>5, <2>6, ReportGoesOn
<1>2. ASSUME FailToStore PROVE HandedOver' /\ Quiet
  <2>1. PICK g \in grabbed : Handled(g.item, {})
    BY <1>2 DEF FailToStore
  <2>2. UNCHANGED <<conn, booted, verify, zombies, selection, pages, asked, lost,
                    ack, acked, aged, row, work, doc>>
    BY <1>2 DEF FailToStore
  <2> QED
    BY <2>1, <2>2, ReportGoesOn DEF Quiet
<1> QED
  BY <1>1, <1>2

LEMMA HandedOn ==
  ASSUME TypeOK, JobInv, NotSentInv, HandedOver, [Next]_vars,
         ~Spend("stop"), ~Spend("drop"), ~Spend("zombie")
  PROVE  HandedOver' /\ (Quiet \/ StoreReport)
<1> USE DEF docVars, masterVars, linkVars, satVars, historyVars
<1> DEFINE Goal == HandedOver' /\ (Quiet \/ StoreReport)
<1>2. /\ \A s \in Satellite : verify[s] = "idle" /\ zombies[s] = {}
      /\ \A sel \in selection : sel.batch \subseteq Recipient
      /\ \A s \in Satellite : asked[s] \subseteq Recipient /\ lost[s] \subseteq Recipient
      /\ doc \in [Recipient -> Document]
  BY DEF HandedOver, AllUp, TypeOK, DocsOK, MasterOK, LinksOK, Selection
<1> DEFINE Fixed == <<conn, booted, verify, zombies, selection, pool, row, work,
                      pages, asked, lost, ack, acked>>
<1>3. ASSUME UNCHANGED Fixed, UNCHANGED <<doc, aged>> PROVE Goal
  BY <1>2, <1>3, ClaimsStay
<1>4. ASSUME NEW r \in Recipient, GrowOld(r) PROVE Goal
  <2>1. UNCHANGED Fixed /\ UNCHANGED doc /\ aged' = aged \cup {r}
    BY <1>4 DEF GrowOld
  <2>2. \A s \in Satellite : ~Paged(s, r)
    BY <1>4 DEF GrowOld, Paged
  <2> QED
    BY <1>2, <2>1, <2>2, ClaimsStay
<1>5. ASSUME NEW r \in Recipient, BecomeDue(r) \/ StoreDsn(r) \/ Reset(r) PROVE Goal
  <2>1. UNCHANGED Fixed /\ UNCHANGED aged
    BY <1>5 DEF BecomeDue, StoreDsn, Reset
  <2>2. \A q \in Recipient : doc'[q].inProgress = doc[q].inProgress
                             /\ doc'[q].client = doc[q].client
    <3>1. CASE BecomeDue(r)
      BY <1>2, <3>1 DEF BecomeDue, Document
    <3>2. CASE Reset(r)
      BY <1>2, <3>2 DEF Reset, Document
    <3>3. CASE StoreDsn(r)
      BY <1>2, <3>3 DEF StoreDsn, Document
    <3> QED
      BY <1>5, <3>1, <3>2, <3>3
  <2> QED
    BY <1>2, <2>1, <2>2, ClaimsStay
<1>6. ASSUME Grab \/ UNCHANGED vars PROVE Goal
  BY <1>3, <1>6 DEF Grab, vars, stateVars
<1>7. ASSUME MasterNext PROVE Goal
  <2>1. ~RestartMaster
    BY DEF RestartMaster
  <2>2. \A s \in Satellite : ~AnswerVerify(s)
    BY <1>2 DEF AnswerVerify
  <2>3. ASSUME Mark \/ CheckOrphans
                 \/ \E s \in Satellite : Select(s) \/ AnswerCheck(s) \/ ReleaseOrphans(s)
        PROVE  Goal
    BY <2>3, ClaimsGoOn
  <2>4. ASSUME StoreReport \/ FailToStore PROVE Goal
    BY <2>4, StoringGoesOn
  <2>5. ASSUME FinishReport PROVE Goal
    BY <2>5, ReportsGoOn
  <2> HIDE DEF docVars, masterVars, linkVars, satVars, historyVars, Goal
  <2> QED
    BY <1>4, <1>5, <1>6, <1>7, <2>1, <2>2, <2>3, <2>4, <2>5 DEF MasterNext
<1>8. ASSUME NEW s \in Satellite, SatelliteNext(s) PROVE Goal
  <2>1. ~Disconnect(s) /\ ~StopSatellite(s) /\ ~ApplyVerify(s)
    BY <1>2 DEF Disconnect, StopSatellite, ApplyVerify
  <2>2. /\ \A t \in zombies[s] : FALSE
        /\ \A t, o : ~GiveUp(s, t, o)
    BY <1>2 DEF GiveUp
  <2>3. ASSUME Connect(s) \/ ReceivePage(s) PROVE Goal
    BY <2>3, ArrivalsGoOn
  <2>4. ASSUME SendReport(s) \/ ReceiveAck(s) PROVE Goal
    BY <2>4, ReportsGoOn
  <2>5. ASSUME \/ \E r \in Recipient : StartSending(s, r) \/ RefuseDomain(s, r)
               \/ \E t \in work[s] : CustomizerFails(s, t) \/ \E o \in Outcome : EndSending(s, t, o)
        PROVE  Goal
    BY <2>5, SendingGoesOn
  <2> HIDE DEF Goal
  <2> QED
    BY <1>8, <2>1, <2>2, <2>3, <2>4, <2>5 DEF SatelliteNext
<1> QED
  BY <1>6, <1>7, <1>8 DEF Next, Change

LEMMA SteadyGoesOn ==
  ASSUME TypeOK, Budgeted, [Next]_vars, Steady'
  PROVE  Steady /\ ~Spend("stop") /\ ~Spend("drop") /\ ~Spend("zombie")
<1>1. \A m \in {"stop", "drop", "zombie"} : m \in Mishap
  BY DEF Mishap
<1> QED
  BY <1>1, Unspent DEF Steady

LEMMA HandoversSteady == Spec => []SteadyInv
<1>1. Init => SteadyInv
  <2>1. Init => AllUp /\ RowsUp
    BY DelegationAssumption DEF Init, AllUp, RowsUp, NoRow
  <2>2. Init => /\ \A s \in Satellite, r \in Recipient : ~Answered(s, r) /\ ~Owed(s, r) /\ ~Paged(s, r)
                /\ \A s \in Satellite : Todo(s) = {}
    BY DEF Init, Answered, Owed, Paged, Present, Todo, Oks, JobsOf
  <2>3. Init => ReportsUp /\ PagesUp /\ OwedClaimed /\ ChecksUp
    BY <2>2 DEF Init, ReportsUp, PagesUp, OwedClaimed, ChecksUp
  <2> QED
    BY <2>1, <2>3 DEF SteadyInv, HandedOver
<1>2. TypeOK /\ JobInv /\ NotSentInv /\ Budgeted /\ SteadyInv /\ [Next]_vars => SteadyInv'
  BY SteadyGoesOn, HandedOn DEF SteadyInv
<1> QED
  BY <1>1, <1>2, Typing, JobsInOrder, NothingSentAgain, BudgetsKept, PTL DEF Spec

(* A recipient is in the hands of one satellite at most, the one that the  *)
(* master's claim names: _get_recipients selects nobody who is claimed, and*)
(* neither check_recipients_in_clients nor a report (_store_reports) frees *)
(* who is still at a satellite.                                            *)
THEOREM OneHolder == Spec => []SingleHolder
<1>1. TypeOK /\ JobInv /\ SteadyInv => SingleHolder
  <2> SUFFICES ASSUME TypeOK, JobInv, HandedOver,
                      NEW r \in Recipient, NEW s \in Satellite, NEW t \in Satellite,
                      Holds(s, r), Holds(t, r)
               PROVE  s = t
    BY DEF SteadyInv, SingleHolder
  <2>1. ASSUME NEW x \in Satellite, Holds(x, r) PROVE ClaimedBy(x, r)
    <3>1. CASE r \in Unfinished(x)
      <4>1. Owed(x, r)
        BY <3>1, UpFields DEF Owed, HandedOver, ReportsUp
      <4> QED
        BY <4>1 DEF HandedOver, OwedClaimed
    <3>2. CASE Paged(x, r)
      BY <3>2 DEF HandedOver, PagesUp
    <3> QED
      BY <2>1, <3>1, <3>2 DEF Holds, Paged
  <2> QED
    BY <2>1 DEF ClaimedBy
<1> QED
  BY <1>1, Typing, JobsInOrder, HandoversSteady, PTL

-----------------------------------------------------------------------------
(* Who is known to be mailed is in nobody's hands, and will not be selected:*)
(* either                                                                 *)
(* its satellite is still owed the answer to its success, or the master    *)
(* has heard of it.                                                        *)
DsnSeen == \A g \in grabbed : DsnFirst(g.doc) => doc[g.item.rcpt].status = "ERROR"

OverWhenKnown ==
  \A r \in Recipient : KnownMailed(r) =>
    /\ Idle(r)
    /\ \A s \in Satellite : Owed(s, r) => row[s][r].status = "FINISHED"
    /\ doc[r].status \in {"READY", "WARNING"} => \E s \in Satellite : Owed(s, r)

OnceInv == Steady /\ Unreset => DsnSeen /\ OverWhenKnown

(* Only a success adds to who is known to be mailed, and only a selection to what is *)
(* selected; a document may turn to ERROR.                                 *)
NoNewKnown == \A r \in Recipient : KnownMailed(r)' => KnownMailed(r)

LEMMA OnceFrame ==
  ASSUME TypeOK, DsnSeen, HandedOver, [Next]_vars,
         ~Spend("stop"), ~Spend("drop"), ~Spend("zombie"), ~Spend("reset")
  PROVE  \/ StoreReport
         \/ \E s \in Satellite : Select(s)
         \/ \E s \in Satellite : \E t \in work[s] : EndSending(s, t, "FINISHED")
         \/ /\ NoNewKnown /\ selection' \subseteq selection /\ DsnSeen'
            /\ \A r \in Recipient : doc'[r].status \in {doc[r].status, "ERROR"}
<1> USE DEF docVars, masterVars, linkVars, satVars, historyVars
<1>0. /\ doc \in [Recipient -> Document]
      /\ \A g \in grabbed : g.item.rcpt \in Recipient
      /\ \A i \in Item : i.rcpt \in Recipient
      /\ pool \in Seq(Job)
      /\ \A s \in Satellite : zombies[s] = {} /\ verify[s] = "idle"
      /\ \A s \in Satellite : lost[s] \subseteq Recipient
  BY DEF TypeOK, DocsOK, MasterOK, Grabbed, Item, HandedOver, AllUp
<1> DEFINE Calm0 == /\ NoNewKnown /\ selection' \subseteq selection /\ DsnSeen'
                    /\ \A r \in Recipient : doc'[r].status \in {doc[r].status, "ERROR"}
<1>1. ASSUME NoNewKnown, UNCHANGED doc, selection' \subseteq selection, grabbed' \subseteq grabbed
      PROVE  Calm0
  BY <1>0, <1>1 DEF DsnSeen
<1>2. ASSUME UNCHANGED <<recorded, selection, grabbed>>,
             \A r \in Recipient : doc'[r].status \in {doc[r].status, "ERROR"}
      PROVE  Calm0
  BY <1>0, <1>2 DEF DsnSeen, NoNewKnown, KnownMailed
<1>3. ASSUME NEW r \in Recipient, BecomeDue(r) \/ StoreDsn(r) \/ GrowOld(r) \/ Reset(r)
      PROVE  Calm0
  <2>1. UNCHANGED <<recorded, selection, grabbed>>
    BY <1>3 DEF BecomeDue, StoreDsn, GrowOld, Reset
  <2>2. \A q \in Recipient : doc'[q].status \in {doc[q].status, "ERROR"}
    <3>1. CASE BecomeDue(r)
      BY <1>0, <3>1 DEF BecomeDue, Document
    <3>2. CASE StoreDsn(r)
      BY <1>0, <3>2 DEF StoreDsn, Document
    <3>3. CASE GrowOld(r)
      BY <1>0, <3>3 DEF GrowOld, Document
    <3>4. CASE Reset(r)
      BY <3>4 DEF Reset
    <3> QED
      BY <1>3, <3>1, <3>2, <3>3, <3>4
  <2> QED
    BY <1>2, <2>1, <2>2
<1>4. ASSUME Mark PROVE Calm0
  <2>1. UNCHANGED <<recorded, grabbed>> /\ selection' = {}
    BY <1>4 DEF Mark
  <2>2. PICK sel \in selection : Marked(sel)
    BY <1>4 DEF Mark
  <2>3. \A q \in Recipient : doc'[q].status = doc[q].status
    BY <1>0, <2>2 DEF Marked, Document
  <2> QED
    BY <1>0, <2>1, <2>3 DEF DsnSeen, NoNewKnown, KnownMailed
<1>5. ASSUME NEW s \in Satellite, ReleaseOrphans(s) PROVE Calm0
  <2>1. UNCHANGED <<recorded, selection, grabbed>>
    BY <1>5 DEF ReleaseOrphans
  <2>2. \A q \in Recipient : doc'[q].status = doc[q].status
    BY <1>0, <1>5 DEF ReleaseOrphans, Document
  <2> QED
    BY <1>2, <2>1, <2>2
<1>6. ASSUME Grab PROVE Calm0
  <2>1. UNCHANGED <<recorded, selection, doc>>
    BY <1>6 DEF Grab
  <2>2. DsnSeen'
    BY <1>6, <2>1 DEF Grab, DsnSeen, DsnFirst
  <2> QED
    BY <1>0, <2>1, <2>2 DEF NoNewKnown, KnownMailed
<1>7. ASSUME FailToStore \/ FinishReport \/ CheckOrphans PROVE Calm0
  BY <1>1, <1>7 DEF FailToStore, FinishReport, CheckOrphans,
     NoNewKnown, KnownMailed
<1>8. ASSUME NEW s \in Satellite, AnswerCheck(s) \/ AnswerVerify(s) PROVE Calm0
  BY <1>1, <1>8 DEF AnswerCheck, AnswerVerify,
     NoNewKnown, KnownMailed
<1>9. ~RestartMaster
  BY DEF RestartMaster
<1>10. ASSUME NEW s \in Satellite, Connect(s) \/ ReceivePage(s) \/ SendReport(s) \/ ReceiveAck(s)
                                   \/ ApplyVerify(s)
       PROVE  Calm0
  BY <1>1, <1>10 DEF Connect, ReceivePage, SendReport, ReceiveAck, ApplyVerify,
     NoNewKnown, KnownMailed
<1>11. ASSUME NEW s \in Satellite, NEW r \in Recipient, StartSending(s, r) \/ RefuseDomain(s, r)
       PROVE  Calm0
  <2>1. NoNewKnown
    BY <1>11 DEF StartSending, RefuseDomain, ItemOf, NoNewKnown, KnownMailed
  <2> QED
    BY <1>1, <1>11, <2>1 DEF StartSending, RefuseDomain
<1>12. ASSUME NEW s \in Satellite, NEW t, CustomizerFails(s, t)
       PROVE  Calm0
  BY <1>1, <1>12 DEF CustomizerFails,
     NoNewKnown, KnownMailed
<1>13. ASSUME NEW s \in Satellite, NEW t, NEW o, EndSending(s, t, o), o # "FINISHED"
       PROVE  Calm0
  <2>1. NoNewKnown
    BY <1>13 DEF EndSending, ItemOf, NoNewKnown, KnownMailed
  <2> QED
    BY <1>1, <1>13, <2>1 DEF EndSending
<1>14. \A s \in Satellite : /\ ~Disconnect(s) /\ ~StopSatellite(s)
                            /\ \A t, o : ~GiveUp(s, t, o)
                            /\ \A t : ~EndZombie(s, t)
  BY <1>0 DEF Disconnect, StopSatellite, GiveUp, EndZombie
<1>15. ASSUME UNCHANGED vars PROVE Calm0
  BY <1>1, <1>15 DEF vars, stateVars,
     NoNewKnown, KnownMailed
<1> HIDE DEF Calm0
<1>16. ASSUME MasterNext PROVE Calm0 \/ StoreReport \/ \E s \in Satellite : Select(s)
  BY <1>3, <1>4, <1>5, <1>6, <1>7, <1>8, <1>9, <1>16 DEF MasterNext
<1>17. ASSUME NEW s \in Satellite, SatelliteNext(s)
       PROVE  Calm0 \/ \E t \in work[s] : EndSending(s, t, "FINISHED")
  BY <1>10, <1>11, <1>12, <1>13, <1>14, <1>17 DEF SatelliteNext
<1>18. Calm0 \/ StoreReport \/ (\E s \in Satellite : Select(s))
         \/ \E s \in Satellite : \E t \in work[s] : EndSending(s, t, "FINISHED")
  BY <1>15, <1>16, <1>17 DEF Next, Change
<1> QED
  BY <1>18 DEF Calm0

LEMMA StoreEffects ==
  ASSUME TypeOK, JobInv, HandedOver, StoreReport
  PROVE  /\ UNCHANGED <<recorded, selection, row>> /\ grabbed' = {}
         /\ \E g \in grabbed : \E s \in Satellite :
              /\ \A r \in Recipient \ {g.item.rcpt} :
                   doc'[r] = doc[r] /\ (Idle(r) => LeftAlone(r))
              /\ Owed(s, g.item.rcpt) /\ row[s][g.item.rcpt].status = g.item.status
              /\ \A x \in Satellite : ~Holds(x, g.item.rcpt) => ~Holds(x, g.item.rcpt)'
              /\ \A x \in Satellite, r \in Recipient : Owed(x, r)' => Owed(x, r)
              /\ doc'[g.item.rcpt].status = IF DsnFirst(g.doc) THEN doc[g.item.rcpt].status
                                            ELSE g.item.status
<1>0. /\ doc \in [Recipient -> Document] /\ \A g \in grabbed : g \in Grabbed
      /\ \A g \in grabbed : g.item.rcpt \in Recipient
      /\ pool \in Seq(Job)
      /\ grabbed # {} => pool # <<>>
  BY DEF TypeOK, DocsOK, MasterOK, Grabbed, Item
<1>1. PICK g \in grabbed : Stored(g)
  BY DEF StoreReport
<1>2. UNCHANGED <<conn, booted, verify, zombies, selection, pages, asked, lost,
                  ack, acked, aged, row, work, recorded>> /\ grabbed' = {}
  BY DEF StoreReport, linkVars, satVars
<1> PICK rc, d, s : /\ rc = g.item.rcpt /\ d = Updated(g.doc, g.item.status, Head(pool).sat)
                    /\ s = Head(pool).sat
  OBVIOUS
<1>3. d.inProgress = FALSE /\ d.client = s /\ d.status = g.item.status
  BY <1>0 DEF Updated, Grabbed, Document
<1>4. doc' = IF DsnFirst(g.doc) THEN doc ELSE [doc EXCEPT ![rc] = d]
  BY <1>1 DEF Stored
<1>5. /\ \A r \in Recipient \ {rc} : doc'[r] = doc[r]
      /\ UNCHANGED doc \/ (doc'[rc].inProgress = FALSE /\ doc'[rc].client = s)
      /\ doc'[rc].status = IF DsnFirst(g.doc) THEN doc[rc].status ELSE g.item.status
  BY <1>0, <1>3, <1>4
<1>6. Handled(g.item, {rc})
  BY <1>1 DEF Stored
<1>7. s \in Satellite
  <2>1. Head(pool) \in Job
    BY <1>0, <1>1
  <2> QED
    BY <2>1 DEF Job
<1>8. /\ \A r \in Recipient \ {rc} : Idle(r) => LeftAlone(r)
      /\ Owed(s, rc) /\ row[s][rc].status = g.item.status
      /\ \A x \in Satellite : ~Holds(x, rc) => ~Holds(x, rc)'
      /\ \A x \in Satellite, r \in Recipient : Owed(x, r)' => Owed(x, r)
  BY <1>2, <1>5, <1>6, ReportGoesOn
<1> QED
  BY <1>2, <1>5, <1>7, <1>8

LEMMA OnceStays ==
  ASSUME TypeOK, JobInv, NotSentInv, HandedOver, DsnSeen, OverWhenKnown,
         [Next]_vars,
         ~Spend("stop"), ~Spend("drop"), ~Spend("zombie"), ~Spend("reset")
  PROVE  DsnSeen' /\ OverWhenKnown'
<1> DEFINE Over(r) ==
      /\ Idle(r)'
      /\ \A s \in Satellite : Owed(s, r)' => row'[s][r].status = "FINISHED"
      /\ doc'[r].status \in {"READY", "WARNING"} => \E s \in Satellite : Owed(s, r)'
<1>0. /\ HandedOver' /\ (Quiet \/ StoreReport)
      /\ \A r \in Recipient, s \in Satellite : Owed(s, r) => ClaimedBy(s, r)
      /\ \A r \in Recipient, s \in Satellite : Holds(s, r) => ClaimedBy(s, r)
      /\ doc \in [Recipient -> Document]
  <2>1. HandedOver' /\ (Quiet \/ StoreReport)
    BY HandedOn
  <2>2. \A r \in Recipient, s \in Satellite : Owed(s, r) => ClaimedBy(s, r)
    BY DEF HandedOver, OwedClaimed
  <2>3. ASSUME NEW r \in Recipient, NEW s \in Satellite, Holds(s, r) PROVE ClaimedBy(s, r)
    <3>1. CASE r \in Unfinished(s)
      <4>1. Owed(s, r)
        BY <3>1, UpFields DEF Owed, HandedOver, ReportsUp
      <4> QED
        BY <2>2, <4>1
    <3>2. CASE Paged(s, r)
      BY <3>2 DEF HandedOver, PagesUp
    <3> QED
      BY <2>3, <3>1, <3>2 DEF Holds, Paged
  <2> QED
    BY <2>1, <2>2, <2>3 DEF TypeOK, DocsOK
<1>1. ASSUME NEW r \in Recipient, KnownMailed(r), LeftAlone(r),
             \A sel \in selection' : r \notin sel.batch,
             doc'[r].status \in {doc[r].status, "ERROR"}
      PROVE  Over(r)
  BY <1>1 DEF LeftAlone, OverWhenKnown, Idle
<1>2. ASSUME NoNewKnown, DsnSeen', \A r \in Recipient : KnownMailed(r) => Over(r)
      PROVE  DsnSeen' /\ OverWhenKnown'
  BY <1>2 DEF OverWhenKnown, NoNewKnown
<1> HIDE DEF Over
<1>3. ASSUME NoNewKnown, selection' \subseteq selection, DsnSeen', Quiet,
             \A r \in Recipient : doc'[r].status \in {doc[r].status, "ERROR"}
      PROVE  DsnSeen' /\ OverWhenKnown'
  <2>1. ASSUME NEW r \in Recipient, KnownMailed(r) PROVE Over(r)
    BY <1>1, <1>3, <2>1 DEF Quiet, OverWhenKnown, Idle
  <2> QED
    BY <1>2, <1>3, <2>1
<1>4. ASSUME NEW s \in Satellite, Select(s), Quiet
      PROVE  DsnSeen' /\ OverWhenKnown'
  <2>1. UNCHANGED <<recorded, doc, grabbed>>
    BY <1>4 DEF Select, docVars, historyVars
  <2>2. DsnSeen'
    BY <2>1 DEF DsnSeen
  <2>3. ASSUME NEW r \in Recipient, KnownMailed(r) PROVE Over(r)
    <3>1. r \notin Eligible
      BY <1>0, <2>3 DEF Eligible, OverWhenKnown, ClaimedBy
    <3>2. \A sel \in selection' : r \notin sel.batch
      BY <1>4, <3>1 DEF Select
    <3> QED
      BY <1>1, <1>4, <2>1, <2>3, <3>2 DEF Quiet, OverWhenKnown
  <2> QED
    BY <1>2, <2>1, <2>2, <2>3 DEF NoNewKnown, KnownMailed
<1>5. ASSUME StoreReport
      PROVE  DsnSeen' /\ OverWhenKnown'
  <2>1. UNCHANGED <<recorded, selection, row>> /\ grabbed' = {}
    BY <1>5, StoreEffects
  <2>2. PICK g \in grabbed, s \in Satellite :
              /\ \A r \in Recipient \ {g.item.rcpt} :
                   doc'[r] = doc[r] /\ (Idle(r) => LeftAlone(r))
              /\ Owed(s, g.item.rcpt) /\ row[s][g.item.rcpt].status = g.item.status
              /\ \A x \in Satellite : ~Holds(x, g.item.rcpt) => ~Holds(x, g.item.rcpt)'
              /\ \A x \in Satellite, r \in Recipient : Owed(x, r)' => Owed(x, r)
              /\ doc'[g.item.rcpt].status = IF DsnFirst(g.doc) THEN doc[g.item.rcpt].status
                                            ELSE g.item.status
    BY <1>5, StoreEffects
  <2>3. ASSUME NEW r \in Recipient, KnownMailed(r) PROVE Over(r)
    <3>1. CASE r # g.item.rcpt
      BY <1>1, <2>1, <2>2, <2>3, <3>1 DEF OverWhenKnown, Idle
    <3>2. CASE r = g.item.rcpt
      <4>1. /\ Idle(r) /\ \A x \in Satellite : Owed(x, r) => row[x][r].status = "FINISHED"
        BY <2>3 DEF OverWhenKnown
      <4>2. Idle(r)' /\ \A x \in Satellite : Owed(x, r)' => row'[x][r].status = "FINISHED"
        BY <2>1, <2>2, <3>2, <4>1 DEF Idle
      <4>3. g.item.status = "FINISHED"
        BY <2>2, <3>2, <4>1
      <4>4. doc'[r].status \notin {"READY", "WARNING"}
        BY <2>2, <3>2, <4>3 DEF DsnSeen
      <4> QED
        BY <4>2, <4>4 DEF Over
    <3> QED
      BY <3>1, <3>2
  <2>4. DsnSeen'
    BY <2>1 DEF DsnSeen
  <2> QED
    BY <1>2, <2>1, <2>3, <2>4 DEF NoNewKnown, KnownMailed
<1>6. ASSUME NEW s \in Satellite, NEW t \in work[s], EndSending(s, t, "FINISHED"), Quiet
      PROVE  DsnSeen' /\ OverWhenKnown'
  <2> PICK r : r = t.rcpt
    OBVIOUS
  <2>1. /\ UNCHANGED <<doc, grabbed, selection, pages, pool, acked>>
        /\ Save(s, r, Saved(t, "FINISHED", TRUE))
        /\ recorded' = recorded \cup {ItemOf(t, "FINISHED")}
    BY <1>6 DEF EndSending, docVars, masterVars, linkVars
  <2>2. r \in Recipient /\ r \in Unfinished(s) /\ Holds(s, r)
    BY DEF HandedOver, RowsUp, Holds, Unfinished, Present
  <2>3. ~KnownMailed(r) /\ ClaimedBy(s, r) /\ \A x \in Satellite : ClaimedBy(x, r) => x = s
    BY <1>0, <2>2 DEF OverWhenKnown, Idle, ClaimedBy
  <2>4. Owed(s, r)
    BY <2>2, UpFields DEF Owed, HandedOver, ReportsUp
  <2>5. /\ row'[s][r].status = "FINISHED" /\ row'[s][r].finished = TRUE
        /\ row'[s][r] # NoRow
        /\ \A x \in Satellite \ {s} : row'[x] = row[x]
    BY <2>1, <2>2 DEF TypeOK, SatellitesOK, Save, Saved, NoRow
  <2>6. ASSUME NEW x \in Satellite PROVE ~Holds(x, r)'
    <3>1. ~Paged(x, r)'
      <4>1. ~Paged(x, r)
        BY <2>2, <2>3, <2>4 DEF HandedOver, PagesUp
      <4> QED
        BY <2>1, <4>1 DEF Paged
    <3>2. r \notin Unfinished(x)'
      <4>1. CASE x = s
        BY <2>5, <4>1 DEF Unfinished
      <4>2. CASE x # s
        <5>1. r \notin Unfinished(x)
          BY <1>0, <2>2, <2>3, <4>2 DEF Holds
        <5> QED
          BY <2>5, <4>2, <5>1 DEF Unfinished, Present
      <4> QED
        BY <4>1, <4>2
    <3> QED
      BY <3>1, <3>2 DEF Holds, Paged
  <2>7. Over(r)
    <3>1. \A sel \in selection : r \notin sel.batch
      BY <2>3 DEF HandedOver, AllUp, ClaimedBy
    <3>2. Idle(r)'
      BY <2>1, <2>6, <3>1 DEF Idle
    <3>3. \A x \in Satellite : Owed(x, r)' => x = s
      <4>1. \A x \in Satellite : Owed(x, r)' => ClaimedBy(x, r)'
        BY <1>0, <2>2 DEF HandedOver, OwedClaimed
      <4>2. \A x \in Satellite : ClaimedBy(x, r)' => ClaimedBy(x, r)
        BY <2>1 DEF ClaimedBy
      <4> QED
        BY <2>3, <4>1, <4>2
    <3>4. Owed(s, r)'
      BY <2>1, <2>2, <2>4, <2>5, SamePool DEF Owed, Answered, Present
    <3> QED
      BY <2>5, <3>2, <3>3, <3>4 DEF Over
  <2>8. ASSUME NEW q \in Recipient, KnownMailed(q) PROVE Over(q)
    BY <1>1, <1>6, <2>1, <2>8 DEF Quiet, OverWhenKnown, Idle
  <2>9. \A q \in Recipient : KnownMailed(q)' => KnownMailed(q) \/ q = r
    BY <2>1 DEF KnownMailed, ItemOf
  <2>10. OverWhenKnown'
    BY <2>7, <2>8, <2>9 DEF OverWhenKnown, Over
  <2>11. DsnSeen'
    BY <2>1 DEF DsnSeen
  <2> QED
    BY <2>10, <2>11
<1> QED
  BY <1>0, <1>3, <1>4, <1>5, <1>6, OnceFrame

LEMMA UnresetGoesOn ==
  ASSUME TypeOK, Budgeted, [Next]_vars, Unreset'
  PROVE  Unreset /\ ~Spend("reset")
<1>1. "reset" \in Mishap
  BY DEF Mishap
<1> QED
  BY <1>1, Unspent DEF Unreset

LEMMA KnownOver == Spec => []OnceInv
<1>1. Init => OnceInv
  BY DEF Init, OnceInv, DsnSeen, OverWhenKnown, KnownMailed
<1>2. TypeOK /\ JobInv /\ NotSentInv /\ Budgeted /\ SteadyInv /\ OnceInv /\ [Next]_vars
        => OnceInv'
  <2> SUFFICES ASSUME TypeOK, JobInv, NotSentInv, Budgeted, SteadyInv, OnceInv, [Next]_vars,
                      Steady', Unreset'
               PROVE  DsnSeen' /\ OverWhenKnown'
    BY DEF OnceInv
  <2>1. Steady /\ ~Spend("stop") /\ ~Spend("drop") /\ ~Spend("zombie")
    BY SteadyGoesOn
  <2>2. Unreset /\ ~Spend("reset")
    BY UnresetGoesOn
  <2> QED
    BY <2>1, <2>2, OnceStays DEF OnceInv, SteadyInv
<1> QED
  BY <1>1, <1>2, Typing, JobsInOrder, NothingSentAgain, BudgetsKept, HandoversSteady, PTL
  DEF Spec

-----------------------------------------------------------------------------
(* Why an outcome is not dropped unreported.  What a report or an answer   *)
(* of the present connection is about is still the row it was about, ended *)
(* and not touched since; but for a recipient with a DSN, of which every   *)
(* report is taken for handled.                                            *)
Ended(s, r) ==
  /\ r \in Present(s) /\ row[s][r].finished = TRUE
  /\ row[s][r].inProgress # TRUE /\ row[s][r].status # "UNVERIFIED"

InStep(s, r) ==
  /\ \A t \in work[s] : t.rcpt = r =>
       /\ r \in Present(s) /\ row[s][r].finished # TRUE
       /\ row[s][r].inProgress = TRUE /\ row[s][r].deleg = t.deleg
  /\ \A i \in Todo(s) : i.rcpt = r =>
       i.status = "UNVERIFIED" \/ (Ended(s, r) /\ i.deleg = row[s][r].deleg)
  /\ Answered(s, r) =>
       /\ Ended(s, r)
       /\ \E i \in taken : i.rcpt = r /\ i.deleg = row[s][r].deleg

DsnHeld(r) ==
  doc[r].dsn = TRUE /\ \A g \in grabbed : g.item.rcpt = r => g.doc.dsn = TRUE

DsnCopied == \A g \in grabbed : g.doc.dsn = TRUE => doc[g.item.rcpt].dsn = TRUE

UnverifiedAtRest ==
  \A s \in Satellite, r \in Recipient :
    row[s][r].status = "UNVERIFIED" => row[s][r].inProgress # TRUE

NoneGivenUp == budget["zombie"] = scenario.mishaps["zombie"]

Unbroken ==
  /\ \A s \in Satellite : zombies[s] = {}
  /\ UnverifiedAtRest
  /\ \A r \in Recipient, s \in Satellite : DsnHeld(r) \/ InStep(s, r)

KeptInv == DsnCopied /\ (NoneGivenUp => Unbroken)

(* A copy with a DSN is no older than the DSN, and none is lost by saving  *)
(* a copy without one, unless there is such a copy.                        *)
LEMMA DsnStays ==
  ASSUME TypeOK, DsnCopied, [Next]_vars
  PROVE  DsnCopied' /\ \A r \in Recipient : DsnHeld(r) => DsnHeld(r)'
<1> USE DEF docVars, masterVars, linkVars, satVars, historyVars
<1> DEFINE Goal == DsnCopied' /\ \A r \in Recipient : DsnHeld(r) => DsnHeld(r)'
<1>0. /\ doc \in [Recipient -> Document]
      /\ \A g \in grabbed : g \in Grabbed /\ g.item.rcpt \in Recipient
      /\ \A i \in Item : i.rcpt \in Recipient
      /\ pool \in Seq(Job)
  BY DEF TypeOK, DocsOK, MasterOK, Grabbed, Item
<1>1. ASSUME grabbed' \subseteq grabbed, \A r \in Recipient : doc[r].dsn = TRUE => doc'[r].dsn = TRUE
      PROVE  Goal
  BY <1>0, <1>1 DEF DsnCopied, DsnHeld
<1> HIDE DEF Goal
<1>2. ASSUME Grab PROVE Goal
  <2>1. PICK i \in Head(pool).todo : grabbed' = {[item |-> i, doc |-> doc[i.rcpt]]}
    BY <1>2 DEF Grab
  <2>2. UNCHANGED doc
    BY <1>2 DEF Grab
  <2> QED
    BY <2>1, <2>2 DEF Goal, DsnCopied, DsnHeld
<1>3. ASSUME StoreReport PROVE Goal
  <2>1. grabbed' = {}
    BY <1>3 DEF StoreReport
  <2>2. PICK g \in grabbed : Stored(g)
    BY <1>3 DEF StoreReport
  <2> PICK d : d = Updated(g.doc, g.item.status, Head(pool).sat)
    OBVIOUS
  <2>3. doc' = doc \/ doc' = [doc EXCEPT ![g.item.rcpt] = d]
    BY <2>2 DEF Stored
  <2>4. d.dsn = g.doc.dsn
    BY <1>0 DEF Updated, Grabbed, Document
  <2>5. \A r \in Recipient : DsnHeld(r) => doc'[r].dsn = TRUE
    BY <1>0, <2>3, <2>4 DEF DsnHeld
  <2> QED
    BY <2>1, <2>5 DEF Goal, DsnCopied, DsnHeld
<1>4. ASSUME NEW r \in Recipient, BecomeDue(r) \/ StoreDsn(r) \/ GrowOld(r) \/ Reset(r)
      PROVE  Goal
  <2>1. UNCHANGED grabbed
    BY <1>4 DEF BecomeDue, StoreDsn, GrowOld, Reset
  <2>2. \A q \in Recipient : doc[q].dsn = TRUE => doc'[q].dsn = TRUE
    <3>1. CASE BecomeDue(r)
      BY <1>0, <3>1 DEF BecomeDue, Document
    <3>2. CASE StoreDsn(r)
      BY <1>0, <3>2 DEF StoreDsn, Document
    <3>3. CASE GrowOld(r)
      BY <1>0, <3>3 DEF GrowOld, Document
    <3>4. CASE Reset(r)
      BY <1>0, <3>4 DEF Reset, Document
    <3> QED
      BY <1>4, <3>1, <3>2, <3>3, <3>4
  <2> QED
    BY <1>1, <2>1, <2>2
<1>5. ASSUME Mark PROVE Goal
  <2>1. UNCHANGED grabbed
    BY <1>5 DEF Mark
  <2>2. PICK sel \in selection : Marked(sel)
    BY <1>5 DEF Mark
  <2>3. \A q \in Recipient : doc[q].dsn = TRUE => doc'[q].dsn = TRUE
    BY <1>0, <2>2 DEF Marked, Document
  <2> QED
    BY <1>1, <2>1, <2>3
<1>6. ASSUME NEW s \in Satellite, ReleaseOrphans(s) PROVE Goal
  <2>1. UNCHANGED grabbed
    BY <1>6 DEF ReleaseOrphans
  <2>2. \A q \in Recipient : doc[q].dsn = TRUE => doc'[q].dsn = TRUE
    BY <1>0, <1>6 DEF ReleaseOrphans, Document
  <2> QED
    BY <1>1, <2>1, <2>2
<1>7. ASSUME UNCHANGED doc, grabbed' \subseteq grabbed PROVE Goal
  BY <1>1, <1>7
<1>8. ASSUME FailToStore \/ FinishReport \/ CheckOrphans \/ RestartMaster PROVE Goal
  BY <1>7, <1>8 DEF FailToStore, FinishReport, CheckOrphans, RestartMaster
<1>9. ASSUME NEW s \in Satellite, Select(s) \/ AnswerCheck(s) \/ AnswerVerify(s) PROVE Goal
  BY <1>7, <1>9 DEF Select, AnswerCheck, AnswerVerify
<1>10. ASSUME NEW s \in Satellite, SatelliteNext(s) PROVE Goal
  BY <1>7, <1>10, SatelliteFrame
<1>11. ASSUME UNCHANGED vars PROVE Goal
  BY <1>7, <1>11 DEF vars, stateVars
<1>12. ASSUME MasterNext PROVE Goal
  BY <1>2, <1>3, <1>4, <1>5, <1>6, <1>8, <1>9, <1>12 DEF MasterNext
<1>13. Goal
  BY <1>10, <1>11, <1>12 DEF Next, Change
<1> QED
  BY <1>13 DEF Goal

(* A recipient is in step at a satellite as long as its row is not touched,*)
(* or nothing is reported or sent there.                                   *)
LEMMA StillInStep ==
  ASSUME NEW s, NEW r, InStep(s, r), row'[s][r] = row[s][r],
         \A t \in work'[s] : t.rcpt = r => t \in work[s],
         \A i \in Todo(s)' : i \in Todo(s),
         Answered(s, r)' => Answered(s, r), \A i \in taken : i \in taken'
  PROVE  InStep(s, r)'
<1>1. (r \in Present(s)' <=> r \in Present(s)) /\ (Ended(s, r)' <=> Ended(s, r))
  BY DEF Present, Ended
<1> QED
  BY <1>1 DEF InStep

(* The master only handles what it was told, and says what it handled; of  *)
(* a recipient with a DSN, it takes anything for handled.                  *)
LEMMA MasterInStep ==
  ASSUME TypeOK, JobInv, DsnCopied, MasterNext
  PROVE  /\ UNCHANGED <<row, zombies>>
         /\ \A s \in Satellite, r \in Recipient :
              InStep(s, r) => InStep(s, r)' \/ DsnHeld(r)'
<1> USE DEF docVars, masterVars, linkVars, satVars, historyVars
<1> DEFINE Goal == \A s \in Satellite, r \in Recipient :
                     InStep(s, r) => InStep(s, r)' \/ DsnHeld(r)'
<1>0. /\ doc \in [Recipient -> Document]
      /\ \A g \in grabbed : g \in Grabbed /\ g.item.rcpt \in Recipient /\ g.item \in Item
      /\ pool \in Seq(Job)
      /\ ack \in [Satellite -> {"none", "first", "behind"}]
      /\ acked \in [Satellite -> SUBSET Recipient]
      /\ grabbed # {} => pool # <<>>
      /\ taken \subseteq Item
  BY DEF TypeOK, DocsOK, MasterOK, LinksOK, Grabbed, Item, HistoryOK
<1>1. ASSUME UNCHANGED <<row, work, taken, pool, acked>> PROVE Goal
  BY <1>1, StillInStep, SamePool DEF Answered
<1>2. ASSUME StoreReport \/ FailToStore PROVE UNCHANGED <<row, zombies>> /\ Goal
  <2>1. UNCHANGED <<row, work, zombies, acked>> /\ grabbed' = {} /\ taken \subseteq taken'
    BY <1>2 DEF StoreReport, FailToStore, Stored
  <2>2. PICK g \in grabbed : Stored(g) \/ Handled(g.item, {})
    BY <1>2 DEF StoreReport, FailToStore
  <2>22. PICK ok \in SUBSET {g.item.rcpt} : Handled(g.item, ok) /\ (ok # {} => Stored(g))
    BY <2>2 DEF Stored
  <2> PICK i, rc : i = g.item /\ rc = g.item.rcpt
    OBVIOUS
  <2>3. /\ \A x \in Satellite :
             /\ Serves(x) => Todo(x)' = Todo(x) \ {i} /\ Oks(x)' = Oks(x) \cup ok
             /\ ~Serves(x) => Todo(x)' = Todo(x) /\ Oks(x)' = Oks(x)
    BY <1>0, <2>22, JobGoesOn DEF JobInv
  <2>4. ASSUME NEW s \in Satellite, NEW r \in Recipient, InStep(s, r)
        PROVE  InStep(s, r)' \/ DsnHeld(r)'
    <3>1. CASE Serves(s) /\ r \in ok
      <4>1. r = rc /\ r = i.rcpt /\ Stored(g)
        BY <2>22, <3>1
      <4>2. CASE DsnFirst(g.doc)
        <5>1. doc' = doc /\ g.doc.dsn = TRUE
          BY <1>0, <4>1, <4>2 DEF Stored, DsnFirst, Grabbed, Document
        <5> QED
          BY <2>1, <4>1, <5>1 DEF DsnCopied, DsnHeld
      <4>3. CASE ~DsnFirst(g.doc)
        <5>1. i.status # "UNVERIFIED" /\ i \in taken'
          BY <4>1, <4>3 DEF Stored, Storable, DocStatus, Outcome
        <5>2. i \in Todo(s)
          <6>1. 1 \in DOMAIN pool /\ Head(pool) = pool[1] /\ i \in Head(pool).todo
            BY <1>0 DEF JobInv, CopiesAtWork
          <6> QED
            BY <3>1, <6>1 DEF Serves, Todo, JobsOf, JobOf
        <5>3. Ended(s, r) /\ i.deleg = row[s][r].deleg
          BY <2>4, <4>1, <5>1, <5>2 DEF InStep
        <5>4. (r \in Present(s)' <=> r \in Present(s)) /\ (Ended(s, r)' <=> Ended(s, r))
          BY <2>1 DEF Present, Ended
        <5>5. Todo(s)' \subseteq Todo(s)
          BY <2>3
        <5>6. \E j \in taken' : j.rcpt = r /\ j.deleg = row'[s][r].deleg
          BY <2>1, <4>1, <5>1, <5>3
        <5> QED
          BY <2>1, <2>4, <5>3, <5>4, <5>5, <5>6 DEF InStep
      <4> QED
        BY <4>2, <4>3
    <3>2. CASE ~(Serves(s) /\ r \in ok)
      <4>1. Answered(s, r)' => Answered(s, r)
        BY <2>1, <2>3, <3>2 DEF Answered
      <4> QED
        BY <2>1, <2>3, <2>4, <4>1, StillInStep
    <3> QED
      BY <3>1, <3>2
  <2> QED
    BY <2>1, <2>4
<1>3. ASSUME FinishReport PROVE UNCHANGED <<row, zombies>> /\ Goal
  <2>1. /\ pool # <<>> /\ Head(pool).todo = {} /\ pool' = Tail(pool)
        /\ UNCHANGED <<row, work, zombies, taken>>
        /\ IF Head(pool).live
             THEN /\ ack' = [ack EXCEPT ![Head(pool).sat] =
                        IF asked[Head(pool).sat] = {} THEN "first" ELSE "behind"]
                  /\ acked' = [acked EXCEPT ![Head(pool).sat] = Head(pool).ok]
             ELSE UNCHANGED <<ack, acked>>
    BY <1>3 DEF FinishReport
  <2>2. \A x \in Satellite :
          /\ Serves(x) => /\ Todo(x) = {} /\ Oks(x) = Head(pool).ok
                          /\ Todo(x)' = {} /\ Oks(x)' = {}
          /\ ~Serves(x) => Todo(x)' = Todo(x) /\ Oks(x)' = Oks(x)
    BY <2>1, JobIsDone DEF JobInv
  <2>3. ASSUME NEW x \in Satellite
        PROVE  /\ Serves(x) => acked'[x] = Head(pool).ok
               /\ ~Serves(x) => acked'[x] = acked[x]
    <3>1. CASE Head(pool).live
      BY <1>0, <2>1, <3>1 DEF Serves
    <3>2. CASE ~Head(pool).live
      BY <2>1, <3>2 DEF Serves
    <3> QED
      BY <3>1, <3>2
  <2>4. \A x \in Satellite, r \in Recipient : Answered(x, r)' => Answered(x, r)
    BY <2>2, <2>3 DEF Answered
  <2>5. \A x \in Satellite : \A j \in Todo(x)' : j \in Todo(x)
    BY <2>2
  <2> QED
    BY <2>1, <2>4, <2>5, StillInStep
<1>4. ASSUME RestartMaster PROVE UNCHANGED <<row, zombies>> /\ Goal
  <2>1. UNCHANGED <<row, work, zombies, taken>> /\ pool' = <<>> /\ LinksDown(Satellite)
    BY <1>4 DEF RestartMaster
  <2>2. \A x \in Satellite : Todo(x)' = {} /\ Oks(x)' = {} /\ acked'[x] = {}
    BY <2>1 DEF Todo, Oks, JobsOf, LinksDown
  <2> QED
    BY <2>1, <2>2, StillInStep DEF Answered
<1>5. ASSUME NEW s \in Satellite,
             Select(s) \/ AnswerCheck(s) \/ ReleaseOrphans(s) \/ AnswerVerify(s)
      PROVE  UNCHANGED <<row, zombies>> /\ Goal
  BY <1>1, <1>5 DEF Select, AnswerCheck, ReleaseOrphans, AnswerVerify
<1>6. ASSUME NEW r \in Recipient,
             GrowOld(r) \/ BecomeDue(r) \/ StoreDsn(r) \/ Reset(r)
      PROVE  UNCHANGED <<row, zombies>> /\ Goal
  BY <1>1, <1>6 DEF GrowOld, BecomeDue, StoreDsn, Reset
<1>7. ASSUME Mark \/ Grab \/ CheckOrphans PROVE UNCHANGED <<row, zombies>> /\ Goal
  BY <1>1, <1>7 DEF Mark, Grab, CheckOrphans
<1> HIDE DEF Goal, docVars, masterVars, linkVars, satVars, historyVars
<1>8. UNCHANGED <<row, zombies>> /\ Goal
  BY <1>2, <1>3, <1>4, <1>5, <1>6, <1>7 DEF MasterNext
<1> QED
  BY <1>8 DEF Goal

(* A row that is not ended is changed: no report or answer is about it.    *)
LEMMA RowInStep ==
  ASSUME TypeOK, NEW s \in Satellite, NEW r \in Recipient, NEW w \in Row, Save(s, r, w),
         UNCHANGED <<pool, acked, taken>>,
         \A x \in Satellite \ {s} : work'[x] = work[x],
         \A t \in work'[s] : t.rcpt # r => t \in work[s],
         InStep(s, r) =>
           /\ ~Ended(s, r)
           /\ \A t \in work'[s] : t.rcpt = r =>
                w.finished # TRUE /\ w.inProgress = TRUE /\ w.deleg = t.deleg,
         w.status # "UNVERIFIED", UnverifiedAtRest
  PROVE  /\ UnverifiedAtRest'
         /\ \A x \in Satellite, q \in Recipient : InStep(x, q) => InStep(x, q)'
<1>1. /\ row'[s][r] = w
      /\ \A x \in Satellite, q \in Recipient : x # s \/ q # r => row'[x][q] = row[x][q]
  BY DEF TypeOK, SatellitesOK, Save
<1>2. UnverifiedAtRest'
  BY <1>1 DEF UnverifiedAtRest
<1>3. \A x, q : Answered(x, q)' <=> Answered(x, q)
  BY SamePool DEF Answered
<1>4. ASSUME NEW x \in Satellite, NEW q \in Recipient, InStep(x, q), x # s \/ q # r
      PROVE  InStep(x, q)'
  <2>1. \A t \in work'[x] : t.rcpt = q => t \in work[x]
    BY <1>4
  <2> QED
    BY <1>1, <1>3, <1>4, <2>1, SamePool, StillInStep
<1>5. ASSUME InStep(s, r) PROVE InStep(s, r)'
  <2>1. r \in Present(s)'
    BY <1>1, NoRowIsNone DEF Present
  <2>2. ~Answered(s, r)' /\ \A i \in Todo(s)' : i.rcpt = r => i.status = "UNVERIFIED"
    BY <1>3, <1>5, SamePool DEF InStep
  <2>3. \A t \in work'[s] : t.rcpt = r =>
          row'[s][r].finished # TRUE /\ row'[s][r].inProgress = TRUE /\ row'[s][r].deleg = t.deleg
    BY <1>1, <1>5
  <2> QED
    BY <2>1, <2>2, <2>3 DEF InStep
<1> QED
  BY <1>2, <1>4, <1>5

LEMMA SendingInStep ==
  ASSUME TypeOK, UnverifiedAtRest, NEW s \in Satellite,
         \/ \E r \in Recipient : StartSending(s, r) \/ RefuseDomain(s, r)
         \/ \E t \in work[s] : CustomizerFails(s, t) \/ \E o \in Outcome : EndSending(s, t, o)
  PROVE  /\ UnverifiedAtRest'
         /\ \A x \in Satellite, q \in Recipient : InStep(x, q) => InStep(x, q)'
<1> USE DEF docVars, masterVars, linkVars, satVars, historyVars
<1> DEFINE Goal == /\ UnverifiedAtRest'
                   /\ \A x \in Satellite, q \in Recipient : InStep(x, q) => InStep(x, q)'
<1>0. /\ row \in [Satellite -> [Recipient -> Row \cup {NoRow}]]
      /\ work \in [Satellite -> SUBSET Token]
  BY DEF TypeOK, SatellitesOK
<1>1. ASSUME NEW r \in Recipient, StartSending(s, r) PROVE Goal
  <2>1. /\ row[s][r] \in Row /\ row[s][r].finished # TRUE
    BY <1>0, <1>1 DEF StartSending, Sendable
  <2> PICK w : w = [row[s][r] EXCEPT !.status = "IN_PROGRESS", !.inProgress = TRUE]
    OBVIOUS
  <2>2. /\ w \in Row /\ w.status # "UNVERIFIED" /\ w.deleg = row[s][r].deleg
        /\ w.finished # TRUE /\ w.inProgress = TRUE
    BY <2>1 DEF Row, RowStatus
  <2>3. /\ Save(s, r, w) /\ UNCHANGED <<pool, acked, taken>>
        /\ work' = [work EXCEPT ![s] = @ \cup {RowToken(s, r)}]
    BY <1>1 DEF StartSending
  <2>4. /\ \A x \in Satellite \ {s} : work'[x] = work[x]
        /\ \A t \in work'[s] : t \in work[s] \/ t = RowToken(s, r)
    BY <1>0, <2>3
  <2>5. RowToken(s, r).rcpt = r /\ RowToken(s, r).deleg = row[s][r].deleg
    BY DEF RowToken
  <2>6. InStep(s, r) => /\ ~Ended(s, r)
                        /\ \A t \in work'[s] : t.rcpt = r => w.deleg = t.deleg
    BY <2>1, <2>2, <2>4, <2>5 DEF InStep, Ended
  <2> QED
    BY <2>2, <2>3, <2>4, <2>5, <2>6, RowInStep
<1>2. ASSUME NEW r \in Recipient, RefuseDomain(s, r) PROVE Goal
  <2>1. /\ row[s][r] \in Row /\ row[s][r].finished # TRUE /\ row[s][r].inProgress # TRUE
        /\ row[s][r].status = "READY"
    BY <1>0, <1>2 DEF RefuseDomain, Sendable
  <2> PICK w : w = [row[s][r] EXCEPT !.finished = TRUE]
    OBVIOUS
  <2>2. w \in Row /\ w.status # "UNVERIFIED"
    BY <2>1 DEF Row, RowStatus
  <2>3. Save(s, r, w) /\ UNCHANGED <<pool, acked, taken, work>>
    BY <1>2 DEF RefuseDomain
  <2>4. InStep(s, r) => /\ ~Ended(s, r)
                        /\ \A t \in work'[s] : t.rcpt # r
    BY <2>1, <2>3 DEF InStep, Ended
  <2> QED
    BY <2>2, <2>3, <2>4, RowInStep
<1>3. ASSUME NEW t \in work[s], CustomizerFails(s, t) \/ \E o \in Outcome : EndSending(s, t, o)
      PROVE  Goal
  <2>1. PICK o \in Outcome, done \in BOOLEAN : Save(s, t.rcpt, Saved(t, o, done))
    <3>1. "GENERAL_ERROR" \in Outcome /\ TRUE \in BOOLEAN /\ FALSE \in BOOLEAN
      BY DEF Outcome
    <3> QED
      BY <1>3, <3>1 DEF CustomizerFails, EndSending
  <2>2. PICK r \in Recipient, w \in Row : r = t.rcpt /\ w = Saved(t, o, done)
    BY <1>0, SavedType DEF Token
  <2>3. /\ work' = [work EXCEPT ![s] = @ \ {t}] /\ UNCHANGED <<pool, acked, taken>>
    BY <1>3 DEF CustomizerFails, EndSending
  <2>4. w.status # "UNVERIFIED" /\ Save(s, r, w)
    BY <2>1, <2>2 DEF Saved, Outcome
  <2>5. /\ \A x \in Satellite \ {s} : work'[x] = work[x]
        /\ \A u \in work'[s] : u \in work[s] /\ u # t
    BY <1>0, <2>3
  <2>6. ASSUME InStep(s, r)
        PROVE  ~Ended(s, r) /\ \A u \in work'[s] : u.rcpt # r
    <3>1. row[s][r].finished # TRUE /\ row[s][r].deleg = t.deleg
      BY <2>2, <2>6 DEF InStep
    <3>2. \A u \in work[s] : u.rcpt = r => u.deleg = t.deleg
      BY <2>6, <3>1 DEF InStep
    <3>3. \A u \in work[s] : u.rcpt = r => u = t
      BY <1>0, <2>2, <3>2 DEF Token
    <3> QED
      BY <2>5, <3>1, <3>3 DEF Ended
  <2> QED
    BY <2>3, <2>4, <2>5, <2>6, RowInStep
<1> QED
  BY <1>1, <1>2, <1>3

(* Rows that are awaiting verification are not being sent, whichever rows  *)
(* of one satellite change.                                                *)
LEMMA StillAtRest ==
  ASSUME UnverifiedAtRest, NEW s \in Satellite,
         \A x \in Satellite \ {s} : row'[x] = row[x],
         \A r \in Recipient : \/ row'[s][r] = row[s][r]
                              \/ row'[s][r].status # "UNVERIFIED"
                              \/ row'[s][r].inProgress # TRUE
  PROVE  UnverifiedAtRest'
<1> SUFFICES ASSUME NEW x \in Satellite, NEW r \in Recipient,
                    row'[x][r].status = "UNVERIFIED"
             PROVE  row'[x][r].inProgress # TRUE
  BY DEF UnverifiedAtRest
<1>1. CASE x = s
  BY <1>1 DEF UnverifiedAtRest
<1>2. CASE x # s
  BY <1>2 DEF UnverifiedAtRest
<1> QED
  BY <1>1, <1>2

(* Nothing is reported or answered without a connection.                   *)
LEMMA LinkInStep ==
  ASSUME TypeOK, JobInv, NotSentInv, UnverifiedAtRest,
         NEW s \in Satellite, Disconnect(s) \/ StopSatellite(s) \/ Connect(s)
  PROVE  /\ UnverifiedAtRest'
         /\ \A x \in Satellite, q \in Recipient : InStep(x, q) => InStep(x, q)'
<1> USE DEF docVars, masterVars, linkVars, satVars, historyVars
<1> DEFINE Goal == /\ UnverifiedAtRest'
                   /\ \A x \in Satellite, q \in Recipient : InStep(x, q) => InStep(x, q)'
<1>0. /\ row \in [Satellite -> [Recipient -> Row \cup {NoRow}]]
      /\ work \in [Satellite -> SUBSET Token]
      /\ acked \in [Satellite -> SUBSET Recipient]
  BY DEF TypeOK, SatellitesOK, LinksOK
<1>1. ASSUME Disconnect(s) \/ StopSatellite(s)
      PROVE  /\ Todo(s)' = {} /\ Oks(s)' = {} /\ acked'[s] = {}
             /\ \A x \in Satellite \ {s} : /\ Todo(x)' = Todo(x) /\ Oks(x)' = Oks(x)
                                           /\ acked'[x] = acked[x]
             /\ UNCHANGED taken
  <2>1. Orphaned(s) /\ LinksDown({s}) /\ UNCHANGED taken
    BY <1>1 DEF Disconnect, StopSatellite
  <2> QED
    BY <1>0, <2>1, JobIsLost DEF JobInv, LinksDown
<1>2. ASSUME Disconnect(s) PROVE Goal
  <2>1. UNCHANGED <<row, work>>
    BY <1>2 DEF Disconnect
  <2>2. /\ UNCHANGED taken
        /\ \A x \in Satellite : \A i \in Todo(x)' : i \in Todo(x)
        /\ \A x \in Satellite, q \in Recipient : Answered(x, q)' => Answered(x, q)
    BY <1>1, <1>2 DEF Answered
  <2> QED
    BY <2>1, <2>2, StillInStep DEF UnverifiedAtRest
<1>3. ASSUME StopSatellite(s) PROVE Goal
  <2>1. /\ work' = [work EXCEPT ![s] = {}]
        /\ \/ UNCHANGED row
           \/ \E t \in work[s], o \in Outcome : Save(s, t.rcpt, Saved(t, o, FALSE))
    BY <1>3 DEF StopSatellite
  <2>2. /\ \A x \in Satellite \ {s} : row'[x] = row[x]
        /\ UnverifiedAtRest'
    <3>1. CASE UNCHANGED row
      BY <3>1 DEF UnverifiedAtRest
    <3>2. ASSUME NEW t \in work[s], NEW o \in Outcome, Save(s, t.rcpt, Saved(t, o, FALSE))
          PROVE  UnverifiedAtRest' /\ \A x \in Satellite \ {s} : row'[x] = row[x]
      <4>1. Saved(t, o, FALSE).status # "UNVERIFIED" /\ t.rcpt \in Recipient
        BY <1>0 DEF Saved, Outcome, Token
      <4> QED
        BY <1>0, <3>2, <4>1 DEF Save, UnverifiedAtRest
    <3> QED
      BY <2>1, <3>1, <3>2
  <2>3. ASSUME NEW q \in Recipient PROVE InStep(s, q)'
    BY <1>0, <1>1, <1>3, <2>1 DEF InStep, Answered
  <2>4. ASSUME NEW x \in Satellite \ {s}, NEW q \in Recipient, InStep(x, q) PROVE InStep(x, q)'
    <3>1. row'[x][q] = row[x][q] /\ work'[x] = work[x]
      BY <1>0, <2>1, <2>2
    <3>2. /\ UNCHANGED taken
          /\ \A i \in Todo(x)' : i \in Todo(x)
          /\ Answered(x, q)' => Answered(x, q)
      BY <1>1, <1>3 DEF Answered
    <3> QED
      BY <2>4, <3>1, <3>2, StillInStep
  <2> QED
    BY <2>2, <2>3, <2>4
<1>4. ASSUME Connect(s) PROVE Goal
  <2>1. /\ ~conn[s] /\ UNCHANGED <<pool, acked, work, taken>>
        /\ row' = IF booted[s] THEN row
                  ELSE [row EXCEPT ![s] = [r \in Recipient |-> Invalidated(row[s][r])]]
    BY <1>4 DEF Connect
  <2>2. Todo(s) = {} /\ Oks(s) = {} /\ acked[s] = {}
    BY <2>1, UpFields DEF JobInv, LinkedOnly, OneReport
  <2>3. \A x \in Satellite, q \in Recipient : Answered(x, q)' <=> Answered(x, q)
    BY <2>1, SamePool DEF Answered
  <2>4. CASE booted[s]
    <3>1. UNCHANGED row
      BY <2>1, <2>4
    <3> QED
      BY <2>1, <2>3, <3>1, SamePool, StillInStep DEF UnverifiedAtRest
  <2>5. CASE ~booted[s]
    <3>1. work[s] = {}
      BY <2>5 DEF NotSentInv, RecordedLast
    <3>2. /\ \A r \in Recipient : row'[s][r] = Invalidated(row[s][r])
          /\ \A x \in Satellite \ {s} : row'[x] = row[x]
      BY <1>0, <2>1, <2>5
    <3>3. UnverifiedAtRest'
      <4>1. \A v \in Row \cup {NoRow} :
              Invalidated(v).status = "UNVERIFIED" =>
                Invalidated(v).inProgress # TRUE \/ Invalidated(v) = v
        BY DEF Invalidated, Row
      <4> HIDE DEF Invalidated
      <4>2. ASSUME NEW r \in Recipient
            PROVE  \/ row'[s][r] = row[s][r] \/ row'[s][r].status # "UNVERIFIED"
                   \/ row'[s][r].inProgress # TRUE
        <5>1. row[s][r] \in Row \cup {NoRow} /\ row'[s][r] = Invalidated(row[s][r])
          BY <1>0, <3>2
        <5> QED
          BY <4>1, <5>1
      <4> QED
        BY <3>2, <4>2, StillAtRest
    <3>4. ASSUME NEW q \in Recipient PROVE InStep(s, q)'
      BY <2>1, <2>2, <2>3, <3>1, SamePool DEF InStep, Answered
    <3>5. ASSUME NEW x \in Satellite \ {s}, NEW q \in Recipient, InStep(x, q) PROVE InStep(x, q)'
      <4>1. row'[x][q] = row[x][q]
        BY <3>2
      <4> QED
        BY <2>1, <2>3, <3>5, <4>1, SamePool, StillInStep
    <3> QED
      BY <3>3, <3>4, <3>5
  <2> QED
    BY <2>4, <2>5
<1> QED
  BY <1>2, <1>3, <1>4

(* Pages, verification, reports and answers leave the rows they are not    *)
(* about alone.                                                            *)
LEMMA RowsInStep ==
  ASSUME TypeOK, JobInv, UnverifiedAtRest, NEW s \in Satellite,
         ReceivePage(s) \/ ApplyVerify(s) \/ SendReport(s) \/ ReceiveAck(s)
  PROVE  /\ UnverifiedAtRest'
         /\ \A x \in Satellite, q \in Recipient : InStep(x, q) => InStep(x, q)'
<1> USE DEF docVars, masterVars, linkVars, satVars, historyVars
<1> DEFINE Goal == /\ UnverifiedAtRest'
                   /\ \A x \in Satellite, q \in Recipient : InStep(x, q) => InStep(x, q)'
<1>0. /\ row \in [Satellite -> [Recipient -> Row \cup {NoRow}]]
      /\ work \in [Satellite -> SUBSET Token]
      /\ acked \in [Satellite -> SUBSET Recipient]
  BY DEF TypeOK, SatellitesOK, LinksOK
<1>1. ASSUME UNCHANGED <<work, taken>>,
             \A x \in Satellite \ {s} : /\ row'[x] = row[x] /\ acked'[x] = acked[x]
                                        /\ Todo(x)' = Todo(x) /\ Oks(x)' = Oks(x)
      PROVE  \A x \in Satellite \ {s}, q \in Recipient : InStep(x, q) => InStep(x, q)'
  BY <1>1, StillInStep DEF Answered
<1>2. ASSUME ReceivePage(s) PROVE Goal
  <2>1. PICK p \in pages[s] : row' = [row EXCEPT ![s] = [r \in Recipient |->
            IF row[s][r] = NoRow /\ \E t \in p : t.rcpt = r
              THEN [status |-> "READY", inProgress |-> FALSE,
                    finished |-> FALSE,
                    deleg |-> (CHOOSE t \in p : t.rcpt = r).deleg]
              ELSE row[s][r]]]
    BY <1>2 DEF ReceivePage
  <2>2. UNCHANGED <<pool, acked, work, taken>>
    BY <1>2 DEF ReceivePage
  <2>3. /\ \A x \in Satellite \ {s} : row'[x] = row[x]
        /\ \A r \in Recipient : row'[s][r] = row[s][r]
                                \/ (row[s][r] = NoRow /\ row'[s][r].status # "UNVERIFIED")
    BY <1>0, <2>1
  <2>4. \A x, q : Answered(x, q)' <=> Answered(x, q)
    BY <2>2, SamePool DEF Answered
  <2>5. ASSUME NEW r \in Recipient, InStep(s, r) PROVE InStep(s, r)'
    <3>1. CASE row'[s][r] = row[s][r]
      BY <2>2, <2>4, <2>5, <3>1, SamePool, StillInStep
    <3>2. CASE row[s][r] = NoRow
      <4>1. r \notin Present(s) /\ ~Ended(s, r)
        BY <3>2 DEF Present, Ended
      <4> QED
        BY <2>2, <2>4, <2>5, <4>1, SamePool DEF InStep
    <3> QED
      BY <2>3, <3>1, <3>2
  <2>6. UnverifiedAtRest'
    BY <2>3 DEF UnverifiedAtRest
  <2> QED
    BY <1>1, <2>2, <2>3, <2>5, <2>6, SamePool
<1>3. ASSUME ApplyVerify(s) PROVE Goal
  <2>1. /\ UNCHANGED <<pool, acked, work, taken>>
        /\ row' = [row EXCEPT ![s] = [r \in Recipient |-> Verified(row[s][r], r \in claimed[s])]]
    BY <1>3 DEF ApplyVerify
  <2>2. /\ \A x \in Satellite \ {s} : row'[x] = row[x]
        /\ \A r \in Recipient : row'[s][r] = Verified(row[s][r], r \in claimed[s])
    BY <1>0, <2>1
  <2>3. ASSUME NEW v \in Row \cup {NoRow}, NEW b
        PROVE  /\ Verified(v, b).status # "UNVERIFIED"
               /\ v # NoRow /\ v.status # "UNVERIFIED" =>
                    /\ Verified(v, b) # NoRow /\ Verified(v, b).deleg = v.deleg
                    /\ Verified(v, b).finished = v.finished
                    /\ Verified(v, b).inProgress = v.inProgress
    BY DEF Verified, Row, NoRow, RowStatus
  <2> HIDE DEF Verified
  <2>4. UnverifiedAtRest'
    <3>1. ASSUME NEW r \in Recipient PROVE row'[s][r].status # "UNVERIFIED"
      <4>1. row[s][r] \in Row \cup {NoRow}
        BY <1>0
      <4> QED
        BY <2>2, <2>3, <4>1
    <3> QED
      BY <2>2, <3>1, StillAtRest
  <2>5. ASSUME NEW r \in Recipient, InStep(s, r) PROVE InStep(s, r)'
    <3>1. ASSUME r \in Present(s), row[s][r].status # "UNVERIFIED"
          PROVE  /\ r \in Present(s)' /\ row'[s][r].deleg = row[s][r].deleg
                 /\ row'[s][r].finished = row[s][r].finished
                 /\ row'[s][r].inProgress = row[s][r].inProgress
                 /\ row'[s][r].status # "UNVERIFIED"
      BY <1>0, <2>2, <2>3, <3>1 DEF Present
    <3>2. Ended(s, r) => Ended(s, r)' /\ row'[s][r].deleg = row[s][r].deleg
      BY <3>1 DEF Ended
    <3>3. r \in Present(s) /\ row[s][r].inProgress = TRUE => row[s][r].status # "UNVERIFIED"
      BY DEF UnverifiedAtRest
    <3>4. Answered(s, r)' <=> Answered(s, r)
      BY <2>1, SamePool DEF Answered
    <3> QED
      BY <2>1, <2>5, <3>1, <3>2, <3>3, <3>4, SamePool DEF InStep
  <2> QED
    BY <1>1, <2>1, <2>2, <2>4, <2>5, SamePool
<1>4. ASSUME SendReport(s) PROVE Goal
  <2>1. PICK batch \in SUBSET Reportable(s) :
          pool' = Append(pool,
            [sat |-> s, ok |-> {}, live |-> TRUE,
             todo |-> {ItemOf(RowToken(s, r), row[s][r].status) : r \in batch}])
    BY <1>4 DEF SendReport
  <2> DEFINE items == {ItemOf(RowToken(s, r), row[s][r].status) : r \in batch}
  <2>2. items \in SUBSET Item
    BY DEF Reportable, Present, TypeOK, SatellitesOK, ItemOf, RowToken, Row, Item
  <2>3. ~Busy(s) /\ ack[s] = "none" /\ acked[s] = {}
    BY <1>4 DEF SendReport, Reporting, Busy, JobOf, JobInv, OneReport
  <2>4. UNCHANGED <<row, work, acked, taken>>
    BY <1>4 DEF SendReport
  <2>5. /\ Todo(s)' = items /\ Oks(s)' = {}
        /\ \A x \in Satellite \ {s} : Todo(x)' = Todo(x) /\ Oks(x)' = Oks(x)
    BY <2>1, <2>2, <2>3, JobIsQueued DEF JobInv
  <2>6. ASSUME NEW r \in Recipient, InStep(s, r) PROVE InStep(s, r)'
    <3>1. ~Answered(s, r)'
      BY <2>3, <2>4, <2>5 DEF Answered
    <3>2. (r \in Present(s)' <=> r \in Present(s)) /\ (Ended(s, r)' <=> Ended(s, r))
      BY <2>4 DEF Present, Ended
    <3>3. ASSUME NEW i \in items, i.rcpt = r
          PROVE  i.status = "UNVERIFIED" \/ (Ended(s, r) /\ i.deleg = row[s][r].deleg)
      <4>1. PICK q \in batch : i = ItemOf(RowToken(s, q), row[s][q].status)
        OBVIOUS
      <4>2. q = r /\ i.deleg = row[s][r].deleg /\ i.status = row[s][r].status
        BY <3>3, <4>1 DEF ItemOf, RowToken
      <4>3. r \in Present(s) /\ row[s][r].finished = TRUE /\ row[s][r].inProgress # TRUE
        BY <1>0, <4>2 DEF Reportable, Present, Row
      <4> QED
        BY <4>2, <4>3 DEF Ended
    <3> HIDE DEF items
    <3> QED
      BY <2>4, <2>5, <2>6, <3>1, <3>2, <3>3 DEF InStep
  <2>7. UnverifiedAtRest'
    BY <2>4 DEF UnverifiedAtRest
  <2> QED
    BY <1>1, <2>4, <2>5, <2>6, <2>7
<1>5. ASSUME ReceiveAck(s) PROVE Goal
  <2>1. /\ UNCHANGED <<pool, work, taken>> /\ ack[s] # "none"
        /\ acked' = [acked EXCEPT ![s] = {}]
    BY <1>5 DEF ReceiveAck
  <2>2. /\ \A r \in Recipient : row'[s][r] = IF r \in acked[s] THEN NoRow ELSE row[s][r]
        /\ \A x \in Satellite \ {s} : row'[x] = row[x]
    BY <1>0, <1>5 DEF ReceiveAck
  <2>3. Todo(s)' = {} /\ Oks(s)' = {} /\ \A x : Todo(x)' = Todo(x) /\ Oks(x)' = Oks(x)
    BY <2>1, UpFields, SamePool
  <2>4. ASSUME NEW r \in Recipient, InStep(s, r) PROVE InStep(s, r)'
    <3>1. ~Answered(s, r)'
      BY <1>0, <2>1, <2>3 DEF Answered
    <3>2. CASE r \in acked[s]
      <4>1. \A t \in work[s] : t.rcpt # r
        BY <2>4, <3>2 DEF InStep, Answered, Ended
      <4> QED
        BY <2>1, <2>3, <3>1, <4>1 DEF InStep
    <3>3. CASE r \notin acked[s]
      BY <2>1, <2>2, <2>3, <2>4, <3>1, <3>3, StillInStep
    <3> QED
      BY <3>2, <3>3
  <2>5. UnverifiedAtRest'
    <3>1. NoRow.status # "UNVERIFIED"
      BY DEF NoRow
    <3>2. \A r \in Recipient : row'[s][r] = row[s][r] \/ row'[s][r].status # "UNVERIFIED"
      BY <2>2, <3>1
    <3> QED
      BY <2>2, <3>2, StillAtRest
  <2> QED
    BY <1>0, <1>1, <2>1, <2>2, <2>3, <2>4, <2>5
<1> QED
  BY <1>2, <1>3, <1>4, <1>5

(* What keeps an outcome until the master knows of it: the reports and     *)
(* answers under way are about the row that is there.                      *)
LEMMA KeptStays ==
  ASSUME TypeOK, JobInv, NotSentInv, Budgeted, KeptInv, [Next]_vars
  PROVE  KeptInv'
<1> USE DEF docVars, masterVars, linkVars, satVars, historyVars
<1>1. DsnCopied' /\ \A r \in Recipient : DsnHeld(r) => DsnHeld(r)'
  BY DsnStays DEF KeptInv
<1>2. ASSUME NoneGivenUp' PROVE Unbroken'
  <2>1. Unbroken /\ ~Spend("zombie")
    <3>1. "zombie" \in Mishap
      BY DEF Mishap
    <3> QED
      BY <1>2, <3>1, Unspent DEF NoneGivenUp, KeptInv
  <2> DEFINE Goal == /\ \A x \in Satellite : zombies'[x] = {}
                     /\ UnverifiedAtRest'
                     /\ \A x \in Satellite, q \in Recipient :
                          InStep(x, q) => InStep(x, q)' \/ DsnHeld(q)'
  <2>2. CASE UNCHANGED vars
    <3>1. UNCHANGED <<row, work, pool, acked, taken, zombies>>
      BY <2>2 DEF vars, stateVars
    <3>2. \A x, q : Answered(x, q)' => Answered(x, q)
      BY <3>1, SamePool DEF Answered
    <3>3. \A x \in Satellite, q \in Recipient : InStep(x, q) => InStep(x, q)'
      BY <3>1, <3>2, SamePool, StillInStep
    <3>4. Goal
      BY <2>1, <3>1, <3>3 DEF Unbroken, UnverifiedAtRest
    <3> QED
      BY <1>1, <2>1, <3>4 DEF Unbroken
  <2>3. CASE MasterNext
    BY <1>1, <2>1, <2>3, MasterInStep DEF Unbroken, UnverifiedAtRest, KeptInv
  <2>4. ASSUME NEW s \in Satellite, SatelliteNext(s) PROVE Goal
    <3>1. ASSUME Disconnect(s) \/ StopSatellite(s) \/ Connect(s) PROVE Goal
      <4>1. \A x \in Satellite : zombies'[x] = {}
        <5>1. zombies' = zombies \/ zombies' = [zombies EXCEPT ![s] = {}]
          BY <3>1 DEF Disconnect, StopSatellite, Connect
        <5>2. DOMAIN zombies = Satellite
          BY DEF TypeOK, SatellitesOK
        <5> QED
          BY <2>1, <5>1, <5>2 DEF Unbroken
      <4> QED
        BY <2>1, <3>1, <4>1, LinkInStep DEF Unbroken
    <3>2. ASSUME ReceivePage(s) \/ ApplyVerify(s) \/ SendReport(s) \/ ReceiveAck(s) PROVE Goal
      <4>1. \A x \in Satellite : zombies'[x] = {}
        BY <2>1, <3>2 DEF ReceivePage, ApplyVerify, SendReport, ReceiveAck, Unbroken
      <4> QED
        BY <2>1, <3>2, <4>1, RowsInStep DEF Unbroken
    <3>3. ASSUME \/ \E r \in Recipient : StartSending(s, r) \/ RefuseDomain(s, r)
                 \/ \E t \in work[s] : CustomizerFails(s, t) \/ \E o \in Outcome : EndSending(s, t, o)
          PROVE Goal
      <4>1. \A x \in Satellite : zombies'[x] = {}
        BY <2>1, <3>3 DEF StartSending, RefuseDomain, CustomizerFails, EndSending, Unbroken
      <4> QED
        BY <2>1, <3>3, <4>1, SendingInStep DEF Unbroken
    <3>4. ~ \E t \in work[s], o \in {"WARNING", "ERROR"} : GiveUp(s, t, o)
      BY <2>1 DEF GiveUp
    <3>5. ~ \E t \in zombies[s] : EndZombie(s, t)
      BY <2>1 DEF Unbroken
    <3> HIDE DEF Goal
    <3> QED
      BY <2>4, <3>1, <3>2, <3>3, <3>4, <3>5 DEF SatelliteNext
  <2>5. ASSUME NEW s \in Satellite, SatelliteNext(s) PROVE Unbroken'
    <3>1. Goal
      BY <2>4, <2>5
    <3> QED
      BY <1>1, <2>1, <3>1 DEF Unbroken
  <2> QED
    BY <2>2, <2>3, <2>5 DEF Next, Change
<1> QED
  BY <1>1, <1>2 DEF KeptInv

LEMMA OutcomesInStep == Spec => []KeptInv
<1>1. Init => KeptInv
  <2>1. Init => DsnCopied
    BY DEF Init, DsnCopied
  <2>2. Init => \A s \in Satellite, r \in Recipient : InStep(s, r)
    <3>1. Init => \A s \in Satellite, r \in Recipient : Todo(s) = {} /\ ~Answered(s, r)
      BY DEF Init, Answered, Todo, Oks, JobsOf
    <3> QED
      BY <3>1 DEF Init, InStep
  <2>3. Init => UnverifiedAtRest /\ \A s \in Satellite : zombies[s] = {}
    <3>1. NoRow.status # "UNVERIFIED"
      BY DEF NoRow
    <3>2. Init => \A s \in Satellite : /\ zombies[s] = {}
                                      /\ \A r \in Recipient : row[s][r] = NoRow
      BY DEF Init
    <3> QED
      BY <3>1, <3>2 DEF UnverifiedAtRest
  <2> QED
    BY <2>1, <2>2, <2>3 DEF KeptInv, Unbroken
<1>2. TypeOK /\ JobInv /\ NotSentInv /\ Budgeted /\ KeptInv /\ [Next]_vars => KeptInv'
  BY KeptStays
<1> QED
  BY <1>1, <1>2, Typing, JobsInOrder, NothingSentAgain, BudgetsKept, PTL DEF Spec

(* The row of a finished recipient is only dropped (cb_send_reports,       *)
(* verify_recipients) once its own outcome was handled by _store_reports,  *)
(* or the recipient has a DSN, or a relay was given up by the satellite.   *)
THEOREM OutcomesAreKept == Spec => OutcomeKept
<1> USE DEF docVars, masterVars, linkVars, satVars, historyVars
<1> DEFINE Kept == \A s \in Satellite, r \in Recipient :
                     OutcomeDropped(s, r) =>
                       \/ RowToken(s, r) \in {TokenOf(i) : i \in taken}
                       \/ doc[r].dsn
                       \/ budget["zombie"] < scenario.mishaps["zombie"]
<1>1. TypeOK /\ Budgeted /\ KeptInv /\ [Next]_vars => [Kept]_vars
  <2> SUFFICES ASSUME TypeOK, Budgeted, KeptInv, Next,
                      NEW s \in Satellite, NEW r \in Recipient, OutcomeDropped(s, r),
                      ~(budget["zombie"] < scenario.mishaps["zombie"])
               PROVE  doc[r].dsn \/ RowToken(s, r) \in {TokenOf(i) : i \in taken}
    BY Zenon
  <2>0. /\ row \in [Satellite -> [Recipient -> Row \cup {NoRow}]]
        /\ work \in [Satellite -> SUBSET Token]
    BY DEF TypeOK, SatellitesOK
  <2>1. Unbroken
    <3>1. "zombie" \in Mishap /\ scenario \in Scenario
      BY DelegationAssumption DEF Mishap, Budgeted
    <3>2. budget["zombie"] \in Nat /\ scenario.mishaps["zombie"] \in Nat
          /\ budget["zombie"] <= scenario.mishaps["zombie"]
      BY <3>1 DEF TypeOK, Budgeted, Scenario
    <3>3. budget["zombie"] = scenario.mishaps["zombie"]
      BY <3>2
    <3> QED
      BY <3>3 DEF KeptInv, NoneGivenUp
  <2>2. /\ row[s][r] \in Row /\ row[s][r] # NoRow /\ row'[s][r] = NoRow
        /\ row[s][r].status \in Outcome /\ row[s][r].status # "UNVERIFIED"
    BY <2>0 DEF OutcomeDropped, Outcome
  <2>3. /\ NoRow \notin Row
        /\ \A w \in Row : Invalidated(w) # NoRow
        /\ \A w \in Row : \A b : w.status # "UNVERIFIED" => Verified(w, b) # NoRow
    BY NoRowIsNone DEF Invalidated, Verified, Row, NoRow, RowStatus, Outcome
  <2>4. ~MasterNext
    BY <2>2, MasterFrame
  <2>5. PICK x \in Satellite : SatelliteNext(x)
    BY <2>4 DEF Next, Change
  <2>6. ~UNCHANGED row /\ ~(row'[s][r] = row[s][r]) /\ ~(row'[s][r] \in Row)
    BY <2>2, <2>3
  <2>7. ~(\E t \in Token, o \in Outcome, b \in BOOLEAN : Save(x, t.rcpt, Saved(t, o, b)))
    <3>1. SUFFICES ASSUME NEW q \in Recipient, NEW w \in Row, Save(x, q, w) PROVE FALSE
      BY SavedType DEF Token
    <3>2. row'[s][r] = w \/ row'[s][r] = row[s][r]
      BY <2>0, <3>1 DEF Save
    <3> QED
      BY <2>6, <3>2
  <2>8. ~Disconnect(x) /\ ~SendReport(x)
    BY <2>6 DEF Disconnect, SendReport
  <2>9. ~StopSatellite(x)
    <3>1. ASSUME StopSatellite(x) PROVE \E t \in Token, o \in Outcome : Save(x, t.rcpt, Saved(t, o, FALSE))
      BY <2>0, <2>6, <3>1 DEF StopSatellite
    <3> QED
      BY <2>7, <3>1
  <2>10. ~Connect(x)
    <3>1. SUFFICES ASSUME Connect(x) PROVE FALSE
      OBVIOUS
    <3>2. row' = [row EXCEPT ![x] = [q \in Recipient |-> Invalidated(row[x][q])]]
      BY <2>6, <3>1 DEF Connect
    <3>3. row'[s][r] = row[s][r] \/ row'[s][r] = Invalidated(row[s][r])
      BY <2>0, <3>2
    <3> QED
      BY <2>2, <2>3, <2>6, <3>3
  <2>11. ~ApplyVerify(x)
    <3>1. SUFFICES ASSUME ApplyVerify(x) PROVE FALSE
      OBVIOUS
    <3>2. row' = [row EXCEPT ![x] = [q \in Recipient |-> Verified(row[x][q], q \in claimed[x])]]
      BY <3>1 DEF ApplyVerify
    <3>3. row'[s][r] = row[s][r] \/ row'[s][r] = Verified(row[s][r], r \in claimed[x])
      BY <2>0, <3>2
    <3> QED
      BY <2>2, <2>3, <2>6, <3>3
  <2>12. ~ReceivePage(x)
    <3>1. SUFFICES ASSUME ReceivePage(x) PROVE FALSE
      OBVIOUS
    <3>2. PICK p \in pages[x] : row' = [row EXCEPT ![x] = [q \in Recipient |->
              IF row[x][q] = NoRow /\ \E t \in p : t.rcpt = q
                THEN [status |-> "READY", inProgress |-> FALSE,
                      finished |-> FALSE,
                      deleg |-> (CHOOSE t \in p : t.rcpt = q).deleg]
                ELSE row[x][q]]]
      BY <3>1 DEF ReceivePage
    <3>3. row'[s][r] = row[s][r]
      BY <2>0, <2>2, <3>2
    <3> QED
      BY <2>6, <3>3
  <2>13. ASSUME NEW q \in Recipient PROVE ~StartSending(x, q) /\ ~RefuseDomain(x, q)
    <3>1. row[x][q] \in Row \cup {NoRow}
      BY <2>0
    <3>2. ASSUME StartSending(x, q) \/ RefuseDomain(x, q)
          PROVE  \E w \in Row : Save(x, q, w)
      <4>1. row[x][q] \in Row
        BY <3>1, <3>2 DEF StartSending, RefuseDomain, Sendable
      <4>2. /\ [row[x][q] EXCEPT !.status = "IN_PROGRESS", !.inProgress = TRUE] \in Row
            /\ [row[x][q] EXCEPT !.finished = TRUE] \in Row
        BY <4>1 DEF Row, RowStatus
      <4> QED
        BY <3>2, <4>2 DEF StartSending, RefuseDomain
    <3>3. ASSUME NEW w \in Row, Save(x, q, w) PROVE FALSE
      <4>1. row'[s][r] = w \/ row'[s][r] = row[s][r]
        BY <2>0, <3>3 DEF Save
      <4> QED
        BY <2>6, <3>3, <4>1
    <3> QED
      BY <3>2, <3>3
  <2>14. ASSUME NEW t \in work[x]
         PROVE  /\ ~CustomizerFails(x, t)
                /\ \A o \in Outcome : ~EndSending(x, t, o)
                /\ \A o \in {"WARNING", "ERROR"} : ~GiveUp(x, t, o)
    BY <2>0, <2>7 DEF CustomizerFails, EndSending, GiveUp, Outcome
  <2>15. \A t \in zombies[x] : ~EndZombie(x, t)
    BY <2>1 DEF Unbroken
  <2>16. ReceiveAck(x)
    BY <2>5, <2>8, <2>9, <2>10, <2>11, <2>12, <2>13, <2>14, <2>15 DEF SatelliteNext
  <2>17. x = s /\ r \in acked[s]
    BY <2>0, <2>6, <2>16 DEF ReceiveAck
  <2>18. DsnHeld(r) \/ InStep(s, r)
    BY <2>1 DEF Unbroken
  <2>19. ASSUME InStep(s, r) PROVE RowToken(s, r) \in {TokenOf(i) : i \in taken}
    <3>1. Answered(s, r)
      BY <2>17 DEF Answered
    <3>2. PICK i \in taken : i.rcpt = r /\ i.deleg = row[s][r].deleg
      BY <2>19, <3>1 DEF InStep
    <3> QED
      BY <3>2 DEF RowToken, TokenOf
  <2> QED
    BY <2>18, <2>19 DEF DsnHeld
<1> HIDE DEF Kept
<1>2. Spec => [][Kept]_vars
  BY <1>1, Typing, BudgetsKept, OutcomesInStep, PTL DEF Spec
<1> QED
  BY <1>2 DEF Kept, OutcomeKept

-----------------------------------------------------------------------------
(* Delegation implements Ledger.  What the steps of Ledger need to be      *)
(* allowed.                                                                *)

(* Whatever a satellite has or had of a delegation was granted.            *)
GrantedIn(t, counts) == t.rcpt \in Recipient /\ t.deleg \in 1..counts[t.rcpt]
AllGranted ==
  /\ \A t \in mailed : GrantedIn(t, delegated)
  /\ \A s \in Satellite :
       /\ \A t \in Sending(s) : GrantedIn(t, delegated)
       /\ \A r \in Present(s) : GrantedIn(RowToken(s, r), delegated)
       /\ \A page \in pages[s] : \A t \in page : GrantedIn(t, delegated)

(* A report tells what was recorded, or that nobody is sure of it: so do   *)
(* the finished rows it is made of, and the copy the master works on.      *)
Told(i, known) ==
  \/ i \in known
  \/ i.status \in {"READY", "UNVERIFIED"} /\ \E j \in known : TokenOf(j) = TokenOf(i)
RowsTold ==
  \A s \in Satellite : \A r \in Present(s) :
    row[s][r].finished => Told(ItemOf(RowToken(s, r), row[s][r].status), recorded)
ReportsTold == \A n \in DOMAIN pool : \A i \in pool[n].todo : Told(i, recorded)
CopiesTold == \A g \in grabbed : Told(g.item, recorded)

LedgerInv == AllGranted /\ RowsTold /\ ReportsTold /\ CopiesTold

-----------------------------------------------------------------------------
(* What is recorded and mailed only grows.                                 *)
LEMMA Growing ==
  ASSUME [Next]_vars
  PROVE  recorded \subseteq recorded' /\ mailed \subseteq mailed'
<1> USE DEF docVars, masterVars, linkVars, satVars, historyVars
<1>1. ASSUME MasterNext PROVE UNCHANGED <<recorded, mailed>>
  <2>1. ASSUME NEW s \in Satellite,
               Select(s) \/ AnswerCheck(s) \/ ReleaseOrphans(s) \/ AnswerVerify(s)
        PROVE  UNCHANGED <<recorded, mailed>>
    BY <2>1 DEF Select, AnswerCheck, ReleaseOrphans, AnswerVerify
  <2>2. ASSUME NEW r \in Recipient,
               GrowOld(r) \/ BecomeDue(r) \/ StoreDsn(r) \/ Reset(r)
        PROVE  UNCHANGED <<recorded, mailed>>
    BY <2>2 DEF GrowOld, BecomeDue, StoreDsn, Reset
  <2>3. CASE Mark \/ Grab \/ StoreReport \/ FailToStore \/ FinishReport
               \/ CheckOrphans \/ RestartMaster
    BY <2>3 DEF Mark, Grab, StoreReport, FailToStore, FinishReport, CheckOrphans,
       RestartMaster
  <2> QED
    BY <1>1, <2>1, <2>2, <2>3 DEF MasterNext
<1>2. ASSUME NEW s \in Satellite, SatelliteNext(s) PROVE recorded \subseteq recorded'
  <2>1. CASE Disconnect(s) \/ Connect(s) \/ StopSatellite(s)
    BY <2>1 DEF Disconnect, Connect, StopSatellite
  <2>2. CASE ReceivePage(s) \/ ApplyVerify(s) \/ SendReport(s) \/ ReceiveAck(s)
    BY <2>2 DEF ReceivePage, ApplyVerify, SendReport, ReceiveAck
  <2>3. ASSUME NEW r \in Recipient, StartSending(s, r) \/ RefuseDomain(s, r)
        PROVE  recorded \subseteq recorded'
    BY <2>3 DEF StartSending, RefuseDomain
  <2>4. ASSUME NEW t, NEW o, \/ CustomizerFails(s, t) \/ EndSending(s, t, o)
                             \/ GiveUp(s, t, o) \/ EndZombie(s, t)
        PROVE  recorded \subseteq recorded'
    BY <2>4 DEF CustomizerFails, EndSending, GiveUp, EndZombie
  <2> QED
    BY <1>2, <2>1, <2>2, <2>3, <2>4 DEF SatelliteNext
<1> QED
  BY <1>1, <1>2, SatelliteFrame DEF Next, Change, vars, stateVars

LEMMA ToldStays ==
  ASSUME [Next]_vars, NEW i, Told(i, recorded)
  PROVE  Told(i, recorded')
BY Growing DEF Told

(* So what is told of rows, in reports and of copies stays true.           *)
LEMMA RowTold ==
  ASSUME NEW x \in Satellite, NEW q \in Recipient, NEW known,
         NEW w \in Row \cup {NoRow}, NEW v \in Row, v.finished, RowStep(w, v, x, q),
         recorded' = known,
         w # NoRow /\ w.finished =>
           Told(ItemOf([rcpt |-> q, deleg |-> w.deleg], w.status), known),
         Sending(x) \subseteq Token
  PROVE  Told(ItemOf([rcpt |-> q, deleg |-> v.deleg], v.status), known)
<1>1. CASE v = w
  BY <1>1, NoRowIsNone
<1>2. CASE /\ w # NoRow /\ v.finished = w.finished /\ v.deleg = w.deleg
           /\ \/ v.status \in {"READY", "UNVERIFIED"}
              \/ v.status = "IN_PROGRESS" /\ ~w.finished
  <2> DEFINE t == [rcpt |-> q, deleg |-> v.deleg]
  <2>1. v.status \in {"READY", "UNVERIFIED"} /\ Told(ItemOf(t, w.status), known)
    BY <1>2
  <2>2. /\ TokenOf(ItemOf(t, w.status)) = t /\ TokenOf(ItemOf(t, v.status)) = t
        /\ ItemOf(t, v.status).status = v.status
    BY DEF TokenOf, ItemOf
  <2> HIDE DEF t
  <2>3. \E j \in known : TokenOf(j) = t
    BY <2>1, <2>2 DEF Told
  <2> QED
    BY <2>1, <2>2, <2>3 DEF Told, t
<1>3. CASE /\ w # NoRow /\ w.status = "READY" /\ v.status = "READY"
           /\ v.deleg = w.deleg
           /\ ItemOf([rcpt |-> q, deleg |-> w.deleg], "READY") \in recorded'
  BY <1>3 DEF Told
<1>4. CASE \E t \in Sending(x), o \in Outcome, done \in BOOLEAN :
             /\ t.rcpt = q /\ v = Saved(t, o, done)
             /\ o = "FINISHED" => t \in mailed'
             /\ done => ItemOf(t, o) \in recorded'
  <2>1. PICK t \in Sending(x), o \in Outcome, done \in BOOLEAN :
             /\ t.rcpt = q /\ v = Saved(t, o, done)
             /\ done => ItemOf(t, o) \in recorded'
    BY <1>4
  <2>2. t \in Token /\ v.status = o /\ v.deleg = t.deleg /\ done
    BY <2>1 DEF Saved
  <2>3. t = [rcpt |-> q, deleg |-> v.deleg]
    BY <2>1, <2>2 DEF Token
  <2> QED
    BY <2>1, <2>2, <2>3 DEF Told
<1> QED
  BY <1>1, <1>2, <1>3, <1>4, NoRowIsNone DEF RowStep

LEMMA TellingOn ==
  ASSUME TypeOK, TypeOK', LedgerInv, [Next]_vars
  PROVE  RowsTold' /\ ReportsTold' /\ CopiesTold'
<1>1. ASSUME NEW x \in Satellite, NEW q \in Recipient, row'[x][q] # NoRow,
             row'[x][q].finished
      PROVE  Told(ItemOf([rcpt |-> q, deleg |-> row'[x][q].deleg], row'[x][q].status),
                  recorded')
  <2>1. row[x][q] \in Row \cup {NoRow} /\ row'[x][q] \in Row
    BY <1>1 DEF TypeOK, SatellitesOK
  <2>2. row[x][q] # NoRow /\ row[x][q].finished =>
          Told(ItemOf([rcpt |-> q, deleg |-> row[x][q].deleg], row[x][q].status),
               recorded')
    BY ToldStays DEF LedgerInv, RowsTold, Present, RowToken
  <2>3. Sending(x) \subseteq Token
    BY DEF Sending, TypeOK, SatellitesOK
  <2>4. RowStep(row[x][q], row'[x][q], x, q)
    BY RowsStep
  <2> QED
    BY <1>1, <2>1, <2>2, <2>3, <2>4, RowTold
<1>2. ASSUME NEW n \in DOMAIN pool', NEW i \in pool'[n].todo
      PROVE  Told(i, recorded')
  <2>1. CASE \E m \in DOMAIN pool : i \in pool[m].todo
    BY <2>1, ToldStays DEF LedgerInv, ReportsTold
  <2>2. CASE ReportedRow(i)
    <3>1. Told(i, recorded)
      BY <2>2 DEF ReportedRow, Reportable, LedgerInv, RowsTold
    <3> QED
      BY <3>1, ToldStays
  <2> QED
    BY <2>1, <2>2, ReportsComeFromRows
<1>3. ASSUME NEW g \in grabbed'
      PROVE  Told(g.item, recorded')
  <2>1. Told(g.item, recorded)
    BY CopiesComeFromReports DEF LedgerInv, ReportsTold, CopiesTold
  <2> QED
    BY <2>1, ToldStays
<1>4. RowsTold'
  BY <1>1 DEF RowsTold, Present, RowToken
<1> QED
  BY <1>2, <1>3, <1>4 DEF ReportsTold, CopiesTold

-----------------------------------------------------------------------------
(* What is mailed was being sent, what is sent was a row, what is on its   *)
(* way is a page just made.                                                *)
LEMMA MailedWasSent ==
  ASSUME TypeOK, [Next]_vars, NEW t \in mailed'
  PROVE  t \in mailed \/ \E s \in Satellite : t \in Sending(s)
<1> USE DEF docVars, masterVars, linkVars, satVars, historyVars
<1>1. CASE UNCHANGED mailed
  BY <1>1
<1>2. ASSUME NEW s \in Satellite, SatelliteNext(s)
      PROVE  t \in mailed \/ t \in Sending(s)
  <2>1. CASE Disconnect(s) \/ Connect(s)
    BY <1>1, <2>1 DEF Disconnect, Connect
  <2>2. CASE StopSatellite(s)
    BY <2>2 DEF StopSatellite, Sending
  <2>3. CASE ReceivePage(s) \/ ApplyVerify(s) \/ SendReport(s) \/ ReceiveAck(s)
    BY <1>1, <2>3 DEF ReceivePage, ApplyVerify, SendReport, ReceiveAck
  <2>4. ASSUME NEW r \in Recipient, StartSending(s, r) \/ RefuseDomain(s, r)
        PROVE  UNCHANGED mailed
    BY <2>4 DEF StartSending, RefuseDomain
  <2>5. ASSUME NEW u \in work[s], NEW o, \/ CustomizerFails(s, u) \/ EndSending(s, u, o)
                                         \/ GiveUp(s, u, o)
        PROVE  t \in mailed \/ t \in Sending(s)
    BY <2>5 DEF CustomizerFails, EndSending, MayBeMailed, GiveUp, Sending
  <2>6. ASSUME NEW u \in zombies[s], EndZombie(s, u)
        PROVE  t \in mailed \/ t \in Sending(s)
    BY <2>6 DEF EndZombie, MayBeMailed, Sending
  <2> QED
    BY <1>2, <2>1, <2>2, <2>3, <2>4, <2>5, <2>6 DEF SatelliteNext
<1> QED
  BY <1>1, <1>2, MasterFrame DEF Next, Change, vars, stateVars

(* A recipient of which a satellite knows that it was mailed is not mailed *)
(* again unless it is reset: between the success of its relay and the      *)
(* report of it (send_reports), and after it, _get_recipients gives it to  *)
(* nobody, whatever notifications come and whatever answers of mail        *)
(* servers are lost.                                                       *)
THEOREM MailedAtMostOnce == Spec => MailedOnce
<1>1. TypeOK /\ Budgeted /\ SteadyInv /\ OnceInv /\ [Next]_vars =>
        ((Steady /\ Unreset)' => \A t \in mailed' \ mailed : ~KnownMailed(t.rcpt))
  <2> SUFFICES ASSUME TypeOK, Budgeted, SteadyInv, OnceInv, [Next]_vars,
                      Steady', Unreset', NEW t \in mailed' \ mailed
               PROVE  ~KnownMailed(t.rcpt)
    OBVIOUS
  <2>1. Steady /\ ~Spend("stop") /\ ~Spend("drop") /\ ~Spend("zombie")
    BY SteadyGoesOn
  <2>2. HandedOver /\ OverWhenKnown
    BY <2>1, UnresetGoesOn DEF OnceInv, SteadyInv
  <2>3. \E s \in Satellite : t \in work[s]
    <3>1. PICK s \in Satellite : t \in Sending(s)
      BY MailedWasSent
    <3>2. zombies[s] = {}
      BY <2>2 DEF HandedOver, AllUp
    <3> QED
      BY <3>1, <3>2 DEF Sending
  <2> QED
    BY <2>2, <2>3 DEF HandedOver, RowsUp, Holds, Unfinished, Present, OverWhenKnown, Idle
<1> QED
  BY <1>1, Typing, BudgetsKept, HandoversSteady, KnownOver, PTL DEF Spec, MailedOnce

LEMMA SentWasRow ==
  ASSUME TypeOK, [Next]_vars, NEW x \in Satellite, NEW t \in work'[x] \cup zombies'[x]
  PROVE  t \in Sending(x) \/ \E r \in Present(x) : t = RowToken(x, r)
<1> USE DEF docVars, masterVars, linkVars, satVars, historyVars, Sending
<1>0. /\ work \in [Satellite -> SUBSET Token] /\ zombies \in [Satellite -> SUBSET Token]
  BY DEF TypeOK, SatellitesOK
<1>1. CASE UNCHANGED <<work, zombies>>
  BY <1>1
<1>2. ASSUME MasterNext PROVE UNCHANGED <<work, zombies>>
  <2>1. ASSUME NEW s \in Satellite,
               Select(s) \/ AnswerCheck(s) \/ ReleaseOrphans(s) \/ AnswerVerify(s)
        PROVE  UNCHANGED <<work, zombies>>
    BY <2>1 DEF Select, AnswerCheck, ReleaseOrphans, AnswerVerify
  <2>2. ASSUME NEW r \in Recipient,
               GrowOld(r) \/ BecomeDue(r) \/ StoreDsn(r) \/ Reset(r)
        PROVE  UNCHANGED <<work, zombies>>
    BY <2>2 DEF GrowOld, BecomeDue, StoreDsn, Reset
  <2>3. CASE Mark \/ Grab \/ StoreReport \/ FailToStore \/ FinishReport
               \/ CheckOrphans \/ RestartMaster
    BY <2>3 DEF Mark, Grab, StoreReport, FailToStore, FinishReport, CheckOrphans,
       RestartMaster
  <2> QED
    BY <1>2, <2>1, <2>2, <2>3 DEF MasterNext
<1>3. ASSUME NEW s \in Satellite, SatelliteNext(s)
      PROVE  t \in Sending(x) \/ \E r \in Present(x) : t = RowToken(x, r)
  <2>1. CASE Disconnect(s) \/ Connect(s)
    BY <1>1, <2>1 DEF Disconnect, Connect
  <2>2. CASE StopSatellite(s)
    BY <1>0, <2>2 DEF StopSatellite
  <2>3. CASE ReceivePage(s) \/ ApplyVerify(s) \/ SendReport(s) \/ ReceiveAck(s)
    BY <1>1, <2>3 DEF ReceivePage, ApplyVerify, SendReport, ReceiveAck
  <2>4. ASSUME NEW r \in Recipient, StartSending(s, r)
        PROVE  t \in Sending(x) \/ \E q \in Present(x) : t = RowToken(x, q)
    BY <1>0, <2>4 DEF StartSending, Sendable, Present
  <2>5. ASSUME NEW r \in Recipient, RefuseDomain(s, r)
        PROVE  UNCHANGED <<work, zombies>>
    BY <2>5 DEF RefuseDomain
  <2>6. ASSUME NEW u \in work[s], NEW o, \/ CustomizerFails(s, u) \/ EndSending(s, u, o)
                                         \/ GiveUp(s, u, o)
        PROVE  t \in Sending(x)
    BY <1>0, <2>6 DEF CustomizerFails, EndSending, GiveUp
  <2>7. ASSUME NEW u \in zombies[s], EndZombie(s, u)
        PROVE  t \in Sending(x)
    BY <1>0, <2>7 DEF EndZombie
  <2> QED
    BY <1>1, <1>3, <2>1, <2>2, <2>3, <2>4, <2>5, <2>6, <2>7 DEF SatelliteNext
<1> QED
  BY <1>1, <1>2, <1>3 DEF Next, Change, vars, stateVars

LEMMA PagesAreMade ==
  ASSUME TypeOK, TypeOK', [Next]_vars
  PROVE  /\ \A r \in Recipient : delegated[r] <= delegated'[r]
         /\ \A s \in Satellite : \A page \in pages'[s] : \A t \in page :
              \/ \E page2 \in pages[s] : t \in page2
              \/ GrantedIn(t, delegated')
<1> USE DEF docVars, masterVars, linkVars, satVars, historyVars
<1> DEFINE Goal == /\ \A r \in Recipient : delegated[r] <= delegated'[r]
                   /\ \A s \in Satellite : \A page \in pages'[s] : \A t \in page :
                        \/ \E page2 \in pages[s] : t \in page2
                        \/ GrantedIn(t, delegated')
<1>0. /\ delegated \in [Recipient -> Nat] /\ pages \in [Satellite -> SUBSET SUBSET Token]
  BY DEF TypeOK, DocsOK, LinksOK
<1>1. ASSUME UNCHANGED delegated, \A s \in Satellite : pages'[s] \subseteq pages[s]
      PROVE  Goal
  BY <1>0, <1>1
<1>2. CASE Mark
  <2>1. PICK sel \in selection : Marked(sel)
    BY <1>2 DEF Mark
  <2>2. sel.sat \in Satellite /\ sel.batch \subseteq Recipient
    BY DEF TypeOK, MasterOK, Selection
  <2>3. \A r \in Recipient : delegated'[r] = IF r \in sel.batch THEN delegated[r] + 1
                                                                ELSE delegated[r]
    BY <2>1 DEF Marked
  <2>4. \A t \in PageOf(sel.batch) : GrantedIn(t, delegated')
    BY <1>0, <2>2, <2>3 DEF PageOf, GrantedIn
  <2>5. \A s \in Satellite : \A page \in pages'[s] :
          page \in pages[s] \/ page = PageOf(sel.batch)
    BY <1>0, <2>1 DEF Marked
  <2> QED
    BY <1>0, <2>3, <2>4, <2>5
<1>3. ASSUME MasterNext, ~Mark
      PROVE  UNCHANGED delegated /\ \A s \in Satellite : pages'[s] \subseteq pages[s]
  <2>1. ASSUME NEW s \in Satellite,
               Select(s) \/ AnswerCheck(s) \/ ReleaseOrphans(s) \/ AnswerVerify(s)
        PROVE  UNCHANGED <<delegated, pages>>
    BY <2>1 DEF Select, AnswerCheck, ReleaseOrphans, AnswerVerify
  <2>2. ASSUME NEW r \in Recipient,
               GrowOld(r) \/ BecomeDue(r) \/ StoreDsn(r) \/ Reset(r)
        PROVE  UNCHANGED <<delegated, pages>>
    BY <2>2 DEF GrowOld, BecomeDue, StoreDsn, Reset
  <2>3. CASE Grab \/ StoreReport \/ FailToStore \/ FinishReport \/ CheckOrphans
    BY <2>3 DEF Grab, StoreReport, FailToStore, FinishReport, CheckOrphans
  <2>4. CASE RestartMaster
    BY <2>4 DEF RestartMaster, LinksDown
  <2> QED
    BY <1>3, <2>1, <2>2, <2>3, <2>4 DEF MasterNext
<1>4. ASSUME NEW x \in Satellite, SatelliteNext(x)
      PROVE  UNCHANGED delegated /\ \A s \in Satellite : pages'[s] \subseteq pages[s]
  <2>1. CASE Disconnect(x) \/ StopSatellite(x)
    BY <2>1 DEF Disconnect, StopSatellite, LinksDown
  <2>2. CASE ReceivePage(x)
    BY <1>0, <2>2 DEF ReceivePage
  <2>3. CASE Connect(x) \/ ApplyVerify(x) \/ SendReport(x) \/ ReceiveAck(x)
    BY <2>3 DEF Connect, ApplyVerify, SendReport, ReceiveAck
  <2>4. ASSUME NEW r \in Recipient, StartSending(x, r) \/ RefuseDomain(x, r)
        PROVE  UNCHANGED <<delegated, pages>>
    BY <2>4 DEF StartSending, RefuseDomain
  <2>5. ASSUME NEW u, NEW o, \/ CustomizerFails(x, u) \/ EndSending(x, u, o)
                             \/ GiveUp(x, u, o) \/ EndZombie(x, u)
        PROVE  UNCHANGED <<delegated, pages>>
    BY <2>5 DEF CustomizerFails, EndSending, GiveUp, EndZombie
  <2> QED
    BY <1>4, <2>1, <2>2, <2>3, <2>4, <2>5 DEF SatelliteNext
<1> QED
  BY <1>1, <1>2, <1>3, <1>4 DEF Next, Change, vars, stateVars

LEMMA GrantingOn ==
  ASSUME TypeOK, TypeOK', LedgerInv, [Next]_vars
  PROVE  AllGranted'
<1>1. ASSUME NEW t, GrantedIn(t, delegated) PROVE GrantedIn(t, delegated')
  <2>1. /\ t.rcpt \in Recipient /\ delegated[t.rcpt] <= delegated'[t.rcpt]
        /\ t.deleg \in 1..delegated[t.rcpt]
    BY <1>1, PagesAreMade DEF GrantedIn
  <2>2. delegated[t.rcpt] \in Nat /\ delegated'[t.rcpt] \in Nat
    BY <2>1 DEF TypeOK, DocsOK
  <2> QED
    BY <2>1, <2>2 DEF GrantedIn
<1>2. ASSUME NEW t \in mailed' PROVE GrantedIn(t, delegated')
  BY <1>1, MailedWasSent DEF LedgerInv, AllGranted
<1>3. ASSUME NEW s \in Satellite, NEW t \in work'[s] \cup zombies'[s]
      PROVE  GrantedIn(t, delegated')
  BY <1>1, SentWasRow DEF LedgerInv, AllGranted
<1>4. ASSUME NEW s \in Satellite, NEW page \in pages'[s], NEW t \in page
      PROVE  GrantedIn(t, delegated')
  BY <1>1, PagesAreMade DEF LedgerInv, AllGranted
<1>5. ASSUME NEW s \in Satellite, NEW r \in Recipient, row'[s][r] # NoRow
      PROVE  GrantedIn([rcpt |-> r, deleg |-> row'[s][r].deleg], delegated')
  <2> DEFINE w == row[s][r]
             v == row'[s][r]
             t == [rcpt |-> r, deleg |-> v.deleg]
  <2>1. RowStep(w, v, s, r)
    BY RowsStep
  <2>2. w # NoRow => GrantedIn([rcpt |-> r, deleg |-> w.deleg], delegated)
    BY DEF LedgerInv, AllGranted, Present, RowToken
  <2>3. ASSUME NEW u \in Sending(s), NEW o, NEW done, u.rcpt = r, v = Saved(u, o, done)
        PROVE  GrantedIn(t, delegated)
    <3>1. GrantedIn(u, delegated) /\ u \in Token /\ v.deleg = u.deleg
      BY <2>3 DEF LedgerInv, AllGranted, Saved, Sending, TypeOK, SatellitesOK
    <3> QED
      BY <2>3, <3>1 DEF GrantedIn
  <2>4. ASSUME NEW page \in pages[s], t \in page PROVE GrantedIn(t, delegated)
    BY <2>4 DEF LedgerInv, AllGranted
  <2>5. v # NoRow
    BY <1>5
  <2> HIDE DEF w, v
  <2>6. GrantedIn(t, delegated)
    BY <2>1, <2>2, <2>3, <2>4, <2>5 DEF RowStep
  <2> QED
    BY <1>1, <2>6 DEF v
<1> QED
  BY <1>2, <1>3, <1>4, <1>5 DEF AllGranted, Sending, Present, RowToken

LEMMA Keeping == Spec => []LedgerInv
<1>1. Init => LedgerInv
  BY DEF Init, LedgerInv, AllGranted, RowsTold, ReportsTold, CopiesTold, Sending, Present
<1>2. TypeOK /\ TypeOK' /\ LedgerInv /\ [Next]_vars => LedgerInv'
  BY TellingOn, GrantingOn DEF LedgerInv
<1> QED
  BY <1>1, <1>2, Typing, PTL DEF Spec

-----------------------------------------------------------------------------
(* Each step is a step of Ledger.                                          *)

(* What the master says of all recipients.                                 *)
Statuses == [r \in Recipient |-> doc[r].status]
Silent == UNCHANGED <<Statuses, delegated, mailed, recorded, taken>>

(* Steps Ledger knows nothing of.                                          *)
LEMMA SilentMaster ==
  ASSUME TypeOK,
         \/ \E s \in Satellite : Select(s) \/ AnswerCheck(s) \/ ReleaseOrphans(s)
                                 \/ AnswerVerify(s)
         \/ \E r \in Recipient : GrowOld(r) \/ BecomeDue(r)
         \/ Grab \/ FailToStore \/ FinishReport \/ CheckOrphans \/ RestartMaster
  PROVE  Silent
<1> USE DEF docVars, masterVars, linkVars, satVars, historyVars
<1>1. doc \in [Recipient -> Document]
  BY DEF TypeOK, DocsOK
<1>2. ASSUME NEW s \in Satellite, Select(s) \/ AnswerCheck(s) \/ AnswerVerify(s)
      PROVE  UNCHANGED <<doc, delegated, mailed, recorded, taken>>
  BY <1>2 DEF Select, AnswerCheck, AnswerVerify
<1>3. CASE Grab \/ FailToStore \/ FinishReport \/ CheckOrphans \/ RestartMaster
  BY <1>3 DEF Grab, FailToStore, FinishReport, CheckOrphans, RestartMaster, Silent, Statuses
<1>4. ASSUME NEW r \in Recipient, GrowOld(r)
      PROVE  UNCHANGED <<doc, delegated, mailed, recorded, taken>>
  BY <1>4 DEF GrowOld
<1>5. ASSUME NEW r \in Recipient, BecomeDue(r)
      PROVE  Silent
  <2>1. \A q \in Recipient : doc'[q].status = doc[q].status
    BY <1>1, <1>5 DEF BecomeDue, Document
  <2> QED
    BY <1>5, <2>1 DEF BecomeDue, Silent, Statuses
<1>6. ASSUME NEW s \in Satellite, ReleaseOrphans(s)
      PROVE  Silent
  <2>1. \A q \in Recipient : doc'[q].status = doc[q].status
    BY <1>1, <1>6 DEF ReleaseOrphans, Document
  <2> QED
    BY <1>6, <2>1 DEF ReleaseOrphans, Silent, Statuses
<1> QED
  BY <1>2, <1>3, <1>4, <1>5, <1>6 DEF Silent, Statuses

LEMMA SilentSatellite ==
  ASSUME NEW s \in Satellite,
         \/ Disconnect(s) \/ Connect(s)
         \/ ReceivePage(s) \/ ApplyVerify(s) \/ SendReport(s) \/ ReceiveAck(s)
         \/ \E r \in Recipient : StartSending(s, r)
         \/ \E t \in work[s] : CustomizerFails(s, t)
  PROVE  Silent
<1> USE DEF docVars, masterVars, linkVars, satVars, historyVars
<1>1. CASE Disconnect(s) \/ Connect(s)
  BY <1>1 DEF Disconnect, Connect, Silent, Statuses
<1>2. CASE ReceivePage(s) \/ ApplyVerify(s) \/ SendReport(s) \/ ReceiveAck(s)
  BY <1>2 DEF ReceivePage, ApplyVerify, SendReport, ReceiveAck, Silent, Statuses
<1>3. ASSUME NEW r \in Recipient, StartSending(s, r) PROVE Silent
  BY <1>3 DEF StartSending, Silent, Statuses
<1>4. ASSUME NEW t \in work[s], CustomizerFails(s, t) PROVE Silent
  BY <1>4 DEF CustomizerFails, Silent, Statuses
<1> QED
  BY <1>1, <1>2, <1>3, <1>4

(* Master's steps that Ledger knows.                                       *)
LEMMA Granting ==
  ASSUME TypeOK, Mark
  PROVE  Book!Grant
<1> USE DEF docVars, masterVars, linkVars, satVars, historyVars
<1>1. PICK sel \in selection : Marked(sel)
  BY DEF Mark
<1>2. sel.batch \subseteq Recipient
  BY DEF TypeOK, MasterOK, Selection
<1>3. \A q \in Recipient : doc'[q].status = doc[q].status
  <2>1. doc \in [Recipient -> Document]
    BY DEF TypeOK, DocsOK
  <2> QED
    BY <1>1, <2>1 DEF Marked, Document
<1>4. delegated' = [r \in Recipient |->
                      IF r \in sel.batch THEN delegated[r] + 1 ELSE delegated[r]]
  BY <1>1 DEF Marked
<1> QED
  BY <1>2, <1>3, <1>4 DEF Book!Grant, Mark

LEMMA Taking ==
  ASSUME TypeOK, LedgerInv, StoreReport
  PROVE  Book!Take
<1> USE DEF docVars, masterVars, linkVars, satVars, historyVars
<1>1. PICK g \in grabbed : Stored(g)
  BY DEF StoreReport
<1>2. g.item \in Item /\ g.item.rcpt \in Recipient /\ g.doc \in Document
  BY DEF TypeOK, MasterOK, Grabbed, Item
<1>3. Told(g.item, recorded)
  BY DEF LedgerInv, CopiesTold
<1>4. Book!MayTake(g.item)
  <2>1. (\E j \in recorded : TokenOf(j) = TokenOf(g.item))
          => Book!GrantOf(g.item) \in Book!Settled
    BY DEF Book!GrantOf, Book!Settled, TokenOf
  <2> QED
    BY <1>3, <2>1 DEF Told, Book!MayTake, Book!Unsure
<1>5. doc \in [Recipient -> Document]
  BY DEF TypeOK, DocsOK
<1>6. \/ doc' = doc
      \/ doc' = [doc EXCEPT ![g.item.rcpt] =
                   Updated(g.doc, g.item.status, Head(pool).sat)]
  BY <1>1 DEF Stored
<1>7. Updated(g.doc, g.item.status, Head(pool).sat).status = g.item.status
  BY <1>2 DEF Updated, Document
<1>8. \/ UNCHANGED Statuses
      \/ Statuses' = [Statuses EXCEPT ![g.item.rcpt] = g.item.status]
  <2>1. CASE doc' = doc
    BY <2>1 DEF Statuses
  <2>2. CASE doc' = [doc EXCEPT ![g.item.rcpt] =
                       Updated(g.doc, g.item.status, Head(pool).sat)]
    <3>1. \A r \in Recipient :
            doc'[r].status = IF r = g.item.rcpt THEN g.item.status ELSE doc[r].status
      BY <1>2, <1>5, <1>7, <2>2
    <3> QED
      BY <1>2, <3>1 DEF Statuses
  <2> QED
    BY <1>6, <2>1, <2>2
<1>9. taken' = taken \cup {g.item}
  BY <1>1 DEF Stored
<1> QED
  BY <1>4, <1>8, <1>9 DEF Book!Take, Statuses, StoreReport

LEMMA Changing ==
  ASSUME TypeOK, NEW r \in Recipient
  PROVE  /\ StoreDsn(r) => Book!Notify(r)
         /\ Reset(r) => Book!Renew(r)
<1> USE DEF docVars, masterVars, linkVars, satVars, historyVars
<1>1. doc \in [Recipient -> Document]
  BY DEF TypeOK, DocsOK
<1>2. ASSUME StoreDsn(r) PROVE Book!Notify(r)
  <2>1. \A q \in Recipient :
          doc'[q].status = IF q = r THEN "ERROR" ELSE doc[q].status
    BY <1>1, <1>2 DEF StoreDsn, Document
  <2> QED
    BY <1>2, <2>1 DEF StoreDsn, Book!Notify
<1>3. ASSUME Reset(r) PROVE Book!Renew(r)
  <2>1. \A q \in Recipient :
          doc'[q].status = IF q = r THEN "READY" ELSE doc[q].status
    BY <1>1, <1>3 DEF Reset, Document
  <2> QED
    BY <1>3, <2>1 DEF Reset, Book!Renew
<1> QED
  BY <1>2, <1>3

(* A satellite that learns, and says, how something ended.                 *)
LEMMA Learning ==
  ASSUME TypeOK, NotSentInv, LedgerInv, LedgerInv', NEW s \in Satellite,
         UNCHANGED <<doc, delegated, taken>>, mailed \subseteq mailed',
         \/ UNCHANGED recorded
         \/ \E t \in Token, o \in RowStatus :
              /\ recorded' = recorded \cup {ItemOf(t, o)}
              /\ GrantedIn(t, delegated)
              /\ o = "FINISHED" => t \in mailed'
              /\ t \in RecordedTokens => o = "FINISHED"
  PROVE  Book!Settle
<1>1. \A t \in mailed' : Book!Granted(t)
  BY DEF LedgerInv, AllGranted, GrantedIn, Book!Granted
<1>2. ASSUME NEW i \in recorded' \ recorded PROVE Book!MayRecord(i)
  <2>1. PICK t \in Token, o \in RowStatus :
          /\ i = ItemOf(t, o) /\ GrantedIn(t, delegated)
          /\ o = "FINISHED" => t \in mailed'
          /\ t \in RecordedTokens => o = "FINISHED"
    BY <1>2
  <2>2. Book!GrantOf(i) = t /\ i.status = o
    BY <2>1 DEF Book!GrantOf, ItemOf, Token
  <2>3. Book!Settled = RecordedTokens
    BY DEF Book!Settled, Book!GrantOf, RecordedTokens, TokenOf
  <2> QED
    BY <2>1, <2>2, <2>3 DEF Book!MayRecord, Book!Granted, GrantedIn
<1>3. recorded \subseteq recorded'
  OBVIOUS
<1> QED
  BY <1>1, <1>2, <1>3 DEF Book!Settle

LEMMA Settled ==
  ASSUME TypeOK, NotSentInv, LedgerInv, LedgerInv', NEW s \in Satellite,
         \/ StopSatellite(s)
         \/ \E r \in Recipient : RefuseDomain(s, r)
         \/ \E t \in work[s], o \in Outcome : EndSending(s, t, o)
         \/ \E t \in work[s], o \in {"WARNING", "ERROR"} : GiveUp(s, t, o)
         \/ \E t \in zombies[s] : EndZombie(s, t)
  PROVE  Book!Settle
<1> USE DEF docVars, masterVars, linkVars, satVars, historyVars
<1>0. /\ work[s] \subseteq Token /\ zombies[s] \subseteq Token
      /\ \A t \in Sending(s) : GrantedIn(t, delegated)
      /\ work[s] \cap RecordedTokens = {}
  BY DEF TypeOK, SatellitesOK, LedgerInv, AllGranted, NotSentInv, RecordedLast
<1>1. CASE StopSatellite(s)
  BY <1>1, Learning DEF StopSatellite
<1>2. ASSUME NEW r \in Recipient, RefuseDomain(s, r) PROVE Book!Settle
  <2> DEFINE t == RowToken(s, r)
  <2>1. r \in Present(s) /\ row[s][r] \in Row /\ ~row[s][r].finished
    BY <1>2 DEF RefuseDomain, Sendable, Present, TypeOK, SatellitesOK
  <2>2. t \in Token /\ GrantedIn(t, delegated) /\ t \notin RecordedTokens
    BY <2>1 DEF RowToken, Token, Row, LedgerInv, AllGranted, NotSentInv, RecordedLast
  <2>3. recorded' = recorded \cup {ItemOf(t, "READY")} /\ "READY" \in RowStatus
    BY <1>2 DEF RefuseDomain, RowStatus
  <2>4. UNCHANGED <<doc, delegated, taken, mailed>>
    BY <1>2 DEF RefuseDomain
  <2> HIDE DEF t
  <2> QED
    BY <2>2, <2>3, <2>4, Learning
<1>3. ASSUME NEW t \in work[s], NEW o \in Outcome, EndSending(s, t, o)
      PROVE  Book!Settle
  <2>1. /\ recorded' = recorded \cup {ItemOf(t, o)} /\ o \in RowStatus
        /\ mailed \subseteq mailed' /\ (o = "FINISHED" => t \in mailed')
        /\ UNCHANGED <<doc, delegated, taken>>
    BY <1>3 DEF EndSending, MayBeMailed, RowStatus
  <2>2. t \in Token /\ GrantedIn(t, delegated) /\ t \notin RecordedTokens
    BY <1>0 DEF Sending
  <2> QED
    BY <2>1, <2>2, Learning
<1>4. ASSUME NEW t \in work[s], NEW o \in {"WARNING", "ERROR"}, GiveUp(s, t, o)
      PROVE  Book!Settle
  <2>1. /\ recorded' = recorded \cup {ItemOf(t, o)} /\ o \in RowStatus /\ o # "FINISHED"
        /\ UNCHANGED <<doc, delegated, taken, mailed>>
    BY <1>4 DEF GiveUp, RowStatus, Outcome
  <2>2. t \in Token /\ GrantedIn(t, delegated) /\ t \notin RecordedTokens
    BY <1>0 DEF Sending
  <2> QED
    BY <2>1, <2>2, Learning
<1>5. ASSUME NEW t \in zombies[s], EndZombie(s, t) PROVE Book!Settle
  <2>1. /\ UNCHANGED <<doc, delegated, taken>>
        /\ mailed \subseteq mailed'
        /\ \/ UNCHANGED recorded
           \/ /\ recorded' = recorded \cup {ItemOf(t, "FINISHED")}
              /\ mailed' = mailed \cup {t}
    BY <1>5 DEF EndZombie, MayBeMailed
  <2>2. t \in Token /\ GrantedIn(t, delegated) /\ "FINISHED" \in RowStatus
    BY <1>0 DEF Sending, RowStatus, Outcome
  <2> QED
    BY <2>1, <2>2, Learning
<1> QED
  BY <1>1, <1>2, <1>3, <1>4, <1>5

(* Delegation promises what Ledger says, of any number of recipients,      *)
(* satellites and mishaps: the master hears of a grant only what was       *)
(* recorded about it or that nobody is sure, and a record is only          *)
(* corrected by a late success (update_send_status, _store_reports).       *)
THEOREM Implementing == Spec => ImplementsLedger
<1>1. Init => Book!Init
  BY DEF Init, Book!Init
<1>2. TypeOK /\ NotSentInv /\ LedgerInv /\ LedgerInv' /\ [Next]_vars
        => [Book!Next]_(Book!vars)
  <2> SUFFICES ASSUME TypeOK, NotSentInv, LedgerInv, LedgerInv', [Next]_vars
               PROVE  Book!Next \/ UNCHANGED Book!vars
    OBVIOUS
  <2>1. Silent => UNCHANGED Book!vars
    BY DEF Silent, Statuses, Book!vars
  <2>2. UNCHANGED vars => Silent
    BY DEF vars, stateVars, docVars, historyVars, Silent, Statuses
  <2>3. ASSUME MasterNext PROVE Book!Next \/ Silent
    BY <2>3, SilentMaster, Granting, Taking, Changing DEF MasterNext, Book!Next
  <2>4. ASSUME NEW s \in Satellite, SatelliteNext(s) PROVE Book!Next \/ Silent
    BY <2>4, SilentSatellite, Settled DEF SatelliteNext, Book!Next
  <2> QED
    BY <2>1, <2>2, <2>3, <2>4 DEF Next, Change
<1> QED
  BY <1>1, <1>2, Typing, NothingSentAgain, Keeping, PTL
  DEF Spec, ImplementsLedger, Book!Spec

=============================================================================
