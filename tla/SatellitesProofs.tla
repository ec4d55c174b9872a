-------------------------- MODULE SatellitesProofs --------------------------
(***************************************************************************)
(* Proofs about Satellites: who is paired is connected, administrators'    *)
(* changes stand, the master's statistics never go back, and the lists of  *)
(* hours computed from them are right.                                     *)
(***************************************************************************)
EXTENDS Satellites, TLAPS, FiniteSetTheorems, WellFoundedInduction

-----------------------------------------------------------------------------
(* The inductive invariant.                                                *)

(* Documents and avatars: numbers of documents are never used twice, an    *)
(* avatar believes in one connection at most, and a serial without avatar  *)
(* has none.                                                               *)
DocumentOK(d, last) ==
  d \in Document /\ d.id <= last /\ (d.id = 0 => ~d.enabled)
AvatarOK(a, isMade, last) ==
  /\ a \in Avatar /\ a.document.id <= last
  /\ a.minds \in {{}, {"live"}, {"stale"}}
  /\ isMade \/ a.minds = {}

MasterOK ==
  /\ document \in [Satellite -> Document] /\ avatar \in [Satellite -> Avatar]
  /\ lastId \in Nat /\ made \subseteq Satellite
  /\ \A s \in Satellite :
       DocumentOK(document[s], lastId) /\ AvatarOK(avatar[s], s \in made, lastId)

(* The master believes in the connection of a satellite that was attached; *)
(* statistics are on their way only from a satellite that is served, or    *)
(* from one that was, as long as the master believes in that connection.   *)
Linked(s) ==
  /\ "live" \in avatar[s].minds <=> link[s] \in {"attached", "stuck", "served"}
  /\ report[s] # NoStatistics => link[s] = "served"
  /\ late[s] # {} => avatar[s].minds = {"stale"}

(* What is on its way is no older than what the master has, and no newer   *)
(* than what the satellite has; of earlier connections there is one report *)
(* at most.                                                                *)
Fresher(s, statistics) ==
  \A h \in Hour :
    tally[s][h].tries <= statistics[h] /\ statistics[h] <= tries[s][h]
Recent(s) ==
  /\ \A h \in Hour : tally[s][h].tries <= tries[s][h]
  /\ report[s] # NoStatistics => Fresher(s, report[s])
  /\ \A a \in late[s] : Fresher(s, a)
  /\ \A a, b \in late[s] : a = b

StatisticsOK ==
  /\ hour \in Hour /\ answered \subseteq Satellite
  /\ tries \in [Satellite -> Statistics] /\ report \in [Satellite -> Statistics]
  /\ tally \in [Satellite -> [Hour -> Entry]]
  /\ late \in [Satellite -> SUBSET Statistics]
  /\ upToDate = [s \in Satellite |-> {}]

LinkOK == link \in [Satellite -> Stage] /\ \A s \in Satellite : Linked(s)

BoundOK == many \in Nat /\ scenario \in Scenarios

IInv ==
  /\ MasterOK /\ PairedIsConnected /\ LinkOK
  /\ StatisticsOK /\ (\A s \in Satellite : Recent(s)) /\ BoundOK

-----------------------------------------------------------------------------
(* Lemmas.                                                                 *)

LEMMA Room ==
  ASSUME NEW s \in Satellite, MasterOK, HasRoom(s)
  PROVE  avatar[s].minds = {}
<1>1. Cardinality({"live"}) = 1 /\ Cardinality({"stale"}) = 1
  BY FS_Singleton
<1>2. avatar[s].minds \in {{}, {"live"}, {"stale"}}
  BY DEF MasterOK, AvatarOK
<1>3. Cardinality(avatar[s].minds) < 1
  BY SatellitesAssumption DEF HasRoom
<1> QED
  BY <1>1, <1>2, <1>3

LEMMA Nothing == NoDocument \in Document /\ NoDocument.id = 0
BY DEF NoDocument, Document

(* Steps that leave master and connections alone.                          *)
LEMMA MasterStays ==
  ASSUME IInv, UNCHANGED masterVars
  PROVE  MasterOK' /\ PairedIsConnected'
BY DEF IInv, MasterOK, DocumentOK, AvatarOK, PairedIsConnected, masterVars

LEMMA StatisticsStay ==
  ASSUME IInv, UNCHANGED <<tries, upToDate, report, late, tally>>, hour' \in Hour,
         answered' \subseteq answered
  PROVE  StatisticsOK' /\ \A s \in Satellite : Recent(s)'
BY DEF IInv, StatisticsOK, Recent, Fresher

LEMMA LinksStay ==
  ASSUME IInv, UNCHANGED <<avatar, link, report, late>>
  PROVE  LinkOK'
BY DEF IInv, LinkOK, Linked

-----------------------------------------------------------------------------
(* Settings, time, and connections that are not yet attached.              *)

LEMMA Settling ==
  ASSUME IInv, UNCHANGED scenario,
         \/ FindSatellites \/ HourPasses
         \/ \E s \in Satellite : PushSettings(s) \/ SetSettings(s)
  PROVE  IInv'
<1>1. /\ UNCHANGED <<masterVars, linkVars, tries, upToDate, report, late, answered, tally, many>>
      /\ UNCHANGED hour \/ HourPasses
  BY DEF FindSatellites, HourPasses, PushSettings, SetSettings, statisticVars, bounds
<1>2. hour' \in Hour
  <2>1. scenario.hours \in Nat /\ scenario.hours <= LastHour
    BY SatellitesAssumption DEF IInv, BoundOK, Scenario
  <2>2. hour \in Hour /\ LastHour \in Nat
    BY SatellitesAssumption DEF IInv, StatisticsOK
  <2>3. CASE UNCHANGED hour
    BY <2>2, <2>3
  <2>4. CASE HourPasses
    BY <2>1, <2>2, <2>4 DEF HourPasses, Hour
  <2> QED
    BY <1>1, <2>3, <2>4
<1>3. MasterOK' /\ PairedIsConnected'
  BY <1>1, MasterStays
<1>4. StatisticsOK' /\ \A s \in Satellite : Recent(s)'
  BY <1>1, <1>2, StatisticsStay
<1>5. LinkOK'
  BY <1>1, LinksStay DEF masterVars, linkVars
<1> QED
  BY <1>1, <1>3, <1>4, <1>5 DEF IInv, BoundOK

LEMMA Connecting ==
  ASSUME IInv, UNCHANGED scenario, NEW s \in Satellite, Connect(s)
  PROVE  IInv'
<1>1. MasterOK' /\ PairedIsConnected'
  BY MasterStays DEF Connect
<1>2. StatisticsOK' /\ \A t \in Satellite : Recent(t)'
  BY StatisticsStay DEF Connect, statisticVars, IInv, StatisticsOK
<1>3. LinkOK'
  BY DEF Connect, IInv, LinkOK, Linked, Stage, masterVars, statisticVars
<1> QED
  BY <1>1, <1>2, <1>3 DEF Connect, bounds, IInv, BoundOK

-----------------------------------------------------------------------------
(* Logins.                                                                 *)

LEMMA LoggingIn ==
  ASSUME IInv, UNCHANGED scenario, NEW s \in Satellite, Login(s)
  PROVE  IInv'
<1>0. /\ UNCHANGED <<lastId, statisticVars, bounds>>
      /\ document[s] \in Document /\ avatar[s] \in Avatar /\ lastId \in Nat
      /\ DocumentOK(document[s], lastId) /\ AvatarOK(avatar[s], s \in made, lastId)
  BY DEF Login, IInv, MasterOK
<1>1. StatisticsOK' /\ \A t \in Satellite : Recent(t)'
  BY <1>0, StatisticsStay DEF statisticVars, IInv, StatisticsOK
<1>2. CASE MayAttach(s)
  <2> DEFINE paired == [document[s] EXCEPT !.paired = TRUE]
             new == [document |-> IF s \in made THEN avatar[s].document ELSE paired,
                     minds |-> avatar[s].minds \cup {"live"}]
  <2>1. avatar[s].minds = {}
    BY <1>2, Room DEF MayAttach, IInv
  <2>2. /\ paired \in Document /\ paired.id = document[s].id
        /\ paired.enabled = document[s].enabled /\ paired.paired = TRUE
    BY <1>0 DEF Document
  <2>3. /\ document' = [document EXCEPT ![s] = paired]
        /\ avatar' = [avatar EXCEPT ![s] = new]
        /\ made' = made \cup {s} /\ link' = [link EXCEPT ![s] = "attached"]
    BY <1>2 DEF Login
  <2> HIDE DEF paired
  <2>4. /\ new \in Avatar /\ new.minds = {"live"}
        /\ new.document.id = document[s].id
    BY <1>0, <1>2, <2>1, <2>2 DEF MayAttach, Avatar
  <2> HIDE DEF new
  <2>5. document[s].id # 0
    BY <1>0, <1>2 DEF MayAttach, Authorized, DocumentOK
  <2>6. MasterOK'
    BY <1>0, <2>2, <2>3, <2>4 DEF IInv, MasterOK, DocumentOK, AvatarOK
  <2>7. PairedIsConnected'
    BY <2>2, <2>3, <2>4, <2>5 DEF IInv, MasterOK, PairedIsConnected
  <2>8. link[s] = "login"
    BY DEF Login
  <2>9. LinkOK'
    BY <1>0, <2>1, <2>3, <2>4, <2>8
    DEF IInv, MasterOK, LinkOK, Linked, Stage, statisticVars
  <2> QED
    BY <1>0, <1>1, <2>6, <2>7, <2>9 DEF IInv, BoundOK, bounds
<1>3. CASE ~MayAttach(s)
  <2> DEFINE first == Authorized(s) /\ s \notin made
             read == IF first THEN document[s] ELSE avatar[s].document
             new == [avatar[s] EXCEPT !.document = read]
  <2>1. /\ document' = document /\ link' = [link EXCEPT ![s] = "refused"]
        /\ made' = IF Authorized(s) THEN made \cup {s} ELSE made
        /\ avatar' = [avatar EXCEPT ![s] = new]
    BY <1>3 DEF Login
  <2>2. ~first
    <3>1. first => avatar[s].minds = {}
      BY <1>0 DEF AvatarOK
    <3>2. avatar[s].minds = {} => HasRoom(s)
      BY FS_EmptySet, SatellitesAssumption DEF HasRoom
    <3> QED
      BY <1>3, <3>1, <3>2 DEF MayAttach
  <2>3. new = avatar[s]
    BY <1>0, <2>2 DEF Avatar
  <2>4. UNCHANGED <<document, avatar, made, lastId>>
    BY <1>0, <2>1, <2>2, <2>3 DEF IInv, MasterOK
  <2>5. MasterOK' /\ PairedIsConnected'
    BY <2>4, MasterStays DEF masterVars
  <2>6. link[s] = "login"
    BY DEF Login
  <2>7. LinkOK'
    BY <1>0, <2>1, <2>4, <2>6 DEF IInv, LinkOK, Linked, Stage, statisticVars
  <2> QED
    BY <1>0, <1>1, <2>5, <2>7 DEF IInv, BoundOK, bounds
<1> QED
  BY <1>2, <1>3

LEMMA Reading ==
  ASSUME IInv, NEW s \in Satellite
  PROVE  /\ Reloaded(s) \in Document /\ Reloaded(s).id <= lastId
         /\ Reloaded(s).id # 0 => /\ Reloaded(s) = document[s]
                                  /\ avatar[s].document.id = document[s].id
         /\ Reloaded(s).id = 0 => \/ document[s].id = 0
                                  \/ avatar[s].document.id # document[s].id
BY Nothing DEF Reloaded, IInv, MasterOK, DocumentOK

LEMMA Serving ==
  ASSUME IInv, UNCHANGED scenario, NEW s \in Satellite, GetManager(s)
  PROVE  IInv'
<1> DEFINE new == [avatar[s] EXCEPT !.document = Reloaded(s)]
<1>1. /\ UNCHANGED <<document, lastId, made, statisticVars, bounds>>
      /\ avatar' = [avatar EXCEPT ![s] = new]
      /\ link[s] = "attached"
      /\ link' = [link EXCEPT ![s] = IF Found(s) THEN "served" ELSE "stuck"]
  BY DEF GetManager
<1>2. avatar[s] \in Avatar
  BY DEF IInv, MasterOK
<1>3. /\ new \in Avatar /\ new.minds = avatar[s].minds
      /\ new.document = Reloaded(s)
  BY <1>2, Reading DEF Avatar
<1> HIDE DEF new
<1>4. MasterOK'
  BY <1>1, <1>3, Reading DEF IInv, MasterOK, AvatarOK, DocumentOK
<1>5. PairedIsConnected'
  BY <1>1, <1>3, Reading DEF IInv, MasterOK, PairedIsConnected
<1>6. LinkOK'
  BY <1>1, <1>3 DEF IInv, MasterOK, LinkOK, Linked, Stage, statisticVars
<1>7. StatisticsOK' /\ \A t \in Satellite : Recent(t)'
  BY <1>1, StatisticsStay DEF statisticVars, IInv, StatisticsOK
<1> QED
  BY <1>1, <1>4, <1>5, <1>6, <1>7 DEF IInv, BoundOK, bounds

-----------------------------------------------------------------------------
(* Connections that break.                                                 *)

LEMMA Breaking ==
  ASSUME IInv, UNCHANGED scenario, NEW s \in Satellite, Break(s)
  PROVE  IInv'
<1> DEFINE minds == IF "live" \in avatar[s].minds THEN {"stale"} ELSE avatar[s].minds
           new == [avatar[s] EXCEPT !.minds = minds]
           old == {report[s]} \ {NoStatistics}
<1>1. /\ UNCHANGED <<document, lastId, made, hour, tries, upToDate, tally, many>>
      /\ avatar' = [avatar EXCEPT ![s] = new]
      /\ link' = [link EXCEPT ![s] = "down"]
      /\ late' = [late EXCEPT ![s] = @ \cup old]
      /\ report' = [report EXCEPT ![s] = NoStatistics]
      /\ answered' = answered \ {s}
  BY DEF Break
<1>2. /\ avatar[s] \in Avatar /\ AvatarOK(avatar[s], s \in made, lastId)
      /\ Linked(s) /\ Recent(s) /\ report[s] \in Statistics
      /\ late[s] \subseteq Statistics
  BY DEF IInv, MasterOK, LinkOK, StatisticsOK
<1>3. /\ minds \in {{}, {"stale"}} /\ (minds = {} <=> avatar[s].minds = {})
      /\ avatar[s].minds = {"stale"} => minds = {"stale"}
  BY <1>2 DEF AvatarOK
<1> HIDE DEF minds
<1>4. /\ new \in Avatar /\ new.minds = minds
      /\ new.document = avatar[s].document
  BY <1>2, <1>3 DEF Avatar
<1> HIDE DEF new
<1>5. old # {} => late[s] = {} /\ minds = {"stale"} /\ old = {report[s]}
  BY <1>2, <1>3 DEF Linked, minds, AvatarOK
<1>6. MasterOK'
  BY <1>1, <1>2, <1>3, <1>4 DEF IInv, MasterOK, AvatarOK
<1>7. PairedIsConnected'
  BY <1>1, <1>3, <1>4 DEF IInv, MasterOK, PairedIsConnected
<1>8. NoStatistics \in Statistics
  BY DEF NoStatistics, Statistics
<1>9. StatisticsOK'
  BY <1>1, <1>2, <1>8 DEF IInv, StatisticsOK
<1>10. ASSUME NEW t \in Satellite PROVE Linked(t)'
  <2>1. CASE t = s
    <3>1. /\ avatar'[s].minds = minds /\ link'[s] = "down"
          /\ report'[s] = NoStatistics /\ late'[s] = late[s] \cup old
      BY <1>1, <1>4 DEF IInv, MasterOK, LinkOK, StatisticsOK
    <3> QED
      BY <1>2, <1>3, <1>5, <2>1, <3>1 DEF Linked
  <2>2. CASE t # s
    BY <1>1, <2>2 DEF IInv, MasterOK, LinkOK, StatisticsOK, Linked
  <2> QED
    BY <2>1, <2>2
<1>11. ASSUME NEW t \in Satellite PROVE Recent(t)'
  <2>1. CASE t = s
    <3>1. report'[s] = NoStatistics /\ late'[s] = late[s] \cup old
      BY <1>1 DEF IInv, StatisticsOK
    <3>2. \A a \in late'[s] : Fresher(s, a)
      BY <1>2, <3>1 DEF Recent
    <3>3. \A a, b \in late'[s] : a = b
      BY <1>2, <1>5, <3>1 DEF Recent
    <3> QED
      BY <1>1, <1>2, <2>1, <3>1, <3>2, <3>3 DEF Recent, Fresher
  <2>2. CASE t # s
    BY <1>1, <2>2 DEF IInv, StatisticsOK, Recent, Fresher
  <2> QED
    BY <2>1, <2>2
<1> QED
  BY <1>1, <1>6, <1>7, <1>9, <1>10, <1>11 DEF IInv, LinkOK, BoundOK, Stage

LEMMA Detaching ==
  ASSUME IInv, UNCHANGED scenario, NEW s \in Satellite, Detach(s)
  PROVE  IInv'
<1> DEFINE minds == IF Found(s) THEN avatar[s].minds \ {"stale"} ELSE avatar[s].minds
           new == [document |-> Reloaded(s), minds |-> minds]
<1>1. /\ UNCHANGED <<lastId, made, link, hour, tries, upToDate, report, answered, tally, many>>
      /\ document' = [document EXCEPT ![s] = Unpaired(s)]
      /\ avatar' = [avatar EXCEPT ![s] = new]
      /\ late' = [late EXCEPT ![s] = {}]
  BY DEF Detach, linkVars, bounds
<1>2. /\ document[s] \in Document /\ DocumentOK(document[s], lastId)
      /\ avatar[s] \in Avatar /\ AvatarOK(avatar[s], s \in made, lastId)
      /\ Linked(s)
  BY DEF IInv, MasterOK, LinkOK
<1>3. avatar[s].minds = {"stale"} /\ s \in made
  BY <1>2 DEF Detach, AvatarOK
<1>4. minds = IF Found(s) THEN {} ELSE {"stale"}
  BY <1>3
<1> HIDE DEF minds
<1>5. /\ new \in Avatar /\ new.minds = minds /\ new.document = Reloaded(s)
  BY <1>4, Reading DEF Avatar
<1> HIDE DEF new
<1>6. /\ Unpaired(s) \in Document /\ Unpaired(s).id = document[s].id
      /\ Unpaired(s).enabled = document[s].enabled
      /\ Found(s) => Unpaired(s).paired = FALSE
      /\ ~Found(s) => Unpaired(s) = document[s]
  BY <1>2, Reading DEF Unpaired, Found, Document
<1>7. MasterOK'
  BY <1>1, <1>3, <1>4, <1>5, <1>6, Reading DEF IInv, MasterOK, DocumentOK, AvatarOK
<1>8. PairedIsConnected'
  <2> SUFFICES ASSUME NEW t \in Satellite, document'[t].id # 0
               PROVE  document'[t].paired <=>
                        /\ t \in made /\ avatar'[t].document.id = document'[t].id
                        /\ avatar'[t].minds # {}
    BY <1>1 DEF PairedIsConnected
  <2>1. CASE t # s
    BY <1>1, <2>1 DEF IInv, MasterOK, PairedIsConnected
  <2>2. CASE t = s
    <3>1. document'[s] = Unpaired(s) /\ avatar'[s] = new
      BY <1>1 DEF IInv, MasterOK
    <3>2. CASE Found(s)
      BY <1>4, <1>5, <1>6, <2>2, <3>1, <3>2
    <3>3. CASE ~Found(s)
      BY <1>4, <1>5, <1>6, <2>2, <3>1, <3>3, Reading
      DEF Found, IInv, PairedIsConnected
    <3> QED
      BY <3>2, <3>3
  <2> QED
    BY <2>1, <2>2
<1>9. ASSUME NEW t \in Satellite PROVE Linked(t)'
  BY <1>1, <1>2, <1>3, <1>4, <1>5
  DEF IInv, MasterOK, LinkOK, StatisticsOK, Linked
<1>10. StatisticsOK' /\ \A t \in Satellite : Recent(t)'
  BY <1>1 DEF IInv, StatisticsOK, Recent, Fresher
<1> QED
  BY <1>1, <1>7, <1>8, <1>9, <1>10 DEF IInv, LinkOK, BoundOK

LEMMA Restarting ==
  ASSUME IInv, UNCHANGED scenario, Restart
  PROVE  IInv'
<1>1. /\ UNCHANGED <<lastId, hour, tries, upToDate, tally, many>>
      /\ document' = [s \in Satellite |-> [document[s] EXCEPT !.paired = FALSE]]
      /\ avatar' = [s \in Satellite |-> NoAvatar] /\ made' = {}
      /\ link' = [s \in Satellite |-> "down"]
      /\ report' = [s \in Satellite |-> NoStatistics]
      /\ late' = [s \in Satellite |-> {}] /\ answered' = {}
  BY DEF Restart
<1>2. ASSUME NEW s \in Satellite
      PROVE  /\ document'[s] \in Document /\ document'[s].id = document[s].id
             /\ document'[s].enabled = document[s].enabled
             /\ document'[s].paired = FALSE
  BY <1>1 DEF IInv, MasterOK, Document
<1>3. NoAvatar \in Avatar /\ NoAvatar.minds = {} /\ NoAvatar.document.id = 0
  BY Nothing DEF NoAvatar, Avatar
<1>4. MasterOK'
  <2>1. lastId \in Nat /\ 0 <= lastId
    BY DEF IInv, MasterOK
  <2>2. document' \in [Satellite -> Document] /\ avatar' \in [Satellite -> Avatar]
    BY <1>1, <1>2, <1>3
  <2>3. \A s \in Satellite : DocumentOK(document'[s], lastId)
    BY <1>2 DEF IInv, MasterOK, DocumentOK
  <2>4. \A s \in Satellite : AvatarOK(avatar'[s], s \in made', lastId)
    BY <1>1, <1>3, <2>1 DEF AvatarOK
  <2> QED
    BY <1>1, <2>1, <2>2, <2>3, <2>4 DEF MasterOK
<1>5. PairedIsConnected'
  BY <1>1, <1>2 DEF PairedIsConnected
<1>6. LinkOK'
  BY <1>1, <1>3 DEF LinkOK, Linked, Stage
<1>7. NoStatistics \in Statistics
  BY DEF NoStatistics, Statistics
<1>8. StatisticsOK' /\ \A t \in Satellite : Recent(t)'
  BY <1>1, <1>7 DEF IInv, StatisticsOK, Recent, Fresher
<1> QED
  BY <1>1, <1>4, <1>5, <1>6, <1>8 DEF IInv, BoundOK

-----------------------------------------------------------------------------
(* Administrators.                                                         *)

LEMMA Administering ==
  ASSUME IInv, UNCHANGED scenario, NEW s \in Satellite,
         SetProperties(s) \/ Delete(s) \/ Add(s)
  PROVE  IInv' /\ many' # many
<1>1. /\ UNCHANGED <<avatar, made, linkVars, statisticVars>>
      /\ many > 0 /\ many' = many - 1
  BY DEF SetProperties, Delete, Add, Changed
<1>2. many' \in Nat /\ many' # many
  BY <1>1 DEF IInv, BoundOK
<1>3. MasterOK' /\ PairedIsConnected'
  <2>1. document[s] \in Document /\ DocumentOK(document[s], lastId)
    BY DEF IInv, MasterOK
  <2>2. CASE SetProperties(s)
    <3> DEFINE Same(d) == /\ d \in Document /\ d.id = document[s].id
                          /\ d.paired = document[s].paired
    <3>0. document[s].id # 0 /\ UNCHANGED lastId
      BY <2>2 DEF SetProperties
    <3>1. PICK d : document' = [document EXCEPT ![s] = d] /\ Same(d)
      <4>1. \A b \in BOOLEAN : Same([document[s] EXCEPT !.enabled = b])
        BY <2>1 DEF Document
      <4>2. Same([document[s] EXCEPT !.settings = @ + 1])
        BY <2>1 DEF Document
      <4>3. CASE document' = [document EXCEPT ![s].settings = @ + 1]
        BY <4>2, <4>3 DEF IInv, MasterOK
      <4>4. ASSUME NEW b \in BOOLEAN,
                   document' = [document EXCEPT ![s].enabled = b]
            PROVE  \E d : document' = [document EXCEPT ![s] = d] /\ Same(d)
        BY <4>1, <4>4 DEF IInv, MasterOK
      <4> QED
        BY <2>2, <4>3, <4>4 DEF SetProperties
    <3> QED
      BY <1>1, <3>0, <3>1 DEF IInv, MasterOK, DocumentOK, AvatarOK, PairedIsConnected
  <2>3. CASE Delete(s)
    BY <1>1, <2>3, Nothing
    DEF Delete, IInv, MasterOK, DocumentOK, AvatarOK, PairedIsConnected, NoDocument
  <2>4. CASE Add(s)
    <3> DEFINE d == [NoDocument EXCEPT !.id = lastId + 1, !.enabled = TRUE]
    <3>0. lastId + 1 \in Nat
      BY DEF IInv, MasterOK
    <3>1. d \in Document /\ d.id = lastId + 1 /\ d.paired = FALSE
      BY <3>0, Nothing DEF NoDocument, Document
    <3>2. document' = [document EXCEPT ![s] = d] /\ lastId' = lastId + 1
      BY <2>4 DEF Add
    <3> HIDE DEF d
    <3>3. \A t \in Satellite :
            /\ document[t].id \in Nat /\ document[t].id <= lastId
            /\ avatar[t].document.id \in Nat /\ avatar[t].document.id <= lastId
      BY DEF IInv, MasterOK, DocumentOK, AvatarOK, Document, Avatar
    <3>4. lastId \in Nat
      BY DEF IInv, MasterOK
    <3>5. MasterOK'
      BY <1>1, <3>1, <3>2, <3>3, <3>4 DEF IInv, MasterOK, DocumentOK, AvatarOK
    <3>6. PairedIsConnected'
      BY <1>1, <3>1, <3>2, <3>3, <3>4 DEF IInv, MasterOK, PairedIsConnected
    <3> QED
      BY <3>5, <3>6
  <2> QED
    BY <2>2, <2>3, <2>4
<1>4. LinkOK'
  BY <1>1, LinksStay DEF linkVars, statisticVars
<1>5. StatisticsOK' /\ \A t \in Satellite : Recent(t)'
  BY <1>1, StatisticsStay DEF statisticVars, IInv, StatisticsOK
<1> QED
  BY <1>2, <1>3, <1>4, <1>5 DEF IInv, BoundOK

-----------------------------------------------------------------------------
(* Statistics.                                                             *)

LEMMA Trying ==
  ASSUME IInv, UNCHANGED scenario, NEW s \in Satellite, AddTry(s)
  PROVE  IInv'
<1> DEFINE more == [tries[s] EXCEPT ![hour] = @ + 1]
<1>1. /\ UNCHANGED <<masterVars, linkVars, hour, report, late, answered, tally, many>>
      /\ tries' = [tries EXCEPT ![s][hour] = @ + 1]
      /\ upToDate' = [upToDate EXCEPT ![s] = @ \ {hour}]
  BY DEF AddTry, bounds
<1>2. hour \in Hour /\ tries \in [Satellite -> Statistics]
  BY DEF IInv, StatisticsOK
<1>3. tries' = [tries EXCEPT ![s] = more]
  BY <1>1, <1>2
<1>4. more \in Statistics /\ \A h \in Hour : tries[s][h] <= more[h]
  BY <1>2 DEF Statistics
<1> HIDE DEF more
<1>5. /\ tries' \in [Satellite -> Statistics]
      /\ \A t \in Satellite, h \in Hour : tries[t][h] <= tries'[t][h]
      /\ \A t \in Satellite, h \in Hour : tries[t][h] \in Nat /\ tries'[t][h] \in Nat
  <2>1. tries' \in [Satellite -> Statistics]
    BY <1>2, <1>3, <1>4
  <2>2. \A t \in Satellite, h \in Hour : tries[t][h] \in Nat /\ tries'[t][h] \in Nat
    BY <1>2, <2>1 DEF Statistics
  <2>3. ASSUME NEW t \in Satellite, NEW h \in Hour PROVE tries[t][h] <= tries'[t][h]
    BY <1>2, <1>3, <1>4, <2>2
  <2> QED
    BY <2>1, <2>2, <2>3
<1>6. upToDate' = upToDate
  BY <1>1 DEF IInv, StatisticsOK
<1>7. StatisticsOK'
  BY <1>1, <1>5, <1>6 DEF IInv, StatisticsOK
<1>8. ASSUME NEW t \in Satellite PROVE Recent(t)'
  <2>1. Recent(t) /\ UNCHANGED <<tally, report, late>>
    BY <1>1 DEF IInv
  <2>2. /\ \A h \in Hour : tally[t][h].tries \in Nat
        /\ report[t] \in Statistics /\ late[t] \subseteq Statistics
    BY DEF IInv, StatisticsOK, Entry
  <2>3. \A a \in Statistics : Fresher(t, a) => Fresher(t, a)'
    BY <1>5, <2>1 DEF Fresher, Statistics
  <2>4. \A h \in Hour : tally[t][h].tries <= tries'[t][h]
    BY <1>5, <2>1, <2>2 DEF Recent
  <2>5. report[t] # NoStatistics => Fresher(t, report[t])'
    BY <2>1, <2>2, <2>3 DEF Recent
  <2>6. \A a \in late[t] : Fresher(t, a)'
    BY <2>1, <2>2, <2>3 DEF Recent
  <2> QED
    BY <2>1, <2>4, <2>5, <2>6 DEF Recent
<1>9. MasterOK' /\ PairedIsConnected' /\ LinkOK'
  BY <1>1, MasterStays, LinksStay DEF masterVars, linkVars
<1> QED
  BY <1>1, <1>7, <1>8, <1>9 DEF IInv, BoundOK

LEMMA Sending ==
  ASSUME IInv, UNCHANGED scenario, NEW s \in Satellite, SendStatistics(s)
  PROVE  IInv'
<1>1. /\ UNCHANGED <<masterVars, linkVars, hour, tries, upToDate, late, answered, tally, many>>
      /\ report' = [report EXCEPT ![s] = Unreported(s)]
      /\ link[s] = "served"
  BY DEF SendStatistics, bounds
<1>2. Unreported(s) = tries[s] /\ tries[s] \in Statistics
  BY DEF Unreported, IInv, StatisticsOK, Statistics
<1>3. StatisticsOK'
  BY <1>1, <1>2 DEF IInv, StatisticsOK
<1>4. Fresher(s, tries[s])
  <2>1. \A h \in Hour : tries[s][h] \in Nat
    BY <1>2 DEF Statistics
  <2> QED
    BY <2>1 DEF IInv, Recent, Fresher
<1>5. ASSUME NEW t \in Satellite PROVE Recent(t)' /\ Linked(t)'
  <2>1. report'[t] = IF t = s THEN tries[s] ELSE report[t]
    BY <1>1, <1>2 DEF IInv, StatisticsOK
  <2>2. Recent(t) /\ Linked(t)
    BY DEF IInv, LinkOK
  <2> QED
    BY <1>1, <1>4, <2>1, <2>2 DEF Recent, Fresher, Linked, masterVars, linkVars
<1>6. MasterOK' /\ PairedIsConnected'
  BY <1>1, MasterStays
<1> QED
  BY <1>1, <1>3, <1>5, <1>6 DEF IInv, LinkOK, BoundOK, linkVars

(* What is stored was on its way: it is not older than what it replaces,   *)
(* and from then on is what the master has, but for hours without a try.   *)
LEMMA Overwriting ==
  ASSUME IInv, NEW s \in Satellite, NEW a \in Statistics, Fresher(s, a)
  PROVE  /\ Stored(s, a) \in [Hour -> Entry]
         /\ \A h \in Hour :
              /\ tally[s][h].tries <= Stored(s, a)[h].tries
              /\ Stored(s, a)[h].tries <= a[h]
              /\ Stored(s, a)[h].tries <= tries[s][h]
<1>1. /\ \A h \in Hour : a[h] \in Nat /\ tries[s][h] \in Nat
      /\ \A h \in Hour : tally[s][h] \in Entry /\ tally[s][h].tries \in Nat
                          /\ tally[s][h].date \in Nat
      /\ hour \in Nat
  <2>1. hour \in Nat
    BY SatellitesAssumption DEF IInv, StatisticsOK, Hour
  <2>2. \A h \in Hour : a[h] \in Nat /\ tries[s][h] \in Nat
    <3>1. tries[s] \in Statistics
      BY DEF IInv, StatisticsOK
    <3> QED
      BY <3>1 DEF Statistics
  <2>3. \A h \in Hour : tally[s][h] \in Entry
    BY DEF IInv, StatisticsOK
  <2> QED
    BY <2>1, <2>2, <2>3 DEF Entry
<1> SUFFICES ASSUME NEW h \in Hour
             PROVE  /\ Stored(s, a)[h] \in Entry
                    /\ tally[s][h].tries <= Stored(s, a)[h].tries
                    /\ Stored(s, a)[h].tries <= a[h]
                    /\ Stored(s, a)[h].tries <= tries[s][h]
  BY DEF Stored
<1>2. tally[s][h].tries <= a[h] /\ a[h] <= tries[s][h]
  BY DEF Fresher
<1> DEFINE date == IF tally[s][h] = NoEntry THEN hour ELSE tally[s][h].date
<1>3. date \in Nat
  BY <1>1
<1>4. Stored(s, a)[h] = IF a[h] = 0 THEN tally[s][h] ELSE [tries |-> a[h], date |-> date]
  BY DEF Stored
<1> HIDE DEF date
<1>5. CASE a[h] = 0
  BY <1>1, <1>2, <1>4, <1>5
<1>6. CASE a[h] # 0
  BY <1>1, <1>2, <1>3, <1>4, <1>6 DEF Entry
<1> QED
  BY <1>5, <1>6

LEMMA Storing ==
  ASSUME IInv, UNCHANGED scenario, NEW s \in Satellite,
         StoreStatistics(s) \/ StoreLate(s)
  PROVE  /\ IInv'
         /\ UNCHANGED document
         /\ \A t \in Satellite, h \in Hour : tally[t][h].tries <= tally'[t][h].tries
<1>1. /\ UNCHANGED <<masterVars, linkVars, hour, tries, upToDate, report, many>>
      /\ answered' \subseteq Satellite
  BY DEF StoreStatistics, StoreLate, bounds, IInv, StatisticsOK
<1>2. /\ Linked(s) /\ Recent(s) /\ AvatarOK(avatar[s], s \in made, lastId)
      /\ report[s] \in Statistics /\ late[s] \subseteq Statistics
  BY DEF IInv, MasterOK, LinkOK, StatisticsOK
<1>3. /\ late' \in [Satellite -> SUBSET Statistics]
      /\ \A t \in Satellite : t # s => late'[t] = late[t]
      /\ late'[s] = {}
      /\ \E a \in Statistics :
           Fresher(s, a) /\ (a = report[s] \/ report[s] = NoStatistics)
             /\ tally' = [tally EXCEPT ![s] = Stored(s, a)]
  <2>1. late \in [Satellite -> SUBSET Statistics]
    BY DEF IInv, StatisticsOK
  <2>2. CASE StoreStatistics(s)
    <3>1. "live" \in avatar[s].minds /\ late' = late /\ late[s] = {}
      BY <1>2, <2>2 DEF StoreStatistics, Linked
    <3>2. Fresher(s, report[s]) /\ tally' = [tally EXCEPT ![s] = Stored(s, report[s])]
      BY <1>2, <2>2 DEF StoreStatistics, Recent
    <3> QED
      BY <1>2, <2>1, <3>1, <3>2
  <2>3. CASE StoreLate(s)
    <3>1. PICK a \in late[s] : /\ tally' = [tally EXCEPT ![s] = Stored(s, a)]
                               /\ late' = [late EXCEPT ![s] = @ \ {a}]
      BY <2>3 DEF StoreLate
    <3>2. "live" \notin avatar[s].minds
      BY <1>2, <2>3 DEF StoreLate, AvatarOK
    <3>3. report[s] = NoStatistics
      BY <1>2, <3>2 DEF Linked
    <3>4. late[s] \ {a} = {}
      BY <1>2 DEF Recent
    <3>5. Fresher(s, a) /\ a \in Statistics
      BY <1>2 DEF Recent
    <3> QED
      BY <2>1, <3>1, <3>3, <3>4, <3>5
  <2> QED
    BY <2>2, <2>3
<1>4. PICK a \in Statistics :
        /\ Fresher(s, a) /\ (a = report[s] \/ report[s] = NoStatistics)
        /\ tally' = [tally EXCEPT ![s] = Stored(s, a)]
  BY <1>3
<1>5. /\ Stored(s, a) \in [Hour -> Entry]
      /\ \A h \in Hour :
           /\ tally[s][h].tries <= Stored(s, a)[h].tries
           /\ Stored(s, a)[h].tries <= a[h]
           /\ Stored(s, a)[h].tries <= tries[s][h]
  BY <1>4, Overwriting
<1>6. tally \in [Satellite -> [Hour -> Entry]]
  BY DEF IInv, StatisticsOK
<1>7. /\ tally' \in [Satellite -> [Hour -> Entry]]
      /\ tally'[s] = Stored(s, a)
      /\ \A t \in Satellite : t # s => tally'[t] = tally[t]
  BY <1>4, <1>5, <1>6
<1>8. ASSUME NEW t \in Satellite, NEW h \in Hour
      PROVE  tally[t][h].tries <= tally'[t][h].tries
  <2>1. tally[t][h].tries \in Nat
    BY <1>6 DEF Entry
  <2>2. CASE t = s
    BY <1>5, <1>7, <2>2
  <2>3. CASE t # s
    BY <1>7, <2>1, <2>3
  <2> QED
    BY <2>2, <2>3
<1>9. StatisticsOK'
  BY <1>1, <1>3, <1>7 DEF IInv, StatisticsOK
<1>10. ASSUME NEW t \in Satellite PROVE Recent(t)'
  <2>1. CASE t = s
    <3>1. \A h \in Hour : tally'[s][h].tries <= tries'[s][h]
      BY <1>1, <1>5, <1>7
    <3>2. report'[s] # NoStatistics =>
            \A h \in Hour : /\ tally'[s][h].tries <= report'[s][h]
                            /\ report'[s][h] <= tries'[s][h]
      <4> SUFFICES ASSUME report[s] # NoStatistics, NEW h \in Hour
                   PROVE  /\ tally'[s][h].tries <= a[h] /\ a[h] <= tries[s][h]
        BY <1>1, <1>4
      <4> QED
        BY <1>4, <1>5, <1>7 DEF Fresher
    <3> QED
      BY <1>3, <2>1, <3>1, <3>2 DEF Recent, Fresher
  <2>2. CASE t # s
    <3>1. Recent(t) /\ UNCHANGED <<tries, report>> /\ late'[t] = late[t] /\ tally'[t] = tally[t]
      BY <1>1, <1>3, <1>7, <2>2 DEF IInv
    <3> QED
      BY <3>1 DEF Recent, Fresher
  <2> QED
    BY <2>1, <2>2
<1>11. ASSUME NEW t \in Satellite PROVE Linked(t)'
  BY <1>1, <1>3 DEF IInv, LinkOK, Linked, masterVars, linkVars
<1>12. MasterOK' /\ PairedIsConnected'
  BY <1>1, MasterStays
<1> QED
  BY <1>1, <1>8, <1>9, <1>10, <1>11, <1>12
  DEF IInv, LinkOK, BoundOK, linkVars, masterVars

LEMMA Answering ==
  ASSUME IInv, UNCHANGED scenario, NEW s \in Satellite, ReceiveAnswer(s)
  PROVE  IInv'
<1>1. /\ UNCHANGED <<masterVars, linkVars, hour, tries, late, tally, many>>
      /\ report' = [report EXCEPT ![s] = NoStatistics]
      /\ answered' = answered \ {s}
  BY DEF ReceiveAnswer, bounds
<1>2. upToDate' = upToDate
  BY DEF ReceiveAnswer, UpToDate, IInv, StatisticsOK
<1>3. NoStatistics \in Statistics
  BY DEF NoStatistics, Statistics
<1>4. StatisticsOK'
  BY <1>1, <1>2, <1>3 DEF IInv, StatisticsOK
<1>5. ASSUME NEW t \in Satellite PROVE Recent(t)' /\ Linked(t)'
  <2>1. report'[t] = NoStatistics \/ report'[t] = report[t]
    BY <1>1 DEF IInv, StatisticsOK
  <2>2. Recent(t) /\ Linked(t)
    BY DEF IInv, LinkOK
  <2> QED
    BY <1>1, <2>1, <2>2 DEF Recent, Fresher, Linked, masterVars, linkVars
<1>6. MasterOK' /\ PairedIsConnected'
  BY <1>1, MasterStays
<1> QED
  BY <1>1, <1>4, <1>5, <1>6 DEF IInv, LinkOK, BoundOK, linkVars

-----------------------------------------------------------------------------
(* The invariant holds at first, and every step keeps it.                  *)

LEMMA First == Init => IInv
<1> SUFFICES ASSUME Init PROVE IInv
  OBVIOUS
<1> DEFINE d == [NoDocument EXCEPT !.id = 1, !.enabled = TRUE]
<1>1. d \in Document /\ d.id = 1 /\ d.paired = FALSE
  BY DEF NoDocument, Document
<1>2. NoAvatar \in Avatar /\ NoAvatar.minds = {} /\ NoAvatar.document.id = 0
  BY Nothing DEF NoAvatar, Avatar
<1>3. /\ document = [s \in Satellite |-> d] /\ lastId = 1
      /\ avatar = [s \in Satellite |-> NoAvatar] /\ made = {}
  BY DEF Init
<1> HIDE DEF d
<1>4. MasterOK
  BY <1>1, <1>2, <1>3 DEF MasterOK, DocumentOK, AvatarOK
<1>5. PairedIsConnected
  BY <1>1, <1>3 DEF PairedIsConnected
<1>6. LinkOK
  BY <1>2 DEF Init, LinkOK, Linked, Stage
<1>7. StatisticsOK /\ \A s \in Satellite : Recent(s)
  <2>1. NoStatistics \in Statistics /\ \A h \in Hour : NoStatistics[h] = 0
    BY DEF NoStatistics, Statistics
  <2>2. NoEntry \in Entry /\ NoEntry.tries = 0
    BY DEF NoEntry, Entry
  <2>3. 1 \in Hour
    BY SatellitesAssumption DEF Hour
  <2>4. StatisticsOK
    BY <2>1, <2>2, <2>3 DEF Init, StatisticsOK
  <2>5. \A s \in Satellite : Recent(s)
    BY <2>1, <2>2 DEF Init, Recent
  <2> QED
    BY <2>4, <2>5
<1>8. BoundOK
  BY SatellitesAssumption DEF Init, BoundOK, Scenario
<1> QED
  BY <1>4, <1>5, <1>6, <1>7, <1>8 DEF IInv

LEMMA Standing ==
  ASSUME IInv, UNCHANGED vars
  PROVE  IInv'
BY MasterStays, LinksStay, StatisticsStay
DEF vars, stateVars, masterVars, linkVars, statisticVars, bounds, IInv, StatisticsOK, BoundOK

LEMMA Inductive == IInv /\ [Next]_vars => IInv'
<1> SUFFICES ASSUME IInv, [Next]_vars PROVE IInv'
  OBVIOUS
<1>1. CASE UNCHANGED vars
  BY <1>1, Standing
<1>2. CASE Next
  <2>1. UNCHANGED scenario
    BY <1>2 DEF Next
  <2>2. CASE HourPasses \/ FindSatellites
    BY <2>1, <2>2, Settling
  <2>3. CASE Restart
    BY <2>1, <2>3, Restarting
  <2>4. ASSUME NEW s \in Satellite,
               \/ Connect(s) \/ Login(s) \/ GetManager(s) \/ Break(s) \/ Detach(s)
               \/ SetProperties(s) \/ Delete(s) \/ Add(s)
               \/ PushSettings(s) \/ SetSettings(s)
               \/ AddTry(s) \/ SendStatistics(s) \/ StoreStatistics(s)
               \/ ReceiveAnswer(s) \/ StoreLate(s)
        PROVE  IInv'
    BY <2>1, <2>4, Connecting, LoggingIn, Serving, Breaking, Detaching, Administering,
       Settling, Trying, Sending, Storing, Answering
  <2> QED
    BY <1>2, <2>2, <2>3, <2>4 DEF Next
<1> QED
  BY <1>1, <1>2

LEMMA Invariance == Spec => []IInv
BY First, Inductive, PTL DEF Spec

-----------------------------------------------------------------------------
(* The theorems.                                                           *)

(* ClientAvatar.attached and detached: a satellite's document says that it *)
(* is paired exactly when the master has a connection of it, for any       *)
(* number of satellites, breaks, restarts and administrators' changes.     *)
THEOREM PairedAndConnected == Spec => []PairedIsConnected
<1>1. IInv => PairedIsConnected
  BY DEF IInv
<1> QED
  BY <1>1, Invariance, PTL

(* The saves of whole documents never undo what an administrator did: each *)
(* of them writes what was read in the same step, and paired.              *)
THEOREM AdministratorsDecide == Spec => AdministratorDecides
<1> DEFINE Stands(s) == /\ document'[s].id = document[s].id
                       /\ document'[s].enabled = document[s].enabled
                       /\ document'[s].settings = document[s].settings
           Decided == many' = many =>
                        \A s \in Satellite :
                          /\ document'[s].id = document[s].id
                          /\ document'[s].enabled = document[s].enabled
                          /\ document'[s].settings = document[s].settings
<1>1. IInv /\ [Next]_vars => [Decided]_vars
  <2> SUFFICES ASSUME IInv, Next, many' = many
               PROVE  \A t \in Satellite : Stands(t)
    OBVIOUS
  <2>1. UNCHANGED scenario /\ document \in [Satellite -> Document]
    BY DEF Next, IInv, MasterOK
  <2>2. CASE UNCHANGED document
    BY <2>2
  <2>3. CASE Restart
    BY <2>1, <2>3 DEF Restart, Document
  <2>4. ASSUME NEW s \in Satellite, NEW d \in Document,
               document' = [document EXCEPT ![s] = d],
               d.id = document[s].id, d.enabled = document[s].enabled,
               d.settings = document[s].settings
        PROVE  \A t \in Satellite : Stands(t)
    BY <2>1, <2>4
  <2>5. ASSUME NEW s \in Satellite, Login(s) \/ Detach(s)
        PROVE  \A t \in Satellite : Stands(t)
    <3>1. document[s] \in Document
      BY <2>1
    <3>2. CASE Login(s)
      <4>1. CASE MayAttach(s)
        BY <2>4, <3>1, <3>2, <4>1 DEF Login, Document
      <4>2. CASE ~MayAttach(s)
        BY <3>2, <4>2 DEF Login
      <4> QED
        BY <4>1, <4>2
    <3>3. CASE Detach(s)
      <4>1. /\ Unpaired(s) \in Document /\ Unpaired(s).id = document[s].id
            /\ Unpaired(s).enabled = document[s].enabled
            /\ Unpaired(s).settings = document[s].settings
        BY <3>1, Reading DEF Unpaired, Found, Document
      <4>2. document' = [document EXCEPT ![s] = Unpaired(s)]
        BY <3>3 DEF Detach
      <4> HIDE DEF Stands
      <4> QED
        BY <2>4, <4>1, <4>2
    <3> QED
      BY <2>5, <3>2, <3>3
  <2>6. ASSUME NEW s \in Satellite, SetProperties(s) \/ Delete(s) \/ Add(s)
        PROVE  FALSE
    BY <2>1, <2>6, Administering
  <2>7. CASE HourPasses \/ FindSatellites
    BY <2>7 DEF HourPasses, FindSatellites, masterVars
  <2>8. ASSUME NEW s \in Satellite,
               \/ Connect(s) \/ GetManager(s) \/ Break(s) \/ PushSettings(s)
               \/ SetSettings(s) \/ AddTry(s) \/ SendStatistics(s)
               \/ StoreStatistics(s) \/ ReceiveAnswer(s) \/ StoreLate(s)
        PROVE  UNCHANGED document
    BY <2>8
    DEF Connect, GetManager, Break, PushSettings, SetSettings, AddTry, SendStatistics,
        StoreStatistics, ReceiveAnswer, StoreLate, masterVars
  <2> HIDE DEF Stands
  <2> QED
    BY <2>2, <2>3, <2>5, <2>6, <2>7, <2>8 DEF Next
<1> QED
  BY <1>1, Invariance, PTL DEF Spec, AdministratorDecides

(* view_send_statistics: what the master knows a satellite tried in an     *)
(* hour never goes back, however reports of broken connections arrive.     *)
THEOREM StatisticsGrow == Spec => StatisticsOnlyGrow
<1> DEFINE Grow == \A s \in Satellite, h \in Hour : tally'[s][h].tries >= tally[s][h].tries
<1>1. IInv /\ [Next]_vars => [Grow]_vars
  <2> SUFFICES ASSUME IInv, Next PROVE Grow
    OBVIOUS
  <2>1. UNCHANGED scenario
    BY DEF Next
  <2>2. \A t \in Satellite, h \in Hour : tally[t][h].tries \in Nat
    BY DEF IInv, StatisticsOK, Entry
  <2>3. ASSUME NEW s \in Satellite, StoreStatistics(s) \/ StoreLate(s)
        PROVE  /\ IInv'
               /\ \A t \in Satellite, h \in Hour : tally[t][h].tries <= tally'[t][h].tries
    BY <2>1, <2>3, Storing
  <2>4. ASSUME NEW s \in Satellite, StoreStatistics(s) \/ StoreLate(s)
        PROVE  Grow
    <3>1. \A t \in Satellite, h \in Hour : tally'[t][h].tries \in Nat
      BY <2>3, <2>4 DEF IInv, StatisticsOK, Entry
    <3> QED
      BY <2>2, <2>3, <2>4, <3>1
  <2>5. CASE UNCHANGED tally
    BY <2>2, <2>5
  <2>6. CASE HourPasses \/ FindSatellites \/ Restart
    BY <2>5, <2>6 DEF HourPasses, FindSatellites, Restart, statisticVars
  <2>7. ASSUME NEW s \in Satellite,
               \/ Connect(s) \/ Login(s) \/ GetManager(s) \/ Break(s) \/ Detach(s)
               \/ PushSettings(s) \/ SetSettings(s)
               \/ AddTry(s) \/ SendStatistics(s) \/ ReceiveAnswer(s)
        PROVE  UNCHANGED tally
    BY <2>7
    DEF Connect, Login, GetManager, Break, Detach, PushSettings, SetSettings, AddTry,
        SendStatistics, ReceiveAnswer, statisticVars
  <2>8. ASSUME NEW s \in Satellite, SetProperties(s) \/ Delete(s) \/ Add(s)
        PROVE  UNCHANGED tally
    BY <2>8 DEF SetProperties, Delete, Add, statisticVars
  <2> HIDE DEF Grow
  <2> QED
    BY <2>4, <2>5, <2>6, <2>7, <2>8 DEF Next
<1> QED
  BY <1>1, Invariance, PTL DEF Spec, StatisticsOnlyGrow

-----------------------------------------------------------------------------
(* The statistics hour by hour, for every number of satellites and hours.  *)
(* Recursive definitions are reasoned about by the least number, or the    *)
(* least set, for which something fails.                                   *)

(* Sets of which one is part of another: among any of the parts of a       *)
(* finite set there is one that has no other as a part.                    *)
LEMMA LeastSet ==
  ASSUME NEW S, IsFiniteSet(S), NEW B, B \subseteq SUBSET S, B # {}
  PROVE  \E U \in B : \A V \in B : V \subseteq U => V = U
<1>1. IsWellFoundedOn(StrictSubsetOrdering(S), SUBSET S)
  BY FS_FiniteSubsetsOfFinite, FS_StrictSubsetOrderingWellFounded
<1>2. PICK U \in B : \A V \in B : ~(<<V, U>> \in StrictSubsetOrdering(S))
  BY <1>1, WFMin
<1>3. ASSUME NEW V \in B, V \subseteq U PROVE V = U
  BY <1>2, <1>3 DEF StrictSubsetOrdering
<1> QED BY <1>2, <1>3

(* A set of numbers that is not empty has a least one.                     *)
LEMMA LeastNumber ==
  ASSUME NEW S, S \subseteq Nat, S # {}
  PROVE  \E m \in S : \A k \in S : m <= k
<1>1. PICK n : n \in S
  OBVIOUS
<1>2. n \in Nat
  BY <1>1
<1> DEFINE I == 0..n
           B == {0..m : m \in {j \in S : j <= n}}
<1>3. IsFiniteSet(I)
  BY <1>2, FS_Interval
<1>4. B \subseteq SUBSET I /\ B # {}
  BY <1>1, <1>2
<1> HIDE DEF B, I
<1>5. PICK x \in B : \A y \in B : y \subseteq x => y = x
  BY <1>3, <1>4, LeastSet
<1>6. PICK m \in S : m <= n /\ x = 0..m
  BY <1>5 DEF B
<1>7. ASSUME NEW k \in S, k < m
      PROVE  FALSE
  <2>1. k \in Nat /\ m \in Nat /\ k <= n
    BY <1>7, <1>6, <1>2
  <2>2. 0..k \in B
    BY <2>1 DEF B
  <2>3. 0..k \subseteq 0..m
    BY <1>7, <2>1
  <2>4. m \in 0..m /\ m \notin 0..k
    BY <1>7, <2>1
  <2> QED BY <2>2, <2>3, <2>4, <1>5, <1>6
<1> QED BY <1>6, <1>7

(* Sums over sets, taken element by element.                               *)
Summing(w, S, sum) ==
  sum = [T \in SUBSET S |->
           IF T = {} THEN 0
           ELSE w[CHOOSE x \in T : TRUE] + sum[T \ {CHOOSE x \in T : TRUE}]]

(* The function that sums exists, level by level: the sums of at most n    *)
(* elements.                                                               *)
LEMMA SummingExists ==
  ASSUME NEW w, NEW S, IsFiniteSet(S)
  PROVE  \E sum : Summing(w, S, sum)
<1> DEFINE Small(n) == {T \in SUBSET S : Cardinality(T) <= n}
           Term(sum, T) ==
             IF T = {} THEN 0
             ELSE w[CHOOSE x \in T : TRUE] + sum[T \ {CHOOSE x \in T : TRUE}]
           Bad == {n \in Nat : ~ \E sum : sum = [T \in Small(n) |-> Term(sum, T)]}
<1>1. \A T \in SUBSET S : IsFiniteSet(T) /\ Cardinality(T) \in Nat
  BY FS_Subset, FS_CardinalityType
<1>2. Bad = {}
  <2>1. SUFFICES ASSUME Bad # {} PROVE FALSE
    OBVIOUS
  <2>2. PICK n \in Bad : \A k \in Bad : n <= k
    <3>1. Bad \subseteq Nat
      OBVIOUS
    <3> HIDE DEF Bad
    <3> QED BY <2>1, <3>1, LeastNumber
  <2>3. PICK f : n = 0 \/ f = [T \in Small(n - 1) |-> Term(f, T)]
    <3>1. CASE n = 0
      BY <3>1
    <3>2. CASE n # 0
      <4>1. n \in Nat
        BY <2>2
      <4>2. n - 1 \in Nat /\ ~(n <= n - 1)
        BY <4>1, <3>2
      <4> HIDE DEF Bad
      <4>3. n - 1 \notin Bad
        BY <2>2, <4>2
      <4> QED BY <4>2, <4>3 DEF Bad
    <3> QED BY <3>1, <3>2
  <2> DEFINE g == [T \in Small(n) |-> Term(f, T)]
             but(T) == T \ {CHOOSE x \in T : TRUE}
  <2>4. \A T \in Small(n) : T # {} => g[but(T)] = f[but(T)]
    <3> TAKE T \in Small(n)
    <3> HAVE T # {}
    <3>1. (CHOOSE x \in T : TRUE) \in T
      OBVIOUS
    <3>2. Cardinality(but(T)) = Cardinality(T) - 1 /\ Cardinality(T) \in Nat
      BY <1>1, <3>1, FS_RemoveElement
    <3>3. but(T) \in SUBSET S /\ Cardinality(but(T)) \in Nat
      BY <1>1
    <3>4. n \in Nat /\ Cardinality(T) <= n
      BY <2>2
    <3> HIDE DEF but
    <3>5. n # 0 /\ but(T) \in Small(n - 1) /\ but(T) \in Small(n)
      BY <3>2, <3>3, <3>4
    <3>6. f = [X \in Small(n - 1) |-> Term(f, X)]
      BY <2>3, <3>5
    <3> HIDE DEF Small, Term
    <3>7. f[but(T)] = Term(f, but(T))
      BY <3>5, <3>6
    <3> QED BY <3>5, <3>7
  <2>5. g = [T \in Small(n) |-> Term(f, T)]
    OBVIOUS
  <2> HIDE DEF g
  <2>6. \A T \in Small(n) : Term(f, T) = Term(g, T)
    <3> TAKE T \in Small(n)
    <3>1. CASE T = {}
      BY <3>1
    <3>2. CASE T # {}
      <4>1. g[but(T)] = f[but(T)]
        BY <2>4, <3>2
      <4> HIDE DEF Small
      <4> QED BY <3>2, <4>1
    <3> QED BY <3>1, <3>2
  <2> HIDE DEF Term
  <2>7. g = [T \in Small(n) |-> Term(g, T)]
    BY <2>5, <2>6
  <2> QED BY <2>2, <2>7
<1>3. Cardinality(S) \in Nat /\ Small(Cardinality(S)) = SUBSET S
  BY <1>1, FS_Subset
<1>4. PICK sum : sum = [T \in Small(Cardinality(S)) |-> Term(sum, T)]
  BY <1>2, <1>3
<1>5. sum = [T \in SUBSET S |-> Term(sum, T)]
  BY <1>3, <1>4
<1> QED BY <1>5 DEF Summing

(* The tries the aggregate adds up are such a sum.                         *)
LEMMA TriesSummed ==
  ASSUME NEW h, NEW S, IsFiniteSet(S), NEW w, \A s \in S : w[s] = tally[s][h].tries
  PROVE  \E sum : /\ Summing(w, S, sum)
                  /\ TriesOf(S, h) = sum[S]
<1> DEFINE total == CHOOSE sum : sum = [T \in SUBSET S |->
           IF T = {} THEN 0
           ELSE tally[CHOOSE x \in T : TRUE][h].tries + sum[T \ {CHOOSE x \in T : TRUE}]]
           Some(T) == CHOOSE x \in T : TRUE
           Term(sum, T) == IF T = {} THEN 0
                           ELSE w[Some(T)] + sum[T \ {Some(T)}]
           Mine(sum, T) == IF T = {} THEN 0
                           ELSE tally[Some(T)][h].tries + sum[T \ {Some(T)}]
<1>1. TriesOf(S, h) = total[S]
  BY DEF TriesOf, MapThenSumSet, MapThenFoldSet
<1>2. \A T \in SUBSET S : T # {} => Some(T) \in T
  OBVIOUS
<1>3. \A sum : \A T \in SUBSET S : Term(sum, T) = Mine(sum, T)
  BY <1>2
<1>4. PICK sum : sum = [T \in SUBSET S |-> Term(sum, T)]
  <2>1. PICK sum : Summing(w, S, sum)
    BY SummingExists
  <2>2. sum = [T \in SUBSET S |-> Term(sum, T)]
    BY <2>1 DEF Summing
  <2> QED BY <2>2
<1>5. sum = [T \in SUBSET S |-> Mine(sum, T)]
  <2> HIDE DEF Term, Mine
  <2> QED BY <1>3, <1>4
<1>6. total = [T \in SUBSET S |-> Mine(total, T)]
  BY <1>5
<1> HIDE DEF total
<1>7. total = [T \in SUBSET S |-> Term(total, T)]
  <2> HIDE DEF Term, Mine
  <2> QED BY <1>3, <1>6
<1>8. Summing(w, S, total)
  BY <1>7 DEF Summing
<1> QED BY <1>1, <1>8

(* A sum may be taken in any order.                                        *)
LEMMA SumAnyOrder ==
  ASSUME NEW S, IsFiniteSet(S), NEW w \in [S -> Nat], NEW sum, Summing(w, S, sum)
  PROVE  /\ \A T \in SUBSET S : sum[T] \in Nat
         /\ \A T \in SUBSET S : \A x \in T : sum[T] = w[x] + sum[T \ {x}]
<1> DEFINE Some(T) == CHOOSE x \in T : TRUE
<1>1. \A T \in SUBSET S :
        sum[T] = IF T = {} THEN 0 ELSE w[Some(T)] + sum[T \ {Some(T)}]
  BY DEF Summing
<1>2. \A T \in SUBSET S : T # {} => Some(T) \in T
  OBVIOUS
<1> HIDE DEF Some
<1>3. \A T \in SUBSET S : sum[T] \in Nat
  <2> DEFINE B == {T \in SUBSET S : sum[T] \notin Nat}
  <2>1. SUFFICES ASSUME B # {} PROVE FALSE
    OBVIOUS
  <2>2. PICK U \in B : \A V \in B : V \subseteq U => V = U
    <3>1. B \subseteq SUBSET S
      OBVIOUS
    <3> HIDE DEF B
    <3> QED BY <2>1, <3>1, LeastSet
  <2>3. U # {} /\ Some(U) \in U /\ Some(U) \in S
    <3>1. U \in SUBSET S /\ sum[U] \notin Nat
      BY <2>2
    <3> HIDE DEF B
    <3>2. U # {}
      BY <1>1, <3>1
    <3> QED BY <1>2, <3>1, <3>2
  <2>4. U \ {Some(U)} \in SUBSET S /\ U \ {Some(U)} \subseteq U /\ U \ {Some(U)} # U
    BY <2>2, <2>3
  <2>5. sum[U \ {Some(U)}] \in Nat
    BY <2>2, <2>4
  <2>6. w[Some(U)] \in Nat
    BY <2>3
  <2> QED BY <1>1, <2>2, <2>3, <2>5, <2>6
<1>4. \A T \in SUBSET S : \A x \in T : sum[T] = w[x] + sum[T \ {x}]
  <2> DEFINE B == {T \in SUBSET S : \E x \in T : sum[T] # w[x] + sum[T \ {x}]}
  <2>1. SUFFICES ASSUME B # {} PROVE FALSE
    OBVIOUS
  <2>2. PICK U \in B : \A V \in B : V \subseteq U => V = U
    <3>1. B \subseteq SUBSET S
      OBVIOUS
    <3> HIDE DEF B
    <3> QED BY <2>1, <3>1, LeastSet
  <2>3. PICK x \in U : sum[U] # w[x] + sum[U \ {x}]
    BY <2>2
  <2> DEFINE c == Some(U)
  <2>4. U \in SUBSET S /\ c \in U /\ sum[U] = w[c] + sum[U \ {c}]
    BY <1>1, <1>2, <2>2
  <2> HIDE DEF c
  <2>5. x # c
    BY <2>3, <2>4
  <2>6. U \ {c} \in SUBSET S /\ U \ {c} \notin B /\ x \in U \ {c}
    BY <2>2, <2>4, <2>5
  <2>7. U \ {x} \in SUBSET S /\ U \ {x} \notin B /\ c \in U \ {x}
    BY <2>2, <2>3, <2>4, <2>5
  <2>8. sum[U \ {c}] = w[x] + sum[(U \ {c}) \ {x}]
    BY <2>6
  <2>9. sum[U \ {x}] = w[c] + sum[(U \ {x}) \ {c}]
    BY <2>7
  <2>10. (U \ {c}) \ {x} = (U \ {x}) \ {c}
    OBVIOUS
  <2>11. sum[(U \ {c}) \ {x}] \in Nat /\ w[x] \in Nat /\ w[c] \in Nat
    BY <1>3, <2>6, <2>4, <2>3
  <2> HIDE DEF B
  <2>12. sum[(U \ {c}) \ {x}] = sum[(U \ {x}) \ {c}]
    BY <2>10
  <2>13. sum[U] = w[c] + (w[x] + sum[(U \ {c}) \ {x}])
    BY <2>4, <2>8
  <2>14. w[x] + sum[U \ {x}] = w[x] + (w[c] + sum[(U \ {c}) \ {x}])
    BY <2>9, <2>12
  <2>15. w[c] + (w[x] + sum[(U \ {c}) \ {x}]) = w[x] + (w[c] + sum[(U \ {c}) \ {x}])
    BY <2>11
  <2> QED BY <2>3, <2>13, <2>14, <2>15
<1> QED BY <1>3, <1>4

(* What adds nothing may be left out.                                      *)
LEMMA SumWithoutZeros ==
  ASSUME NEW S, IsFiniteSet(S), NEW w \in [S -> Nat], NEW T \in SUBSET S,
         \A x \in S \ T : w[x] = 0,
         NEW sum, Summing(w, S, sum), NEW part, Summing(w, T, part)
  PROVE  sum[S] = part[T]
<1> DEFINE B == {U \in SUBSET S : sum[U] # part[U \cap T]}
<1>1. /\ \A U \in SUBSET S : sum[U] \in Nat
      /\ \A U \in SUBSET S : \A x \in U : sum[U] = w[x] + sum[U \ {x}]
  BY SumAnyOrder
<1>2. /\ \A U \in SUBSET T : part[U] \in Nat
      /\ \A U \in SUBSET T : \A x \in U : part[U] = w[x] + part[U \ {x}]
  <2> DEFINE v == [x \in T |-> w[x]]
  <2>1. v \in [T -> Nat]
    OBVIOUS
  <2>2. Summing(v, T, part)
    <3>1. \A U \in SUBSET T : U # {} => (CHOOSE x \in U : TRUE) \in T
      OBVIOUS
    <3>2. \A U \in SUBSET T : U # {} =>
            v[CHOOSE x \in U : TRUE] = w[CHOOSE x \in U : TRUE]
      BY <3>1
    <3> DEFINE V(U) == IF U = {} THEN 0
                       ELSE v[CHOOSE x \in U : TRUE] + part[U \ {CHOOSE x \in U : TRUE}]
               W(U) == IF U = {} THEN 0
                       ELSE w[CHOOSE x \in U : TRUE] + part[U \ {CHOOSE x \in U : TRUE}]
    <3> HIDE DEF v
    <3>3. \A U \in SUBSET T : V(U) = W(U)
      BY <3>2
    <3>4. part = [U \in SUBSET T |-> W(U)]
      BY DEF Summing
    <3> HIDE DEF V, W
    <3>5. part = [U \in SUBSET T |-> V(U)]
      BY <3>3, <3>4
    <3> QED BY <3>5 DEF V, Summing
  <2>3. IsFiniteSet(T)
    BY FS_Subset
  <2>4. \A x \in T : v[x] = w[x]
    OBVIOUS
  <2> HIDE DEF v
  <2>5. /\ \A U \in SUBSET T : part[U] \in Nat
        /\ \A U \in SUBSET T : \A x \in U : part[U] = v[x] + part[U \ {x}]
    BY <2>1, <2>2, <2>3, SumAnyOrder
  <2> QED BY <2>4, <2>5
<1>3. sum[{}] = 0 /\ part[{}] = 0
  BY DEF Summing
<1>4. B = {}
  <2>1. SUFFICES ASSUME B # {} PROVE FALSE
    OBVIOUS
  <2>2. PICK U \in B : \A V \in B : V \subseteq U => V = U
    <3>1. B \subseteq SUBSET S
      OBVIOUS
    <3> HIDE DEF B
    <3> QED BY <2>1, <3>1, LeastSet
  <2>3. U \in SUBSET S /\ sum[U] # part[U \cap T]
    BY <2>2
  <2>4. U # {}
    BY <1>3, <2>3
  <2>5. PICK x \in U : TRUE
    BY <2>4
  <2>6. U \ {x} \in SUBSET S /\ U \ {x} \notin B
    BY <2>2, <2>5
  <2>7. sum[U \ {x}] = part[(U \ {x}) \cap T]
    BY <2>6
  <2> HIDE DEF B
  <2>8. sum[U] = w[x] + sum[U \ {x}] /\ sum[U \ {x}] \in Nat
    BY <1>1, <2>3, <2>5, <2>6
  <2>9. CASE x \in T
    <3>1. (U \ {x}) \cap T = (U \cap T) \ {x} /\ U \cap T \in SUBSET T /\ x \in U \cap T
      BY <2>5, <2>9
    <3>2. part[U \cap T] = w[x] + part[(U \cap T) \ {x}]
      BY <1>2, <3>1
    <3> QED BY <2>3, <2>7, <2>8, <3>1, <3>2
  <2>10. CASE x \notin T
    <3>1. (U \ {x}) \cap T = U \cap T /\ w[x] = 0
      BY <2>3, <2>5, <2>10
    <3> QED BY <2>3, <2>7, <2>8, <3>1
  <2> QED BY <2>9, <2>10
<1>5. S \notin B /\ S \cap T = T
  BY <1>4
<1>6. S \in SUBSET S
  OBVIOUS
<1> QED BY <1>5, <1>6

(* Entries are made in an hour that came; what is no entry counts nothing. *)
Dated ==
  /\ hour \in Hour /\ tally \in [Satellite -> [Hour -> Entry]]
  /\ \A s \in Satellite, h \in Hour :
       /\ tally[s][h].date <= hour
       /\ tally[s][h].date = 0 => tally[s][h].tries = 0

Total(h) == TriesOf(Satellite, h)
ListOf(first, next) == [i \in 1..(next - first) |-> Line(first + i - 1, Total(first + i - 1))]

(* An entry that the query finds is of an hour that was asked for and that *)
(* has come.                                                               *)
LEMMA FoundInTime ==
  ASSUME Dated, InTime, NEW first \in Hour, NEW last \in Hour,
         NEW h \in HoursFound(first, last)
  PROVE  h \in first..last /\ h <= hour
<1>1. h \in Hour
  BY DEF HoursFound
<1>2. PICK s \in Satellite : tally[s][h].date \in first..last
  BY DEF HoursFound
<1>3. tally[s][h].date \in {0, h} /\ tally[s][h].date <= hour
  BY <1>1 DEF InTime, Dated
<1> QED BY <1>1, <1>2, <1>3, SatellitesAssumption DEF Hour

(* Entries the query leaves out count nothing: the hour's line is the sum  *)
(* over all the satellites.                                                *)
LEMMA FoundTries ==
  ASSUME Dated, InTime, NEW first \in Hour, NEW last \in Hour, NEW h \in Hour,
         h \in first..last
  PROVE  TriesFound(h, first, last) = Total(h)
<1> DEFINE T == {s \in Satellite : tally[s][h].date \in first..last}
           w == [s \in Satellite |-> tally[s][h].tries]
<1>1. IsFiniteSet(Satellite) /\ T \in SUBSET Satellite /\ IsFiniteSet(T)
  BY SatellitesAssumption, FS_Subset
<1>2. w \in [Satellite -> Nat]
  BY DEF Dated, Entry
<1>3. \A s \in Satellite : w[s] = tally[s][h].tries
  OBVIOUS
<1>4. \A s \in Satellite \ T : w[s] = 0
  <2> SUFFICES ASSUME NEW s \in Satellite \ T PROVE tally[s][h].tries = 0
    BY <1>3
  <2>1. tally[s][h].date \in {0, h}
    BY DEF InTime
  <2>2. tally[s][h].date = 0
    BY <2>1
  <2> QED BY <2>2 DEF Dated
<1>5. TriesFound(h, first, last) = TriesOf(T, h)
  BY DEF TriesFound
<1> HIDE DEF w, T
<1>6. PICK sum : Summing(w, Satellite, sum) /\ Total(h) = sum[Satellite]
  BY <1>1, <1>3, TriesSummed DEF Total
<1>7. \A s \in T : w[s] = tally[s][h].tries
  BY <1>1, <1>3
<1>8. PICK part : /\ Summing(w, T, part)
                  /\ TriesOf(T, h) = part[T]
  BY <1>1, <1>7, TriesSummed
<1>9. sum[Satellite] = part[T]
  BY <1>1, <1>2, <1>4, <1>6, <1>8, SumWithoutZeros
<1> QED BY <1>5, <1>6, <1>8, <1>9

(* An hour of which the query finds no entry is one in which nothing was   *)
(* tried.                                                                  *)
LEMMA NotFoundTries ==
  ASSUME Dated, InTime, NEW first \in Hour, NEW last \in Hour, NEW h \in Hour,
         h \in first..last, h \notin HoursFound(first, last)
  PROVE  Total(h) = 0
<1> DEFINE w == [s \in Satellite |-> tally[s][h].tries]
<1>1. IsFiniteSet(Satellite) /\ {} \in SUBSET Satellite /\ IsFiniteSet({})
  BY SatellitesAssumption, FS_EmptySet
<1>2. w \in [Satellite -> Nat]
  BY DEF Dated, Entry
<1>3. \A s \in Satellite : w[s] = tally[s][h].tries
  OBVIOUS
<1>4. \A s \in Satellite \ {} : w[s] = 0
  <2> SUFFICES ASSUME NEW s \in Satellite PROVE tally[s][h].tries = 0
    BY <1>3
  <2>1. tally[s][h].date \in {0, h} /\ tally[s][h].date \notin first..last
    BY DEF InTime, HoursFound
  <2>2. tally[s][h].date = 0
    BY <2>1
  <2> QED BY <2>2 DEF Dated
<1> HIDE DEF w
<1>6. PICK sum : Summing(w, Satellite, sum) /\ Total(h) = sum[Satellite]
  BY <1>1, <1>3, TriesSummed DEF Total
<1>7. PICK part : Summing(w, {}, part)
  BY <1>1, SummingExists
<1>8. part[{}] = 0
  BY <1>7 DEF Summing
<1>9. sum[Satellite] = part[{}]
  BY <1>1, <1>2, <1>4, <1>6, <1>7, SumWithoutZeros
<1> QED BY <1>6, <1>8, <1>9

(* Lines that are filled in are those of hours in which nothing was tried. *)
LEMMA FilledLines ==
  ASSUME NEW first \in Nat, NEW next \in Nat, NEW h \in Nat, first <= next, next <= h,
         \A k \in next..(h - 1) : Total(k) = 0
  PROVE  Filled(ListOf(first, next), next, h) = [lines |-> ListOf(first, h), next |-> h]
<1>1. CASE h = next
  BY <1>1 DEF Filled
<1>2. CASE h # next
  <2> DEFINE S == {Line(k, Total(k)) : k \in Nat}
             more == [i \in 1..(h - next) |-> Line(next + i - 1, 0)]
             all == ListOf(first, h)
             some == ListOf(first, next)
  <2>1. \A i \in 1..(h - next) : next + i - 1 \in Nat /\ Total(next + i - 1) = 0
    <3> TAKE i \in 1..(h - next)
    <3>1. next + i - 1 \in next..(h - 1)
      BY <1>2
    <3> QED BY <3>1
  <2>2. \A i \in 1..(h - next) : more[i] = Line(next + i - 1, Total(next + i - 1))
    BY <2>1
  <2>3. \A i \in 1..(h - next) : more[i] \in S
    BY <2>1, <2>2
  <2>4. h - next \in Nat /\ next - first \in Nat /\ h - first \in Nat
        /\ h - first = (next - first) + (h - next)
    BY <1>2
  <2>5. more \in Seq(S) /\ Len(more) = h - next
    <3> HIDE DEF S
    <3>1. more \in [1..(h - next) -> S]
      BY <2>3
    <3> QED BY <2>4, <3>1
  <2>6. \A i \in 1..(h - first) : all[i] = Line(first + i - 1, Total(first + i - 1))
    BY DEF ListOf
  <2>7. \A i \in 1..(next - first) : some[i] = Line(first + i - 1, Total(first + i - 1))
    BY DEF ListOf
  <2>8. some \in Seq(S) /\ Len(some) = next - first
    <3>1. \A i \in 1..(next - first) : first + i - 1 \in Nat
      OBVIOUS
    <3>2. \A i \in 1..(next - first) : some[i] \in S
      BY <2>7, <3>1
    <3> HIDE DEF S
    <3>3. some \in [1..(next - first) -> S]
      BY <3>2 DEF ListOf
    <3> QED BY <2>4, <3>3
  <2>9. all \in Seq(S) /\ Len(all) = h - first
    <3>1. \A i \in 1..(h - first) : first + i - 1 \in Nat
      OBVIOUS
    <3>2. \A i \in 1..(h - first) : all[i] \in S
      BY <2>6, <3>1
    <3> HIDE DEF S
    <3>3. all \in [1..(h - first) -> S]
      BY <3>2 DEF ListOf
    <3> QED BY <2>4, <3>3
  <2>10. Filled(some, next, h) = [lines |-> some \o more, next |-> h]
    BY <1>2 DEF Filled
  <2> HIDE DEF all, some, more, S
  <2>11. Len(some \o more) = h - first /\ some \o more \in Seq(S)
    BY <2>4, <2>5, <2>8
  <2>12. \A i \in 1..(h - first) : (some \o more)[i] = all[i]
    <3> TAKE i \in 1..(h - first)
    <3>0. i <= next - first \/ i > next - first
      BY <2>4
    <3>1. CASE i <= next - first
      <4>1. (some \o more)[i] = some[i]
        BY <3>1, <2>4, <2>5, <2>8
      <4>2. i \in 1..(next - first)
        BY <3>1
      <4> QED BY <4>1, <4>2, <2>6, <2>7
    <3>2. CASE i > next - first
      <4>1. (some \o more)[i] = more[i - (next - first)]
        BY <3>2, <2>4, <2>5, <2>8
      <4>2. i - (next - first) \in 1..(h - next)
            /\ next + (i - (next - first)) - 1 = first + i - 1
        BY <3>2, <2>4
      <4>3. more[i - (next - first)] = Line(first + i - 1, Total(first + i - 1))
        BY <4>2, <2>2
      <4> QED BY <4>1, <4>3, <2>6
    <3> QED BY <3>0, <3>1, <3>2
  <2>13. some \o more = all
    BY <2>9, <2>11, <2>12
  <2> QED BY <2>10, <2>13 DEF some, all
<1> QED BY <1>1, <1>2

(* An entry that was found ends the list.                                  *)
LEMMA LineAppended ==
  ASSUME NEW first \in Nat, NEW h \in Nat, first <= h
  PROVE  Append(ListOf(first, h), Line(h, Total(h))) = ListOf(first, h + 1)
<1> DEFINE S == {Line(k, Total(k)) : k \in Nat}
           all == ListOf(first, h + 1)
           some == ListOf(first, h)
<1>1. h - first \in Nat /\ (h + 1) - first = (h - first) + 1 /\ (h + 1) - first \in Nat
  OBVIOUS
<1>2. \A i \in 1..((h + 1) - first) : all[i] = Line(first + i - 1, Total(first + i - 1))
  BY DEF ListOf
<1>3. \A i \in 1..(h - first) : some[i] = Line(first + i - 1, Total(first + i - 1))
  BY DEF ListOf
<1>4. some \in Seq(S) /\ Len(some) = h - first
  <2>1. \A i \in 1..(h - first) : first + i - 1 \in Nat
    OBVIOUS
  <2>2. \A i \in 1..(h - first) : some[i] \in S
    BY <1>3, <2>1
  <2> HIDE DEF S
  <2>3. some \in [1..(h - first) -> S]
    BY <2>2 DEF ListOf
  <2> QED BY <1>1, <2>3
<1>5. all \in Seq(S) /\ Len(all) = (h + 1) - first
  <2>1. \A i \in 1..((h + 1) - first) : first + i - 1 \in Nat
    OBVIOUS
  <2>2. \A i \in 1..((h + 1) - first) : all[i] \in S
    BY <1>2, <2>1
  <2> HIDE DEF S
  <2>3. all \in [1..((h + 1) - first) -> S]
    BY <2>2 DEF ListOf
  <2> QED BY <1>1, <2>3
<1> DEFINE line == Line(h, Total(h))
<1>6. line \in S
  OBVIOUS
<1> HIDE DEF all, some, S, line
<1>7. Append(some, line) \in Seq(S) /\ Len(Append(some, line)) = (h + 1) - first
  BY <1>1, <1>4, <1>6
<1>8. \A i \in 1..((h + 1) - first) : Append(some, line)[i] = all[i]
  <2> TAKE i \in 1..((h + 1) - first)
  <2>0. i <= h - first \/ i = (h - first) + 1
    BY <1>1
  <2>1. CASE i <= h - first
    <3>1. i \in 1..(h - first)
      BY <2>1
    <3>2. Append(some, line)[i] = some[i]
      BY <3>1, <1>4, <1>6
    <3> QED BY <3>1, <3>2, <1>2, <1>3
  <2>2. CASE i = (h - first) + 1
    <3>1. Append(some, line)[i] = line
      BY <2>2, <1>1, <1>4, <1>6
    <3>2. first + i - 1 = h
      BY <2>2, <1>1
    <3> QED BY <3>1, <3>2, <1>2 DEF line
  <2> QED BY <2>0, <2>1, <2>2
<1> QED BY <1>5, <1>7, <1>8 DEF all, some, line

(* The entries of the hours, read one after the other.                     *)
ReadOne(first, last, before, h) ==
  IF h \notin HoursFound(first, last) THEN before
  ELSE [lines |-> Append(Filled(before.lines, before.next, h).lines,
                         Line(h, TriesFound(h, first, last))),
        next |-> Filled(before.lines, before.next, h).next + 1]
Nobody(first) == [lines |-> <<>>, next |-> first]
EntriesRead(first, last, n, read) ==
  read = [h \in 0..n |-> IF h = 0 THEN Nobody(first)
                         ELSE ReadOne(first, last, read[h - 1], h)]

(* The lists read up to each hour exist, hour by hour.                     *)
LEMMA EntriesReadExist ==
  ASSUME NEW first, NEW last, NEW n \in Nat
  PROVE  \E read : EntriesRead(first, last, n, read)
<1> DEFINE Bad == {m \in Nat : ~ \E read : EntriesRead(first, last, m, read)}
<1>1. SUFFICES ASSUME Bad # {} PROVE FALSE
  OBVIOUS
<1>2. PICK m \in Bad : \A k \in Bad : m <= k
  <2>1. Bad \subseteq Nat
    OBVIOUS
  <2> HIDE DEF Bad
  <2> QED BY <1>1, <2>1, LeastNumber
<1>3. m \in Nat /\ ~ \E read : EntriesRead(first, last, m, read)
  BY <1>2
<1>4. PICK f : m = 0 \/ EntriesRead(first, last, m - 1, f)
  <2>1. CASE m = 0
    BY <2>1
  <2>2. CASE m # 0
    <3>1. m - 1 \in Nat /\ ~(m <= m - 1)
      BY <1>3, <2>2
    <3> HIDE DEF Bad
    <3>2. m - 1 \notin Bad
      BY <1>2, <3>1
    <3> QED BY <3>1, <3>2 DEF Bad
  <2> QED BY <2>1, <2>2
<1> DEFINE Step(x, h) == IF h = 0 THEN Nobody(first) ELSE ReadOne(first, last, x[h - 1], h)
           g == [h \in 0..m |-> Step(f, h)]
<1>5. \A h \in 0..m : h # 0 => g[h - 1] = f[h - 1]
  <2> TAKE h \in 0..m
  <2> HAVE h # 0
  <2>1. h - 1 \in 0..(m - 1) /\ m # 0 /\ h - 1 \in 0..m
    BY <1>3
  <2>2. f = [k \in 0..(m - 1) |-> Step(f, k)]
    BY <1>4, <2>1 DEF EntriesRead
  <2> HIDE DEF Step
  <2>3. f[h - 1] = Step(f, h - 1)
    BY <2>1, <2>2
  <2> QED BY <2>1, <2>3
<1>6. g = [h \in 0..m |-> Step(f, h)]
  OBVIOUS
<1> HIDE DEF g
<1>7. \A h \in 0..m : Step(f, h) = Step(g, h)
  BY <1>5
<1> HIDE DEF Step
<1>8. g = [h \in 0..m |-> Step(g, h)]
  BY <1>6, <1>7
<1>9. EntriesRead(first, last, m, g)
  BY <1>8 DEF Step, EntriesRead
<1> QED BY <1>3, <1>9

(* compute_hourly_stats reads the entries in that order and fills in what  *)
(* is missing at the end.                                                  *)
LEMMA HourlyStatisticsIs ==
  ASSUME NEW first, NEW last
  PROVE  \E read :
           /\ EntriesRead(first, last, LastHour, read)
           /\ HourlyStatistics(first, last)
                = Filled(read[LastHour].lines, read[LastHour].next, Min({hour, last}) + 1).lines
<1> DEFINE read == CHOOSE r :
             r = [h \in 0..LastHour |->
                    IF h = 0 THEN [lines |-> <<>>, next |-> first]
                    ELSE IF h \notin HoursFound(first, last) THEN r[h - 1]
                    ELSE [lines |-> Append(Filled(r[h - 1].lines, r[h - 1].next, h).lines,
                                           Line(h, TriesFound(h, first, last))),
                          next |-> Filled(r[h - 1].lines, r[h - 1].next, h).next + 1]]
<1>1. HourlyStatistics(first, last)
        = Filled(read[LastHour].lines, read[LastHour].next, Min({hour, last}) + 1).lines
  BY DEF HourlyStatistics
<1>2. \E r : r = [h \in 0..LastHour |->
                    IF h = 0 THEN [lines |-> <<>>, next |-> first]
                    ELSE IF h \notin HoursFound(first, last) THEN r[h - 1]
                    ELSE [lines |-> Append(Filled(r[h - 1].lines, r[h - 1].next, h).lines,
                                           Line(h, TriesFound(h, first, last))),
                          next |-> Filled(r[h - 1].lines, r[h - 1].next, h).next + 1]]
  <2>1. LastHour \in Nat
    BY SatellitesAssumption
  <2>2. PICK r : EntriesRead(first, last, LastHour, r)
    BY <2>1, EntriesReadExist
  <2>3. r = [h \in 0..LastHour |->
               IF h = 0 THEN [lines |-> <<>>, next |-> first]
               ELSE IF h \notin HoursFound(first, last) THEN r[h - 1]
               ELSE [lines |-> Append(Filled(r[h - 1].lines, r[h - 1].next, h).lines,
                                      Line(h, TriesFound(h, first, last))),
                     next |-> Filled(r[h - 1].lines, r[h - 1].next, h).next + 1]]
    BY <2>2 DEF EntriesRead, ReadOne, Nobody
  <2> QED BY <2>3
<1>3. read = [h \in 0..LastHour |->
                IF h = 0 THEN [lines |-> <<>>, next |-> first]
                ELSE IF h \notin HoursFound(first, last) THEN read[h - 1]
                ELSE [lines |-> Append(Filled(read[h - 1].lines, read[h - 1].next, h).lines,
                                       Line(h, TriesFound(h, first, last))),
                      next |-> Filled(read[h - 1].lines, read[h - 1].next, h).next + 1]]
  BY <1>2
<1> HIDE DEF read
<1>4. EntriesRead(first, last, LastHour, read)
  BY <1>3 DEF EntriesRead, ReadOne, Nobody
<1> QED BY <1>1, <1>4

(* What was read up to an hour: a line of each hour before the next one,   *)
(* and nothing tried between that and the hour.                            *)
ReadTo(first, last, r, h) ==
  /\ r = [lines |-> ListOf(first, r.next), next |-> r.next]
  /\ r.next \in Nat /\ first <= r.next /\ r.next <= last + 1
  /\ r.next = first \/ (r.next <= h + 1 /\ r.next <= hour + 1)
  /\ \A k \in first..last : r.next <= k /\ k <= h => Total(k) = 0

(* Each hour read keeps the list right.                                    *)
LEMMA ReadOn ==
  ASSUME Dated, InTime, NEW first \in Hour, NEW last \in Hour, first <= last,
         NEW before, NEW h \in Hour, ReadTo(first, last, before, h - 1)
  PROVE  ReadTo(first, last, ReadOne(first, last, before, h), h)
<1>1. /\ first \in Nat /\ last \in Nat /\ h \in Nat /\ hour \in Nat /\ h - 1 \in Nat
      /\ \A k \in first..last : k \in Hour
  BY SatellitesAssumption DEF Hour, Dated
<1> DEFINE next == before.next
<1>2. /\ before.lines = ListOf(first, next)
      /\ next \in Nat /\ first <= next /\ next <= last + 1
      /\ next = first \/ (next <= h /\ next <= hour + 1)
      /\ \A k \in first..last : next <= k /\ k <= h - 1 => Total(k) = 0
  BY <1>1 DEF ReadTo
<1>3. CASE h \notin HoursFound(first, last)
  <2>1. ReadOne(first, last, before, h) = before
    BY <1>3 DEF ReadOne
  <2>2. h \in first..last => Total(h) = 0
    BY <1>3, NotFoundTries
  <2>3. \A k \in first..last : next <= k /\ k <= h => Total(k) = 0
    <3> SUFFICES ASSUME NEW k \in first..last, next <= k, k <= h PROVE Total(k) = 0
      OBVIOUS
    <3>1. k = h \/ k <= h - 1
      BY <1>1
    <3> QED BY <3>1, <2>2, <1>2
  <2>4. next = first \/ (next <= h + 1 /\ next <= hour + 1)
    BY <1>1, <1>2
  <2> QED BY <2>1, <2>3, <2>4 DEF ReadTo
<1>4. CASE h \in HoursFound(first, last)
  <2>1. h \in first..last /\ h <= hour
    BY <1>4, FoundInTime
  <2>2. next <= h
    BY <1>1, <1>2, <2>1
  <2>3. \A k \in next..(h - 1) : Total(k) = 0
    BY <1>1, <1>2, <2>1
  <2>4. Filled(ListOf(first, next), next, h) = [lines |-> ListOf(first, h), next |-> h]
    BY <1>1, <1>2, <2>2, <2>3, FilledLines
  <2>5. TriesFound(h, first, last) = Total(h)
    BY <2>1, FoundTries
  <2>6. ReadOne(first, last, before, h)
          = [lines |-> Append(ListOf(first, h), Line(h, Total(h))), next |-> h + 1]
    BY <1>2, <1>4, <2>4, <2>5 DEF ReadOne
  <2>7. ReadOne(first, last, before, h) = [lines |-> ListOf(first, h + 1), next |-> h + 1]
    <3>1. first \in Nat /\ h \in Nat /\ first <= h
      BY <1>1, <2>1
    <3>2. Append(ListOf(first, h), Line(h, Total(h))) = ListOf(first, h + 1)
      BY <3>1, LineAppended
    <3> QED BY <2>6, <3>2
  <2>8. \A k \in first..last : ~(h + 1 <= k /\ k <= h)
    BY <1>1
  <2>9. h + 1 \in Nat /\ first <= h + 1 /\ h + 1 <= last + 1 /\ h + 1 <= hour + 1
    BY <1>1, <2>1
  <2> QED BY <2>7, <2>8, <2>9 DEF ReadTo
<1> QED BY <1>3, <1>4

(* The lesser of two hours.                                                *)
LEMMA LesserOf ==
  ASSUME NEW a \in Nat, NEW b \in Nat
  PROVE  Min({a, b}) \in {a, b} /\ Min({a, b}) <= a /\ Min({a, b}) <= b
<1>1. \E x \in {a, b} : \A y \in {a, b} : x <= y
  OBVIOUS
<1> QED BY <1>1 DEF Min

(* The list that is returned is the right one.                             *)
LEMMA HoursRead ==
  ASSUME Dated, InTime, NEW first \in Hour, NEW last \in Hour, first <= last
  PROVE  HourlyStatistics(first, last) = RightLines(first, last)
<1>1. /\ first \in Nat /\ last \in Nat /\ hour \in Nat /\ LastHour \in Nat
      /\ last <= LastHour /\ hour <= LastHour
      /\ \A k \in first..last : k \in Hour
  BY SatellitesAssumption DEF Hour, Dated
<1>2. PICK read :
        /\ EntriesRead(first, last, LastHour, read)
        /\ HourlyStatistics(first, last)
             = Filled(read[LastHour].lines, read[LastHour].next, Min({hour, last}) + 1).lines
  BY HourlyStatisticsIs
<1>3. \A h \in 0..LastHour : ReadTo(first, last, read[h], h)
  <2> DEFINE Bad == {h \in 0..LastHour : ~ ReadTo(first, last, read[h], h)}
  <2>1. SUFFICES ASSUME Bad # {} PROVE FALSE
    OBVIOUS
  <2>2. PICK h \in Bad : \A k \in Bad : h <= k
    <3>1. Bad \subseteq Nat
      OBVIOUS
    <3> HIDE DEF Bad
    <3> QED BY <2>1, <3>1, LeastNumber
  <2>3. h \in 0..LastHour /\ ~ ReadTo(first, last, read[h], h)
    BY <2>2
  <2>4. CASE h = 0
    <3>1. read[0] = Nobody(first)
      BY <1>1, <1>2 DEF EntriesRead
    <3>2. ListOf(first, first) = <<>>
      BY <1>1 DEF ListOf
    <3>3. \A k \in first..last : ~(k <= 0)
      BY <1>1 DEF Hour
    <3>4. first <= last + 1
      BY <1>1
    <3>5. ReadTo(first, last, Nobody(first), 0)
      BY <1>1, <3>2, <3>3, <3>4 DEF Nobody, ReadTo
    <3> QED BY <2>3, <2>4, <3>1, <3>5
  <2>5. CASE h # 0
    <3>1. h - 1 \in 0..LastHour /\ ~(h <= h - 1) /\ h \in Hour
      BY <1>1, <2>3, <2>5 DEF Hour
    <3>2. h - 1 \notin Bad
      <4> HIDE DEF Bad
      <4> QED BY <2>2, <3>1
    <3>3. ReadTo(first, last, read[h - 1], h - 1)
      BY <3>1, <3>2
    <3>4. read[h] = ReadOne(first, last, read[h - 1], h)
      BY <1>2, <2>3, <2>5 DEF EntriesRead
    <3>5. ReadTo(first, last, ReadOne(first, last, read[h - 1], h), h)
      BY <3>1, <3>3, ReadOn
    <3> QED BY <2>3, <3>4, <3>5
  <2> QED BY <2>4, <2>5
<1> DEFINE all == read[LastHour]
           next == all.next
<1> PICK m : m = Min({hour, last})
  OBVIOUS
<1>4. m \in {hour, last} /\ m <= hour /\ m <= last
  BY <1>1, LesserOf
<1>5. ReadTo(first, last, all, LastHour)
  BY <1>1, <1>3
<1> HIDE DEF all
<1>6. /\ all.lines = ListOf(first, next)
      /\ next \in Nat /\ first <= next /\ next <= last + 1
      /\ next = first \/ next <= hour + 1
      /\ \A k \in first..last : next <= k /\ k <= LastHour => Total(k) = 0
  BY <1>5 DEF ReadTo
<1>7. HourlyStatistics(first, last) = Filled(ListOf(first, next), next, m + 1).lines
  BY <1>2, <1>6 DEF all
<1>8. CASE hour < first
  <2>1. m + 1 <= next /\ next = first
    BY <1>1, <1>4, <1>6, <1>8
  <2>2. Filled(ListOf(first, next), next, m + 1).lines = ListOf(first, first)
    BY <2>1 DEF Filled
  <2>3. ListOf(first, first) = <<>>
    BY <1>1 DEF ListOf
  <2> QED BY <1>7, <1>8, <2>2, <2>3 DEF RightLines
<1>9. CASE first <= hour
  <2>1. m \in Nat /\ first <= m /\ next <= m + 1 /\ m + 1 \in Nat
    BY <1>1, <1>4, <1>6, <1>9
  <2>2. \A k \in next..((m + 1) - 1) : Total(k) = 0
    BY <1>1, <1>4, <1>6, <2>1
  <2>3. Filled(ListOf(first, next), next, m + 1) = [lines |-> ListOf(first, m + 1), next |-> m + 1]
    BY <1>1, <1>6, <2>1, <2>2, FilledLines
  <2>4. HourlyStatistics(first, last) = ListOf(first, m + 1)
    BY <1>7, <2>3
  <2>5. (m + 1) - first = m - first + 1 /\ ~(hour < first)
    BY <1>1, <1>9, <2>1
  <2> QED BY <2>4, <2>5 DEF RightLines, ListOf, Total
<1> QED BY <1>1, <1>8, <1>9

(* Entries get the hour they are made in.                                  *)
LEMMA DatedFirst == Init => Dated
BY SatellitesAssumption DEF Init, Dated, Hour, Entry, NoEntry

(* A report dates what it enters with the current hour.                    *)
LEMMA DatedNext == IInv /\ IInv' /\ Dated /\ [Next]_vars => Dated'
<1> SUFFICES ASSUME IInv, IInv', Dated, [Next]_vars PROVE Dated'
  OBVIOUS
<1>1. /\ hour' \in Hour /\ hour \in Nat /\ hour' \in Nat
      /\ tally' \in [Satellite -> [Hour -> Entry]]
  BY SatellitesAssumption DEF IInv, StatisticsOK, Hour
<1>2. CASE UNCHANGED tally /\ hour' >= hour
  <2>1. \A s \in Satellite, h \in Hour : tally[s][h].date \in Nat
    BY DEF Dated, Entry
  <2>2. \A s \in Satellite, h \in Hour : tally[s][h].date <= hour'
    BY <1>1, <1>2, <2>1 DEF Dated
  <2> QED BY <1>1, <1>2, <2>2 DEF Dated
<1>3. ASSUME NEW s \in Satellite, NEW a, tally' = [tally EXCEPT ![s] = Stored(s, a)],
             hour' = hour
      PROVE  Dated'
  <2>1. tally'[s] = Stored(s, a) /\ \A t \in Satellite : t # s => tally'[t] = tally[t]
    BY <1>3 DEF Dated
  <2>2. ASSUME NEW h \in Hour
        PROVE  /\ tally'[s][h].date <= hour
               /\ tally'[s][h].date = 0 => tally'[s][h].tries = 0
    <3> DEFINE old == tally[s][h]
               date == IF old = NoEntry THEN hour ELSE old.date
    <3>1. old \in Entry /\ old.date <= hour /\ (old.date = 0 => old.tries = 0)
      BY DEF Dated
    <3>2. tally'[s][h] = IF a[h] = 0 THEN old ELSE [tries |-> a[h], date |-> date]
      BY <2>1 DEF Stored
    <3>3. old.date = 0 => old = NoEntry
      BY <3>1 DEF Entry, NoEntry
    <3>4. hour # 0
      BY DEF Dated, Hour
    <3> HIDE DEF old
    <3>5. date <= hour /\ date # 0
      BY <1>1, <3>1, <3>3, <3>4
    <3> HIDE DEF date
    <3>6. CASE a[h] = 0
      BY <3>1, <3>2, <3>6
    <3>7. CASE a[h] # 0
      BY <3>2, <3>5, <3>7
    <3> QED BY <3>6, <3>7
  <2>3. ASSUME NEW t \in Satellite, NEW h \in Hour
        PROVE  /\ tally'[t][h].date <= hour'
               /\ tally'[t][h].date = 0 => tally'[t][h].tries = 0
    <3>1. CASE t = s
      BY <1>3, <2>2, <3>1
    <3>2. CASE t # s
      BY <1>3, <2>1, <3>2 DEF Dated
    <3> QED BY <3>1, <3>2
  <2> QED BY <1>1, <2>3 DEF Dated
<1>4. CASE UNCHANGED vars
  BY <1>1, <1>2, <1>4 DEF vars, stateVars, statisticVars
<1>5. CASE HourPasses
  BY <1>1, <1>2, <1>5 DEF HourPasses
<1>6. CASE FindSatellites \/ Restart
  BY <1>1, <1>2, <1>6 DEF FindSatellites, Restart, statisticVars
<1>7. ASSUME NEW s \in Satellite, StoreStatistics(s)
      PROVE  Dated'
  BY <1>3, <1>7 DEF StoreStatistics
<1>8. ASSUME NEW s \in Satellite, StoreLate(s)
      PROVE  Dated'
  BY <1>3, <1>8 DEF StoreLate
<1>9. ASSUME NEW s \in Satellite,
             \/ Connect(s) \/ Login(s) \/ GetManager(s) \/ Break(s) \/ Detach(s)
             \/ SetProperties(s) \/ Delete(s) \/ Add(s) \/ PushSettings(s) \/ SetSettings(s)
             \/ AddTry(s) \/ SendStatistics(s) \/ ReceiveAnswer(s)
      PROVE  UNCHANGED <<tally, hour>>
  BY <1>9
  DEF Connect, Login, GetManager, Break, Detach, SetProperties, Delete, Add, PushSettings,
      SetSettings, AddTry, SendStatistics, ReceiveAnswer, statisticVars
<1>10. ASSUME UNCHANGED <<tally, hour>>
       PROVE  Dated'
  BY <1>1, <1>2, <1>10
<1> HIDE DEF Dated
<1> QED BY <1>4, <1>5, <1>6, <1>7, <1>8, <1>9, <1>10 DEF Next

(* compute_hourly_stats has one line for each hour asked for that came,    *)
(* with what all satellites tried in it: none twice, none left out, for    *)
(* any number of satellites and hours.                                     *)
THEOREM HoursRight == Spec => []HoursAreRight
<1>1. Dated => HoursAreRight
  BY HoursRead DEF HoursAreRight
<1>2. Init /\ [][Next]_vars /\ []IInv => []Dated
  BY DatedFirst, DatedNext, PTL
<1> QED BY <1>1, <1>2, Invariance, PTL DEF Spec
-----------------------------------------------------------------------------
(* The rest of the state keeps its type: settings, and what may still      *)
(* happen.                                                                 *)
SettingsTyped ==
  /\ config \in [Satellite -> Value]
  /\ push \in [Satellite -> Seq(Nat)] /\ settings \in [Satellite -> Nat]
  /\ found \in [Satellite -> Value]
  /\ breaks \in Nat /\ restarts \in Nat

LEMMA PushedTyped ==
  ASSUME push \in [Satellite -> Seq(Nat)], NEW s \in Satellite, NEW value \in Nat
  PROVE  Pushed(s, value) \in [Satellite -> Seq(Nat)]
<1>1. Append(push[s], value) \in Seq(Nat)
  OBVIOUS
<1> QED BY <1>1 DEF Pushed

LEMMA SettingsTypedNext ==
  ASSUME IInv, SettingsTyped, [Next]_vars PROVE SettingsTyped'
<1> USE DEF SettingsTyped
<1>0. /\ document \in [Satellite -> Document] /\ avatar \in [Satellite -> Avatar]
      /\ \A s \in Satellite : document[s].settings \in Nat /\ Reloaded(s).settings \in Nat
  BY DEF IInv, MasterOK, Document, Reloaded, NoDocument
<1>1. CASE UNCHANGED vars
  BY <1>1 DEF vars, stateVars, linkVars, settingVars, bounds
<1>2. CASE HourPasses
  BY <1>2 DEF HourPasses, linkVars, settingVars, bounds
<1>3. CASE FindSatellites
  <2>1. found' \in [Satellite -> Value]
    BY <1>0, <1>3 DEF FindSatellites, SettingsRead, Value
  <2> QED BY <1>3, <2>1 DEF FindSatellites, linkVars, bounds
<1>4. CASE Restart
  <2>1. <<>> \in Seq(Nat)
    OBVIOUS
  <2>2. /\ push' \in [Satellite -> Seq(Nat)] /\ found' \in [Satellite -> Value]
        /\ restarts' \in Nat
    BY <1>4, <2>1 DEF Restart, Value
  <2> QED BY <1>4, <2>2 DEF Restart
<1>5. ASSUME NEW s \in Satellite, Login(s) PROVE SettingsTyped'
  <2>1. config' = config \/ config' = [config EXCEPT ![s] = settings[s]]
    BY <1>5 DEF Login
  <2>2. config' \in [Satellite -> Value]
    BY <2>1 DEF Value
  <2> QED BY <1>5, <2>2 DEF Login, settingVars, bounds
<1>6. ASSUME NEW s \in Satellite, GetManager(s) PROVE SettingsTyped'
  <2>1. push' = push \/ push' = Pushed(s, Reloaded(s).settings)
    BY <1>6 DEF GetManager
  <2>2. push' \in [Satellite -> Seq(Nat)]
    BY <1>0, <2>1, PushedTyped
  <2> QED BY <1>6, <2>2 DEF GetManager, bounds
<1>7. ASSUME NEW s \in Satellite, Break(s) PROVE SettingsTyped'
  <2>1. <<>> \in Seq(Nat)
    OBVIOUS
  <2>2. push' \in [Satellite -> Seq(Nat)] /\ breaks' \in Nat
    BY <1>7, <2>1 DEF Break
  <2> QED BY <1>7, <2>2 DEF Break
<1>8. ASSUME NEW s \in Satellite, PushSettings(s) PROVE SettingsTyped'
  <2>1. found[s] \in Nat /\ found' \in [Satellite -> Value]
    BY <1>8 DEF PushSettings, Value
  <2>2. push' = push \/ push' = Pushed(s, found[s])
    BY <1>8 DEF PushSettings
  <2>3. push' \in [Satellite -> Seq(Nat)]
    BY <2>1, <2>2, PushedTyped
  <2> QED BY <1>8, <2>1, <2>3 DEF PushSettings, linkVars, bounds
<1>9. ASSUME NEW s \in Satellite, SetSettings(s) PROVE SettingsTyped'
  <2>1. push[s] \in Seq(Nat) /\ push[s] # <<>>
    BY <1>9 DEF SetSettings
  <2>2. Head(push[s]) \in Nat /\ Tail(push[s]) \in Seq(Nat)
    BY <2>1
  <2>3. push' = [push EXCEPT ![s] = Tail(push[s])]
    BY <1>9 DEF SetSettings
  <2>4. push' \in [Satellite -> Seq(Nat)] /\ settings' \in [Satellite -> Nat]
    BY <1>9, <2>2, <2>3 DEF SetSettings
  <2> QED BY <1>9, <2>4 DEF SetSettings, linkVars, bounds
<1>10. ASSUME NEW s \in Satellite,
              \/ Connect(s) \/ Detach(s) \/ SetProperties(s) \/ Delete(s) \/ Add(s)
              \/ AddTry(s) \/ SendStatistics(s) \/ StoreStatistics(s)
              \/ ReceiveAnswer(s) \/ StoreLate(s)
       PROVE  SettingsTyped'
  BY <1>10 DEF Connect, Detach, SetProperties, Delete, Add, AddTry, SendStatistics,
     StoreStatistics, ReceiveAnswer, StoreLate, linkVars, settingVars, bounds
<1> QED
  BY <1>1, <1>2, <1>3, <1>4, <1>5, <1>6, <1>7, <1>8, <1>9, <1>10 DEF Next

LEMMA SettingsTypedFirst == Init => SettingsTyped
<1> SUFFICES ASSUME Init PROVE SettingsTyped
  OBVIOUS
<1>1. <<>> \in Seq(Nat) /\ None \in Value
  BY DEF Value
<1>2. scenario \in Scenario
  BY SatellitesAssumption DEF Init
<1>3. breaks \in Nat /\ restarts \in Nat
  BY <1>2 DEF Init, Scenario
<1> QED BY <1>1, <1>3 DEF Init, SettingsTyped

(* Every variable keeps its type: documents and avatars, with one          *)
(* connection at most for each, settings on their way, and statistics.     *)
THEOREM SatellitesTyped == Spec => []TypeOK
<1>1. IInv /\ SettingsTyped => TypeOK
  <2> SUFFICES ASSUME IInv, SettingsTyped PROVE TypeOK
    OBVIOUS
  <2>1. \A s \in Satellite : Cardinality(avatar[s].minds) <= MaxConnections
    <3> SUFFICES ASSUME NEW s \in Satellite
                 PROVE  Cardinality(avatar[s].minds) <= MaxConnections
      OBVIOUS
    <3>1. avatar[s].minds = {} \/ avatar[s].minds = {"live"} \/ avatar[s].minds = {"stale"}
      BY DEF IInv, MasterOK, AvatarOK
    <3>2. Cardinality({}) = 0
      BY FS_EmptySet
    <3>3. Cardinality({"live"}) = 1 /\ Cardinality({"stale"}) = 1
      BY FS_Singleton
    <3>4. Cardinality(avatar[s].minds) = 0 \/ Cardinality(avatar[s].minds) = 1
      BY <3>1, <3>2, <3>3, Zenon
    <3>5. MaxConnections = 1
      BY SatellitesAssumption
    <3> QED BY <3>4, <3>5
  <2>2. /\ document \in [Satellite -> Document] /\ lastId \in Nat
        /\ \A s \in Satellite : document[s].id <= lastId
        /\ avatar \in [Satellite -> Avatar] /\ made \subseteq Satellite
    BY DEF IInv, MasterOK, DocumentOK
  <2>3. /\ link \in [Satellite -> Stage]
        /\ \A s \in Satellite :
             "live" \in avatar[s].minds <=> link[s] \in {"attached", "stuck", "served"}
    BY DEF IInv, LinkOK, Linked
  <2>4. upToDate \in [Satellite -> SUBSET Hour]
    BY DEF IInv, StatisticsOK
  <2>5. many \in Nat /\ scenario \in Scenario
    BY SatellitesAssumption DEF IInv, BoundOK
  <2> QED BY <2>1, <2>2, <2>3, <2>4, <2>5 DEF IInv, StatisticsOK, SettingsTyped, TypeOK
<1>2. Init /\ [][Next]_vars /\ []IInv => []SettingsTyped
  BY SettingsTypedFirst, SettingsTypedNext, PTL
<1> QED BY <1>1, <1>2, Invariance, PTL DEF Spec

=============================================================================
