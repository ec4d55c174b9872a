----------------------------- MODULE Satellites -----------------------------
(***************************************************************************)
(* What the master knows of its satellites.  A satellite connects, logs in *)
(* and asks for its mailing manager; the master keeps an avatar for its    *)
(* serial, with the connections (minds) that are attached to it, and notes *)
(* in the satellite's document that it is paired.  Administrators enable,  *)
(* disable, delete and add satellites over the API while they are          *)
(* connected.  A task pushes settings to the satellites, and satellites    *)
(* send the statistics of the hour again and again.                        *)
(*                                                                         *)
(* When a connection breaks, the satellite connects again at once, maybe   *)
(* before the master has noticed: for the master the old connection, what  *)
(* was sent on it included, is still there.  What satellites do with       *)
(* recipients and mailings is the subject of the other modules.            *)
(***************************************************************************)
EXTENDS Integers, Sequences, FiniteSets, FiniteSetsExt

CONSTANTS
  Satellite,         \* their serials
  MaxConnections,    \* connections an avatar may have
  LastHour,          \* bound: hours that are counted
  Scenarios          \* what may happen: one is chosen at first

Change == {"enable", "disable", "delete", "add", "settings"}

(* who: satellites that connect; changes: what administrators do, so many  *)
(* times as "many" says; tries: e-mails a satellite tries; hours: that are *)
(* counted; breaks: connections that break; restarts: of the master.       *)
Scenario == [who: SUBSET Satellite, changes: SUBSET Change, many: Nat,
             tries: Nat, hours: Nat, breaks: Nat, restarts: Nat]

ASSUME SatellitesAssumption ==
  /\ MaxConnections = 1 /\ LastHour \in Nat \ {0} /\ IsFiniteSet(Satellite)
  /\ Scenarios \subseteq Scenario
  /\ \A c \in Scenarios : c.hours <= LastHour

Document == [id: Nat, enabled: BOOLEAN, paired: BOOLEAN, settings: Nat]
NoDocument == [id |-> 0, enabled |-> FALSE, paired |-> FALSE, settings |-> 0]

(* An avatar has the satellite's document as it was when last read; gone   *)
(* when it was not found any more.  Minds are the satellite's connection   *)
(* or an earlier one, that the master believes in.                         *)
Avatar == [document: Document, minds: SUBSET {"live", "stale"}]
NoAvatar == [document |-> NoDocument, minds |-> {}]

(* The statistics of a satellite, hour by hour: 0 is no entry.  The master *)
(* also notes the hour in which it made the entry.                         *)
Hour == 1..LastHour
Statistics == [Hour -> Nat]
NoStatistics == [h \in Hour |-> 0]
Entry == [tries: Nat, date: Nat]
NoEntry == [tries |-> 0, date |-> 0]

Stage == {"down", "login", "refused", "attached", "stuck", "served"}

VARIABLES
  document,    \* the documents, id 0 when there is none
  lastId,      \* of the documents that were made
  avatar,      \* the master's avatars; those that were never made have id 0
  made,        \* serials that have an avatar
  link,        \* how far a satellite is with its connection
  config,      \* the settings a satellite told when it was attached
  push,        \* settings on their way to a satellite
  settings,    \* the settings a satellite has
  found,       \* what the monitoring task has read, before it pushes
  hour,        \* it is
  tries,       \* a satellite's statistics
  upToDate,    \* hours a satellite believes the master has
  report,      \* statistics on their way, on its connection
  late,        \* statistics on their way, on an earlier one
  answered,    \* satellites whose report is answered
  tally,       \* the master's statistics of each satellite
  many, breaks, restarts,  \* what may still happen
  scenario     \* the scenario that was chosen; never changes

masterVars == <<document, lastId, avatar, made>>
linkVars == <<link, config>>
settingVars == <<push, settings, found>>
statisticVars == <<hour, tries, upToDate, report, late, answered, tally>>
bounds == <<many, breaks, restarts>>
stateVars == <<masterVars, linkVars, settingVars, statisticVars, bounds>>
vars == <<stateVars, scenario>>

None == -1
Value == Nat \cup {None}

TypeOK ==
  /\ document \in [Satellite -> Document] /\ lastId \in Nat
  /\ \A s \in Satellite : document[s].id <= lastId
  /\ avatar \in [Satellite -> Avatar] /\ made \subseteq Satellite
  /\ \A s \in Satellite : Cardinality(avatar[s].minds) <= MaxConnections
  /\ link \in [Satellite -> Stage]
  /\ \A s \in Satellite :
       "live" \in avatar[s].minds <=> link[s] \in {"attached", "stuck", "served"}
  /\ config \in [Satellite -> Value]
  /\ push \in [Satellite -> Seq(Nat)] /\ settings \in [Satellite -> Nat]
  /\ found \in [Satellite -> Value]
  /\ hour \in Hour
  /\ tries \in [Satellite -> Statistics] /\ upToDate \in [Satellite -> SUBSET Hour]
  /\ report \in [Satellite -> Statistics]
  /\ late \in [Satellite -> SUBSET Statistics]
  /\ answered \subseteq Satellite /\ tally \in [Satellite -> [Hour -> Entry]]
  /\ many \in Nat /\ breaks \in Nat /\ restarts \in Nat
  /\ scenario \in Scenario

(* The master has started: every document says that its satellite is not   *)
(* paired.  Satellites have their documents, but no settings yet.          *)
Init ==
  /\ scenario \in Scenarios
  /\ lastId = 1
  /\ document = [s \in Satellite |-> [NoDocument EXCEPT !.id = 1, !.enabled = TRUE]]
  /\ avatar = [s \in Satellite |-> NoAvatar] /\ made = {}
  /\ link = [s \in Satellite |-> "down"]
  /\ config = [s \in Satellite |-> None]
  /\ push = [s \in Satellite |-> <<>>]
  /\ settings = [s \in Satellite |-> 0]
  /\ found = [s \in Satellite |-> None]
  /\ hour = 1 /\ tries = [s \in Satellite |-> NoStatistics]
  /\ upToDate = [s \in Satellite |-> {}]
  /\ report = [s \in Satellite |-> NoStatistics]
  /\ late = [s \in Satellite |-> {}] /\ answered = {}
  /\ tally = [s \in Satellite |-> [h \in Hour |-> NoEntry]]
  /\ many = scenario.many /\ breaks = scenario.breaks
  /\ restarts = scenario.restarts

-----------------------------------------------------------------------------
(* Connections and logins.                                                 *)

Connect(s) ==
  /\ link[s] = "down" /\ s \in scenario.who
  /\ link' = [link EXCEPT ![s] = "login"]
  /\ UNCHANGED <<masterVars, config, settingVars, statisticVars, bounds>>

(* Variant: an avatar takes any number of connections.                     *)
AnyRoom(s) == TRUE
HasRoom(s) == Cardinality(avatar[s].minds) < MaxConnections

(* requestAvatarId finds an enabled satellite, and requestAvatar an avatar *)
(* made for the same document: one made for a document that was deleted    *)
(* fails the assertion of attached.                                        *)
Authorized(s) == document[s].enabled

MayAttach(s) ==
  /\ Authorized(s) /\ HasRoom(s)
  /\ s \in made => avatar[s].document.id = document[s].id

(* The satellite is attached and, told so, asks for its manager.  One that *)
(* is refused keeps its connection, and does nothing with it.              *)
Login(s) ==
  LET paired == [document[s] EXCEPT !.paired = TRUE] IN
  /\ link[s] = "login"
  /\ IF MayAttach(s)
     THEN /\ document' = [document EXCEPT ![s] = paired]
          /\ avatar' = [avatar EXCEPT ![s] =
               [document |-> IF s \in made THEN @.document ELSE paired,
                minds |-> @.minds \cup {"live"}]]
          /\ made' = made \cup {s}
          /\ link' = [link EXCEPT ![s] = "attached"]
          /\ config' = [config EXCEPT ![s] = settings[s]]
     ELSE /\ link' = [link EXCEPT ![s] = "refused"]
          /\ made' = IF Authorized(s) THEN made \cup {s} ELSE made
          /\ avatar' = [avatar EXCEPT ![s].document =
               IF Authorized(s) /\ s \notin made THEN document[s] ELSE @]
          /\ UNCHANGED <<document, config>>
  /\ UNCHANGED <<lastId, settingVars, statisticVars, bounds>>

(* The document of the avatar, read again; gone when it was deleted.       *)
Reloaded(s) ==
  IF avatar[s].document.id = document[s].id THEN document[s] ELSE NoDocument

Found(s) == Reloaded(s).id # 0

Pushed(s, value) ==
  IF push[s] # <<>> /\ push[s][Len(push[s])] = value THEN push
  ELSE [push EXCEPT ![s] = Append(@, value)]

(* perspective_get_mailing_manager: settings that differ are pushed; when  *)
(* the document was deleted the call fails, and the satellite never asks   *)
(* again.                                                                  *)
GetManager(s) ==
  /\ link[s] = "attached"
  /\ avatar' = [avatar EXCEPT ![s].document = Reloaded(s)]
  /\ link' = [link EXCEPT ![s] = IF Found(s) THEN "served" ELSE "stuck"]
  /\ push' = IF Found(s) /\ Reloaded(s).settings # config[s]
             THEN Pushed(s, Reloaded(s).settings) ELSE push
  /\ UNCHANGED <<document, lastId, made, config, settings, found, statisticVars, bounds>>

(* The connection breaks; the satellite knows at once, the master does not.*)
Break(s) ==
  /\ link[s] # "down" /\ breaks > 0 /\ breaks' = breaks - 1
  /\ link' = [link EXCEPT ![s] = "down"]
  /\ avatar' = [avatar EXCEPT ![s].minds = IF "live" \in @ THEN {"stale"} ELSE @]
  /\ push' = [push EXCEPT ![s] = <<>>]
  /\ late' = [late EXCEPT ![s] = @ \cup ({report[s]} \ {NoStatistics})]
  /\ report' = [report EXCEPT ![s] = NoStatistics] /\ answered' = answered \ {s}
  /\ UNCHANGED <<document, lastId, made, config, settings, found, hour,
                 tries, upToDate, tally, many, restarts>>

(* Variant: the document the avatar has is saved without reading it again. *)
Kept(s) == [avatar[s].document EXCEPT !.paired = FALSE]
Unpaired(s) ==
  IF Found(s) THEN [Reloaded(s) EXCEPT !.paired = FALSE] ELSE document[s]

(* detached: when the document is gone it fails, and the mind stays.       *)
Detach(s) ==
  /\ "stale" \in avatar[s].minds
  /\ document' = [document EXCEPT ![s] = Unpaired(s)]
  /\ avatar' = [avatar EXCEPT ![s] =
       [document |-> Reloaded(s),
        minds |-> IF Found(s) THEN @.minds \ {"stale"} ELSE @.minds]]
  /\ late' = [late EXCEPT ![s] = {}]
  /\ UNCHANGED <<lastId, made, linkVars, settingVars, hour, tries, upToDate,
                 report, answered, tally, bounds>>

(* The master stops and starts; satellites notice.                         *)
Restart ==
  /\ restarts > 0 /\ restarts' = restarts - 1
  /\ document' = [s \in Satellite |-> [document[s] EXCEPT !.paired = FALSE]]
  /\ avatar' = [s \in Satellite |-> NoAvatar] /\ made' = {}
  /\ link' = [s \in Satellite |-> "down"]
  /\ push' = [s \in Satellite |-> <<>>]
  /\ found' = [s \in Satellite |-> None]
  /\ report' = [s \in Satellite |-> NoStatistics] /\ late' = [s \in Satellite |-> {}]
  /\ answered' = {}
  /\ UNCHANGED <<lastId, config, settings, hour, tries, upToDate, tally, many,
                 breaks>>

-----------------------------------------------------------------------------
(* Administrators.                                                         *)

Changed(s, kind) ==
  /\ s \in scenario.who /\ kind \in scenario.changes
  /\ many > 0 /\ many' = many - 1

SetProperties(s) ==
  /\ document[s].id # 0
  /\ \/ /\ Changed(s, "enable") /\ ~document[s].enabled
        /\ document' = [document EXCEPT ![s].enabled = TRUE]
     \/ /\ Changed(s, "disable") /\ document[s].enabled
        /\ document' = [document EXCEPT ![s].enabled = FALSE]
     \/ /\ Changed(s, "settings")  \* in the database: no call of the API does
        /\ document' = [document EXCEPT ![s].settings = @ + 1]
  /\ UNCHANGED <<lastId, avatar, made, linkVars, settingVars, statisticVars,
                 breaks, restarts>>

Delete(s) ==
  /\ document[s].id # 0 /\ Changed(s, "delete")
  /\ document' = [document EXCEPT ![s] = NoDocument]
  /\ UNCHANGED <<lastId, avatar, made, linkVars, settingVars, statisticVars,
                 breaks, restarts>>

Add(s) ==
  /\ document[s].id = 0 /\ Changed(s, "add")
  /\ lastId' = lastId + 1
  /\ document' = [document EXCEPT ![s] =
       [NoDocument EXCEPT !.id = lastId + 1, !.enabled = TRUE]]
  /\ UNCHANGED <<avatar, made, linkVars, settingVars, statisticVars, breaks,
                 restarts>>

-----------------------------------------------------------------------------
(* Settings.                                                               *)

(* The monitoring task reads the satellites that are enabled and paired,   *)
(* and pushes their settings when the answer comes, to the minds their     *)
(* avatars have then; to a mind that is stale they are lost.               *)
(* Variant: it takes the settings of the avatar's document.                *)
KeptSettings(s) == avatar[s].document.settings
SettingsRead(s) == document[s].settings

Monitored(s) == document[s].enabled /\ document[s].paired

FindSatellites ==
  /\ \A s \in Satellite : found[s] = None
  /\ \E s \in Satellite : Monitored(s)
  /\ found' = [s \in Satellite |-> IF Monitored(s) THEN SettingsRead(s) ELSE None]
  /\ UNCHANGED <<masterVars, linkVars, push, settings, statisticVars, bounds>>

PushSettings(s) ==
  /\ found[s] # None
  /\ found' = [found EXCEPT ![s] = None]
  /\ push' = IF "live" \in avatar[s].minds THEN Pushed(s, found[s]) ELSE push
  /\ UNCHANGED <<masterVars, linkVars, settings, statisticVars, bounds>>

SetSettings(s) ==
  /\ push[s] # <<>>
  /\ settings' = [settings EXCEPT ![s] = Head(push[s])]
  /\ push' = [push EXCEPT ![s] = Tail(@)]
  /\ UNCHANGED <<masterVars, linkVars, found, statisticVars, bounds>>

-----------------------------------------------------------------------------
(* Statistics.                                                             *)

HourPasses ==
  /\ hour < scenario.hours
  /\ hour' = hour + 1
  /\ UNCHANGED <<masterVars, linkVars, settingVars, tries, upToDate, report,
                 late, answered, tally, bounds>>

AddTry(s) ==
  /\ s \in scenario.who
  /\ SumFunction(tries[s]) < scenario.tries
  /\ tries' = [tries EXCEPT ![s][hour] = @ + 1]
  /\ upToDate' = [upToDate EXCEPT ![s] = @ \ {hour}]
  /\ UNCHANGED <<masterVars, linkVars, settingVars, hour, report, late,
                 answered, tally, bounds>>

(* The entries that are not up to date.  The task waits for the answer     *)
(* before it sends again.                                                  *)
Unreported(s) == [h \in Hour |-> IF h \in upToDate[s] THEN 0 ELSE tries[s][h]]

SendStatistics(s) ==
  /\ link[s] = "served" /\ report[s] = NoStatistics
  /\ Unreported(s) # NoStatistics
  /\ report' = [report EXCEPT ![s] = Unreported(s)]
  /\ UNCHANGED <<masterVars, linkVars, settingVars, hour, tries, upToDate,
                 late, answered, tally, bounds>>

Stored(s, statistics) ==
  [h \in Hour |->
     IF statistics[h] = 0 THEN tally[s][h]
     ELSE [tries |-> statistics[h],
           date |-> IF tally[s][h] = NoEntry THEN hour ELSE tally[s][h].date]]

StoreStatistics(s) ==
  /\ report[s] # NoStatistics /\ s \notin answered
  /\ tally' = [tally EXCEPT ![s] = Stored(s, report[s])]
  /\ answered' = answered \cup {s}
  /\ UNCHANGED <<masterVars, linkVars, settingVars, hour, tries, upToDate,
                 report, late, bounds>>

StoreLate(s) ==
  /\ "stale" \in avatar[s].minds
  /\ \E statistics \in late[s] :
       /\ tally' = [tally EXCEPT ![s] = Stored(s, statistics)]
       /\ late' = [late EXCEPT ![s] = @ \ {statistics}]
  /\ UNCHANGED <<masterVars, linkVars, settingVars, hour, tries, upToDate,
                 report, answered, bounds>>

(* The answer holds ids made into text, which match no entry: no entry is  *)
(* ever up to date, and all are sent every time.  Variant: they match.     *)
Matched(s) == upToDate[s] \cup {h \in Hour : report[s][h] # 0}
UpToDate(s) == upToDate[s]

ReceiveAnswer(s) ==
  /\ s \in answered
  /\ answered' = answered \ {s}
  /\ report' = [report EXCEPT ![s] = NoStatistics]
  /\ upToDate' = [upToDate EXCEPT ![s] = UpToDate(s)]
  /\ UNCHANGED <<masterVars, linkVars, settingVars, hour, tries, late, tally,
                 bounds>>

(* What a client reads: the entries of all satellites, by hour, whose date *)
(* is in an interval of whole hours; hours without an entry are filled in. *)
(* (Asked for some satellites, the call forgets the interval.)             *)
HoursFound(first, last) ==
  {h \in Hour : \E s \in Satellite : tally[s][h].date \in first..last}
TriesOf(satellites, h) == MapThenSumSet(LAMBDA s : tally[s][h].tries, satellites)
TriesFound(h, first, last) ==
  TriesOf({s \in Satellite : tally[s][h].date \in first..last}, h)

Line(h, n) == [hour |-> h, tries |-> n]

(* Variant: the hour it is, is left out.                                   *)
FilledShort(lines, next, h) ==
  IF h - 1 <= next THEN [lines |-> lines, next |-> next]
  ELSE [lines |-> lines \o [i \in 1..(h - 1 - next) |-> Line(next + i - 1, 0)],
        next |-> h - 1]
Filled(lines, next, h) ==
  IF h <= next THEN [lines |-> lines, next |-> next]
  ELSE [lines |-> lines \o [i \in 1..(h - next) |-> Line(next + i - 1, 0)],
        next |-> h]

HourlyStatistics(first, last) ==
  LET read[h \in 0..LastHour] ==     \* the entries up to hour h are read
        IF h = 0 THEN [lines |-> <<>>, next |-> first]
        ELSE IF h \notin HoursFound(first, last) THEN read[h - 1]
        ELSE LET f == Filled(read[h - 1].lines, read[h - 1].next, h) IN
             [lines |-> Append(f.lines, Line(h, TriesFound(h, first, last))),
              next |-> f.next + 1]
      all == read[LastHour]
  IN Filled(all.lines, all.next, Min({hour, last}) + 1).lines

-----------------------------------------------------------------------------
Next ==
  /\ \/ \E s \in Satellite :
          \/ Connect(s) \/ Login(s) \/ GetManager(s) \/ Break(s) \/ Detach(s)
          \/ SetProperties(s) \/ Delete(s) \/ Add(s)
          \/ PushSettings(s) \/ SetSettings(s)
          \/ AddTry(s) \/ SendStatistics(s) \/ StoreStatistics(s) \/ ReceiveAnswer(s)
          \/ StoreLate(s)
     \/ HourPasses \/ FindSatellites \/ Restart
  /\ UNCHANGED scenario

(* A satellite connects again and again, messages arrive while the         *)
(* connection holds, the timers of the tasks fire, and the master notices  *)
(* in the end that a connection broke.                                     *)
Fairness ==
  /\ WF_vars(FindSatellites /\ UNCHANGED scenario)
  /\ \A s \in Satellite :
       /\ WF_vars(Connect(s) /\ UNCHANGED scenario)
       /\ WF_vars(Login(s) /\ UNCHANGED scenario)
       /\ WF_vars(GetManager(s) /\ UNCHANGED scenario)
       /\ WF_vars(Detach(s) /\ UNCHANGED scenario)
       /\ WF_vars(PushSettings(s) /\ UNCHANGED scenario)
       /\ WF_vars(SetSettings(s) /\ UNCHANGED scenario)
       /\ WF_vars(SendStatistics(s) /\ UNCHANGED scenario)
       /\ WF_vars(StoreStatistics(s) /\ UNCHANGED scenario)
       /\ WF_vars(ReceiveAnswer(s) /\ UNCHANGED scenario)

Spec == Init /\ [][Next]_vars /\ Fairness

-----------------------------------------------------------------------------
(* Properties.                                                             *)

(* ClientAvatar.attached and detached: a satellite's document says that it *)
(* is paired exactly when the master has a connection of it, whatever      *)
(* connections broke and came back, and whatever administrators did.       *)
PairedIsConnected ==
  \A s \in Satellite : document[s].id # 0 =>
    (document[s].paired <=>
       /\ s \in made /\ avatar[s].document.id = document[s].id
       /\ avatar[s].minds # {})

(* The whole saves of a document by attached, detached and                 *)
(* perspective_get_mailing_manager never undo what an administrator did:   *)
(* a satellite that was disabled or deleted stays so, and keeps the        *)
(* settings it was given, until an administrator changes it.               *)
AdministratorDecides ==
  [][many' = many =>
       \A s \in Satellite :
         /\ document'[s].id = document[s].id
         /\ document'[s].enabled = document[s].enabled
         /\ document'[s].settings = document[s].settings]_vars

(* view_send_statistics overwrites what the master has: since the new      *)
(* connection of a satellite is refused while the master believes in the   *)
(* old one, a report sent on that never comes after a newer one.           *)
StatisticsOnlyGrow ==
  [][\A s \in Satellite, h \in Hour : tally'[s][h].tries >= tally[s][h].tries]_vars

(* A satellite the master refused, or failed to serve, stays outside until *)
(* its connection breaks.                                                  *)
Outside(s) == link[s] \in {"refused", "stuck"}

(* send_statistics and cb_send_statistics: every e-mail that was tried     *)
(* comes to the master's statistics, also those tried between a report and *)
(* its answer, unless the satellite stays outside.  A remark in            *)
(* cb_send_statistics fears that those get lost; they do not, because what *)
(* it marks is nothing: no entry is up to date, and all are sent again.    *)
StatisticsArrive ==
  \A s \in Satellite, h \in Hour : \A n \in 1..2 :
    tries[s][h] >= n ~> (tally[s][h].tries >= n \/ Outside(s))

(* compute_hourly_stats gives one line for each hour of the interval, with *)
(* what all satellites tried in it, if each entry was made in its hour.    *)
InTime == \A s \in Satellite, h \in Hour : tally[s][h].date \in {0, h}

RightLines(first, last) ==
  IF hour < first THEN <<>> ELSE
  [i \in 1..(Min({hour, last}) - first + 1) |->
     Line(first + i - 1, TriesOf(Satellite, first + i - 1))]

HoursAreRight ==
  InTime => \A first, last \in Hour :
    first <= last => HourlyStatistics(first, last) = RightLines(first, last)

(* Whatever the order of a login, the monitoring task and breaks, a        *)
(* satellite gets the settings the master has for it; unless they change   *)
(* again, or it is disabled, deleted or outside.                           *)
SettingsArrive ==
  \A s \in Satellite : \A n \in 1..2 :
    document[s].settings = n ~>
      (settings[s] = n \/ document[s].settings # n \/ ~document[s].enabled
         \/ Outside(s))
=============================================================================
