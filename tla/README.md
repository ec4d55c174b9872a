# A formal model of CloudMailing

CloudMailing sends mailings. A *master* keeps the mailings and one document
per recipient in MongoDB; *satellites* get recipients from it over Twisted
Perspective Broker (PB), send the e-mails and report how it went; an *smtpd*
beside the master receives delivery status notifications (DSN) and e-mails of
users. This directory holds TLA+ models of it, the TLC runs that check them
and theorems checked by TLAPS. Paths below are relative to
`src/cloud_mailing/`; in the remarks SR is `master/send_recipients_task.py`,
CM `master/cloud_master.py`, MM `master/mailing_manager.py`, MS
`satellite/mailing_sender.py`, MO `master/models.py`, XR `master/xmlrpc_api.py`
and SM `smtpd/smtp_server.py`.

## Inventory

| Part | Source | State | Operations | Module |
|---|---|---|---|---|
| Delegation of recipients | SR, CM, MS, `satellite/cloud_client.py` | documents (`send_status`, `in_progress`, `cloud_client`, `date_delegated`, `next_try`, `dsn`), rows of a satellite (`send_status`, `in_progress`, `finished`), pages and answers in flight, the one-thread reports pool | select and mark, page, receive, send, report, store, acknowledge, check orphans, verify after a restart, give up zombie relays | `Delegation`, `Ledger` |
| Life of a mailing | MM, `master/api_common.py`, SR | `status`, `start_time`, `end_time`, bodies on the satellites | create, start, pause, close, delete, purge, time limit, change of properties | `MailingControl` |
| Counters of a mailing | CM, XR, MO, SM | `total_recipient`, `total_pending`, `total_sent`, `total_error`, `total_softbounce` | add recipients, store reports, DSN, recount at the close, whole saves | `MailingControl` |
| Content of mailings on a satellite | `satellite/cloud_client.py`, MS, CM | `Mailing` of the satellite, `body_downloaded`, `mailingsContent`, customized files | fetch, invalidate, close, delete, customize, restart | `SatelliteContent` |
| Mail customizer | `satellite/mail_customizer.py` | cache of parsed messages, its lock, customized files | parse, customize, write | `SatelliteContent` (control only) |
| Queues of a satellite | MS | `handlingQueueLock`, `ActiveQueuesList`, `ActiveQueue` records | `check_mailing`, `handle_mailing_queue`, `add_queue`, `removeActiveRelay`, `check_for_zombie_queues` | `SatelliteQueues` |
| SMTP relayer | `satellite/sendmail.py`, MS | recipients left, current message, `mx_in_use`, failures of the domain | look up, customize, connect, send the next, disconnect, fail | `Relay` |
| MX resolution | `satellite/mx.py` | bad hosts | resolve through aliases, choose, mark good or bad, expire | `MXCalculator` |
| What clients are told | XR, `master/rest_api/` | cursor of the client, `modified` | `get_recipients_status_updated_since`, `get_recipients_status` | `StatusReports` |
| Retrieval of customized content | CM, MM, XR, `satellite/cloud_client.py` | kept e-mails, `report_ready` | fetch from the satellite, write, give, purge | `StatusReports` |
| SMTP server | SM | sessions, the recipients of a user's delivery | authenticate, accept, take a DSN, post an e-mail | `SmtpServer` (what storing a DSN would write: `Delegation`, `MailingControl`, `StatusReports`) |
| Monitoring of satellites | `master/monitor_satellites_task.py`, CM, XR, MO | avatars and their connections, `CloudClient` documents, settings | log in, attach, detach, enable, disable, add, delete, push settings | `Satellites` |
| Statistics | `satellite/models.py`, CM, MO, `master/api_common.py` | hourly statistics of a satellite and of the master | add, send, store, answer, read by hour | `Satellites` (hourly ones) |
| API | XR, `master/api_common.py`, `master/rest_api/` | none of its own | everything an operator does | spread over the modules |
| Settings, sequences, common code | `common/` | single documents, text | read, write | `Satellites` (settings of a satellite) |
| Web administration, start-up, deployment | `master/admin_pages.py`, `*_main.py` | none | pages, packaging | none |

How they interact. Master and satellites each run a reactor and threads: the
reports pool of the master (one thread), threads of the API for pause and
close, the queue thread and the customizing threads of a satellite. A Twisted
function with `yield` gives up control at each of them. Calls between processes
are asynchronous PB calls; an answer, or a page, may find the connection gone.
The smtpd shares only the database with the master. MongoDB saves of models
write *whole* documents read earlier; `update` calls change single fields of all
documents that match. These are the hard behaviours: saves of stale copies,
selections acted upon after an await, reports repeated after a lost answer,
rows and claims left behind by a process that stopped, relays that end late,
connections the master still believes in. The hazards are listed at their
lines in `PROJECT.json`, each with the properties that are about it.

What makes each part correct:

- Delegation: an outcome is never lost nor a recipient known to have the e-mail
  sent again; the master's claims end; one satellite works on a recipient at a
  time.
- Life of a mailing: a closed mailing stays closed and leaves nobody behind.
- Counters: they agree with the documents when nothing is under way.
- Content: what leaves is not older than what the satellite was told of; missing
  content comes; a mailing that is over leaves no rows.
- Queues: the lock is released on every path, limits are kept, a row in progress
  is in somebody's hands and in one queue only.
- Relayer: each recipient of a queue is dealt with, what a server answered
  stays, a domain is only given up after failures in a row.
- MX resolution: the servers found are those at the end of the aliases.
- What clients are told: a change is returned to a client that polls; a kept
  e-mail is there before its recipient is shown; a DSN is kept.
- SMTP server: 250 means posted, to those the e-mail was accepted for and to
  nobody else.
- Monitoring: paired means connected; administrators' changes stand; settings and
  statistics arrive, and the hours that are read are right.

## Modules

Each component has a module; its `MC` module gives scenarios for TLC. A scenario
says which events may happen and how often; Init chooses one, so that one run
explores several budgets that would be too large together. A variable marked
"history" is not in the code and read by properties only. An operator marked
"Variant" in a comment is a plausible slip of the operator after it, used to
see that a property can fail.

### Delegation and Ledger

`Delegation.tla` models how a recipient goes from the master to a satellite
and back, for one running mailing whose content the satellites have.

| In the module | In the code |
|---|---|
| `doc`, `aged` | `MailingRecipient` of the master; `due` stands for `next_try <= now`, `aged` for `date_delegated` older than an hour |
| `delegated`, numbers `deleg` | not in the code: they number the delegations of a recipient to tell their rows apart |
| `selection` | between the query of `filling_mailing_queue` and `update_many` of `_get_recipients` |
| `pool`, `grabbed` | the queue of `reports_thread_pool` and the copy `_store_reports` works on |
| `lost`, `asked` | `check_recipients_in_clients`: the call to a satellite and the release of what it does not know |
| `ack`, `acked` | the answer to `send_reports`; "first" and "behind" is its order relative to `check_recipients`, for a connection keeps order |
| `claimed`, `verify` | `verify_recipients` |
| `row`, `work`, `zombies` | `MailingRecipient` of the satellite; what its relays send; those it gave up that still run |
| `mailed`, `recorded`, `taken` | history |
| `budget` | how many of each mishap of the scenario may still happen: a process stops, a connection drops, a DSN arrives, the API resets, a database or file operation fails, a relay is given up, a mail server takes an e-mail and its answer is lost (`noAnswer`) |

Actions are named for what happens: `Select`, `Mark`, `ReceivePage`,
`StartSending`, `RefuseDomain`, `EndSending`, `SendReport`, `Grab`,
`StoreReport`, `FailToStore`, `FinishReport`, `ReceiveAck`, `CheckOrphans`,
`AnswerCheck`, `ReleaseOrphans`, `Connect`, `AnswerVerify`, `ApplyVerify`,
`GiveUp`, `EndZombie`, `StopSatellite`, `RestartMaster`, `Disconnect`, and the
writers outside this protocol, `StoreDsn` and `Reset`.

An e-mail is in `mailed` when a mail server took it. That is so for an attempt
that ends FINISHED, and may be so for one that ends in a failure
(`MayBeMailed`): a connection that times out or breaks after DATA is a
failure to the satellite, WARNING by `handle_recipient_failure` (MS:1002-1024)
or by `_ebExchange` (MS:882-888), and the recipient is tried again.

Abstracted: time (`due`, `aged` and `slowAnswers`, which says whether an answer
may take longer than the retry delay), the reply of the mail server (one of
four outcomes), limits of connections and relays, domains, groups and affinity
(every satellite may get every recipient), and how many times a recipient is
tried. A page and the answer to a call are lost with the connection, never
otherwise, as with PB.

`Ledger.tla` is what this promises, without processes or connections: a
recipient is granted, mail servers take e-mails, a grant is recorded (once, but
that a late success corrects a failure, and as FINISHED only if a server took
the e-mail), the master takes over what was recorded or that nobody is sure of
it, a DSN or a reset changes its word. `Delegation` implements it
(`ImplementsLedger`): `status` is the status of `doc`, `granted` is `delegated`,
and the histories are themselves; all other steps are stutters.

### MailingControl

`MailingControl.tla` models the life of one mailing on the master and its
counters, which live in the same document. The satellites are reduced to their
rows: what they work on and what they reported and were not yet answered about;
how they come to an outcome is the subject of `Delegation`.

| In the module | In the code |
|---|---|
| `mailing` | the `Mailing` document: status, whether `start_time` and `end_time` are set, the five counters |
| `doc` | the `MailingRecipient` documents of the mailing |
| `sessions` | what `set_mailing_properties`, `start_mailing`, `pause_mailing`, `close_mailing`, `delete_mailing`, `delete_all_mailings_for_domain` and `MailingManager.close_mailing` are in the middle of, with the copy of the mailing they grabbed; `home` says whether in the reactor or in a thread |
| `run` | `filling_mailing_queue` and its callers between two queries, with what they read |
| `adding` | `_add_recipients` between the look at the mailing and the count |
| `closer` | `update_status_for_finished_mailings` between two queries, once for the timer and once for a call of `force_purge_empty_mailings` |
| `answered` | tasks of which a query took effect while the reactor was busy |
| `grabbed`, `counted` | the copy `_store_reports` works on; the increments `_update_mailings_stats` will apply |
| `noticed` | the increments smtpd has still to apply for DSNs it stored |
| `row`, `told` | the rows of each satellite; an order to close on its way |
| `late`, `astray` | history: recipients inserted while the mailing ended; recipients chosen while a satellite had them |

A satellite keeps a row it reported until it is answered (`ReceiveAnswer`), so
that the report of it may be repeated (event `repeat`) and counted again. The
check of orphans releases a claim whose satellite has no row (`Orphan`), and
also one whose satellite is not connected and may have it (event `away`,
CM:539-544): then two satellites can have one recipient.

A session that runs in the reactor keeps other calls out (`ReactorFree`), but
not the threads, smtpd, nor the one query each task had already sent to the
database: `Query` lets it take effect and keeps the task from going on before
the session is over.

Abstracted: `ERROR` and `GENERAL_ERROR` are one status; schedules are the
event `limit` and the fact that the mailing may be read at any time; the
content of the mailing, the choice of satellite and the retry delay are left
out.

### SatelliteContent

One mailing, one satellite. The master numbers the contents it was given
(`version`); everything on the satellite that was made from one carries its
number, so that staleness can be seen.

| In the module | In the code |
|---|---|
| `phase`, `owed` | whether `view_get_mailing` gives the mailing away; `close_mailing_on_satellites` still to come |
| `linked`, `orders`, `pages` | the connection; `mailing_changed` and `close_mailing` calls, pages of recipients under way |
| `request`, `answer` | `check_for_missing_mailings` and `get_mailing`: asked, answered, the queries until `body_downloaded` is saved, or told to delete |
| `doc`, `row` | `Mailing` and `MailingRecipient` of the satellite |
| `cache`, `file` | `mailingsContent`, and the customized files with the content they were made from |
| `stage`, `held` | `handle_recipients` and the customizer in a thread, step by step: look for the file, parse under the lock, put into the cache, customize, write |
| `due`, `late`, `booted`, `sent` | history: what a thread had to work with, what was made of content that was being replaced, the content at the last start, e-mails that left |

Actions: `Edit`, `Pause`, `Start`, `Finish`, `TellClose`, `SendPage`,
`AnswerRequest`, `Release`, `Disconnect`, `Reconnect`, `Restart`, `ObeyChange`,
`ObeyClose`, `ReceivePage`, `CheckForMissing`, `GetContent`, `SaveContent`,
`GetDelete`, `Take`, `Look`, `Parse`, `PutInCache`, `Customize`, `Write`,
`FailToWrite`, `Abandon`, `Deliver`, `FailToDeliver`, `Report`. When the
connection breaks between the answer to a request and the last page of the
content, the Deferred of `getAllPages` (MS:68-77) never fires and the timer that
waits for it (MS:126) asks no more: `request` is "hung" until a restart. A row
is "stuck" after an OSError of the customizer (MS:946-949). Templates, links,
DKIM and MIME are left out; a message is the number of its content.

### SatelliteQueues

| In the module | In the code |
|---|---|
| `row`, `open` | the rows; the mailings the satellite has |
| `locked`, `step`, `half`, `mailings`, `todo`, `seen`, `skipped`, `exchange` | `handlingQueueLock` and the locals of `handle_mailing_queue`: ordinary mailings first, then those in test (`half`), the rows it read, `activeRelayCount()`, `skip_domains`, the dictionaries of exchanges |
| `queues` | `ActiveQueuesList` and the relays: a queue has recipients still to send (`left`), some it sends although it was given up (`late`), and is in the list or not (`managed`) |
| `checking` | the timer of `check_for_zombie_queues` is alive |
| `spoiled`, `closed` | history: rows an exception left in progress or a relay given up saved over; mailings closed |

Actions: `ReceivePage`, `CloseMailing`, `Report`; `CheckMailing`, `ReadRows`,
`PassOver`, `RefuseRow`, `SkipDomain`, `TakeRow`, `EndHalf`, `MakeQueue`,
`FinishThread`, `BreakThread`; `EndRecipient`, `FailQueue`, `EndQueue`,
`GiveUp`, `EndLate`; `Restart`. The note of a domain is fixed while a run lasts
(`RoomFor`); each half of the thread gives a domain at most one queue.

### Relay and MXCalculator

`MXCalculator.tla` has the lookup as operators: `Search` follows aliases inside
an answer, taking records out as it looks at them, `GetMX` asks again up to
`MaximumCanonicalChainLength` times, `First` chooses a server. The reference
`Ends` is the end of the chain of aliases, if four answers reach that far;
`LookupIsRight` compares.

`Relay.tla` runs relays of one domain side by side: `queue` is a `Queue` with
its `SMTPRelayerFactory` and protocol (its stage, recipients, e-mails left,
the one being sent and whether it was answered, the server), `inUse` is
`mx_in_use`, `bad` the bad hosts, `fatal` the stored `dns_fatal_errors` of the
domain, `gone` recipients whose file a close removed; `since` is history. Actions follow a relay: `StartQueue`, `AnswerLookup`,
`FailLookup`, `Customize`, `Connect`, `Connected`, `FailToConnect`, `NextMail`,
`FindFileGone`, `AnswerMail`, `RefuseToTalk`, `TimeOut`, `CloseConnection`,
`BreakConnection`, and around them `CloseMailing`, `ForgetBad`,
`DelegateAgain`. What the DNS answers, the SMTP dialogue and the threads are
external; a relay whose e-mails could all not be made fails as if its domain
had, as in the code. An OSError of the customizer leaves the row with an outcome
and unfinished ("held"); when it says that a file does not exist, its handler
reads `ex.message` (MS:947), which Python 3 does not have, and the error that
raises fails the whole relay.

### StatusReports

| In the module | In the code |
|---|---|
| `doc` | `send_status`, `modified` (0 when absent), `report_ready` (`shown`), `dsn` |
| `writes` | writers that took the time and whose write has not arrived: `_store_reports`, `store_recipient_report`, the save after a content came |
| `content`, `linked`, `requests`, `awaited` | kept e-mails, satellites, the calls of `retrieve_customized_content` and the Deferreds its task waits for; one that no call will fire stays (`TaskHangs`) |
| `poll`, `cursor`, `last` | a call of `get_recipients_status_updated_since`: count, search, count of the last date; the cursor `{date, count, offset}` |
| `known`, `excused`, `left`, `lost` | history: what the client got, the named ways to miss a change, whether documents the offset counts changed, contents lost |

The client polls, and may take kept e-mails (`Given`); `GetStatus` asks for
recipients by id. `MayMiss` and `SkippedBlindly` name every way the code does
miss a change; the property says that there is no other. The list a poll searches is
not sorted in the model: a recipient's place is the number of recipients found
that come before it by date (`Since`), which is where a sort puts it. `Ahead`
are the recipients a cursor has yet to return; no step of the client leaves one
of them out (`NoneLeftOut`).

### SmtpServer

A session (`session[s]`) has the letter of its transaction, the addresses tried
and accepted, whether a user logged in, the list of recipients of the user's
delivery, and whether one of its messages is real. Notifications come without
login to return paths; a user's e-mail comes after login and is posted to the
external API (`Post`, `Answered`). The process may stop, connections be lost,
and the API refuse or fail.

The lines of a message are bytes. `eomReceived` of a notification joins them
with a text (SM:101), which is a TypeError in Python 3, raised before
`handle_report` and its handler of errors; the recipient of its return path is
bytes as well (SM:79), and is compared with a text (SM:161). So no
notification is ever stored: `EndNotification` closes the session and the
letter stays with the client, who tries again. No test of the repository
receives a notification. What `store_recipient_report` would write
(SM:155-190) is an action of the modules whose documents it changes: `StoreDsn`
and `CountDsn`, `ReceiveDsn`, `Notify`. They are about a notification that does
arrive; `scripts/handle_reports.py`, which takes notifications from a mailbox,
makes the same change of a recipient and counts nothing. GENERAL_ERROR, whose
status is replaced without counting anything (SM:180-182), is not told from
ERROR there, for which nothing is counted either.

### Satellites

| In the module | In the code |
|---|---|
| `document`, `lastId` | `CloudClient` documents, with an id, for one may be deleted and made again |
| `avatar`, `made` | `CloudRealm.avatars`, `ClientAvatar` with its document and `minds`: the "live" connection or a "stale" one |
| `link` | how far the satellite is: down, logging in, refused, attached, served with its manager, or stuck when that call failed |
| `config`, `push`, `settings`, `found` | settings told at the login, pushed, had; what `MonitorSatellitesTask` read before it pushes |
| `hour`, `tries`, `upToDate`, `report`, `late`, `answered`, `tally` | `HourlyStats` of the satellite, the report on its way on its connection or on an earlier one, the entries of the master with the hour they were made |

Actions: `Connect`, `Login`, `GetManager`, `Break`, `Detach`, `Restart`,
`SetProperties`, `Delete`, `Add`, `FindSatellites`, `PushSettings`,
`SetSettings`, `HourPasses`, `AddTry`, `SendStatistics`, `StoreStatistics`,
`StoreLate`, `ReceiveAnswer`; `HourlyStatistics` is `compute_hourly_stats`.
Assumed: ids are carried as text by PB, so that the answer to a report matches
no entry and all are sent every time; clocks of master and satellites agree
on the hour; clients ask for whole hours.

## Runs

Instances are bounded by the scenarios of the `MC` modules: how often each call
and each mishap may happen, and which recipients or satellites take part. The
models stop when these are used up, hence `CHECK_DEADLOCK FALSE`; `SmtpServer`
and `StatusReports` never stop (sessions come and go, a client polls), and
their runs check deadlock.

| Run | Instance | Distinct states | Shows |
|---|---|---|---|
| `handover` | `EachOnce`: 1 recipient, 2 delegations, 1 satellite, one of each mishap but a drop and an answer of a server that does not come; `Unanswered`: that one with a zombie, a DSN and an error of the disk; `Calm`: 3 delegations, 2 satellites, a DSN, a reset, a database failure and an e-mail taken without an answer; `Partial`, `Stopped`: 2 recipients, a database failure or a stop | 2,130,724 | `TypeOK`, `NotSentAgain`, `SentMeansMailed`, `SingleHolder`, `MailedOnce`, `OutcomeKept`, `ImplementsLedger` |
| `live` | fairness; 1 recipient, 2 delegations, a stop, a drop, a zombie | 182,421 | `ClaimEnds` |
| `unreported` | 2 recipients, 1 delegation each, a stop | – | a disagreement, below |
| `lifecycle` | `Counting`: 2 recipients, 2 additions, a start, a DSN; `Extended`: an edit instead of the start; `Edited`: both, 1 recipient; `Uncertain`: also one not sent, one lost; `Crossing`, `Resuming`, `Resumes`, `CrossedByDsn`: 1 recipient, starts, a pause, a close, an edit, a DSN that may cross a save; the mailing ends by itself: `Ends`: 2 recipients, one of them a test; `Fails`, `Stops`, `Repeats`: a report that fails, a stop of the master, a repeated report; `Apart`: 2 satellites and a claim released while one is away; `Forced`: found to be over twice at once; `Overdue`, `Deleted`, `Purged` | 2,501,599 | `TypeOK`, `CountersExact`, `NobodyStranded`, `ClosedForGood` |
| `content` | fairness; 2 recipients; an edit while both are sent and one returns; an edit and a stop; a pause and a start; an end and a drop; a disk that fails once, with an end, a drop or a stop; all mishaps with one page | 380,723 | `TypeOK`, `RestartRefreshes`, `FreshContent`, `ContentComes`, `OverIsForgotten` |
| `queues` | fairness; 5 recipients of 3 mailings (one in test) and 3 domains (one refused); `Closing`, `Crowded`, `Spacious`, `Doubled`, `GivenUp`, `Stopping` differ in pages, limits and mishaps | 153,615 | `NobodyForgotten`, `OneQueueEach`, `WithinLimits`, `WaitingEnds` |
| `relay` | fairness; 2 recipients, 2 relays, 2 servers; every zone of five names with answers that hold no or one more name; connections, lookups and customizations that fail; six attempts in a row | 120,754 | `LookupRight`, `InUseIsOpen`, `OutcomeStays`, `RejectedInSeries`, `GoingEnds` |
| `recoverable` | 2 recipients, 2 relays, six attempts in a row that fail in the lookup or at the connection | – | a disagreement, below |
| `reports` | fairness; 2 recipients; pages of one and of two; soft bounces and returns, DSN, resets, the time limit, kept e-mails with cuts, purges and clients that take them, a recipient sent to again while its e-mail is fetched | 136,973 | `ContentComesFirst`, `ChangesReturned`, `DsnKept`, `NoneLeftOut` |
| `letters` | 2 sessions, 3 letters; two e-mails of users, with recipients in common or not, beside a notification; notifications with bad addresses beside an e-mail; up to two mishaps, one RSET | 424,677 | `TypeOK`, `FirstIsPosted`, `PostedToItsOwn` |
| `session` | 2 e-mails of users, no mishap | – | a disagreement, below |
| `satellites` | fairness; 1 satellite with administrators, 3 changes and 2 breaks, a restart; settings; 2 tries over 2 hours; 2 satellites over 3 hours | 42,737 | `PairedIsConnected`, `HoursAreRight`, `AdministratorDecides`, `StatisticsOnlyGrow`, `StatisticsArrive`, `SettingsArrive` |

Why the bounds are enough. Two delegations let an old row, page, report or
answer meet a newer one, a third lets a retry follow a reset; two satellites are
what exclusion takes; two recipients are what a report of which one part fails,
a page of two, or an addition of some takes. In `MailingControl` one of each
call, and two starts, let every call cross every other once; a second satellite
is what a claim that is released too early takes. Two recipients and
two contents let a thread work on the old content while another finds it, and
three pages let a recipient return to its file. Two mailings in one domain and
two domains in one mailing let queues mix and a close hit part of one. Five
names make a chain one longer than the code follows, and loops of every length;
five failures in a row and one more pass the threshold of rejection. Two
documents of one date are what the offset of a cursor is about. Two letters
of users in two sessions cross; two in one session share its list. A
connection that breaks twice comes back before, and after, the first break
was noticed. Each property has a mutant in `PROJECT.json`, a plausible slip in
the code that breaks it under its run's own bounds. The runs of `queues`,
`reports`, `relay` and `satellites` leave out the type invariants of
their modules, which are defined there and proved.

### Fairness

- `Delegation`: the tasks `start_tasks` runs in a loop (relays, reports), the
  reports thread, the check of orphans and its steps, calls and pages under way
  on a connection that stays up, and an hour going by. Nothing is asked of the
  mishaps, the API or new delegations, and a relay that starts ends: the SMTP
  client has timeouts. Reconnection is not assumed: `CheckOrphans` releases what
  a satellite that stays away held.
- `SatelliteContent`: calls and pages arrive, the reconnecting client factory
  connects again, timers fire, threads go on, and the master tells the end it
  owes. Edits and stops are owed nothing, and nothing ends a request whose pages
  stopped coming: `ContentComes` and `OverIsForgotten` name that case.
- `SatelliteQueues`: the timer of `check_mailing` fires, the thread goes on, a
  relay ends; zombies need not be given up.
- `Relay`: each relay goes on: lookups, connections and answers have time-outs.
- `StatusReports`: writes arrive, satellites connect again and answer, the
  retrieving task runs every minute unless it still waits, and the client polls.
  Nothing fires a Deferred whose pages stopped coming: `ChangesReturned` names
  that case.
- `Satellites`: a satellite connects again, messages arrive while the connection
  holds, the task and the timer of statistics fire, and the master notices in
  the end that a connection broke (TCP).
- `MailingControl` and `SmtpServer` need none: their properties are safety
  properties.

### What the runs found

Three runs end in a violation of what the source says of itself:

- `unreported`: after a restart `verify_recipients` makes rows that were
  already finished READY (MS:170); they are not sent again, but reported as
  READY, and the master then delegates a recipient who has the e-mail, although
  `finished` is said to mark what "should be returned back to the master".
- `session`: the list of recipients belongs to the session's delivery, so the
  second e-mail of a session is made of fake messages only (SM:222): it is
  answered 250 and posted to nobody.
- `recoverable`: whether a failed relay rejects its recipients is decided by the
  stored count of fatal errors alone (MS:885). Once it is five, a lookup that gets
  no answer, an error of the recoverable kind, rejects them as well, although
  such errors "should never be fatal for concerned recipients"
  (`satellite/models.py:222-224`).

Four remarks in the code do not fit what it does, without a run that shows it:

- "BUG possible loose of statistics if row updated since it was sent to master"
  (MS:380). Nothing is lost: the answer holds ids made into text, which match
  no entry, so that no entry is ever marked as up to date and all are sent again
  every time (`UpToDate`). `StatisticsArrive` holds for that reason, and breaks
  in its mutant, where the ids match (`Matched`): the remark would then be right.
- "an improved one from twisted, with an errback called in case of error"
  (`getAllPages`, MS:72 and CM:61): when the connection breaks between the
  answer and the last page, neither callback nor errback is called (`Cut` of
  `SatelliteContent` and of `StatusReports`).
- "here should be always true" (MS:884) of a recipient in progress: it is not
  after an OSError of the customizer, nor for those that ended before
  (`StillGoing`, "held").
- "total_pending: Number of recipients not yet handled (including soft bounces)"
  (XR:315): it gets smaller when a report is counted twice. `Undisturbed` names
  what does that and excludes it from `CountersExact`.

Other things the models do are not contradicted by anything the repository
says, or lie beside the properties. They limit what the properties state:

- Delegation: a relay that was given up saves its old copy over a newer row; an
  OSError of the customizer leaves a row neither sent nor reported until a restart
  of the satellite that has other rows to verify makes all claimed rows READY
  (`HalfSaved`); an e-mail whose answer is lost is sent twice (`noAnswer`); the recipients of `send_test` are selected
  twice by one run (SR:213), which one satellite gets twice in a page.
- Life of a mailing: the sending task sets RUNNING on a mailing that was paused
  after the task read it as READY (SR:256); the thread of a pause may save its
  copy over a close (`NoneBefore`); recipients may be inserted while the mailing
  ends (`late`); a recipient that is reset when `total_pending` is 0 is not
  looked for (SR:218), since the reset leaves the counters alone; a recipient that
  two satellites have may be reported READY after the mailing ended (`astray`).
- Counters: a report that is repeated because its answer was lost (CM:420) is
  counted again (CM:372-387), and so are the reports of two satellites that have
  one recipient (CM:539-544), or one that was counted and whose save failed;
  `total_pending` is then too small, and who waits may not be looked for (SR:218).
  A pause that saves its copy over increments or over a close, a
  reset, the time limit, a stop of the master between a save and its
  increment, and a DSN that crosses the save of a report or of the mailing
  spoil them (`Undisturbed`); increments that follow the recount of a close are
  applied to it; `update_stats` counts a status by a key no document has, and
  leaves `total_softbounce` alone (MO:262).
- Content: closing a mailing does not stop e-mails whose files are made;
  content that a thread parsed while it was being replaced is used once more
  (`late`).
- Queues: an exception in the thread, or in the timer of zombies, leaves rows in
  progress until a restart, and ends that timer for good (`spoiled`, `checking`);
  the limit on connections is kept for each half of the thread.
- Relay: a relay without any e-mail counts as a failure of its domain; a file
  that cannot be found while an e-mail is made fails the whole relay (MS:947); a
  file removed by a close breaks the connection for the recipients behind it
  (MS:882); only the first server is tried (MS:826); an alias spelled
  with capitals is not found (`mx.py:116`).
- Reports: the report read before a DSN overwrites it (`DsnKept` excuses it);
  the time limit and resets leave `modified` alone (MM:111); a change that takes
  its date before a call and arrives after it is missed; as many documents that
  come as go leave the offset wrong (XR:885); the filter of senders drops the
  interval (XR:982); the retrieval stops at the first absent satellite (CM:620),
  and for good when a connection breaks among its pages (`TaskHangs`).
- SMTP server: no notification is stored (SM:101, see above); one address whose
  mailing is not a number refuses the letter for all its recipients (SM:91).
- Satellites: one that is refused, or was deleted, keeps its connection and never
  tries again, and `detached` raises for it, so that its connection stays in the
  list until the master restarts (`Outside`); statistics that come in a later
  hour displace another hour of what is read (CM:442), which `InTime` excludes.
- Start-up: an API key the master generates is not given to its REST proxy before
  the next start (`master_main.py:72`).

## Proofs

`DelegationProofs.tla` proves, for any constants that satisfy
`DelegationAssumption`:

- `Typing`: `Spec => []TypeOK`;
- `NeverSentAgain`: `Spec => []NotSentAgain`;
- `FinishedWasMailed`: `Spec => []SentMeansMailed`;
- `OneHolder`: `Spec => []SingleHolder`;
- `MailedAtMostOnce`: `Spec => MailedOnce`;
- `OutcomesAreKept`: `Spec => OutcomeKept`;
- `Implementing`: `Spec => ImplementsLedger`.

`NotSentAgain` is not inductive. Its strengthening says: delegations are numbered by
a counter no page, row, relay or report exceeds (*Counted*); a page in flight
is of a delegation nothing else in the system has met, and no two pages share
one (*PagesFresh*); what is in progress or could be is at one satellite
(*OneSatellite*); a row whose delegation is recorded is finished or gone
(*RecordedLast*), and so is what a zombie relay holds (*ZombiesRecorded*).
The lemmas *Fading*, *Settling*, *Starting*, *Refusing*, *Receiving* and
*Marking* each treat a group of actions by their effect on rows, relays and
pages; *MasterFrame* and *SatelliteFrame* those that touch none of it.
`SentMeansMailed` rests on: an item with status FINISHED in a report, in the
copy of the thread or in a finished row names a delegation in `mailed`.

*RowStep* says how a step may change one row; that what is reported comes from
rows follows from it (*ReportsComeFromRows*, *CopiesComeFromReports*).

`OneHolder`, `MailedAtMostOnce` and `OutcomesAreKept` are the hardest, since they
are about what is on its way between the master and the satellites. All three
rest on `JobInv`, what holds of reports whatever is lost: a satellite has one
report or one answer under way at most, and none without a connection
(*OneJob*, *OneReport*, *LinkedOnly*); and on budgets never growing
(*Budgeted*, *Unspent*), so that a mishap that was not spent never happened.

`OneHolder` says that the holder is the satellite the master's claim names. That
is not inductive: a satellite may also hold a claim whose page is on its way, and
the master gives claims up in two places, when it handles a report and when the
check of orphans comes back. *HandedOver* says where each claim is. A recipient
is *owed* to a satellite from its row until the master has handled a report of
it; what is owed and what is in a page is claimed for that satellite
(*OwedClaimed*, *PagesUp*); a page is not older than the check's limit, so the
check never asks for what is in one; what the check asked for is claimed and old,
or already in a row, and what it found lost is in no row (*ChecksUp*); and what a
report says of a row is still so (*ReportsUp*). The lemmas *ClaimsGoOn*,
*ReportsGoOn*, *ArrivalsGoOn*, *SendingGoesOn* and *StoringGoesOn* each treat a
group of actions.

`MailedAtMostOnce` is about recipients of whom a satellite recorded that a mail
server took the e-mail: with an answer that is lost the code cannot know, and the
property says nothing of e-mails nobody knows of. The proof adds to the
above (*OverWhenKnown*): such a recipient is held and selected by nobody, its row
says FINISHED as long as it is owed, and the master's document is READY or
WARNING only while it is; a notification between the reading of a document and
the saving of a report does not make it so again (*DsnSeen*).

`OutcomesAreKept` does not need that nothing stops. What a report or an answer of
the present connection is about is the row that is there, ended and of the same
delegation, so that what the satellite drops is what the master handled
(*InStep*); a connection that breaks takes report and answer with it. This fails
in two cases, which the property names: of a recipient with a DSN the master
takes any report for handled, old copies of its document included (*DsnHeld*,
*DsnCopied*), and a relay that was given up may end after its row was reported.

`Implementing` is that Delegation implements Ledger. A step must be one of
Ledger's, which needs two facts. What a satellite has or had of a delegation was
granted (*AllGranted*). What is in a finished row, in a
report or in the copy of the thread was recorded, or says that nobody is sure of
a delegation of which something was recorded (*RowsTold*, *ReportsTold*,
*CopiesTold*). `NotSentInv` is needed too: it is why what was recorded of a
delegation is not recorded another way, but for a late success. Then the steps
of the master that say nothing are stutters (*SilentMaster*, *SilentSatellite*),
marking is `Grant` (*Granting*), ends of sending are `Settle` (*Settled*,
through *Learning*), and a stored report is `Take` (*Taking*).

`MailingControlProofs.tla` proves, under `ControlAssumption`, for any number of
recipients and any scenarios, so without the bounds of the runs:

- `ControlTyped`: `Spec => []TypeOK`;
- `ClosedMailingStaysClosed`: `Spec => ClosedForGood`;
- `NobodyIsStranded`: `Spec => []NobodyStranded`;
- `CountersAreExact`: `Spec => []CountersExact`.

The second needs that a session only saves what its call allows (*SessionsOK*): one
that will save a mailing as it was read has read one that was not FINISHED. The
third concerns mailings without the calls `NobodyStranded` names (*Calm*; events
are spent and never come back, *BudgetsFall*), but with lost answers, repeated and
failed reports, stops of the master and claims released too early. Two
satellites can have one recipient then, and one of them may report it READY
after the other reported it sent. That takes that the sending task chooses a
recipient a satellite still has, which the history `astray` notes. All others
are at one place (*PlacesOK*): one satellite at most has a row of it, the row
says what the document says, or the satellite works on it and the document is
pending (*Agrees*); a report of it was read from the document as it is
(*Fresh*) and, unless that is pending, says the same again; and who the task
holds is at none. So a repeated report changes nothing of a recipient that was
handled, and when nobody is unfinished all are, from the search on to the end of
the mailing (*AllHandled*). Only such a search makes a mailing end
(*EndingBefore*).

The fourth is about every document of the mailing that counts: the stored one and
those that calls in the reactor read and will save whole (*Versions*). Each of
them that is not closed is exact (*ExactInv*), so that it does not matter which
is saved. That holds because who saves is alone in the reactor (*OneInReactor*):
an increment, which is applied there, finds no second version
(*VersionsCounted*), and no other step gives a version another count
(*VersionsStay*). A report is counted by the status the thread read, which is
still the status of the document (*Fresh*), and that was pending or is of a
notification (*ClaimOK*): a satellite only works on what it has claimed, and a
row that is lost, an orphan or a late answer does not change that. It is so
only when no claim is released while a satellite has the recipient and no
report is repeated, fails after it was counted, or outlives the master: the
code counts what is reported, whatever was reported before, so that the second
report of a recipient is counted again. `Undisturbed` excludes these by name. `ReportExact`,
`DsnExact`, `InsertExact` and `CountedExact` say what each increment does to the
numbers. The proof showed that two conditions an earlier `CountersExact` had were
not needed, that nothing is being deleted and that no edit goes with a close: the
counters of a mailing that is closed and edited at once are right as long as it
is not marked as ended. It also found that the arms of the `CASE` in `Delta`
overlapped for a report that a notification outweighs; they exclude each other now.

`SmtpServerProofs.tla` proves, under `SmtpAssumption` (notifications go to
return paths, e-mails of users to others):

- `SessionsTyped`: `Spec => []TypeOK`;
- `FirstLetterPosted`: `Spec => []FirstIsPosted`;
- `LettersStayApart`: `Spec => []PostedToItsOwn`.

All rest on one invariant. *Matches*: a session's user is who its letter is from,
and the addresses it accepted are addresses of the letter. *Listed*: the
list the delivery shares is at least as long as the addresses of the letter
under way; if it is no longer (*Alone*), it is exactly them and the first of
them has the real message, and if there is a real message, it has no others. The
first case is `FirstIsPosted`, the second `PostedToItsOwn`: addresses that an
earlier letter left in the list never are in one that is posted, because what
they left is a list whose first message is gone.

`SatellitesProofs.tla` proves, under `SatellitesAssumption`, for any number of
satellites, hours, breaks, restarts and changes:

- `PairedAndConnected`: `Spec => []PairedIsConnected`;
- `AdministratorsDecide`: `Spec => AdministratorDecides`;
- `StatisticsGrow`: `Spec => StatisticsOnlyGrow`;
- `HoursRight`: `Spec => []HoursAreRight`;
- `SatellitesTyped`: `Spec => []TypeOK`.

The invariant: ids of documents are never used twice, and an avatar has one
connection at most, which is where `MaxConnections` being 1 is needed
(*DocumentOK*, *AvatarOK*); the master believes in a satellite's own connection
exactly while that is attached, a report is on its way only on a connection that
is served, and one of an earlier connection only while the master still believes
in that (*Linked*); what is on its way is between what the master has and what the
satellite has, and of earlier connections there is one report at most
(*Recent*, *Fresher*). The last two are why a late report is never stored after
a newer one: the newer one would need a second connection.

The last is about `compute_hourly_stats`. An entry is found by the date it was
made (*Dated*: never later than the hour it is, and an entry without a date
counts nothing), while its line is of its hour, so the list is right only when
entries come in their hour (`InTime`, the condition of the property). Then the
sum over the entries that were found is the sum over all satellites, in
whatever order it is taken (*SumAnyOrder*, *SumWithoutZeros*), and the list read
up to an hour has a line of each hour before the next one, with nothing tried
between that and the hour (*ReadTo*, kept by *ReadOn*).

`SatelliteQueuesProofs.tla` proves, under `QueuesAssumption`, for
any rows, domains, limits and mishaps:

- `HandlingTyped`: `Spec => []TypeOK`;
- `NobodyIsForgotten`: `Spec => []NobodyForgotten`;
- `OneQueueForEach`: `Spec => []OneQueueEach`;
- `LimitsAreKept`: `Spec => []WithinLimits`.

The first two carry themselves. For the third, a row that is held is marked, or its
mailing was closed, so that what the thread reads is held by nobody (*Marked*,
*HeldOnce*); what the thread has yet to go through is not held either, nor of the
other half (*ToDoOfHalf*, *Sorted*). For the limits the invariant counts what
each step of the thread will add: exchanges are queues to come, and the number
the thread saw when it began its half is still a bound, since queues only end
until it makes its own (*ConnectionsOK*, *DomainsOK*, *SizesOK*). That a slot is
free for each new queue is a pigeonhole argument (*SlotIsFree*).

`SatelliteContentProofs.tla` proves, under `ContentAssumption`:

- `ContentTyped`: `Spec => []TypeOK`;
- `RestartForgets`: `Spec => []RestartRefreshes`;
- `NothingStaleIsSent`: `Spec => []FreshContent`.

Everything that holds content, the document, the cache, files, threads and the
answer on its way, is of no time before the restart (*AllSinceBoot*). A file and
the cache are of the document's content unless they are late, and the cache of
what is being saved is not (*FilesFresh*, *CacheFresh*); a thread holds nothing
older than what it had to (*HeldFresh*). The lock of the cache is why one thread
at most parses (*OneParses*).

`StatusReportsProofs.tla` proves, under `ReportsAssumption`:

- `ContentIsThere`: `Spec => []ContentComesFirst`;
- `NotificationOutlives`: `Spec => DsnKept`;
- `ReportsTyped`: `Spec => []TypeOK`;
- `PagesLeaveNoneOut`: `Spec => NoneLeftOut`.

The invariant follows the e-mail: when it was sent it is at the satellite, at the
master or in an answer (*SentKept*, *ReportsKept*, *RequestsKept*), and where the
satellite answers that it has none it came from there before (*MissingKept*), so
that what shows the recipient is only written when it is at the master
(*ContentsAtMaster*, *ShownAtMaster*). Looking for this invariant showed that a
recipient that is reset, and sent to again, while its first e-mail is fetched
can have two e-mails, one at each side, which an earlier model with one place
for each e-mail could not say; the property is of any e-mail of the recipient,
since their files have one name. What a notification writes is kept because a
report that was read from a document with status ERROR writes no status
(*ReadBeforeDsn*).

The last two are about the pages of a poll. That a search has the length of the
set it found, and each of it at one place, is a pigeonhole argument: places are
numbers of recipients before, no two recipients have the same, and there are as
many places as recipients (*PlacesTaken*, *SinceOrdered*). So it is sorted
(*SinceSorted*), and the results of the last date of a page come before all that
follows the page, also in a search that starts at that date (*OffsetBefore*).
What is ahead of a cursor and not among its results is therefore ahead of the
cursor it returns, and where the cursor keeps its date and no larger offset
nothing is lost at all (*FindLeavesNone*, *AheadKept*).

`RelayProofs.tla` proves, under `RelayAssumption`, for any number of relays,
servers and mishaps:

- `RelaysTyped`: `Spec => []TypeOK`;
- `InUseAreOpen`: `Spec => []InUseIsOpen`;
- `OutcomesStay`: `Spec => OutcomeStays`;
- `RejectedAfterFive`: `Spec => RejectedInSeries`;
- `ServersFound`: `LookupIsRight` for every zone, domain and number of links;
- `LookupsRight`: `Spec => []LookupRight`.

The type needs `InUseIsOpen`: a count that goes down stays a natural number
because the relay that releases a server is one of its connections
(*OneMoreOrLess*, *UseIsNoted*). `OutcomeStays` needs that relays share no
recipients (*Apart*), and *Sound* for each relay: whose e-mail is still to be sent,
or under way and not answered, is going, and the e-mail under way is not among
those to be sent. *RelayStep* says once what a step of a relay must do, and
*RelayOver* what an end does; the lemmas after them show it of each action.

A lookup is a loop over answers around a loop over the records of an answer; in
the model both are recursive functions, and what they should find is said by the
chain of aliases alone (`Follow`, `Ends`). *Stands* is the invariant of the inner
loop: after k aliases it is at the k-th name, all before it were aliases, and the
records left are those of no name it was at. *SearchStep* shows that it then
either ends with a right result (*Outcome*) or stands one alias further. A name
it was at has no record left, which is how it notices most circles; that a chain
which comes to a name again, or to one without records, has no end at all is
*PeriodicNoEnd* and *MissingNoEnd*. *RequestStep* does the same for the outer
loop: with `left` requests to go, an end is found if it is at most so many
answers away.

The library's induction rules cannot be used with the installed provers, since
they take an operator as a parameter. `ServersFound` and `HoursRight` go without
them: a recursive function is a `CHOOSE`, so that a proof shows first that there
is one, level by level, and then reasons by the least number, or the least set,
for which what is claimed fails (*LeastNumber*, *LeastSet*, from the theorems of
the library on finite sets and on least elements). `Search`, `GetMX` and
`HourlyStatistics` are recursive functions of one argument for this reason.

Only model-checked: the liveness properties (`ClaimEnds`, `ContentComes`,
`OverIsForgotten`, `WaitingEnds`, `GoingEnds`, `ChangesReturned`,
`StatisticsArrive`, `SettingsArrive`), which are out of the prover's reach, as is
`ENABLED`. Every other property of the passing runs is stated by a
theorem, and so is the type invariant of each module that has one, run or not.

## Not modelled

- The text of messages: templates, tracking links, DKIM, MIME, the parsing of
  notifications, serialisation, filters and sorting of queries.
- Statistics of domains (but for the failures `Relay` counts) and live
  statistics: they only add to counters.
- Selection by load, groups and affinity, and the number of tries.
- Authentication of API clients, web pages, start-up, packaging and deployment
  scripts: input and output without control that a state could tell apart.
- Settings of the master, sequences, and helpers in `common/`: single-document
  reads and writes, `Singleton`, text and files.

## Plan

Done: `Delegation` with `Ledger` and its proofs, `MailingControl`,
`SatelliteContent`, `SatelliteQueues`, `MXCalculator` and `Relay`,
`StatusReports`, `SmtpServer`, `Satellites`.

Left, in order:

1. Selection of recipients by load, groups and affinity, and the number of
   tries, as operators checked against what they should select.
2. The composition of `MailingControl` with `Delegation`: a close while pages
   and reports of the mailing are on their way.
