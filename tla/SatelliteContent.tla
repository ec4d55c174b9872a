-------------------------- MODULE SatelliteContent --------------------------
(***************************************************************************)
(* How the content of a mailing gets to a satellite and into e-mails.  The *)
(* satellite asks the master for what it misses; the master tells it when  *)
(* the content changed or the mailing is to be closed, if it is connected. *)
(* Threads of the satellite customize the content for each recipient: they *)
(* share a cache of the parsed message, and keep a file per recipient.     *)
(*                                                                         *)
(* There is one mailing and one satellite; versions number the contents    *)
(* the master gave the mailing.  Limits and queues are the subject of      *)
(* SatelliteQueues: here each recipient is sent on its own.                *)
(***************************************************************************)
EXTENDS Integers, Sequences, FiniteSets

CONSTANTS
  Recipient,
  Scenarios       \* what may happen: one is chosen at first

Event == {"edit", "pause", "start", "finish", "page", "drop", "stop", "disk"}
Scenario == [Event -> Nat]

ASSUME ContentAssumption ==
  /\ IsFiniteSet(Recipient)
  /\ Scenarios \subseteq Scenario

Phase == {"open", "paused", "over"}
Order == {"changed", "close"}

(* Content 0 is none: a page makes a document without content.             *)
Doc == [present: BOOLEAN, content: Nat, downloaded: BOOLEAN]
NoDoc == [present |-> FALSE, content |-> 0, downloaded |-> FALSE]
NewDoc == [present |-> TRUE, content |-> 0, downloaded |-> FALSE]

(* A row is stuck when its outcome was saved, but not that it is finished. *)
(* A request hangs when its answer came, and never its last page.          *)
(* What a thread does for a recipient: it looks for its file, parses, puts *)
(* the message into the cache, customizes it, writes the file; then the    *)
(* file waits to be sent.                                                  *)
Status == {"none", "ready", "sending", "done", "stuck"}
Request == {"no", "asked", "content", "saving", "delete", "hung"}
Stage == {"no", "look", "parse", "cache", "customize", "write", "queued"}

VARIABLES
  version,    \* master: the content of the mailing
  phase,      \* master: whether view_get_mailing gives it away
  owed,       \* master: satellites have still to be told to close
  granted,    \* master: recipients in progress at the satellite
  linked,     \* the connection
  orders,     \* calls to the satellite on their way
  pages,      \* recipients on their way
  request,    \* where the call of get_mailing is
  answer,     \* the content in its answer
  doc,        \* satellite: the Mailing document
  row,        \* satellite: the row of each recipient
  cache,      \* satellite: mailingsContent
  file,       \* satellite: the content of each customized file
  stage,      \* satellite: what its threads do
  held,       \* satellite: the content each thread works with
  due,        \* history: the content each thread had to work with
  late,       \* history: recipients whose file, and whether the cache, was
              \*   made from a content that was being replaced
  booted,     \* history: the version when the satellite last started
  sent,       \* history: e-mails that left
  budget,     \* events that may still happen
  scenario    \* the scenario that was chosen; never changes

masterVars == <<version, phase, owed, granted>>
linkVars == <<linked, orders, pages, request, answer>>
threadVars == <<stage, held, due, late>>
satVars == <<doc, row, cache, file, threadVars>>
historyVars == <<booted, sent>>
stateVars == <<masterVars, linkVars, satVars, historyVars, budget>>
vars == <<stateVars, scenario>>

TypeOK ==
  /\ version \in Nat /\ phase \in Phase
  /\ owed \in BOOLEAN /\ linked \in BOOLEAN
  /\ granted \subseteq Recipient /\ pages \subseteq Recipient
  /\ orders \in Seq(Order)
  /\ request \in Request
  /\ answer \in Nat /\ booted \in Nat
  /\ doc \in Doc
  /\ row \in [Recipient -> Status]
  /\ cache \in Nat /\ file \in [Recipient -> Nat]
  /\ stage \in [Recipient -> Stage]
  /\ held \in [Recipient -> Nat] /\ due \in [Recipient -> Nat]
  /\ late \in [files: SUBSET Recipient, cache: BOOLEAN]
  /\ sent \subseteq [content: Nat, due: Nat, booted: Nat]
  /\ budget \in Scenario /\ scenario \in Scenario
  /\ Cardinality({r \in Recipient : stage[r] = "cache"}) <= 1

Nobody == [r \in Recipient |-> 0]
NothingLate == [files |-> {}, cache |-> FALSE]

Init ==
  /\ version = 1 /\ phase = "open" /\ owed = FALSE /\ granted = {}
  /\ linked = TRUE /\ orders = <<>> /\ pages = {}
  /\ request = "no" /\ answer = 0
  /\ doc = NoDoc /\ row = [r \in Recipient |-> "none"]
  /\ cache = 0 /\ file = Nobody
  /\ stage = [r \in Recipient |-> "no"] /\ held = Nobody /\ due = Nobody
  /\ late = NothingLate
  /\ booted = 1 /\ sent = {}
  /\ scenario \in Scenarios /\ budget = scenario

Spend(e) == budget[e] > 0 /\ budget' = [budget EXCEPT ![e] = @ - 1]

-----------------------------------------------------------------------------
(* The master.                                                             *)
Say(order) == orders' = IF linked THEN Append(orders, order) ELSE orders

Edit ==
  /\ phase # "over" /\ Spend("edit")
  /\ version' = version + 1
  /\ Say("changed")
  /\ UNCHANGED <<phase, owed, granted, linked, pages, request, answer, satVars,
                 historyVars>>

Leave(event, from, to, tell) ==
  /\ phase \in from /\ Spend(event)
  /\ phase' = to
  /\ owed' = (owed \/ tell)
  /\ UNCHANGED <<version, granted, linkVars, satVars, historyVars>>

Pause == Leave("pause", {"open"}, "paused", TRUE)
Start == Leave("start", {"paused"}, "open", FALSE)
Finish == Leave("finish", {"open", "paused"}, "over", TRUE)

TellClose ==
  /\ owed /\ owed' = FALSE
  /\ Say("close")
  /\ UNCHANGED <<version, phase, granted, linked, pages, request, answer,
                 satVars, historyVars, budget>>

SendPage(r) ==
  /\ phase = "open" /\ linked /\ r \notin granted /\ Spend("page")
  /\ granted' = granted \cup {r} /\ pages' = pages \cup {r}
  /\ UNCHANGED <<version, phase, owed, linked, orders, request, answer, satVars,
                 historyVars>>

AnswerRequest ==
  /\ request = "asked"
  /\ request' = IF phase = "open" THEN "content" ELSE "delete"
  /\ answer' = version
  /\ UNCHANGED <<masterVars, linked, orders, pages, satVars, historyVars,
                 budget>>

(* The check of recipients finds that the satellite does not know one.     *)
Release(r) ==
  /\ linked /\ r \in granted \ pages /\ row[r] = "none"
  /\ granted' = granted \ {r}
  /\ UNCHANGED <<version, phase, owed, linkVars, satVars, historyVars, budget>>

-----------------------------------------------------------------------------
(* The connection and the process.  A satellite that connects again asks   *)
(* for nothing it has; one that starts forgets all contents.  A call fails *)
(* when the connection breaks before its answer; between the answer and    *)
(* the last page of the content nothing tells the caller: the timer that   *)
(* waits for the pages never fires again in this process.                  *)
Cut ==
  /\ linked' = FALSE /\ orders' = <<>> /\ pages' = {}
  /\ \/ request \in {"no", "saving", "hung"} /\ UNCHANGED request
     \/ request \in {"asked", "content", "delete"} /\ request' = "no"
     \/ request \in {"content", "delete"} /\ request' = "hung"
  /\ UNCHANGED answer

Disconnect ==
  /\ linked /\ Spend("drop") /\ Cut
  /\ UNCHANGED <<masterVars, satVars, historyVars>>

Reconnect ==
  /\ ~linked /\ linked' = TRUE
  /\ UNCHANGED <<masterVars, orders, pages, request, answer, satVars,
                 historyVars, budget>>

(* Variant: customized files survive a restart.                            *)
KeepFiles == UNCHANGED file
DeleteAllFiles == file' = Nobody

(* Rows are verified when some need it, and then all the master claims are *)
(* made ready.                                                             *)
SomeUnverified == \E r \in Recipient : row[r] \in {"ready", "sending"}

Restart ==
  /\ Spend("stop")
  /\ linked' = FALSE /\ orders' = <<>> /\ pages' = {} /\ request' = "no"
  /\ doc' = IF doc.present THEN NewDoc ELSE NoDoc
  /\ \E claimed \in SUBSET granted :
       row' = [r \in Recipient |->
                 IF row[r] \in {"ready", "sending"}
                 THEN IF r \in claimed THEN "ready" ELSE "none"
                 ELSE IF row[r] = "stuck" /\ r \in claimed /\ SomeUnverified
                      THEN "ready"
                      ELSE row[r]]
  /\ cache' = 0 /\ DeleteAllFiles
  /\ stage' = [r \in Recipient |-> "no"] /\ held' = Nobody /\ due' = Nobody
  /\ late' = NothingLate
  /\ booted' = version
  /\ UNCHANGED <<masterVars, answer, sent>>

-----------------------------------------------------------------------------
(* What the satellite is told and asks for.                                *)

Invalidate ==
  doc' = [doc EXCEPT !.downloaded = FALSE] /\ file' = Nobody

ObeyChange ==
  /\ orders # <<>> /\ Head(orders) = "changed"
  /\ orders' = Tail(orders)
  /\ Invalidate
  /\ UNCHANGED <<masterVars, linked, pages, request, answer, row, cache,
                 threadVars, historyVars, budget>>

(* Variant: rows are left to themselves.                                   *)
ForgetDocument ==
  doc' = NoDoc /\ cache' = 0 /\ file' = Nobody /\ UNCHANGED row
CloseMailing ==
  /\ doc' = NoDoc /\ row' = [r \in Recipient |-> "none"]
  /\ cache' = 0 /\ file' = Nobody

ObeyClose ==
  /\ orders # <<>> /\ Head(orders) = "close"
  /\ orders' = Tail(orders)
  /\ CloseMailing
  /\ UNCHANGED <<masterVars, linked, pages, request, answer, threadVars,
                 historyVars, budget>>

ReceivePage(r) ==
  /\ r \in pages /\ pages' = pages \ {r}
  /\ doc' = IF doc.present THEN doc ELSE NewDoc
  /\ row' = [row EXCEPT ![r] = IF @ = "none" THEN "ready" ELSE @]
  /\ UNCHANGED <<masterVars, linked, orders, request, answer, cache, file,
                 threadVars, historyVars, budget>>

(* Variant: only a document without content is completed.                  *)
MissesContent == doc.present /\ doc.content = 0
Misses ==
  IF doc.present THEN doc.content = 0 \/ ~doc.downloaded
  ELSE \E r \in Recipient : row[r] # "none"

CheckForMissing ==
  /\ linked /\ request = "no" /\ Misses
  /\ request' = "asked"
  /\ UNCHANGED <<masterVars, linked, orders, pages, answer, satVars,
                 historyVars, budget>>

(* The cache is emptied first; the document is saved a few queries later,  *)
(* while threads go on.  Variant: the cache is left.                       *)
KeepCache == UNCHANGED cache
EmptyCache == cache' = 0

GetContent ==
  /\ request = "content" /\ request' = "saving"
  /\ EmptyCache
  /\ UNCHANGED <<masterVars, linked, orders, pages, answer, doc, row, file,
                 threadVars, historyVars, budget>>

SaveContent ==
  /\ request = "saving" /\ request' = "no"
  /\ doc' = IF doc.present
            THEN [present |-> TRUE, content |-> answer, downloaded |-> TRUE]
            ELSE doc
  /\ UNCHANGED <<masterVars, linked, orders, pages, answer, row, cache, file,
                 threadVars, historyVars, budget>>

GetDelete ==
  /\ request = "delete" /\ request' = "no"
  /\ CloseMailing
  /\ UNCHANGED <<masterVars, linked, orders, pages, answer, threadVars,
                 historyVars, budget>>

-----------------------------------------------------------------------------
(* Sending.                                                                *)
Enters(r, st) == stage' = [stage EXCEPT ![r] = st]
Known == <<masterVars, linkVars, historyVars, budget>>

Sendable == doc.downloaded

Take(r) ==
  /\ row[r] = "ready" /\ stage[r] = "no" /\ Sendable
  /\ row' = [row EXCEPT ![r] = "sending"]
  /\ Enters(r, "look")
  /\ UNCHANGED <<Known, doc, cache, file, held, due, late>>

(* Without its mailing a recipient cannot be customized, nor its failure   *)
(* be saved.                                                               *)
Abandon(r) ==
  /\ stage[r] \notin {"no", "queued", "write"} /\ ~doc.present
  /\ Enters(r, "no")
  /\ UNCHANGED <<Known, doc, row, cache, file, held, due, late>>

Owes(r, isLate) == due' = [due EXCEPT ![r] = IF isLate THEN 0 ELSE doc.content]

Look(r) ==
  /\ stage[r] = "look" /\ doc.present
  /\ Enters(r, IF file[r] # 0 THEN "queued" ELSE "parse")
  /\ Owes(r, r \in late.files)
  /\ UNCHANGED <<Known, doc, row, cache, file, held, late>>

(* The lock is held from the read of the document to the cache.  Variant:   *)
(* threads parse without it.                                               *)
NoLock == TRUE
LockFree == \A r \in Recipient : stage[r] # "cache"

Parse(r) ==
  /\ stage[r] = "parse" /\ doc.present
  /\ LockFree
  /\ held' = [held EXCEPT ![r] = IF cache # 0 THEN cache ELSE doc.content]
  /\ Enters(r, IF cache # 0 THEN "customize" ELSE "cache")
  /\ Owes(r, cache # 0 /\ late.cache)
  /\ UNCHANGED <<Known, doc, row, cache, file, late>>

IsLate(r) == held[r] # doc.content \/ ~doc.downloaded

PutInCache(r) ==
  /\ stage[r] = "cache" /\ doc.present
  /\ cache' = held[r]
  /\ late' = [late EXCEPT !.cache = IsLate(r)]
  /\ Enters(r, "customize")
  /\ UNCHANGED <<Known, doc, row, file, held, due>>

Customize(r) ==
  /\ stage[r] = "customize" /\ doc.present
  /\ Enters(r, "write")
  /\ UNCHANGED <<Known, doc, row, cache, file, held, due, late>>

Write(r) ==
  /\ stage[r] = "write"
  /\ file' = [file EXCEPT ![r] = held[r]]
  /\ late' = [late EXCEPT !.files = IF IsLate(r) THEN @ \cup {r} ELSE @ \ {r}]
  /\ Enters(r, "queued")
  /\ UNCHANGED <<Known, doc, row, cache, held, due>>

Saves(r, status) ==
  row' = IF doc.present THEN [row EXCEPT ![r] = status] ELSE row

(* An OSError: the row is GENERAL_ERROR and not in progress, but nobody    *)
(* marks it as finished, and the relay knows nothing of it.                *)
FailToWrite(r) ==
  /\ stage[r] = "write" /\ Spend("disk")
  /\ Saves(r, "stuck")
  /\ Enters(r, "no")
  /\ UNCHANGED <<masterVars, linkVars, historyVars, doc, cache, file, held, due,
                 late>>

Deliver(r) ==
  /\ stage[r] = "queued" /\ file[r] # 0
  /\ sent' = sent \cup {[content |-> file[r], due |-> due[r],
                         booted |-> booted]}
  /\ Saves(r, "done")
  /\ Enters(r, "no")
  /\ UNCHANGED <<masterVars, linkVars, doc, cache, file, held, due, late,
                 booted, budget>>

(* The server refuses, or the file is gone: "Sending aborted".  The file   *)
(* of a soft bounce stays.                                                 *)
FailToDeliver(r) ==
  /\ stage[r] = "queued"
  /\ Saves(r, "done")
  /\ Enters(r, "no")
  /\ \/ UNCHANGED file
     \/ file' = [file EXCEPT ![r] = 0]
  /\ UNCHANGED <<Known, doc, cache, held, due, late>>

Report(r) ==
  /\ linked /\ row[r] = "done"
  /\ row' = [row EXCEPT ![r] = "none"]
  /\ granted' = granted \ {r}
  /\ UNCHANGED <<version, phase, owed, linkVars, doc, cache, file, threadVars,
                 historyVars, budget>>

ThreadStep(r) ==
  \/ Look(r) \/ Parse(r) \/ PutInCache(r) \/ Customize(r) \/ Write(r)
  \/ FailToWrite(r) \/ Abandon(r) \/ Deliver(r) \/ FailToDeliver(r)

Change ==
  \/ Edit \/ Pause \/ Start \/ Finish \/ TellClose \/ AnswerRequest
  \/ Disconnect \/ Reconnect \/ Restart
  \/ ObeyChange \/ ObeyClose \/ CheckForMissing
  \/ GetContent \/ SaveContent \/ GetDelete
  \/ \E r \in Recipient :
       \/ SendPage(r) \/ Release(r) \/ ReceivePage(r)
       \/ Take(r) \/ ThreadStep(r) \/ Report(r)

Next == Change /\ UNCHANGED scenario

Spec == Init /\ [][Next]_vars

(* Calls arrive, the client connects again, timers fire, threads go on and *)
(* the master tells what it owes.                                          *)
Fairness ==
  /\ WF_stateVars(TellClose) /\ WF_stateVars(Reconnect)
  /\ WF_stateVars(AnswerRequest) /\ WF_stateVars(ObeyChange \/ ObeyClose)
  /\ WF_stateVars(CheckForMissing)
  /\ WF_stateVars(GetContent \/ SaveContent \/ GetDelete)
  /\ \A r \in Recipient :
       /\ WF_stateVars(ReceivePage(r)) /\ WF_stateVars(Take(r))
       /\ WF_stateVars(ThreadStep(r)) /\ WF_stateVars(Report(r))

FairSpec == Spec /\ Fairness

-----------------------------------------------------------------------------
(* Properties.                                                             *)

(* A restart forgets every content: no e-mail that leaves after it is      *)
(* older than what the master had when the satellite started, whatever     *)
(* was in the cache, in files or on its way.                               *)
RestartRefreshes == \A e \in sent : e.content = 0 \/ e.content >= e.booted

(* An e-mail is no older than the content the satellite had when a thread  *)
(* took it from the cache or found its file, but when that was made while  *)
(* the content was being replaced: a change empties what it makes stale.   *)
FreshContent == \A e \in sent : e.content >= e.due

(* A document that misses its content gets it, or is deleted, but when the *)
(* satellite's only request for content hangs: the connection broke in the *)
(* middle of the pages, and until a restart no content is asked for again. *)
ContentComes ==
  [](doc.present /\ ~doc.downloaded
       => <>(doc.downloaded \/ ~doc.present \/ request = "hung"))

(* A mailing that is over leaves no rows, also if the satellite was away   *)
(* when it was closed, but the stuck ones, which are neither sent nor      *)
(* reported, and those whose content is never asked for again.             *)
OverIsForgotten ==
  phase = "over"
    ~> \/ request = "hung"
       \/ \A r \in Recipient : row[r] \in {"none", "stuck"}

=============================================================================
