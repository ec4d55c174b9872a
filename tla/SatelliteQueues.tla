-------------------------- MODULE SatelliteQueues ---------------------------
(***************************************************************************)
(* How a satellite turns the rows it received into queues.  A timer looks  *)
(* for rows to send and starts a thread, one at a time; the thread sorts   *)
(* rows by domain into exchanges, first those of ordinary mailings, then   *)
(* those of mailings in test, marks them in progress and makes a queue of  *)
(* each exchange.  Queues run and end in the reactor, where another timer  *)
(* gives up queues that last too long.  The master may close a mailing at  *)
(* any time, and the process may stop.                                     *)
(*                                                                         *)
(* What a mailing contains, and how rows are reported, is not part of this *)
(* module: an open mailing has its content, a finished row disappears.     *)
(***************************************************************************)
EXTENDS Integers, FiniteSets

CONSTANTS
  Recipient,
  Mailing,
  Domain,
  MailingOf,        \* the mailing of each recipient
  DomainOf,         \* the domain of its address
  Testing,          \* the mailings in test
  Refused,          \* domains whose notation allows no recipient
  MaxPerQueue,      \* MAILING_QUEUE_MAX_THREAD_SIZE
  Scenarios         \* what may happen: one is chosen at first

(* pages: how often each recipient arrives; closes: the mailings that may  *)
(* be closed; zombies, stops: how often a queue is given up, or the        *)
(* process stops; connections and perDomain: MAILING_QUEUE_MAX_THREAD and  *)
(* DEFAULT_MAX_QUEUE_PER_DOMAIN.                                           *)
Scenario == [pages: [Recipient -> Nat], closes: SUBSET Mailing,
             zombies: Nat, stops: Nat,
             connections: Nat \ {0}, perDomain: Nat \ {0}]

ASSUME QueuesAssumption ==
  /\ IsFiniteSet(Recipient)
  /\ MailingOf \in [Recipient -> Mailing]
  /\ DomainOf \in [Recipient -> Domain]
  /\ Testing \subseteq Mailing /\ Refused \subseteq Domain
  /\ MaxPerQueue \in Nat \ {0}
  /\ Scenarios \subseteq Scenario

Half == {"normal", "testing"}
HalfOf(r) == IF MailingOf[r] \in Testing THEN "testing" ELSE "normal"

(* A queue: the recipients it has still to send, and those it sends        *)
(* although it was given up.  The slot only tells queues apart.            *)
Queue == [slot: Nat, domain: Domain, left: SUBSET Recipient,
          late: SUBSET Recipient, managed: BOOLEAN]

VARIABLES
  row,        \* the row of each recipient
  open,       \* the mailings the satellite has
  locked,     \* handlingQueueLock
  step,       \* what the thread does
  half,       \* the filter it works with
  mailings,   \* the mailings the timer saw
  todo,       \* the copies of rows the thread has read
  seen,       \* activeRelayCount() when it read them
  skipped,    \* skip_domains
  exchange,   \* the dictionaries of exchanges
  queues,     \* those that run
  checking,   \* the timer that looks for zombies is alive
  spoiled,    \* history: recipients an exception left in progress, or whose
              \*   row a relay that was given up saved over
  closed,     \* history: mailings that were closed
  budget,     \* what may still happen
  scenario    \* the scenario that was chosen; never changes

rowVars == <<row, open, closed>>
threadVars == <<locked, step, half, mailings, todo, seen, skipped, exchange>>
queueVars == <<queues, checking>>
stateVars == <<rowVars, threadVars, queueVars, spoiled, budget>>
vars == <<stateVars, scenario>>

TypeOK ==
  /\ row \in [Recipient -> {"none", "ready", "sending", "done"}]
  /\ open \subseteq Mailing /\ closed \subseteq Mailing
  /\ locked \in BOOLEAN /\ checking \in BOOLEAN
  /\ step \in {"idle", "read", "fill", "make"} /\ half \in Half
  /\ mailings \subseteq Mailing
  /\ todo \subseteq Recipient /\ spoiled \subseteq Recipient
  /\ seen \in Nat
  /\ skipped \subseteq Domain
  /\ exchange \in [Half -> [Domain -> SUBSET Recipient]]
  /\ queues \subseteq Queue
  /\ locked <=> step # "idle"
  /\ budget \in Scenario /\ scenario \in Scenario

Empty == [h \in Half |-> [d \in Domain |-> {}]]
DomainsIn(h) == {d \in Domain : exchange[h][d] # {}}
InExchanges == UNION {exchange[h][d] : h \in Half, d \in Domain}
InQueues == UNION {q.left : q \in queues}
Managed == {q \in queues : q.managed}
OfDomain(d) == {q \in Managed : q.domain = d}
IsOpen(r) == MailingOf[r] \in open

Init ==
  /\ row = [r \in Recipient |-> "none"]
  /\ open = {} /\ closed = {}
  /\ locked = FALSE /\ step = "idle" /\ half = "normal"
  /\ mailings = {} /\ todo = {} /\ seen = 0 /\ skipped = {}
  /\ exchange = Empty
  /\ queues = {} /\ checking = TRUE
  /\ spoiled = {}
  /\ scenario \in Scenarios /\ budget = scenario

-----------------------------------------------------------------------------
(* What the satellite is told.                                             *)

(* A page brings a recipient, and its mailing; a row that exists stays.    *)
(* The master delegates nobody of a closed mailing anew: a page that comes *)
(* after the order to close was on its way.                                *)
ReceivePage(r) ==
  /\ budget.pages[r] > 0
  /\ MailingOf[r] \in closed => r \notin todo \cup InExchanges \cup InQueues
  /\ budget' = [budget EXCEPT !.pages[r] = @ - 1]
  /\ row' = [row EXCEPT ![r] = IF @ = "none" THEN "ready" ELSE @]
  /\ open' = open \cup {MailingOf[r]}
  /\ UNCHANGED <<closed, threadVars, queueVars, spoiled>>

CloseMailing(m) ==
  /\ m \in open \cap budget.closes
  /\ open' = open \ {m} /\ closed' = closed \cup {m}
  /\ row' = [r \in Recipient |-> IF MailingOf[r] = m THEN "none" ELSE row[r]]
  /\ budget' = [budget EXCEPT !.closes = @ \ {m}]
  /\ UNCHANGED <<threadVars, queueVars, spoiled>>

(* A finished row is reported, and removed by the answer.                  *)
Report(r) ==
  /\ row[r] = "done"
  /\ row' = [row EXCEPT ![r] = "none"]
  /\ UNCHANGED <<open, closed, threadVars, queueVars, spoiled, budget>>

-----------------------------------------------------------------------------
(* The timer and the thread.                                               *)

Few ==
  LET enough == scenario.connections \div 2
  IN Cardinality(Managed) < IF enough = 0 THEN 1 ELSE enough
ToSend(ids) == {r \in Recipient : row[r] = "ready" /\ MailingOf[r] \in ids}

CheckMailing ==
  /\ ~locked /\ Few /\ ToSend(open) # {}
  /\ locked' = TRUE /\ step' = "read" /\ half' = "normal"
  /\ mailings' = open
  /\ UNCHANGED <<rowVars, todo, seen, skipped, exchange, queueVars, spoiled,
                 budget>>

Wanted == {r \in ToSend(mailings) : HalfOf(r) = half}

ReadRows ==
  /\ step = "read"
  /\ step' = "fill"
  /\ todo' = Wanted
  /\ seen' = Cardinality(Managed)
  /\ skipped' = {}
  /\ UNCHANGED <<rowVars, locked, half, mailings, exchange, queueVars,
                 spoiled, budget>>

Handles(r) ==
  /\ step = "fill" /\ r \in todo
  /\ todo' = todo \ {r}
  /\ UNCHANGED <<open, closed, locked, step, half, mailings, seen, queueVars,
                 spoiled, budget>>

PassOver(r) ==
  /\ Handles(r)
  /\ DomainOf[r] \in skipped
  /\ UNCHANGED <<row, skipped, exchange>>

(* How many recipients a queue of the domain may have, according to its    *)
(* note, which does not change here; none for a domain of bad note.        *)
RoomFor(d) == IF d \in Refused THEN 0 ELSE MaxPerQueue

(* mark_as_finished saves the whole copy: the row comes back if a close    *)
(* has removed it.                                                         *)
RefuseRow(r) ==
  /\ Handles(r)
  /\ DomainOf[r] \notin skipped /\ RoomFor(DomainOf[r]) = 0
  /\ row' = [row EXCEPT ![r] = "done"]
  /\ UNCHANGED <<skipped, exchange>>

(* Variant: the queues of the domain that run are not counted.             *)
HasRoomAnyway(d) ==
  IF exchange[half][d] = {} THEN Cardinality(DomainsIn(half)) < scenario.connections
  ELSE Cardinality(exchange[half][d]) < RoomFor(d)
HasRoom(d) ==
  IF exchange[half][d] = {}
  THEN /\ Cardinality(DomainsIn(half)) < scenario.connections - seen
       /\ Cardinality(OfDomain(d)) < scenario.perDomain
  ELSE Cardinality(exchange[half][d]) < RoomFor(d)

SkipDomain(r) ==
  /\ Handles(r)
  /\ DomainOf[r] \notin skipped /\ RoomFor(DomainOf[r]) > 0
  /\ ~HasRoom(DomainOf[r])
  /\ skipped' = skipped \cup {DomainOf[r]}
  /\ UNCHANGED <<row, exchange>>

(* Variant: the row is not marked.                                         *)
MarkNothing(r) == UNCHANGED row
SetInProgress(r) == row' = [row EXCEPT ![r] = "sending"]

TakeRow(r) ==
  /\ Handles(r)
  /\ DomainOf[r] \notin skipped /\ RoomFor(DomainOf[r]) > 0
  /\ HasRoom(DomainOf[r])
  /\ SetInProgress(r)
  /\ exchange' = [exchange EXCEPT ![half][DomainOf[r]] = @ \cup {r}]
  /\ UNCHANGED skipped

EndHalf ==
  /\ step = "fill" /\ todo = {}
  /\ step' = IF half = "normal" THEN "read" ELSE "make"
  /\ half' = IF half = "normal" THEN "testing" ELSE "normal"
  /\ UNCHANGED <<rowVars, locked, mailings, todo, seen, skipped, exchange,
                 queueVars, spoiled, budget>>

FreeSlot == CHOOSE n \in 1..Cardinality(queues) + 1 :
              \A q \in queues : q.slot # n

MadeFirst == IF DomainsIn("normal") # {} THEN "normal" ELSE "testing"

MakeQueue(d) ==
  LET rcpts == exchange[MadeFirst][d]
  IN /\ step = "make" /\ rcpts # {}
     /\ \A r \in rcpts : IsOpen(r)
     /\ queues' = queues \cup {[slot |-> FreeSlot, domain |-> d, left |-> rcpts,
                                late |-> {}, managed |-> TRUE]}
     /\ exchange' = [exchange EXCEPT ![MadeFirst][d] = {}]
     /\ UNCHANGED <<rowVars, locked, step, half, mailings, todo, seen, skipped,
                    checking, spoiled, budget>>

(* Variant: an exception leaves the lock to nobody.                        *)
UnlockOnSuccess == locked' = (InExchanges # {})
Unlock == locked' = FALSE

EndThread ==
  /\ Unlock /\ step' = "idle"
  /\ exchange' = Empty
  /\ UNCHANGED <<rowVars, half, mailings, todo, seen, skipped, queueVars,
                 budget>>

FinishThread ==
  /\ step = "make" /\ InExchanges = {}
  /\ EndThread /\ UNCHANGED spoiled

(* add_queue needs the mailing of each recipient: one was closed, and the  *)
(* exception ends the thread with exchanges it has not handed over.        *)
BreakThread(d) ==
  /\ step = "make"
  /\ \E r \in exchange[MadeFirst][d] : ~IsOpen(r)
  /\ EndThread
  /\ spoiled' = spoiled \cup InExchanges

-----------------------------------------------------------------------------
(* Queues.                                                                 *)
Replace(q, new) == queues' = (queues \ {q}) \cup {new}

(* At once: mailing_queue_ending_delay is 0.  For a queue that was given   *)
(* up it finds no entry and raises, which changes nothing more.            *)
RemoveActiveRelay(q) == queues' = queues \ {q}

(* A recipient ends.  Without its mailing nothing can be saved.            *)
EndRecipient(q, r) ==
  /\ r \in q.left
  /\ Replace(q, [q EXCEPT !.left = @ \ {r}])
  /\ IF IsOpen(r) THEN /\ row' = [row EXCEPT ![r] = "done"]
                       /\ UNCHANGED spoiled
     ELSE UNCHANGED row /\ spoiled' = spoiled \cup {r}
  /\ UNCHANGED <<open, closed, threadVars, checking, budget>>

(* Variant: only the first recipient of the queue is postponed.            *)
ReachedFirst(q) == {{r} : r \in q.left}

(* _ebExchange goes through the recipients still in progress, and does not *)
(* get past one whose mailing was closed.                                  *)
Reached(q) ==
  IF \A r \in q.left : IsOpen(r) THEN {q.left}
  ELSE SUBSET {r \in q.left : IsOpen(r)}

SaveFailure(reached) ==
  row' = [r \in Recipient |-> IF r \in reached THEN "done" ELSE row[r]]

FailQueue(q) ==
  /\ q.managed /\ q.left # {}
  /\ \E reached \in Reached(q) :
       /\ SaveFailure(reached)
       /\ spoiled' = spoiled \cup
                       (IF \A r \in q.left : IsOpen(r) THEN {}
                        ELSE q.left \ reached)
  /\ RemoveActiveRelay(q)
  /\ UNCHANGED <<open, closed, threadVars, checking, budget>>

EndQueue(q) ==
  /\ q.left \cup q.late = {}
  /\ RemoveActiveRelay(q)
  /\ UNCHANGED <<rowVars, threadVars, checking, spoiled, budget>>

(* check_for_zombie_queues lets the relay run on.  An exception ends this  *)
(* timer for good, and leaves the queue where it is.                       *)
GiveUp(q) ==
  /\ checking /\ q.managed /\ budget.zombies > 0
  /\ budget' = [budget EXCEPT !.zombies = @ - 1]
  /\ \E reached \in Reached(q) :
       /\ SaveFailure(reached)
       /\ Replace(q, [q EXCEPT !.left = @ \ reached, !.late = @ \cup reached,
                               !.managed = reached # q.left])
       /\ checking' = (reached = q.left)
  /\ UNCHANGED <<open, closed, threadVars, spoiled>>

(* What was given up ends after all: a success is saved over whatever the  *)
(* row has become, a failure is not recorded.                              *)
EndLate(q, r) ==
  /\ r \in q.late
  /\ Replace(q, [q EXCEPT !.late = @ \ {r}])
  /\ \/ /\ IsOpen(r) /\ row' = [row EXCEPT ![r] = "done"]
        /\ spoiled' = spoiled \cup ({r} \cap (InExchanges \cup InQueues))
     \/ UNCHANGED <<row, spoiled>>
  /\ UNCHANGED <<open, closed, threadVars, checking, budget>>

-----------------------------------------------------------------------------
(* The process stops and starts again.  Of what was being sent the master  *)
(* claims some, and the rest is deleted, as are rows without a mailing     *)
(* when the satellite asks for their content.                              *)
Restart ==
  /\ budget.stops > 0
  /\ budget' = [budget EXCEPT !.stops = @ - 1]
  /\ \E claimed \in SUBSET {r \in Recipient : row[r] \in {"ready", "sending"}
                                               /\ IsOpen(r)} :
       row' = [r \in Recipient |->
                 IF row[r] = "done" THEN "done"
                 ELSE IF r \in claimed THEN "ready" ELSE "none"]
  /\ locked' = FALSE /\ step' = "idle" /\ exchange' = Empty
  /\ half' = "normal" /\ mailings' = {} /\ todo' = {} /\ seen' = 0
  /\ skipped' = {}
  /\ queues' = {} /\ checking' = TRUE /\ spoiled' = {}
  /\ UNCHANGED <<open, closed>>

ThreadStep ==
  \/ ReadRows \/ EndHalf \/ FinishThread
  \/ \E r \in Recipient :
       PassOver(r) \/ RefuseRow(r) \/ SkipDomain(r) \/ TakeRow(r)
  \/ \E d \in Domain : MakeQueue(d) \/ BreakThread(d)

QueueStep(q) ==
  \/ FailQueue(q) \/ EndQueue(q)
  \/ \E r \in Recipient : EndRecipient(q, r) \/ EndLate(q, r)

Change ==
  \/ \E r \in Recipient : ReceivePage(r) \/ Report(r)
  \/ \E m \in Mailing : CloseMailing(m)
  \/ CheckMailing \/ ThreadStep
  \/ \E q \in queues : QueueStep(q) \/ GiveUp(q)
  \/ Restart

Next == Change /\ UNCHANGED scenario

Spec == Init /\ [][Next]_vars

(* Timers fire, the thread goes on, and a relay ends whatever it sends: it *)
(* has timeouts.                                                           *)
Fairness ==
  /\ WF_stateVars(CheckMailing)
  /\ WF_stateVars(ThreadStep)
  /\ \A n \in 1..Cardinality(Recipient) :
       WF_stateVars(\E q \in queues : q.slot = n /\ QueueStep(q))

FairSpec == Spec /\ Fairness

-----------------------------------------------------------------------------
(* Properties.                                                             *)

(* A row in progress is in the hands of the thread or of a queue: who      *)
(* takes, refuses, fails or gives up rows leaves none behind, but when a   *)
(* mailing is closed under a thread or a queue that holds others as well.  *)
NobodyForgotten ==
  \A r \in Recipient : row[r] = "sending" =>
    r \in InExchanges \cup InQueues \cup spoiled

(* A recipient is in one exchange or one queue at a time, so that it gets  *)
(* the e-mail once: the row is marked before anybody may read it again.    *)
OneQueueEach ==
  \A r \in Recipient \ spoiled :
    Cardinality({q \in queues : r \in q.left})
      + Cardinality({h \in Half : r \in exchange[h][DomainOf[r]]}) <= 1

(* What the limits come to: each half of the thread counts the queues when *)
(* it begins, while queues end and before any of its own is made.          *)
WithinLimits ==
  /\ Cardinality(Managed) <= 2 * scenario.connections
  /\ \A d \in Domain :
       LET halves == {HalfOf(r) : r \in {r \in Recipient : DomainOf[r] = d}}
       IN Cardinality(OfDomain(d))
            <= scenario.perDomain + Cardinality(halves) - 1
  /\ \A q \in queues : Cardinality(q.left) <= MaxPerQueue

(* Whoever waits is sent, reported or deleted: the lock is always given    *)
(* back, and full domains and connections get room again.                  *)
WaitingEnds ==
  \A r \in Recipient :
    row[r] = "ready" ~> (row[r] \in {"done", "none"} \/ r \in spoiled)

=============================================================================
