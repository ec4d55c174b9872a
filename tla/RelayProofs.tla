---------------------------- MODULE RelayProofs -----------------------------
(***************************************************************************)
(* Theorems about Relay, for all recipients, relays, servers and mishaps:  *)
(* type correctness, that the servers counted as in use are those with a   *)
(* connection, that what a server answered stays, that a relay rejects its *)
(* recipients only after five failures in a row, and that a lookup finds   *)
(* the servers of a domain in every zone.                                  *)
(***************************************************************************)
EXTENDS Relay, FiniteSetTheorems, WellFoundedInduction, TLAPS

-----------------------------------------------------------------------------
(* A relay and the statuses of its recipients: who it has not dealt with   *)
(* is going, and nobody it has can be given to another.                    *)
Open == {"connecting", "talk", "close"}

Sound(Q, rows) ==
  /\ Q.stage = "idle" => Q.rcpts = {}
  /\ Q.stage \notin {"idle", "lookup"} => Q.host \in Host
  /\ Q.stage \in {"lookup", "customize"} =>
       Q.mails = {} /\ \A r \in Q.rcpts : rows[r] = "going"
  /\ Q.stage \notin {"talk", "close"} => Q.current = NoRecipient
  /\ \A r \in Q.rcpts : rows[r] # "ready"
  /\ \A r \in Q.mails : r \in Q.rcpts /\ rows[r] = "going"
  /\ Q.current # NoRecipient => Q.current \in Q.rcpts /\ Q.current \notin Q.mails
  /\ Q.stage = "talk" /\ Q.current # NoRecipient /\ Q.answered # TRUE =>
       rows[Q.current] = "going"

Apart == \A q, p \in QueueId : q # p => queue[q].rcpts \cap queue[p].rcpts = {}

Connections(h) == {q \in QueueId : queue[q].host = h /\ queue[q].stage \in Open}

Counts ==
  /\ row \in [Recipient -> Status] /\ queue \in [QueueId -> Queue]
  /\ inUse \in [Host -> Nat] /\ bad \subseteq Host
  /\ fatal \in Nat /\ since = fatal
  /\ gone \subseteq Recipient
  /\ scenario \in Scenario /\ attempts \in Nat /\ mishaps \in Nat

InUse == \A h \in Host : inUse[h] = Cardinality(Connections(h))

RelayInv == Counts /\ InUse /\ Apart /\ \A q \in QueueId : Sound(queue[q], row)

(* What a server answered is kept by a step.                               *)
Kept == \A r \in Recipient : row[r] \in {"sent", "error"} => row'[r] = row[r]

(* The step of a relay that changes the statuses of its own recipients.    *)
LEMMA OwnRecipients ==
  ASSUME RelayInv, NEW q \in QueueId, NEW Q \in Queue, queue' = [queue EXCEPT ![q] = Q],
         Q.rcpts \subseteq queue[q].rcpts,
         \A r \in Recipient : row'[r] = row[r] \/ (r \in queue[q].rcpts /\ row'[r] # "ready"),
         Sound(Q, row')
  PROVE  Apart' /\ \A p \in QueueId : Sound(queue[p], row)'
<1>1. queue'[q] = Q /\ \A p \in QueueId \ {q} : queue'[p] = queue[p]
  BY DEF RelayInv, Counts
<1>2. Apart'
  BY <1>1 DEF RelayInv, Apart
<1>3. ASSUME NEW p \in QueueId \ {q} PROVE Sound(queue[p], row)'
  <2>1. /\ queue'[p] = queue[p] /\ queue[p].rcpts \subseteq Recipient
        /\ queue[p].rcpts \cap queue[q].rcpts = {} /\ Sound(queue[p], row)
    BY <1>1 DEF RelayInv, Apart, Counts, Queue
  <2>2. \A r \in queue[p].rcpts : row'[r] = row[r]
    BY <2>1
  <2> QED
    BY <2>1, <2>2 DEF Sound
<1>4. Sound(queue[q], row)'
  BY <1>1
<1> QED
  BY <1>2, <1>3, <1>4

(* What the connections of a server become when one relay changes.         *)
LEMMA OneMoreOrLess ==
  ASSUME RelayInv, NEW q \in QueueId, NEW Q \in Queue, queue' = [queue EXCEPT ![q] = Q],
         NEW h \in Host
  PROVE  LET before == queue[q].host = h /\ queue[q].stage \in Open
             after == Q.host = h /\ Q.stage \in Open
         IN /\ Cardinality(Connections(h)) \in Nat
            /\ (before <=> after) => Cardinality(Connections(h))' = Cardinality(Connections(h))
            /\ ~before /\ after =>
                 Cardinality(Connections(h))' = Cardinality(Connections(h)) + 1
            /\ before /\ ~after =>
                 /\ Cardinality(Connections(h))' = Cardinality(Connections(h)) - 1
                 /\ Cardinality(Connections(h)) > 0
<1> DEFINE before == queue[q].host = h /\ queue[q].stage \in Open
           after == Q.host = h /\ Q.stage \in Open
<1>1. IsFiniteSet(Connections(h))
  BY RelayAssumption, FS_Subset DEF Connections
<1>2. queue'[q] = Q /\ \A p \in QueueId \ {q} : queue'[p] = queue[p]
  BY DEF RelayInv, Counts
<1>3. Cardinality(Connections(h)) \in Nat
  BY <1>1, FS_CardinalityType
<1>4. ASSUME before <=> after PROVE Connections(h)' = Connections(h)
  BY <1>2, <1>4 DEF Connections
<1>5. ASSUME ~before, after
      PROVE  Cardinality(Connections(h))' = Cardinality(Connections(h)) + 1
  <2>1. q \notin Connections(h) /\ Connections(h)' = Connections(h) \cup {q}
    BY <1>2, <1>5 DEF Connections
  <2> QED
    BY <1>1, <2>1, FS_AddElement
<1>6. ASSUME before, ~after
      PROVE  /\ Cardinality(Connections(h))' = Cardinality(Connections(h)) - 1
             /\ Cardinality(Connections(h)) > 0
  <2>1. q \in Connections(h) /\ Connections(h)' = Connections(h) \ {q}
    BY <1>2, <1>6 DEF Connections
  <2>2. Cardinality(Connections(h) \ {q}) = Cardinality(Connections(h)) - 1
    BY <1>1, <2>1, FS_RemoveElement
  <2>3. Cardinality(Connections(h)) # 0
    BY <1>1, <2>1, FS_EmptySet
  <2> QED
    BY <1>3, <2>1, <2>2, <2>3
<1> QED
  BY <1>3, <1>4, <1>5, <1>6

Rejects == \A q \in QueueId : FailureRejects(q) => since' >= 5
GoesOn == RelayInv' /\ Kept /\ Rejects

LEMMA UseIsNoted ==
  ASSUME RelayInv, NEW q \in QueueId, NEW Q \in Queue, queue' = [queue EXCEPT ![q] = Q],
         \/ /\ inUse' = inUse /\ (Q.stage \in Open <=> queue[q].stage \in Open)
            /\ Q.stage \in Open => Q.host = queue[q].host
         \/ /\ inUse' = [inUse EXCEPT ![Q.host] = @ + 1]
            /\ Q.stage \in Open /\ queue[q].stage \notin Open
         \/ /\ inUse' = [inUse EXCEPT ![queue[q].host] = @ - 1]
            /\ Q.stage \notin Open /\ queue[q].stage \in Open
  PROVE  InUse' /\ inUse' \in [Host -> Nat]
<1> SUFFICES ASSUME NEW h \in Host
             PROVE  inUse'[h] = Cardinality(Connections(h))' /\ inUse'[h] \in Nat
                    /\ DOMAIN inUse' = Host /\ inUse' = [x \in Host |-> inUse'[x]]
  BY DEF InUse, RelayInv, Counts
<1>1. /\ inUse \in [Host -> Nat] /\ inUse[h] = Cardinality(Connections(h))
  BY DEF RelayInv, Counts, InUse
<1>2. DOMAIN inUse' = Host /\ inUse' = [x \in Host |-> inUse'[x]]
  BY <1>1
<1> DEFINE before == queue[q].host = h /\ queue[q].stage \in Open
           after == Q.host = h /\ Q.stage \in Open
<1>3. /\ Cardinality(Connections(h)) \in Nat
      /\ (before <=> after) => Cardinality(Connections(h))' = Cardinality(Connections(h))
      /\ ~before /\ after => Cardinality(Connections(h))' = Cardinality(Connections(h)) + 1
      /\ before /\ ~after => /\ Cardinality(Connections(h))' = Cardinality(Connections(h)) - 1
                             /\ Cardinality(Connections(h)) > 0
  BY OneMoreOrLess
<1>4. \/ (before <=> after) /\ inUse'[h] = inUse[h]
      \/ ~before /\ after /\ inUse'[h] = inUse[h] + 1
      \/ before /\ ~after /\ inUse'[h] = inUse[h] - 1
  BY <1>1
<1> HIDE DEF before, after
<1> QED
  BY <1>1, <1>2, <1>3, <1>4

(* What a step of one relay has to do.                                     *)
LEMMA RelayStep ==
  ASSUME RelayInv, NEW q \in QueueId, NEW Q \in Queue, queue' = [queue EXCEPT ![q] = Q],
         Q.rcpts \subseteq queue[q].rcpts, Sound(Q, row'),
         row' \in [Recipient -> Status],
         \A r \in Recipient : \/ row'[r] = row[r]
                              \/ /\ r \in queue[q].rcpts
                                 /\ row[r] = "going" /\ row'[r] # "ready",
         \/ /\ inUse' = inUse /\ (Q.stage \in Open <=> queue[q].stage \in Open)
            /\ Q.stage \in Open => Q.host = queue[q].host
         \/ /\ inUse' = [inUse EXCEPT ![Q.host] = @ + 1]
            /\ Q.stage \in Open /\ queue[q].stage \notin Open
         \/ /\ inUse' = [inUse EXCEPT ![queue[q].host] = @ - 1]
            /\ Q.stage \notin Open /\ queue[q].stage \in Open,
         bad' \subseteq Host, fatal' \in Nat, since' = fatal', gone' \subseteq Recipient,
         scenario' = scenario, attempts' \in Nat, mishaps' \in Nat,
         Q.stage = "idle" /\ queue[q].stage # "customize" =>
           \/ fatal' >= 5
           \/ \A r \in queue[q].rcpts : row'[r] = "error" => row[r] # "going"
  PROVE  GoesOn
<1>1. queue'[q] = Q /\ \A p \in QueueId \ {q} : queue'[p] = queue[p]
  BY DEF RelayInv, Counts
<1>2. queue' \in [QueueId -> Queue]
  BY DEF RelayInv, Counts
<1>3. InUse' /\ inUse' \in [Host -> Nat]
  BY UseIsNoted
<1>4. Apart' /\ \A p \in QueueId : Sound(queue[p], row)'
  BY OwnRecipients
<1>5. RelayInv'
  BY <1>2, <1>3, <1>4 DEF RelayInv, Counts
<1>6. Kept
  BY DEF Kept
<1>7. Rejects
  BY <1>1 DEF Rejects, FailureRejects
<1> QED
  BY <1>5, <1>6, <1>7 DEF GoesOn

(* What a relay leaves when it ends: "rows" is what its customization left.*)
LEMMA RelayEnds ==
  ASSUME RelayInv, NEW q \in QueueId, NEW rows \in [Recipient -> Status],
         \/ \E b \in BOOLEAN : Fails(q, b, rows)
         \/ Succeeds(q, rows),
         \A r \in Recipient : \/ rows[r] = row[r]
                              \/ /\ r \in queue[q].rcpts
                                 /\ row[r] = "going" /\ rows[r] # "ready"
  PROVE  /\ queue' = [queue EXCEPT ![q] = NoQueue]
         /\ row' \in [Recipient -> Status]
         /\ \A r \in Recipient : \/ row'[r] = row[r]
                                 \/ /\ r \in queue[q].rcpts
                                    /\ row[r] = "going" /\ row'[r] # "ready"
         /\ fatal' \in Nat /\ since' = fatal'
         /\ rows = row => \/ fatal' >= 5
                          \/ \A r \in queue[q].rcpts : row'[r] = "error" => row[r] # "going"
<1>0. fatal \in Nat /\ since = fatal /\ queue[q].rcpts \subseteq Recipient
  BY DEF RelayInv, Counts, Queue
<1>1. CASE Succeeds(q, rows)
  BY <1>0, <1>1 DEF Succeeds
<1>2. ASSUME NEW b \in BOOLEAN, Fails(q, b, rows)
      PROVE  /\ queue' = [queue EXCEPT ![q] = NoQueue]
             /\ row' = [r \in Recipient |->
                          IF r \in queue[q].rcpts /\ rows[r] = "going"
                            THEN IF fatal' < 5 THEN "wait" ELSE "error" ELSE rows[r]]
             /\ fatal' \in Nat /\ since' = fatal'
  BY <1>0, <1>2 DEF Fails, AddDnsError, StillGoing
<1>3. ASSUME NEW b \in BOOLEAN, Fails(q, b, rows)
      PROVE  /\ row' \in [Recipient -> Status]
             /\ \A r \in Recipient : \/ row'[r] = row[r]
                                     \/ /\ r \in queue[q].rcpts
                                        /\ row[r] = "going" /\ row'[r] # "ready"
             /\ rows = row => \/ fatal' >= 5
                              \/ \A r \in queue[q].rcpts : row'[r] = "error" => row[r] # "going"
  <2>1. /\ fatal' \in Nat
        /\ \A r \in Recipient : row'[r] = IF r \in queue[q].rcpts /\ rows[r] = "going"
                                            THEN IF fatal' < 5 THEN "wait" ELSE "error"
                                            ELSE rows[r]
    BY <1>2, <1>3
  <2>2. row' \in [Recipient -> Status]
    BY <1>2, <1>3 DEF Status
  <2>3. fatal' < 5 \/ fatal' >= 5
    BY <2>1
  <2> QED
    BY <1>0, <2>1, <2>2, <2>3
<1> QED
  BY <1>1, <1>2, <1>3

LEMMA NoQueueSound ==
  /\ NoQueue \in Queue /\ NoQueue.stage = "idle" /\ NoQueue.rcpts = {}
  /\ \A rows : Sound(NoQueue, rows)
  BY DEF NoQueue, Queue, Stage, Sound

(* Relays that end with a failure or a success, and where they had a       *)
(* connection.                                                             *)
LEMMA RelayOver ==
  ASSUME RelayInv, NEW q \in QueueId, queue[q].stage # "idle",
         NEW rows \in [Recipient -> Status],
         \/ \E b \in BOOLEAN : Fails(q, b, rows)
         \/ Succeeds(q, rows),
         \A r \in Recipient : \/ rows[r] = row[r]
                              \/ /\ r \in queue[q].rcpts
                                 /\ row[r] = "going" /\ rows[r] # "ready",
         rows = row \/ queue[q].stage = "customize",
         \/ inUse' = inUse /\ queue[q].stage \notin Open
         \/ inUse' = [inUse EXCEPT ![queue[q].host] = @ - 1] /\ queue[q].stage \in Open,
         bad' \subseteq Host, gone' \subseteq Recipient,
         scenario' = scenario, attempts' \in Nat, mishaps' \in Nat
  PROVE  GoesOn
<1>1. /\ NoQueue \in Queue /\ NoQueue.stage = "idle" /\ NoQueue.rcpts = {}
      /\ Sound(NoQueue, row')
  BY NoQueueSound
<1>2. NoQueue.stage \notin Open
  BY <1>1 DEF Open
<1>3. /\ queue' = [queue EXCEPT ![q] = NoQueue]
      /\ row' \in [Recipient -> Status]
      /\ \A r \in Recipient : \/ row'[r] = row[r]
                              \/ /\ r \in queue[q].rcpts
                                 /\ row[r] = "going" /\ row'[r] # "ready"
      /\ fatal' \in Nat /\ since' = fatal'
      /\ rows = row => \/ fatal' >= 5
                       \/ \A r \in queue[q].rcpts : row'[r] = "error" => row[r] # "going"
  BY RelayEnds
<1> QED
  BY <1>1, <1>2, <1>3, RelayStep

LEMMA ConnectionsEnd ==
  ASSUME RelayInv, UNCHANGED scenario, NEW q \in QueueId,
         FailToConnect(q) \/ FindFileGone(q) \/ CloseConnection(q) \/ BreakConnection(q)
  PROVE  GoesOn
<1>1. queue[q].stage \in Open /\ queue[q].stage # "idle" /\ queue[q].stage # "customize"
  BY DEF FailToConnect, FindFileGone, CloseConnection, BreakConnection, Open
<1>2. /\ queue[q] \in Queue /\ queue[q].host \in Host
      /\ row \in [Recipient -> Status]
      /\ bad \subseteq Host /\ gone \subseteq Recipient
      /\ attempts \in Nat /\ mishaps \in Nat
  BY <1>1 DEF RelayInv, Counts, Sound, Open
<1>3. ASSUME ConnectionError(q, row)
      PROVE  /\ (\E b \in BOOLEAN : Fails(q, b, row)) \/ Succeeds(q, row)
             /\ bad' \subseteq Host
             /\ inUse' = [inUse EXCEPT ![queue[q].host] = @ - 1]
  BY <1>2, <1>3 DEF ConnectionError, StopFactory
<1>4. ASSUME CloseConnection(q), ~Left(q)
      PROVE  /\ Succeeds(q, row) /\ bad' \subseteq Host
             /\ inUse' = [inUse EXCEPT ![queue[q].host] = @ - 1]
  BY <1>2, <1>4 DEF CloseConnection, Released
<1>5. /\ (\E b \in BOOLEAN : Fails(q, b, row)) \/ Succeeds(q, row)
      /\ bad' \subseteq Host
      /\ inUse' = [inUse EXCEPT ![queue[q].host] = @ - 1]
  BY <1>3, <1>4 DEF FailToConnect, FindFileGone, CloseConnection, BreakConnection
<1>6. gone' \subseteq Recipient /\ attempts' \in Nat /\ mishaps' \in Nat
  BY <1>2 DEF FailToConnect, FindFileGone, CloseConnection, BreakConnection, Mishap
<1> QED
  BY <1>1, <1>2, <1>5, <1>6, RelayOver

LEMMA LookupsEnd ==
  ASSUME RelayInv, UNCHANGED scenario, NEW q \in QueueId, AnswerLookup(q) \/ FailLookup(q)
  PROVE  GoesOn
<1>1. queue[q].stage = "lookup" /\ queue[q].stage \notin Open
  BY DEF AnswerLookup, FailLookup, Open
<1>2. /\ queue[q] \in Queue /\ Sound(queue[q], row)
      /\ row \in [Recipient -> Status]
      /\ bad \subseteq Host /\ gone \subseteq Recipient
      /\ attempts \in Nat /\ mishaps \in Nat /\ fatal \in Nat /\ since = fatal
  BY DEF RelayInv, Counts
<1>3. UNCHANGED <<inUse, bad, gone, attempts>> /\ mishaps' \in Nat
  <2>1. AnswerLookup(q) => UNCHANGED <<inUse, bad, gone, attempts, mishaps>>
    BY DEF AnswerLookup
  <2>2. FailLookup(q) => /\ UNCHANGED <<inUse, bad, gone, attempts>>
                         /\ \E fault : Mishap(fault)
    BY DEF FailLookup
  <2>3. \A fault : Mishap(fault) => mishaps' \in Nat
    BY <1>2 DEF Mishap
  <2> QED
    BY <1>2, <2>1, <2>2, <2>3
<1>4. CASE \E b \in BOOLEAN : Fails(q, b, row)
  BY <1>1, <1>2, <1>3, <1>4, RelayOver
<1>5. ASSUME NEW h \in Host,
             queue' = [queue EXCEPT ![q].stage = "customize", ![q].host = h],
             UNCHANGED <<row, fatal, since>>
      PROVE  GoesOn
  <2> DEFINE Q == [queue[q] EXCEPT !.stage = "customize", !.host = h]
  <2>1. /\ Q \in Queue /\ Q.stage = "customize" /\ Q.host = h /\ Q.rcpts = queue[q].rcpts
        /\ Q.mails = queue[q].mails /\ Q.current = queue[q].current
        /\ Q.answered = queue[q].answered
    BY <1>2 DEF Queue, Stage
  <2>2. queue' = [queue EXCEPT ![q] = Q]
    BY <1>5
  <2> HIDE DEF Q
  <2>3. Sound(Q, row')
    BY <1>1, <1>2, <1>5, <2>1 DEF Sound
  <2>4. Q.stage \notin Open
    BY <2>1 DEF Open
  <2> QED
    BY <1>1, <1>2, <1>3, <1>5, <2>1, <2>2, <2>3, <2>4, RelayStep
<1>6. AnswerLookup(q) =>
        \/ \E b \in BOOLEAN : Fails(q, b, row)
        \/ /\ \E h \in Host : queue' = [queue EXCEPT ![q].stage = "customize", ![q].host = h]
           /\ UNCHANGED <<row, fatal, since>>
  BY DEF AnswerLookup, First
<1>7. FailLookup(q) => \E b \in BOOLEAN : Fails(q, b, row)
  BY DEF FailLookup
<1> QED
  BY <1>4, <1>5, <1>6, <1>7

LEMMA CustomizeEnds ==
  ASSUME RelayInv, UNCHANGED scenario, NEW q \in QueueId, Customize(q)
  PROVE  GoesOn
<1>1. queue[q].stage = "customize" /\ queue[q].stage \notin Open
      /\ UNCHANGED <<inUse, bad, gone, attempts>>
  BY DEF Customize, Open
<1>2. /\ queue[q] \in Queue /\ Sound(queue[q], row)
      /\ row \in [Recipient -> Status]
      /\ bad \subseteq Host /\ gone \subseteq Recipient
      /\ attempts \in Nat /\ mishaps \in Nat /\ fatal \in Nat /\ since = fatal
      /\ queue[q].rcpts \subseteq Recipient
  BY DEF RelayInv, Counts, Queue
<1>3. PICK failing \in SUBSET queue[q].rcpts, fate \in {"held", "error"} :
        LET rows == [r \in Recipient |-> IF r \in failing THEN fate ELSE row[r]]
            made == queue[q].rcpts \ failing
        IN \/ /\ IF failing = {} THEN UNCHANGED mishaps ELSE Mishap("customize")
              /\ IF made = {} THEN Fails(q, TRUE, rows)
                 ELSE /\ SendEmails(q, made) /\ row' = rows
                      /\ UNCHANGED <<fatal, since>>
           \/ made # {} /\ Mishap("customize") /\ Fails(q, FALSE, rows)
  BY DEF Customize
<1> DEFINE rows == [r \in Recipient |-> IF r \in failing THEN fate ELSE row[r]]
           made == queue[q].rcpts \ failing
<1>4. mishaps' \in Nat
  <2>1. UNCHANGED mishaps \/ Mishap("customize")
    BY <1>3
  <2> QED
    BY <1>2, <2>1 DEF Mishap
<1>5. /\ rows \in [Recipient -> Status]
      /\ \A r \in Recipient : rows[r] = IF r \in failing THEN fate ELSE row[r]
  BY <1>2 DEF Status
<1>6. \A r \in queue[q].rcpts : row[r] = "going"
  BY <1>1, <1>2 DEF Sound
<1>7. \A r \in Recipient : \/ rows[r] = row[r]
                           \/ /\ r \in queue[q].rcpts
                              /\ row[r] = "going" /\ rows[r] # "ready"
  BY <1>5, <1>6
<1>8. \/ \E b \in BOOLEAN : Fails(q, b, rows)
      \/ /\ SendEmails(q, made) /\ row' = rows
         /\ UNCHANGED <<fatal, since>>
  BY <1>3
<1> HIDE DEF rows
<1>9. CASE \E b \in BOOLEAN : Fails(q, b, rows)
  BY <1>1, <1>2, <1>4, <1>5, <1>7, <1>9, RelayOver
<1>10. ASSUME SendEmails(q, made), row' = rows, UNCHANGED <<fatal, since>>
       PROVE  GoesOn
  <2> DEFINE Q == [queue[q] EXCEPT !.stage = "connect", !.mails = made]
  <2>1. /\ Q \in Queue /\ Q.stage = "connect" /\ Q.host = queue[q].host
        /\ Q.rcpts = queue[q].rcpts
        /\ Q.mails = made /\ Q.current = queue[q].current
    BY <1>2 DEF Queue, Stage
  <2>2. queue' = [queue EXCEPT ![q] = Q]
    BY <1>10 DEF SendEmails
  <2> HIDE DEF Q
  <2>3. Sound(Q, row')
    BY <1>1, <1>2, <1>5, <1>6, <1>10, <2>1 DEF Sound
  <2>4. Q.stage \notin Open
    BY <2>1 DEF Open
  <2> QED
    BY <1>1, <1>2, <1>4, <1>5, <1>7, <1>10, <2>1, <2>2, <2>3, <2>4, RelayStep
<1> QED
  BY <1>8, <1>9, <1>10

(* The conversation: what a server answers for an e-mail is kept, since no *)
(* e-mail that is still to be sent is of a recipient it answered for.      *)
LEMMA ConversationGoesOn ==
  ASSUME RelayInv, UNCHANGED scenario, NEW q \in QueueId,
         \/ Connect(q) \/ Connected(q) \/ NextMail(q) \/ RefuseToTalk(q) \/ TimeOut(q)
         \/ \E status \in {"sent", "wait", "error"} : AnswerMail(q, status)
  PROVE  GoesOn
<1>1. /\ queue[q] \in Queue /\ Sound(queue[q], row)
      /\ row \in [Recipient -> Status]
      /\ bad \subseteq Host /\ gone \subseteq Recipient
      /\ attempts \in Nat /\ mishaps \in Nat /\ fatal \in Nat /\ since = fatal
      /\ queue[q].rcpts \subseteq Recipient
  BY DEF RelayInv, Counts, Queue
<1>2. /\ bad' \subseteq Host /\ gone' \subseteq Recipient
      /\ attempts' \in Nat /\ mishaps' \in Nat /\ fatal' \in Nat /\ since' = fatal'
  BY <1>1 DEF Connect, Connected, NextMail, RefuseToTalk, TimeOut, AnswerMail, Mishap,
     Forgotten
<1>3. queue[q].stage \notin {"idle", "customize", "lookup"} /\ queue[q].host \in Host
  BY <1>1 DEF Connect, Connected, NextMail, RefuseToTalk, TimeOut, AnswerMail, Sound
<1>4. ASSUME Connect(q) PROVE GoesOn
  <2> DEFINE Q == [queue[q] EXCEPT !.stage = "connecting"]
  <2>1. /\ Q \in Queue /\ Q.stage = "connecting" /\ Q.host = queue[q].host
        /\ Q.rcpts = queue[q].rcpts /\ Q.mails = queue[q].mails /\ Q.current = queue[q].current
    BY <1>1 DEF Queue, Stage
  <2>2. /\ queue' = [queue EXCEPT ![q] = Q] /\ UNCHANGED row
        /\ inUse' = [inUse EXCEPT ![Q.host] = @ + 1]
    BY <1>4, <2>1 DEF Connect, Noted
  <2>3. queue[q].stage = "connect"
    BY <1>4 DEF Connect
  <2> HIDE DEF Q
  <2>4. Sound(Q, row') /\ Q.stage \in Open /\ queue[q].stage \notin Open
    BY <1>1, <1>3, <2>1, <2>2, <2>3 DEF Sound, Open
  <2> QED
    BY <1>1, <1>2, <2>1, <2>2, <2>4, RelayStep
<1>5. ASSUME Connected(q) PROVE GoesOn
  <2> DEFINE Q == [queue[q] EXCEPT !.stage = "talk"]
  <2>1. /\ Q \in Queue /\ Q.stage = "talk" /\ Q.host = queue[q].host
        /\ Q.rcpts = queue[q].rcpts /\ Q.mails = queue[q].mails /\ Q.current = queue[q].current
    BY <1>1 DEF Queue, Stage
  <2>2. queue' = [queue EXCEPT ![q] = Q] /\ UNCHANGED <<row, inUse>>
    BY <1>5 DEF Connected
  <2>3. queue[q].stage = "connecting"
    BY <1>5 DEF Connected
  <2> HIDE DEF Q
  <2>4. Sound(Q, row') /\ Q.stage \in Open /\ queue[q].stage \in Open
    BY <1>1, <1>3, <2>1, <2>2, <2>3 DEF Sound, Open
  <2> QED
    BY <1>1, <1>2, <2>1, <2>2, <2>4, RelayStep
<1>6. ASSUME NextMail(q) PROVE GoesOn
  <2>0. queue[q].stage = "talk" /\ queue[q].stage \in Open
        /\ UNCHANGED <<row, inUse>>
    BY <1>6 DEF NextMail, Open
  <2>1. CASE queue[q].mails = {}
    <3> DEFINE Q == [queue[q] EXCEPT !.stage = "close", !.current = NoRecipient]
    <3>1. /\ Q \in Queue /\ Q.stage = "close" /\ Q.host = queue[q].host
          /\ Q.rcpts = queue[q].rcpts /\ Q.mails = queue[q].mails /\ Q.current = NoRecipient
      BY <1>1 DEF Queue, Stage
    <3>2. queue' = [queue EXCEPT ![q] = Q]
      BY <1>6, <2>1 DEF NextMail
    <3> HIDE DEF Q
    <3>3. Sound(Q, row') /\ Q.stage \in Open
      BY <1>1, <1>3, <2>0, <2>1, <3>1 DEF Sound, Open
    <3> QED
      BY <1>1, <1>2, <2>0, <3>1, <3>2, <3>3, RelayStep
  <2>2. CASE queue[q].mails # {}
    <3>0. PICK r \in Recipient : GetNextEmail(q, r)
      BY <1>6, <2>2 DEF NextMail
    <3> DEFINE Q == [queue[q] EXCEPT !.mails = queue[q].mails \ {r}, !.current = r,
                                     !.answered = FALSE]
    <3>1. /\ Q \in Queue /\ Q.stage = "talk" /\ Q.host = queue[q].host
          /\ Q.rcpts = queue[q].rcpts /\ Q.mails = queue[q].mails \ {r} /\ Q.current = r
          /\ Q.answered = FALSE
      BY <1>1, <2>0 DEF Queue
    <3>2. queue' = [queue EXCEPT ![q] = Q] /\ r \in queue[q].mails
      BY <3>0 DEF GetNextEmail
    <3> HIDE DEF Q
    <3>3. Sound(Q, row') /\ Q.stage \in Open
      BY <1>1, <1>3, <2>0, <3>1, <3>2 DEF Sound, Open
    <3> QED
      BY <1>1, <1>2, <2>0, <3>1, <3>2, <3>3, RelayStep
  <2> QED
    BY <2>1, <2>2
<1>7. ASSUME RefuseToTalk(q) \/ TimeOut(q) PROVE GoesOn
  <2> DEFINE Q == [queue[q] EXCEPT !.stage = "close"]
  <2>0. queue[q].stage = "talk" /\ queue[q].stage \in Open
    BY <1>7 DEF RefuseToTalk, TimeOut, Open
  <2>1. /\ Q \in Queue /\ Q.stage = "close" /\ Q.host = queue[q].host
        /\ Q.rcpts = queue[q].rcpts /\ Q.mails = queue[q].mails /\ Q.current = queue[q].current
    BY <1>1 DEF Queue, Stage
  <2>2. queue' = [queue EXCEPT ![q] = Q] /\ UNCHANGED inUse
    BY <1>7 DEF RefuseToTalk, TimeOut
  <2>3. \/ row' = row
        \/ /\ queue[q].current # NoRecipient /\ queue[q].answered # TRUE
           /\ row' = [row EXCEPT ![queue[q].current] = "wait"]
    BY <1>7 DEF RefuseToTalk, TimeOut
  <2> HIDE DEF Q
  <2>4. /\ row' \in [Recipient -> Status]
        /\ \A r \in Recipient : \/ row'[r] = row[r]
                                \/ /\ r = queue[q].current /\ r \in queue[q].rcpts
                                   /\ row[r] = "going" /\ row'[r] = "wait"
    BY <1>1, <2>0, <2>3 DEF Sound, Status
  <2>5. \A r \in queue[q].mails : r \in queue[q].rcpts /\ row'[r] = "going"
    <3>1. ASSUME NEW r \in queue[q].mails
          PROVE  /\ r \in queue[q].rcpts /\ r \in Recipient /\ row[r] = "going"
                 /\ r # queue[q].current
      BY <1>1, RelayAssumption DEF Sound
    <3> QED
      BY <2>4, <3>1
  <2>6. Sound(Q, row') /\ Q.stage \in Open
    <3>1. \A r \in queue[q].rcpts : row'[r] # "ready"
      BY <1>1, <2>4 DEF Sound
    <3> QED
      BY <1>1, <1>3, <2>0, <2>1, <2>5, <3>1 DEF Sound, Open
  <2> QED
    BY <1>1, <1>2, <2>0, <2>1, <2>2, <2>4, <2>6, RelayStep
<1>8. ASSUME NEW status \in {"sent", "wait", "error"}, AnswerMail(q, status) PROVE GoesOn
  <2> DEFINE Q == [queue[q] EXCEPT !.answered = TRUE]
  <2>0. /\ queue[q].stage = "talk" /\ queue[q].stage \in Open
        /\ queue[q].current # NoRecipient /\ queue[q].answered # TRUE
        /\ queue[q].current \in Recipient
    BY <1>1, <1>8 DEF AnswerMail, Open, Sound
  <2>1. /\ Q \in Queue /\ Q.stage = "talk" /\ Q.host = queue[q].host
        /\ Q.rcpts = queue[q].rcpts /\ Q.mails = queue[q].mails /\ Q.current = queue[q].current
        /\ Q.answered = TRUE
    BY <1>1, <2>0 DEF Queue
  <2>2. /\ queue' = [queue EXCEPT ![q] = Q] /\ UNCHANGED inUse
        /\ row' = [row EXCEPT ![queue[q].current] = status]
    BY <1>8 DEF AnswerMail
  <2> HIDE DEF Q
  <2>3. /\ row' \in [Recipient -> Status]
        /\ \A r \in Recipient : \/ row'[r] = row[r]
                                \/ /\ r = queue[q].current /\ r \in queue[q].rcpts
                                   /\ row[r] = "going" /\ row'[r] # "ready"
    BY <1>1, <2>0, <2>2 DEF Sound, Status
  <2>4. Sound(Q, row') /\ Q.stage \in Open
    BY <1>1, <1>3, <2>0, <2>1, <2>3 DEF Sound, Open
  <2>5. /\ inUse' = inUse /\ (Q.stage \in Open <=> queue[q].stage \in Open)
        /\ Q.stage \in Open => Q.host = queue[q].host
    BY <2>0, <2>1, <2>2, <2>4
  <2>6. \A r \in Recipient : \/ row'[r] = row[r]
                             \/ /\ r \in queue[q].rcpts
                                /\ row[r] = "going" /\ row'[r] # "ready"
    BY <2>3
  <2>7. /\ Q \in Queue /\ queue' = [queue EXCEPT ![q] = Q]
        /\ Q.rcpts \subseteq queue[q].rcpts /\ Sound(Q, row')
        /\ row' \in [Recipient -> Status]
        /\ ~(Q.stage = "idle" /\ queue[q].stage # "customize")
    BY <2>1, <2>2, <2>3, <2>4
  <2> QED
    BY <1>2, <2>5, <2>6, <2>7, RelayStep
<1> QED
  BY <1>4, <1>5, <1>6, <1>7, <1>8

(* A recipient is given to a relay when none has it.                       *)
LEMMA RelayStarts ==
  ASSUME RelayInv, UNCHANGED scenario, NEW q \in QueueId, NEW rs \in SUBSET Recipient,
         StartQueue(q, rs)
  PROVE  GoesOn
<1>1. /\ queue \in [QueueId -> Queue] /\ row \in [Recipient -> Status]
      /\ queue[q].stage = "idle" /\ rs # {}
      /\ \A r \in rs : row[r] = "ready"
      /\ row' = [r \in Recipient |-> IF r \in rs THEN "going" ELSE row[r]]
      /\ UNCHANGED <<inUse, bad, fatal, gone, since, mishaps>>
      /\ attempts' = attempts - 1 /\ attempts > 0
  BY DEF StartQueue, RelayInv, Counts
<1> DEFINE Q == [NoQueue EXCEPT !.stage = "lookup", !.rcpts = rs]
<1>2. /\ Q \in Queue /\ Q.stage = "lookup" /\ Q.rcpts = rs /\ Q.mails = {}
      /\ Q.current = NoRecipient
  BY DEF NoQueue, Queue, Stage
<1>3. queue' = [queue EXCEPT ![q] = Q]
  BY DEF StartQueue
<1> HIDE DEF Q
<1>4. queue'[q] = Q /\ \A p \in QueueId \ {q} : queue'[p] = queue[p]
  BY <1>1, <1>3
<1>5. \A r \in Recipient : row'[r] = IF r \in rs THEN "going" ELSE row[r]
  BY <1>1
<1>6. ASSUME NEW p \in QueueId PROVE queue[p].rcpts \cap rs = {}
  BY <1>1 DEF RelayInv, Sound
<1>7. Apart'
  BY <1>2, <1>4, <1>6 DEF RelayInv, Apart
<1>8. Sound(Q, row')
  BY <1>2, <1>5 DEF Sound
<1>9. ASSUME NEW p \in QueueId \ {q} PROVE Sound(queue[p], row)'
  <2>1. /\ queue'[p] = queue[p] /\ queue[p].rcpts \subseteq Recipient /\ Sound(queue[p], row)
    BY <1>1, <1>4 DEF RelayInv, Queue
  <2>2. \A r \in queue[p].rcpts : row'[r] = row[r]
    BY <1>5, <1>6, <2>1
  <2> QED
    BY <2>1, <2>2 DEF Sound
<1>10. InUse' /\ inUse' \in [Host -> Nat]
  BY <1>1, <1>2, <1>3, UseIsNoted DEF Open
<1>11. RelayInv'
  <2>1. row' \in [Recipient -> Status] /\ queue' \in [QueueId -> Queue] /\ attempts' \in Nat
    BY <1>1, <1>2, <1>3 DEF RelayInv, Counts, Status
  <2>2. Counts'
    BY <1>1, <1>10, <2>1 DEF RelayInv, Counts
  <2> QED
    BY <1>4, <1>7, <1>8, <1>9, <1>10, <2>2 DEF RelayInv
<1>12. Kept
  BY <1>1, <1>5 DEF Kept
<1>13. Rejects
  BY <1>2, <1>4 DEF Rejects, FailureRejects
<1> QED
  BY <1>11, <1>12, <1>13 DEF GoesOn

(* What happens around the relays.                                         *)
LEMMA RelaysStay ==
  ASSUME RelayInv, UNCHANGED <<scenario, queue, inUse, fatal, since>>,
         bad' \subseteq Host, gone' \subseteq Recipient, attempts' \in Nat, mishaps' \in Nat,
         row' \in [Recipient -> Status],
         \A r \in Recipient : \/ row'[r] = row[r]
                              \/ row[r] = "wait" /\ \A q \in QueueId : r \notin queue[q].rcpts
  PROVE  GoesOn
<1>1. \A h \in Host : Connections(h)' = Connections(h)
  BY DEF Connections
<1>2. ASSUME NEW q \in QueueId PROVE Sound(queue[q], row)'
  <2>1. /\ queue'[q] = queue[q] /\ queue[q].rcpts \subseteq Recipient /\ Sound(queue[q], row)
    BY DEF RelayInv, Counts, Queue
  <2>2. \A r \in queue[q].rcpts : row'[r] = row[r]
    BY <2>1
  <2> QED
    BY <2>1, <2>2 DEF Sound
<1>3. RelayInv'
  BY <1>2 DEF RelayInv, Counts, InUse, Apart, Connections
<1>4. Kept
  BY DEF Kept
<1>5. Rejects
  BY DEF Rejects, FailureRejects
<1> QED
  BY <1>3, <1>4, <1>5 DEF GoesOn

LEMMA RelaysGoOn ==
  ASSUME RelayInv, [Next]_vars
  PROVE  GoesOn
<1>1. CASE UNCHANGED vars
  <2>1. /\ UNCHANGED <<scenario, queue, inUse, fatal, since, row, bad, gone,
                       attempts, mishaps>>
        /\ bad \subseteq Host /\ gone \subseteq Recipient /\ attempts \in Nat
        /\ mishaps \in Nat /\ row \in [Recipient -> Status]
    BY <1>1 DEF vars, stateVars, RelayInv, Counts
  <2> QED
    BY <2>1, RelaysStay
<1>2. ASSUME Change, UNCHANGED scenario PROVE GoesOn
  <2>0. /\ bad \subseteq Host /\ gone \subseteq Recipient /\ attempts \in Nat
        /\ mishaps \in Nat /\ row \in [Recipient -> Status]
    BY DEF RelayInv, Counts
  <2>1. ASSUME NEW r \in Recipient, CloseMailing(r) PROVE GoesOn
    BY <1>2, <2>0, <2>1, RelaysStay DEF CloseMailing, Mishap
  <2>2. ASSUME NEW r \in Recipient, DelegateAgain(r) PROVE GoesOn
    BY <1>2, <2>0, <2>2, RelaysStay DEF DelegateAgain, Status
  <2>3. ASSUME NEW h \in Host, ForgetBad(h) PROVE GoesOn
    BY <1>2, <2>0, <2>3, RelaysStay DEF ForgetBad
  <2>4. ASSUME NEW q \in QueueId, NEW rs \in SUBSET Recipient, StartQueue(q, rs) PROVE GoesOn
    BY <1>2, <2>4, RelayStarts
  <2>5. ASSUME NEW q \in QueueId, QueueStep(q) PROVE GoesOn
    BY <1>2, <2>5, LookupsEnd, CustomizeEnds, ConnectionsEnd, ConversationGoesOn
    DEF QueueStep
  <2> QED
    BY <1>2, <2>1, <2>2, <2>3, <2>4, <2>5 DEF Change
<1> QED
  BY <1>1, <1>2 DEF Next

LEMMA RelaysSound == Spec => []RelayInv
<1>1. Init => RelayInv
  <2> SUFFICES ASSUME Init PROVE RelayInv
    OBVIOUS
  <2>1. /\ NoQueue \in Queue /\ NoQueue.stage = "idle" /\ NoQueue.rcpts = {}
        /\ Sound(NoQueue, row)
    BY NoQueueSound
  <2>2. Counts
    BY <2>1, RelayAssumption DEF Init, Counts, Scenario, Status
  <2>3. \A h \in Host : Connections(h) = {}
    BY <2>1 DEF Init, Connections, Open
  <2>4. InUse
    BY <2>3, FS_EmptySet DEF Init, InUse
  <2> QED
    BY <2>1, <2>2, <2>4 DEF Init, RelayInv, Apart
<1>2. RelayInv /\ [Next]_vars => RelayInv'
  BY RelaysGoOn DEF GoesOn
<1> QED
  BY <1>1, <1>2, PTL DEF Spec

-----------------------------------------------------------------------------
(* The state of relays, of mx_in_use and of the stored failures keeps its  *)
(* type: a server is never released more often than it was noted.          *)
THEOREM RelaysTyped == Spec => []TypeOK
<1>1. RelayInv => TypeOK
  <2> SUFFICES ASSUME RelayInv PROVE TypeOK
    OBVIOUS
  <2>1. ASSUME NEW q \in QueueId
        PROVE  /\ queue[q].mails \subseteq queue[q].rcpts
               /\ queue[q].stage \in {"connecting", "talk", "close"} => queue[q].host # NoName
    BY RelayAssumption DEF RelayInv, Sound
  <2> QED
    BY <2>1 DEF RelayInv, Counts, TypeOK
<1> QED
  BY <1>1, RelaysSound, PTL

(* mx_in_use counts the connections of each server, whichever of the ends  *)
(* of a connection (clientConnectionFailed, clientConnectionLost) takes it *)
(* away.                                                                   *)
THEOREM InUseAreOpen == Spec => []InUseIsOpen
<1>1. RelayInv => InUseIsOpen
  BY DEF RelayInv, InUse, InUseIsOpen, Connections, Open
<1> QED
  BY <1>1, RelaysSound, PTL

(* What a server answered for a recipient (sentMail) is not taken back when*)
(* the relay fails afterwards (_ebExchange), nor by another relay.         *)
THEOREM OutcomesStay == Spec => OutcomeStays
<1>1. RelayInv /\ [Next]_vars => [Kept]_vars
  BY RelaysGoOn DEF GoesOn
<1>2. Spec => [][Kept]_vars
  BY <1>1, RelaysSound, PTL DEF Spec
<1> QED
  BY <1>2 DEF Kept, OutcomeStays

(* A relay that fails rejects its recipients (_ebExchange) only after five *)
(* failures since a connection was last tried (add_dns_success).           *)
THEOREM RejectedAfterFive == Spec => RejectedInSeries
<1>1. RelayInv /\ [Next]_vars => [Rejects]_vars
  BY RelaysGoOn DEF GoesOn
<1>2. Spec => [][Rejects]_vars
  BY <1>1, RelaysSound, PTL DEF Spec
<1> QED
  BY <1>2 DEF Rejects, RejectedInSeries

-----------------------------------------------------------------------------
(* The lookup of the servers of a domain, for every zone.  Recursive       *)
(* definitions are reasoned about by the least number, or the least set,   *)
(* for which something fails.                                              *)

(* A set of numbers that is not empty has a least one.                     *)
LEMMA LeastNumber ==
  ASSUME NEW S, S \subseteq Nat, S # {}
  PROVE  \E m \in S : \A k \in S : m <= k
<1>1. PICK n : n \in S
  OBVIOUS
<1>2. n \in Nat
  BY <1>1
<1> DEFINE I == 0..n
           T == {0..m : m \in {j \in S : j <= n}}
<1>3. IsFiniteSet(I)
  BY <1>2, FS_Interval
<1>4. FiniteSubsetsOf(I) = SUBSET I
  BY <1>3, FS_FiniteSubsetsOfFinite
<1>5. IsWellFoundedOn(StrictSubsetOrdering(I), SUBSET I)
  BY <1>4, FS_StrictSubsetOrderingWellFounded
<1>6. T \subseteq SUBSET I
  BY <1>2
<1>7. T # {}
  BY <1>1, <1>2
<1> HIDE DEF I, T
<1>8. PICK x \in T : \A y \in T : ~(<<y, x>> \in StrictSubsetOrdering(I))
  BY <1>5, <1>6, <1>7, WFMin
<1>9. PICK m \in S : m <= n /\ x = 0..m
  BY <1>8 DEF T
<1>10. ASSUME NEW k \in S, k < m
       PROVE  FALSE
  <2>0. k \in Nat /\ m \in Nat /\ k <= n
    BY <1>10, <1>9, <1>2
  <2>1. 0..k \in T
    BY <2>0 DEF T
  <2>2. 0..k \subseteq 0..m
    BY <1>10, <2>0
  <2>3. m \in 0..m /\ m \notin 0..k
    BY <1>10, <2>0
  <2>4. <<0..k, x>> \in StrictSubsetOrdering(I)
    BY <2>1, <2>2, <2>3, <1>9, <1>6, <1>8 DEF StrictSubsetOrdering
  <2> QED BY <2>1, <2>4, <1>8
<1> QED BY <1>9, <1>10

(* The function that Follow defines exists, whatever the length asked for; *)
(* its values do not depend on it.                                         *)
Chain(zone, name, n, at) ==
  at = [k \in 0..n |-> IF k = 0 THEN name
                       ELSE IF at[k - 1] = NoName THEN NoName ELSE zone[at[k - 1]].to]

LEMMA ChainExists ==
  ASSUME NEW zone, NEW name, NEW n \in Nat
  PROVE  \E at : Chain(zone, name, n, at)
<1> DEFINE Bad == {m \in Nat : ~ \E at : Chain(zone, name, m, at)}
<1>1. SUFFICES ASSUME Bad # {} PROVE FALSE
  OBVIOUS
<1>2. PICK m \in Bad : \A k \in Bad : m <= k
  <2>1. Bad \subseteq Nat
    OBVIOUS
  <2> HIDE DEF Bad
  <2> QED BY <1>1, <2>1, LeastNumber
<1>3. CASE m = 0
  <2> DEFINE f == [k \in 0..0 |-> IF k = 0 THEN name
                       ELSE IF name = NoName THEN NoName ELSE zone[name].to]
  <2>1. f = [k \in 0..0 |-> IF k = 0 THEN name
                       ELSE IF f[k - 1] = NoName THEN NoName ELSE zone[f[k - 1]].to]
    OBVIOUS
  <2> HIDE DEF f
  <2>2. Chain(zone, name, 0, f)
    BY <2>1 DEF Chain
  <2> QED BY <2>2, <1>2, <1>3
<1>4. CASE m # 0
  <2>1. m - 1 \in Nat /\ m - 1 \notin Bad
    BY <1>2, <1>4
  <2>2. PICK f : Chain(zone, name, m - 1, f)
    BY <2>1
  <2> DEFINE g == [k \in 0..m |-> IF k = 0 THEN name
                       ELSE IF f[k - 1] = NoName THEN NoName ELSE zone[f[k - 1]].to]
  <2>3. \A k \in 0..(m - 1) : g[k] = f[k]
    BY <2>1, <2>2 DEF Chain
  <2>4. g = [k \in 0..m |-> IF k = 0 THEN name
                       ELSE IF g[k - 1] = NoName THEN NoName ELSE zone[g[k - 1]].to]
    <3> DEFINE G(k) == IF k = 0 THEN name
                       ELSE IF g[k - 1] = NoName THEN NoName ELSE zone[g[k - 1]].to
               H(k) == IF k = 0 THEN name
                       ELSE IF f[k - 1] = NoName THEN NoName ELSE zone[f[k - 1]].to
    <3>1. g = [k \in 0..m |-> H(k)]
      OBVIOUS
    <3> HIDE DEF g
    <3>2. \A k \in 0..m : k # 0 => k - 1 \in 0..(m - 1)
      BY <2>1
    <3>3. \A k \in 0..m : k # 0 => g[k - 1] = f[k - 1]
      BY <3>2, <2>3
    <3>4. \A k \in 0..m : G(k) = H(k)
      BY <3>3
    <3> HIDE DEF G, H
    <3>5. g = [k \in 0..m |-> G(k)]
      BY <3>1, <3>4
    <3> QED BY <3>5 DEF G
  <2> HIDE DEF g
  <2>5. Chain(zone, name, m, g)
    BY <2>4 DEF Chain
  <2> QED BY <2>5, <1>2
<1> QED BY <1>3, <1>4

LEMMA FollowIs ==
  ASSUME NEW zone, NEW name, NEW n \in Nat
  PROVE  \E at : Chain(zone, name, n, at) /\ Follow(zone, name, n) = at[n]
<1> DEFINE at == CHOOSE at : at = [k \in 0..n |-> IF k = 0 THEN name
                       ELSE IF at[k - 1] = NoName THEN NoName ELSE zone[at[k - 1]].to]
<1>1. \E f : f = [k \in 0..n |-> IF k = 0 THEN name
                       ELSE IF f[k - 1] = NoName THEN NoName ELSE zone[f[k - 1]].to]
  <2>1. \E f : Chain(zone, name, n, f)
    BY ChainExists
  <2> QED BY <2>1 DEF Chain
<1>2. at = [k \in 0..n |-> IF k = 0 THEN name
                       ELSE IF at[k - 1] = NoName THEN NoName ELSE zone[at[k - 1]].to]
  BY <1>1
<1>3. Follow(zone, name, n) = at[n]
  BY DEF Follow
<1> HIDE DEF at
<1> QED BY <1>2, <1>3 DEF Chain
LEMMA ChainsAgree ==
  ASSUME NEW zone, NEW name, NEW n \in Nat, NEW m \in Nat, NEW f, NEW g,
         Chain(zone, name, n, f), Chain(zone, name, m, g)
  PROVE  \A k \in Nat : k <= n /\ k <= m => f[k] = g[k]
<1> DEFINE Bad == {k \in Nat : k <= n /\ k <= m /\ f[k] # g[k]}
<1>1. SUFFICES ASSUME Bad # {} PROVE FALSE
  OBVIOUS
<1>2. PICK k \in Bad : \A j \in Bad : k <= j
  <2>1. Bad \subseteq Nat
    OBVIOUS
  <2> HIDE DEF Bad
  <2> QED BY <1>1, <2>1, LeastNumber
<1>3. k \in 0..n /\ k \in 0..m /\ f[k] # g[k]
  BY <1>2
<1>4. \A i \in 0..n : f[i] = IF i = 0 THEN name
                             ELSE IF f[i - 1] = NoName THEN NoName ELSE zone[f[i - 1]].to
  BY DEF Chain
<1>5. \A i \in 0..m : g[i] = IF i = 0 THEN name
                             ELSE IF g[i - 1] = NoName THEN NoName ELSE zone[g[i - 1]].to
  BY DEF Chain
<1>6. k # 0
  BY <1>3, <1>4, <1>5
<1>7. f[k - 1] = g[k - 1]
  BY <1>2, <1>3, <1>6
<1> QED BY <1>3, <1>4, <1>5, <1>6, <1>7

(* What follows a name.                                                    *)
Hop(zone, name) == IF name = NoName THEN NoName ELSE zone[name].to

LEMMA FollowZero ==
  ASSUME NEW zone, NEW name
  PROVE  Follow(zone, name, 0) = name
<1>1. PICK at : Chain(zone, name, 0, at) /\ Follow(zone, name, 0) = at[0]
  BY FollowIs
<1> QED BY <1>1 DEF Chain

LEMMA FollowNext ==
  ASSUME NEW zone, NEW name, NEW k \in Nat
  PROVE  Follow(zone, name, k + 1) = Hop(zone, Follow(zone, name, k))
<1>1. PICK f : Chain(zone, name, k, f) /\ Follow(zone, name, k) = f[k]
  BY FollowIs
<1>2. k + 1 \in Nat
  OBVIOUS
<1>3. PICK g : Chain(zone, name, k + 1, g) /\ Follow(zone, name, k + 1) = g[k + 1]
  BY <1>2, FollowIs
<1>4. f[k] = g[k]
  BY <1>1, <1>2, <1>3, ChainsAgree
<1>5. \A i \in 0..(k + 1) : g[i] = IF i = 0 THEN name
                             ELSE IF g[i - 1] = NoName THEN NoName ELSE zone[g[i - 1]].to
  BY <1>3 DEF Chain
<1>6. k + 1 \in 0..(k + 1) /\ k + 1 # 0 /\ (k + 1) - 1 = k
  OBVIOUS
<1>7. g[k + 1] = IF g[k] = NoName THEN NoName ELSE zone[g[k]].to
  BY <1>5, <1>6
<1> QED BY <1>1, <1>3, <1>4, <1>7 DEF Hop

LEMMA FollowFollow ==
  ASSUME NEW zone, NEW name, NEW j \in Nat
  PROVE  \A k \in Nat : Follow(zone, name, j + k) = Follow(zone, Follow(zone, name, j), k)
<1> DEFINE Bad == {k \in Nat : Follow(zone, name, j + k) # Follow(zone, Follow(zone, name, j), k)}
<1>1. SUFFICES ASSUME Bad # {} PROVE FALSE
  OBVIOUS
<1>2. PICK k \in Bad : \A i \in Bad : k <= i
  <2>1. Bad \subseteq Nat
    OBVIOUS
  <2> HIDE DEF Bad
  <2> QED BY <1>1, <2>1, LeastNumber
<1>3. k # 0
  BY <1>2, FollowZero
<1>4. k - 1 \in Nat /\ j + (k - 1) \in Nat
      /\ Follow(zone, name, j + (k - 1)) = Follow(zone, Follow(zone, name, j), k - 1)
  BY <1>2, <1>3
<1>5. Follow(zone, name, (j + (k - 1)) + 1) = Hop(zone, Follow(zone, name, j + (k - 1)))
  BY <1>4, FollowNext
<1>6. Follow(zone, Follow(zone, name, j), (k - 1) + 1)
        = Hop(zone, Follow(zone, Follow(zone, name, j), k - 1))
  BY <1>4, FollowNext
<1>7. (j + (k - 1)) + 1 = j + k /\ (k - 1) + 1 = k
  BY <1>2, <1>3
<1> QED BY <1>2, <1>4, <1>5, <1>6, <1>7

LEMMA FollowType ==
  ASSUME NEW zone \in Zone, NEW name \in Name \cup {NoName}
  PROVE  \A k \in Nat : Follow(zone, name, k) \in Name \cup {NoName}
<1> DEFINE Bad == {k \in Nat : Follow(zone, name, k) \notin Name \cup {NoName}}
<1>1. SUFFICES ASSUME Bad # {} PROVE FALSE
  OBVIOUS
<1>2. PICK k \in Bad : \A i \in Bad : k <= i
  <2>1. Bad \subseteq Nat
    OBVIOUS
  <2> HIDE DEF Bad
  <2> QED BY <1>1, <2>1, LeastNumber
<1>3. k # 0
  BY <1>2, FollowZero
<1>4. k - 1 \in Nat /\ Follow(zone, name, k - 1) \in Name \cup {NoName} /\ (k - 1) + 1 = k
  BY <1>2, <1>3
<1>5. Follow(zone, name, k) = Hop(zone, Follow(zone, name, k - 1))
  BY <1>4, FollowNext
<1> QED BY <1>2, <1>4, <1>5 DEF Hop, Zone, Records

(* The search of one answer, as a function of the records left in it; the  *)
(* first "n" levels are its values where at most n records are left.       *)
Looking(zone, name, answers, search, at, left) ==
  IF at \notin left THEN Nothing
  ELSE IF zone[at].to = NoName THEN Found(zone[at].exchanges)
  ELSE IF zone[at].to \notin answers THEN Ask(zone[at].to)
  ELSE IF zone[at].to = name THEN Loop
  ELSE search[left \ {at}][zone[at].to]

Levels(answers, n) == {left \in SUBSET answers : Cardinality(left) <= n}

Searching(zone, name, answers, domain, search) ==
  search = [left \in domain |->
              [at \in Name |-> Looking(zone, name, answers, search, at, left)]]

LEMMA SearchingLevels ==
  ASSUME NEW zone, NEW name, NEW answers, IsFiniteSet(answers), NEW n \in Nat
  PROVE  \E s : Searching(zone, name, answers, Levels(answers, n), s)
<1> DEFINE Bad == {m \in Nat : ~ \E s : Searching(zone, name, answers, Levels(answers, m), s)}
<1>1. SUFFICES ASSUME Bad # {} PROVE FALSE
  OBVIOUS
<1>2. PICK m \in Bad : \A k \in Bad : m <= k
  <2>1. Bad \subseteq Nat
    OBVIOUS
  <2> HIDE DEF Bad
  <2> QED BY <1>1, <2>1, LeastNumber
<1>a. \A left \in SUBSET answers : IsFiniteSet(left) /\ Cardinality(left) \in Nat
  BY FS_Subset, FS_CardinalityType
<1>3. CASE m = 0
  <2>1. Levels(answers, 0) \subseteq {{}}
    BY <1>a, FS_EmptySet DEF Levels
  <2> DEFINE s == [left \in Levels(answers, 0) |-> [at \in Name |-> Nothing]]
  <2>2. \A left \in Levels(answers, 0) : \A at \in Name :
          Looking(zone, name, answers, s, at, left) = Nothing
    BY <2>1 DEF Looking
  <2>3. s = [left \in Levels(answers, 0) |->
               [at \in Name |-> Looking(zone, name, answers, s, at, left)]]
    <3> HIDE DEF s
    <3>1. s = [left \in Levels(answers, 0) |-> [at \in Name |-> Nothing]]
      BY DEF s
    <3> QED BY <2>2, <3>1
  <2> HIDE DEF s
  <2>4. Searching(zone, name, answers, Levels(answers, 0), s)
    BY <2>3 DEF Searching
  <2> QED BY <2>4, <1>2, <1>3
<1>4. CASE m # 0
  <2>1. m - 1 \in Nat /\ m - 1 \notin Bad
    BY <1>2, <1>4
  <2>2. PICK f : Searching(zone, name, answers, Levels(answers, m - 1), f)
    BY <2>1
  <2> DEFINE g == [left \in Levels(answers, m) |->
                     [at \in Name |-> Looking(zone, name, answers, f, at, left)]]
  <2>3. \A left \in Levels(answers, m - 1) : g[left] = f[left]
    <3>1. \A left \in Levels(answers, m - 1) :
            f[left] = [at \in Name |-> Looking(zone, name, answers, f, at, left)]
      BY <2>2 DEF Searching
    <3>2. Levels(answers, m - 1) \subseteq Levels(answers, m)
      BY <1>2, <1>a DEF Levels
    <3> QED BY <3>1, <3>2
  <2>4. g = [left \in Levels(answers, m) |->
               [at \in Name |-> Looking(zone, name, answers, f, at, left)]]
    OBVIOUS
  <2> HIDE DEF g
  <2>5. \A left \in Levels(answers, m) : \A at \in left :
          left \ {at} \in Levels(answers, m - 1)
    <3> TAKE left \in Levels(answers, m)
    <3> TAKE at \in left
    <3>1. IsFiniteSet(left) /\ Cardinality(left) \in Nat /\ Cardinality(left) <= m
      BY <1>a DEF Levels
    <3>2. Cardinality(left \ {at}) = Cardinality(left) - 1
      BY <3>1, FS_RemoveElement
    <3>3. Cardinality(left \ {at}) <= m - 1
      BY <1>2, <3>1, <3>2
    <3> QED BY <3>3 DEF Levels
  <2>6. \A left \in Levels(answers, m) : \A at \in Name :
          Looking(zone, name, answers, f, at, left) = Looking(zone, name, answers, g, at, left)
    BY <2>3, <2>5 DEF Looking
  <2>7. g = [left \in Levels(answers, m) |->
               [at \in Name |-> Looking(zone, name, answers, g, at, left)]]
    BY <2>4, <2>6
  <2>8. Searching(zone, name, answers, Levels(answers, m), g)
    BY <2>7 DEF Searching
  <2> QED BY <2>8, <1>2
<1> QED BY <1>3, <1>4

LEMMA SearchIs ==
  ASSUME NEW zone, NEW name, NEW links, IsFiniteSet(Answer(zone, name, links))
  PROVE  \E s : /\ Searching(zone, name, Answer(zone, name, links),
                             SUBSET Answer(zone, name, links), s)
                /\ Search(zone, name, links) = s[Answer(zone, name, links)][name]
<1> DEFINE answers == Answer(zone, name, links)
           n == Cardinality(answers)
           search == CHOOSE s : s = [left \in SUBSET answers |-> [at \in Name |->
             IF at \notin left THEN Nothing
             ELSE IF zone[at].to = NoName THEN Found(zone[at].exchanges)
             ELSE IF zone[at].to \notin answers THEN Ask(zone[at].to)
             ELSE IF zone[at].to = name THEN Loop
             ELSE s[left \ {at}][zone[at].to]]]
<1>1. Search(zone, name, links) = search[answers][name]
  BY DEF Search
<1>2. \E s : s = [left \in SUBSET answers |-> [at \in Name |->
             IF at \notin left THEN Nothing
             ELSE IF zone[at].to = NoName THEN Found(zone[at].exchanges)
             ELSE IF zone[at].to \notin answers THEN Ask(zone[at].to)
             ELSE IF zone[at].to = name THEN Loop
             ELSE s[left \ {at}][zone[at].to]]]
  <2> HIDE DEF answers
  <2>0. IsFiniteSet(answers)
    BY DEF answers
  <2>1. n \in Nat
    BY <2>0, FS_CardinalityType
  <2>2. Levels(answers, n) = SUBSET answers
    BY <2>0, FS_Subset DEF Levels
  <2>3. \E s : Searching(zone, name, answers, Levels(answers, n), s)
    BY <2>0, <2>1, SearchingLevels
  <2>4. \E s : Searching(zone, name, answers, SUBSET answers, s)
    BY <2>2, <2>3
  <2> QED BY <2>4 DEF Searching, Looking
<1> HIDE DEF answers
<1>3. search = [left \in SUBSET answers |-> [at \in Name |->
             IF at \notin left THEN Nothing
             ELSE IF zone[at].to = NoName THEN Found(zone[at].exchanges)
             ELSE IF zone[at].to \notin answers THEN Ask(zone[at].to)
             ELSE IF zone[at].to = name THEN Loop
             ELSE search[left \ {at}][zone[at].to]]]
  BY <1>2
<1> HIDE DEF search
<1>4. Searching(zone, name, answers, SUBSET answers, search)
  BY <1>3 DEF Searching, Looking
<1> QED BY <1>1, <1>4 DEF answers

(* The requests, as a function of how many may still be sent.              *)
Asking(zone, links, get, name, left) ==
  IF Search(zone, name, links).kind # "ask" THEN Search(zone, name, links)
  ELSE IF left = 0 THEN TooLong
  ELSE get[left - 1][Search(zone, name, links).name]

Requests(zone, links, n, get) ==
  get = [left \in 0..n |-> [name \in Name |-> Asking(zone, links, get, name, left)]]

LEMMA RequestsExist ==
  ASSUME NEW zone, NEW links, NEW n \in Nat
  PROVE  \E get : Requests(zone, links, n, get)
<1> DEFINE Bad == {m \in Nat : ~ \E get : Requests(zone, links, m, get)}
<1>1. SUFFICES ASSUME Bad # {} PROVE FALSE
  OBVIOUS
<1>2. PICK m \in Bad : \A k \in Bad : m <= k
  <2>1. Bad \subseteq Nat
    OBVIOUS
  <2> HIDE DEF Bad
  <2> QED BY <1>1, <2>1, LeastNumber
<1>3. PICK f : m = 0 \/ Requests(zone, links, m - 1, f)
  <2>1. CASE m = 0
    BY <2>1
  <2>2. CASE m # 0
    <3>1. m - 1 \in Nat /\ m - 1 \notin Bad
      BY <1>2, <2>2
    <3> QED BY <3>1
  <2> QED BY <2>1, <2>2
<1> DEFINE g == [left \in 0..m |-> [name \in Name |-> Asking(zone, links, f, name, left)]]
<1>4. \A left \in 0..m : left # 0 => left - 1 \in 0..(m - 1) /\ g[left - 1] = f[left - 1]
  <2> TAKE left \in 0..m
  <2> HAVE left # 0
  <2>1. left - 1 \in 0..(m - 1) /\ m # 0 /\ left - 1 \in 0..m
    BY <1>2
  <2>2. f[left - 1] = [name \in Name |-> Asking(zone, links, f, name, left - 1)]
    BY <1>3, <2>1 DEF Requests
  <2> QED BY <2>1, <2>2
<1>5. g = [left \in 0..m |-> [name \in Name |-> Asking(zone, links, f, name, left)]]
  OBVIOUS
<1> HIDE DEF g
<1>6. \A left \in 0..m : \A name \in Name :
        Asking(zone, links, f, name, left) = Asking(zone, links, g, name, left)
  BY <1>4 DEF Asking
<1>7. g = [left \in 0..m |-> [name \in Name |-> Asking(zone, links, g, name, left)]]
  BY <1>5, <1>6
<1>8. Requests(zone, links, m, g)
  BY <1>7 DEF Requests
<1> QED BY <1>8, <1>2

LEMMA GetMXIs ==
  ASSUME NEW zone, NEW domain, NEW links
  PROVE  \E get : Requests(zone, links, 3, get) /\ GetMX(zone, domain, links) = get[3][domain]
<1> DEFINE get == CHOOSE s : s = [left \in 0..MaximumCanonicalChainLength |-> [name \in Name |->
             IF Search(zone, name, links).kind # "ask" THEN Search(zone, name, links)
             ELSE IF left = 0 THEN TooLong
             ELSE s[left - 1][Search(zone, name, links).name]]]
<1>1. GetMX(zone, domain, links) = get[MaximumCanonicalChainLength][domain]
  BY DEF GetMX
<1>2. \E s : s = [left \in 0..MaximumCanonicalChainLength |-> [name \in Name |->
             IF Search(zone, name, links).kind # "ask" THEN Search(zone, name, links)
             ELSE IF left = 0 THEN TooLong
             ELSE s[left - 1][Search(zone, name, links).name]]]
  <2>1. \E s : Requests(zone, links, 3, s)
    BY RequestsExist
  <2> QED BY <2>1 DEF Requests, Asking, MaximumCanonicalChainLength
<1>3. get = [left \in 0..MaximumCanonicalChainLength |-> [name \in Name |->
             IF Search(zone, name, links).kind # "ask" THEN Search(zone, name, links)
             ELSE IF left = 0 THEN TooLong
             ELSE get[left - 1][Search(zone, name, links).name]]]
  BY <1>2
<1> HIDE DEF get
<1>4. Requests(zone, links, 3, get)
  BY <1>3 DEF Requests, Asking, MaximumCanonicalChainLength
<1> QED BY <1>1, <1>4 DEF MaximumCanonicalChainLength

(* A name that is an alias, the names before the k-th being aliases, the   *)
(* k-th name having servers, no name having any.                           *)
Alias(zone, name) == name \in Name /\ zone[name].to # NoName
AliasesBefore(zone, name, k) ==
  \A i \in Nat : i < k => Alias(zone, Follow(zone, name, i))
HasEnd(zone, name, k) ==
  /\ Follow(zone, name, k) # NoName
  /\ zone[Follow(zone, name, k)].to = NoName
  /\ zone[Follow(zone, name, k)].exchanges # {}
NoEnd(zone, name) == \A k \in Nat : ~ HasEnd(zone, name, k)

LEMMA NothingFollows ==
  ASSUME NEW zone
  PROVE  \A k \in Nat : Follow(zone, NoName, k) = NoName
<1> DEFINE Bad == {k \in Nat : Follow(zone, NoName, k) # NoName}
<1>1. SUFFICES ASSUME Bad # {} PROVE FALSE
  OBVIOUS
<1>2. PICK k \in Bad : \A i \in Bad : k <= i
  <2>1. Bad \subseteq Nat
    OBVIOUS
  <2> HIDE DEF Bad
  <2> QED BY <1>1, <2>1, LeastNumber
<1>3. k # 0
  BY <1>2, FollowZero
<1>4. k - 1 \in Nat /\ Follow(zone, NoName, k - 1) = NoName /\ (k - 1) + 1 = k
  BY <1>2, <1>3
<1>5. Follow(zone, NoName, k) = Hop(zone, Follow(zone, NoName, k - 1))
  BY <1>4, FollowNext
<1> QED BY <1>2, <1>4, <1>5 DEF Hop

(* A chain that comes to a name without records has no end.                *)
LEMMA MissingNoEnd ==
  ASSUME NEW zone \in Zone, NEW name \in Name, NEW k \in Nat,
         AliasesBefore(zone, name, k), ~ Exists(zone, Follow(zone, name, k))
  PROVE  NoEnd(zone, name)
<1> SUFFICES ASSUME NEW i \in Nat, HasEnd(zone, name, i) PROVE FALSE
  BY DEF NoEnd
<1>1. CASE i < k
  BY <1>1 DEF HasEnd, AliasesBefore, Alias
<1>2. CASE i = k
  BY <1>2 DEF HasEnd, Exists
<1>3. CASE i > k
  <2>1. Follow(zone, name, k + 1) = NoName
    BY FollowNext DEF Hop, Exists
  <2>2. i - (k + 1) \in Nat /\ (k + 1) + (i - (k + 1)) = i /\ k + 1 \in Nat
    BY <1>3
  <2>3. Follow(zone, name, (k + 1) + (i - (k + 1)))
          = Follow(zone, Follow(zone, name, k + 1), i - (k + 1))
    BY <2>2, FollowFollow
  <2>4. Follow(zone, name, i) = NoName
    BY <2>1, <2>2, <2>3, NothingFollows
  <2> QED BY <2>4 DEF HasEnd
<1> QED BY <1>1, <1>2, <1>3

(* A chain that comes to a name again has no end.                          *)
LEMMA PeriodicNoEnd ==
  ASSUME NEW zone \in Zone, NEW name \in Name, NEW i \in Nat, NEW k \in Nat, i < k,
         AliasesBefore(zone, name, k), Follow(zone, name, i) = Follow(zone, name, k)
  PROVE  NoEnd(zone, name)
<1> DEFINE Bad == {j \in Nat : ~ Alias(zone, Follow(zone, name, j))}
<1>1. Bad = {}
  <2>1. SUFFICES ASSUME Bad # {} PROVE FALSE
    OBVIOUS
  <2>2. PICK j \in Bad : \A n \in Bad : j <= n
    <3>1. Bad \subseteq Nat
      OBVIOUS
    <3> HIDE DEF Bad
    <3> QED BY <2>1, <3>1, LeastNumber
  <2>3. j >= k
    BY <2>2 DEF AliasesBefore
  <2>4. j - k \in Nat /\ k + (j - k) = j /\ i + (j - k) \in Nat /\ i + (j - k) < j
    BY <2>2, <2>3
  <2>5. Follow(zone, name, k + (j - k)) = Follow(zone, Follow(zone, name, k), j - k)
    BY <2>4, FollowFollow
  <2>6. Follow(zone, name, i + (j - k)) = Follow(zone, Follow(zone, name, i), j - k)
    BY <2>4, FollowFollow
  <2>7. Follow(zone, name, i + (j - k)) = Follow(zone, name, j)
    BY <2>4, <2>5, <2>6
  <2>8. i + (j - k) \in Bad
    BY <2>2, <2>4, <2>7
  <2> HIDE DEF Bad
  <2>9. j \in Nat /\ j <= i + (j - k)
    BY <2>2, <2>8 DEF Bad
  <2> QED BY <2>4, <2>9
<1> QED BY <1>1 DEF NoEnd, HasEnd, Alias

(* What one answer tells of a name.                                        *)
Outcome(zone, name, links, result) ==
  \/ /\ result.kind = "found"
     /\ \E k \in 0..links : /\ HasEnd(zone, name, k)
                            /\ result.exchanges = zone[Follow(zone, name, k)].exchanges
  \/ result.kind \in {"nothing", "loop"} /\ NoEnd(zone, name)
  \/ /\ result.kind = "ask"
     /\ result.name = Follow(zone, name, links + 1)
     /\ result.name \in Name
     /\ AliasesBefore(zone, name, links + 1)
  \/ /\ result.kind = "ask"
     /\ result.name \in Name
     /\ ~ Exists(zone, result.name)
     /\ Alias(zone, name)
     /\ NoEnd(zone, name)

LEMMA AnswerIs ==
  ASSUME NEW zone \in Zone, NEW name \in Name, NEW links \in Nat
  PROVE  /\ \A n : n \in Answer(zone, name, links)
                     <=> /\ \E k \in 0..links : n = Follow(zone, name, k)
                         /\ Exists(zone, n)
         /\ Answer(zone, name, links) \subseteq Name
         /\ IsFiniteSet(Answer(zone, name, links))
<1>1. \A n : n \in Answer(zone, name, links)
               <=> (\E k \in 0..links : n = Follow(zone, name, k)) /\ Exists(zone, n)
  BY DEF Answer
<1>2. Answer(zone, name, links) \subseteq Name
  <2> SUFFICES ASSUME NEW n \in Answer(zone, name, links) PROVE n \in Name
    OBVIOUS
  <2>1. PICK k \in 0..links : n = Follow(zone, name, k)
    BY <1>1
  <2>2. n # NoName
    BY <1>1 DEF Exists
  <2> QED BY <2>1, <2>2, FollowType
<1>3. IsFiniteSet(Answer(zone, name, links))
  BY <1>2, FS_Subset, MXAssumption
<1> QED BY <1>1, <1>2, <1>3

(* Where the search stands after k aliases.                                *)
Unseen(zone, name, answers, k) ==
  answers \ {Follow(zone, name, i) : i \in {j \in Nat : j < k}}
Stands(zone, name, answers, s, result, k) ==
  /\ AliasesBefore(zone, name, k)
  /\ k = 0 \/ Follow(zone, name, k) \in answers
  /\ result = s[Unseen(zone, name, answers, k)][Follow(zone, name, k)]

(* One record looked at: the search is over, or stands one alias further.  *)
LEMMA SearchStep ==
  ASSUME NEW zone \in Zone, NEW name \in Name, NEW links \in Nat, NEW k \in Nat, NEW s, NEW result,
         Searching(zone, name, Answer(zone, name, links), SUBSET Answer(zone, name, links), s),
         Stands(zone, name, Answer(zone, name, links), s, result, k)
  PROVE  \/ Outcome(zone, name, links, result)
         \/ Stands(zone, name, Answer(zone, name, links), s, result, k + 1)
<1> DEFINE answers == Answer(zone, name, links)
           at == Follow(zone, name, k)
           left == Unseen(zone, name, answers, k)
<1>1. answers \subseteq Name /\ left \in SUBSET answers
  BY AnswerIs DEF Unseen
<1>2. at \in Name
  BY <1>1, FollowZero DEF Stands
<1>3. at = NoName => FALSE
  BY <1>2, MXAssumption
<1>4. Follow(zone, name, k + 1) = zone[at].to
  BY <1>3, FollowNext DEF Hop
<1>5. zone[at].to \in Name \cup {NoName}
  BY <1>2 DEF Zone, Records
<1>6. result = Looking(zone, name, answers, s, at, left)
  <2>1. s = [l \in SUBSET answers |-> [n \in Name |-> Looking(zone, name, answers, s, n, l)]]
    BY DEF Searching
  <2> QED BY <2>1, <1>1, <1>2 DEF Stands
<1>7. CASE at \notin left
  <2>1. result = Nothing
    BY <1>6, <1>7 DEF Looking
  <2>2. CASE at \notin answers
    <3>1. k = 0 /\ at = name
      BY <2>2, FollowZero DEF Stands
    <3>2. 0 \in 0..links /\ Follow(zone, name, 0) = name
      BY FollowZero
    <3>3. ~ Exists(zone, name)
      BY <2>2, <3>1, <3>2, AnswerIs
    <3>4. NoEnd(zone, name)
      BY <3>2, <3>3, MissingNoEnd DEF AliasesBefore
    <3> QED BY <2>1, <3>4 DEF Outcome, Nothing
  <2>3. CASE at \in answers
    <3>1. PICK i \in Nat : i < k /\ at = Follow(zone, name, i)
      BY <1>7, <2>3 DEF Unseen
    <3>2. NoEnd(zone, name)
      BY <3>1, PeriodicNoEnd DEF Stands
    <3> QED BY <2>1, <3>2 DEF Outcome, Nothing
  <2> QED BY <2>2, <2>3
<1>8. CASE at \in left
  <2>1. at \in answers /\ \A i \in Nat : i < k => at # Follow(zone, name, i)
    BY <1>8 DEF Unseen
  <2>2. PICK j \in 0..links : at = Follow(zone, name, j)
    BY <2>1, AnswerIs
  <2>3. Exists(zone, at) /\ k <= j /\ k <= links
    BY <2>1, <2>2, AnswerIs
  <2>4. CASE zone[at].to = NoName
    <3>1. result = Found(zone[at].exchanges)
      BY <1>6, <1>8, <2>4 DEF Looking
    <3>2. HasEnd(zone, name, j)
      BY <2>2, <2>3, <2>4, <1>3 DEF HasEnd, Exists
    <3> QED BY <2>2, <3>1, <3>2 DEF Outcome, Found
  <2>5. ASSUME zone[at].to # NoName
        PROVE  AliasesBefore(zone, name, k + 1)
    <3>1. Alias(zone, at)
      BY <1>2, <2>5 DEF Alias
    <3> QED BY <3>1 DEF AliasesBefore, Stands
  <2>6. CASE zone[at].to # NoName /\ zone[at].to \notin answers
    <3>1. result = Ask(zone[at].to)
      BY <1>6, <1>8, <2>6 DEF Looking
    <3>2. result.kind = "ask" /\ result.name = Follow(zone, name, k + 1) /\ result.name \in Name
      BY <3>1, <1>4, <1>5, <2>6 DEF Ask
    <3>3. CASE k = links
      BY <3>2, <3>3, <2>5, <2>6 DEF Outcome
    <3>4. CASE k # links
      <4>1. k + 1 \in 0..links
        BY <2>3, <3>4
      <4>2. ~ Exists(zone, result.name)
        BY <4>1, <3>2, <2>6, <1>4, AnswerIs
      <4>3. k + 1 \in Nat /\ ~ Exists(zone, Follow(zone, name, k + 1))
        BY <4>2, <3>2
      <4>4. NoEnd(zone, name)
        BY <4>3, <2>5, <2>6, MissingNoEnd
      <4>5. Alias(zone, name)
        BY <2>5, <2>6, FollowZero DEF AliasesBefore
      <4> QED BY <3>2, <4>2, <4>4, <4>5 DEF Outcome
    <3> QED BY <3>3, <3>4
  <2>7. CASE zone[at].to # NoName /\ zone[at].to \in answers /\ zone[at].to = name
    <3>1. result = Loop
      BY <1>6, <1>8, <2>7 DEF Looking
    <3>2. Follow(zone, name, 0) = Follow(zone, name, k + 1) /\ k + 1 \in Nat /\ 0 < k + 1
      BY <1>4, <2>7, FollowZero
    <3>3. NoEnd(zone, name)
      BY <3>2, <2>5, <2>7, PeriodicNoEnd
    <3> QED BY <3>1, <3>3 DEF Outcome, Loop
  <2>8. CASE zone[at].to # NoName /\ zone[at].to \in answers /\ zone[at].to # name
    <3>1. result = s[left \ {at}][zone[at].to]
      BY <1>6, <1>8, <2>8 DEF Looking
    <3>2. left \ {at} = Unseen(zone, name, answers, k + 1)
      <4>1. \A i \in Nat : i < k + 1 <=> i < k \/ i = k
        OBVIOUS
      <4> QED BY <4>1 DEF Unseen
    <3> QED BY <3>1, <3>2, <2>5, <2>8, <1>4 DEF Stands
  <2> QED BY <2>4, <2>6, <2>7, <2>8
<1> QED BY <1>7, <1>8

(* What a search finds is what the chain of aliases holds.                 *)
LEMMA SearchRight ==
  ASSUME NEW zone \in Zone, NEW name \in Name, NEW links \in Nat
  PROVE  Outcome(zone, name, links, Search(zone, name, links))
<1> DEFINE answers == Answer(zone, name, links)
           result == Search(zone, name, links)
<1>1. SUFFICES ASSUME ~ Outcome(zone, name, links, result) PROVE FALSE
  OBVIOUS
<1>2. PICK s : /\ Searching(zone, name, answers, SUBSET answers, s)
               /\ result = s[answers][name]
  BY AnswerIs, SearchIs
<1> HIDE DEF result
<1>3. Stands(zone, name, answers, s, result, 0)
  <2>1. Unseen(zone, name, answers, 0) = answers
    BY DEF Unseen
  <2> QED BY <1>2, <2>1, FollowZero DEF Stands, AliasesBefore
<1>4. \A k \in Nat : Stands(zone, name, answers, s, result, k)
  <2> DEFINE Bad == {k \in Nat : ~ Stands(zone, name, answers, s, result, k)}
  <2>1. SUFFICES ASSUME Bad # {} PROVE FALSE
    OBVIOUS
  <2>2. PICK k \in Bad : \A i \in Bad : k <= i
    <3>1. Bad \subseteq Nat
      OBVIOUS
    <3> HIDE DEF Bad
    <3> QED BY <2>1, <3>1, LeastNumber
  <2>3. k # 0
    BY <2>2, <1>3
  <2>4. k - 1 \in Nat /\ (k - 1) + 1 = k /\ Stands(zone, name, answers, s, result, k - 1)
    BY <2>2, <2>3
  <2>5. Stands(zone, name, answers, s, result, k)
    BY <2>4, <1>1, <1>2, SearchStep
  <2> QED BY <2>5, <2>2
<1>5. links + 1 \in Nat /\ Stands(zone, name, answers, s, result, links + 1)
  BY <1>4
<1>6. PICK j \in 0..links : Follow(zone, name, links + 1) = Follow(zone, name, j)
  BY <1>5, AnswerIs DEF Stands
<1>7. NoEnd(zone, name)
  <2>1. j \in Nat /\ j < links + 1
    BY <1>6
  <2> QED BY <1>5, <1>6, <2>1, PeriodicNoEnd DEF Stands
<1>8. result = Nothing
  <2>1. Follow(zone, name, links + 1) \notin Unseen(zone, name, answers, links + 1)
    BY <1>6 DEF Unseen
  <2>2. Unseen(zone, name, answers, links + 1) \in SUBSET answers
    BY DEF Unseen
  <2>3. Follow(zone, name, links + 1) \in Name
    BY <1>5, AnswerIs DEF Stands
  <2>4. s = [l \in SUBSET answers |-> [n \in Name |-> Looking(zone, name, answers, s, n, l)]]
    BY <1>2 DEF Searching
  <2>5. result = Looking(zone, name, answers, s, Follow(zone, name, links + 1),
                         Unseen(zone, name, answers, links + 1))
    BY <1>5, <2>2, <2>3, <2>4 DEF Stands
  <2> QED BY <2>1, <2>5 DEF Looking
<1> QED BY <1>1, <1>7, <1>8 DEF Outcome, Nothing

(* The result of a lookup, compared with where the aliases of the domain   *)
(* end.                                                                    *)
Right(zone, domain, links, result) ==
  IF result.kind = "found"
  THEN \E k \in Ends(zone, domain, links) :
         result.exchanges = zone[Follow(zone, domain, k)].exchanges
  ELSE Ends(zone, domain, links) = {}

LEMMA NoEndRight ==
  ASSUME NEW zone, NEW domain, NEW links \in Nat, NEW result, result.kind # "found",
         \A k \in 0..(4 * (links + 1) - 1) : ~ HasEnd(zone, domain, k)
  PROVE  Right(zone, domain, links, result)
<1>1. Ends(zone, domain, links) = {}
  BY DEF Ends, HasEnd
<1> QED BY <1>1 DEF Right

(* One request for the name p aliases away, when "left" more may follow.   *)
LEMMA RequestStep ==
  ASSUME NEW zone \in Zone, NEW domain \in Name, NEW links \in Nat, NEW get, NEW left \in 0..3,
         NEW p \in Nat, NEW result,
         Requests(zone, links, 3, get),
         p + (links + 1) <= 4 * (links + 1),
         left = 0 => p + (links + 1) = 4 * (links + 1),
         AliasesBefore(zone, domain, p),
         Follow(zone, domain, p) \in Name,
         result = get[left][Follow(zone, domain, p)]
  PROVE  \/ Right(zone, domain, links, result)
         \/ /\ left # 0
            /\ AliasesBefore(zone, domain, p + (links + 1))
            /\ Follow(zone, domain, p + (links + 1)) \in Name
            /\ result = get[left - 1][Follow(zone, domain, p + (links + 1))]
<1> DEFINE name == Follow(zone, domain, p)
           one == Search(zone, name, links)
           N == links + 1
<1>1. Outcome(zone, name, links, one)
  BY SearchRight
<1>2. \A l \in 0..3 : \A n \in Name : get[l][n] = Asking(zone, links, get, n, l)
  BY DEF Requests
<1>3. result = Asking(zone, links, get, name, left)
  BY <1>2
<1>4. \A k \in Nat : Follow(zone, domain, p + k) = Follow(zone, name, k)
  BY FollowFollow
<1>5. ASSUME NoEnd(zone, name)
      PROVE  \A k \in 0..(4 * N - 1) : ~ HasEnd(zone, domain, k)
  <2> SUFFICES ASSUME NEW k \in 0..(4 * N - 1), HasEnd(zone, domain, k) PROVE FALSE
    OBVIOUS
  <2>1. CASE k < p
    BY <2>1 DEF HasEnd, AliasesBefore, Alias
  <2>2. CASE k >= p
    <3>1. k - p \in Nat /\ p + (k - p) = k
      BY <2>2
    <3>2. HasEnd(zone, name, k - p)
      BY <3>1, <1>4 DEF HasEnd
    <3> QED BY <3>1, <3>2, <1>5 DEF NoEnd
  <2> QED BY <2>1, <2>2
<1> HIDE DEF one
<1>6. CASE one.kind = "found"
  <2>1. PICK k \in 0..links : /\ HasEnd(zone, name, k)
                              /\ one.exchanges = zone[Follow(zone, name, k)].exchanges
    BY <1>1, <1>6 DEF Outcome
  <2>2. result = one
    BY <1>3, <1>6 DEF Asking, one
  <2>3. p + k \in 0..(4 * N - 1)
    BY <2>1
  <2>4. p + k \in Ends(zone, domain, links)
    BY <2>1, <2>3, <1>4 DEF Ends, HasEnd
  <2>5. one.exchanges = zone[Follow(zone, domain, p + k)].exchanges
    BY <2>1, <1>4
  <2> QED BY <2>2, <2>4, <2>5, <1>6 DEF Right
<1>7. CASE one.kind \in {"nothing", "loop"}
  <2>1. result = one
    BY <1>3, <1>7 DEF Asking, one
  <2>2. NoEnd(zone, name)
    BY <1>1, <1>7 DEF Outcome
  <2> QED BY <2>1, <2>2, <1>5, <1>7, NoEndRight
<1>8. CASE /\ one.kind = "ask"
           /\ one.name = Follow(zone, name, N)
           /\ one.name \in Name
           /\ AliasesBefore(zone, name, N)
  <2>1. AliasesBefore(zone, domain, p + N)
    <3> SUFFICES ASSUME NEW i \in Nat, i < p + N PROVE Alias(zone, Follow(zone, domain, i))
      BY DEF AliasesBefore
    <3>1. CASE i < p
      BY <3>1 DEF AliasesBefore
    <3>2. CASE i >= p
      <4>1. i - p \in Nat /\ p + (i - p) = i /\ i - p < N
        BY <3>2
      <4>2. Follow(zone, domain, p + (i - p)) = Follow(zone, name, i - p)
        BY <4>1, <1>4
      <4>3. Alias(zone, Follow(zone, name, i - p))
        BY <4>1, <1>8 DEF AliasesBefore
      <4> QED BY <4>1, <4>2, <4>3
    <3> QED BY <3>1, <3>2
  <2>2. one.name = Follow(zone, domain, p + N)
    BY <1>4, <1>8
  <2>3. CASE left = 0
    <3>1. result = TooLong
      BY <1>3, <1>8, <2>3 DEF Asking, one
    <3>2. \A k \in 0..(4 * N - 1) : k \in Nat /\ k < p + N
      BY <2>3
    <3>3. \A k \in 0..(4 * N - 1) : ~ HasEnd(zone, domain, k)
      BY <3>2, <2>1 DEF AliasesBefore, Alias, HasEnd
    <3>4. result.kind # "found"
      BY <3>1 DEF TooLong
    <3> QED BY <3>3, <3>4, NoEndRight
  <2>4. CASE left # 0
    <3>1. result = get[left - 1][one.name]
      BY <1>3, <1>8, <2>4 DEF Asking, one
    <3> QED BY <3>1, <2>1, <2>2, <2>4, <1>8
  <2> QED BY <2>3, <2>4
<1>9. CASE /\ one.kind = "ask"
           /\ one.name \in Name
           /\ ~ Exists(zone, one.name)
           /\ NoEnd(zone, name)
  <2>1. result.kind # "found"
    <3>1. CASE left = 0
      <4>1. result = TooLong
        BY <1>3, <1>9, <3>1 DEF Asking, one
      <4> QED BY <4>1 DEF TooLong
    <3>2. CASE left # 0
      <4>1. result = get[left - 1][one.name]
        BY <1>3, <1>9, <3>2 DEF Asking, one
      <4>2. left - 1 \in 0..3
        BY <3>2
      <4>3. result = Asking(zone, links, get, one.name, left - 1)
        BY <4>1, <4>2, <1>2, <1>9
      <4>4. Outcome(zone, one.name, links, Search(zone, one.name, links))
        BY <1>9, SearchRight
      <4>5. Follow(zone, one.name, 0) = one.name
        BY FollowZero
      <4>6. ~ Alias(zone, one.name)
        BY <1>9, MXAssumption DEF Alias, Exists
      <4>7. NoEnd(zone, one.name)
        BY <1>9, <4>5, MissingNoEnd DEF AliasesBefore
      <4>8. ~ AliasesBefore(zone, one.name, links + 1)
        BY <4>5, <4>6 DEF AliasesBefore
      <4>9. Search(zone, one.name, links).kind \in {"nothing", "loop"}
        BY <4>4, <4>6, <4>7, <4>8 DEF Outcome, NoEnd
      <4> QED BY <4>3, <4>9 DEF Asking
    <3> QED BY <3>1, <3>2
  <2> QED BY <2>1, <1>5, <1>9, NoEndRight
<1> QED BY <1>1, <1>6, <1>7, <1>8, <1>9 DEF Outcome

(* get_mx finds the servers of the name a domain's aliases end in, if four *)
(* answers reach that far, and finds none otherwise: whatever aliases the  *)
(* DNS has, also in circles or without a target, and however many of them  *)
(* an answer holds (getMX, _cbMX).                                         *)
THEOREM ServersFound ==
  ASSUME NEW zone \in Zone, NEW domain \in Name, NEW links \in Nat
  PROVE  LookupIsRight(zone, domain, links)
<1> DEFINE result == GetMX(zone, domain, links)
<1>1. PICK get : Requests(zone, links, 3, get) /\ result = get[3][domain]
  BY GetMXIs
<1>2. PICK p \in Nat, q \in Nat, r \in Nat :
        p = links + 1 /\ q = p + (links + 1) /\ r = q + (links + 1)
  OBVIOUS
<1> HIDE DEF result
<1>3. AliasesBefore(zone, domain, 0) /\ Follow(zone, domain, 0) = domain
  BY FollowZero DEF AliasesBefore
<1>4. SUFFICES ASSUME ~ Right(zone, domain, links, result) PROVE FALSE
  BY DEF Right, LookupIsRight, result
<1>5. /\ AliasesBefore(zone, domain, p) /\ Follow(zone, domain, p) \in Name
      /\ result = get[2][Follow(zone, domain, p)]
  <2>1. 3 \in 0..3 /\ 0 \in Nat /\ 0 + (links + 1) <= 4 * (links + 1)
        /\ (3 = 0 => 0 + (links + 1) = 4 * (links + 1))
    BY <1>2
  <2>2. /\ AliasesBefore(zone, domain, 0) /\ Follow(zone, domain, 0) \in Name
        /\ result = get[3][Follow(zone, domain, 0)]
    BY <1>1, <1>3
  <2>3. \/ Right(zone, domain, links, result)
        \/ /\ 3 # 0
           /\ AliasesBefore(zone, domain, 0 + (links + 1))
           /\ Follow(zone, domain, 0 + (links + 1)) \in Name
           /\ result = get[3 - 1][Follow(zone, domain, 0 + (links + 1))]
    BY <1>1, <2>1, <2>2, RequestStep
  <2>4. 0 + (links + 1) = p /\ 3 - 1 = 2
    BY <1>2
  <2> QED BY <2>3, <2>4, <1>4
<1>6. /\ AliasesBefore(zone, domain, q) /\ Follow(zone, domain, q) \in Name
      /\ result = get[1][Follow(zone, domain, q)]
  <2>1. 2 \in 0..3 /\ p \in Nat /\ p + (links + 1) <= 4 * (links + 1)
        /\ (2 = 0 => p + (links + 1) = 4 * (links + 1))
    BY <1>2
  <2>2. /\ AliasesBefore(zone, domain, p) /\ Follow(zone, domain, p) \in Name
        /\ result = get[2][Follow(zone, domain, p)]
    BY <1>1, <1>5
  <2>3. \/ Right(zone, domain, links, result)
        \/ /\ 2 # 0
           /\ AliasesBefore(zone, domain, p + (links + 1))
           /\ Follow(zone, domain, p + (links + 1)) \in Name
           /\ result = get[2 - 1][Follow(zone, domain, p + (links + 1))]
    BY <1>1, <2>1, <2>2, RequestStep
  <2>4. p + (links + 1) = q /\ 2 - 1 = 1
    BY <1>2
  <2> QED BY <2>3, <2>4, <1>4
<1>7. /\ AliasesBefore(zone, domain, r) /\ Follow(zone, domain, r) \in Name
      /\ result = get[0][Follow(zone, domain, r)]
  <2>1. 1 \in 0..3 /\ q \in Nat /\ q + (links + 1) <= 4 * (links + 1)
        /\ (1 = 0 => q + (links + 1) = 4 * (links + 1))
    BY <1>2
  <2>2. /\ AliasesBefore(zone, domain, q) /\ Follow(zone, domain, q) \in Name
        /\ result = get[1][Follow(zone, domain, q)]
    BY <1>1, <1>6
  <2>3. \/ Right(zone, domain, links, result)
        \/ /\ 1 # 0
           /\ AliasesBefore(zone, domain, q + (links + 1))
           /\ Follow(zone, domain, q + (links + 1)) \in Name
           /\ result = get[1 - 1][Follow(zone, domain, q + (links + 1))]
    BY <1>1, <2>1, <2>2, RequestStep
  <2>4. q + (links + 1) = r /\ 1 - 1 = 0
    BY <1>2
  <2> QED BY <2>3, <2>4, <1>4
<1> QED
  <2>1. 0 \in 0..3 /\ r \in Nat /\ r + (links + 1) <= 4 * (links + 1)
        /\ (0 = 0 => r + (links + 1) = 4 * (links + 1))
    BY <1>2
  <2>2. /\ AliasesBefore(zone, domain, r) /\ Follow(zone, domain, r) \in Name
        /\ result = get[0][Follow(zone, domain, r)]
    BY <1>7
  <2>3. \/ Right(zone, domain, links, result)
        \/ /\ 0 # 0
           /\ AliasesBefore(zone, domain, r + (links + 1))
           /\ Follow(zone, domain, r + (links + 1)) \in Name
           /\ result = get[0 - 1][Follow(zone, domain, r + (links + 1))]
    BY <1>1, <2>1, <2>2, RequestStep
  <2> QED BY <2>3, <1>4

(* Every lookup of a relay is right, whatever the zone of its scenario.    *)
THEOREM LookupsRight == Spec => []LookupRight
<1>1. RelayInv => LookupRight
  <2> SUFFICES ASSUME RelayInv PROVE LookupRight
    OBVIOUS
  <2>1. scenario.zone \in Zone /\ scenario.links \in Nat
    BY DEF RelayInv, Counts, Scenario
  <2> QED
    BY <2>1, ServersFound, RelayAssumption DEF LookupRight
<1> QED
  BY <1>1, RelaysSound, PTL

=============================================================================
