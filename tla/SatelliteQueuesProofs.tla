----------------------- MODULE SatelliteQueuesProofs ------------------------
(***************************************************************************)
(* Proofs about SatelliteQueues: no row in progress is forgotten, nobody   *)
(* is in two queues, and what the limits on queues come to.                *)
(***************************************************************************)
EXTENDS SatelliteQueues, TLAPS, FiniteSetTheorems

-----------------------------------------------------------------------------
(* The inductive invariant.                                                *)

(* The parts of TypeOK, by who changes them.                               *)
RowStatus == {"none", "ready", "sending", "done"}
RowsOK ==
  /\ row \in [Recipient -> RowStatus]
  /\ open \subseteq Mailing /\ closed \subseteq Mailing
ThreadOK ==
  /\ locked \in BOOLEAN
  /\ step \in {"idle", "read", "fill", "make"} /\ half \in Half
  /\ mailings \subseteq Mailing /\ todo \subseteq Recipient /\ seen \in Nat
  /\ skipped \subseteq Domain
  /\ exchange \in [Half -> [Domain -> SUBSET Recipient]]
  /\ locked <=> step # "idle"
QueuesOK == queues \subseteq Queue /\ IsFiniteSet(queues) /\ checking \in BOOLEAN
OtherOK ==
  /\ spoiled \subseteq Recipient
  /\ budget \in Scenario /\ scenario \in Scenario
Typed == RowsOK /\ ThreadOK /\ QueuesOK /\ OtherOK

(* Queues are records in a set: their slots keep them apart.               *)
SlotsDiffer == \A p, q \in queues : p.slot = q.slot => p = q

(* Who holds a recipient.                                                  *)
InExchange(r) == \E h \in Half, d \in Domain : r \in exchange[h][d]
InQueue(r) == \E q \in queues : r \in q.left

(* An exchange has recipients of its domain and its half; there are rows   *)
(* to go through only while exchanges are filled, and rows of this half.   *)
Sorted ==
  \A h \in Half, d \in Domain : \A r \in exchange[h][d] :
    DomainOf[r] = d /\ HalfOf(r) = h
ToDoOfHalf == \A r \in todo : step = "fill" /\ HalfOf(r) = half

(* Whoever is held is marked, as long as its mailing is not closed: so a   *)
(* row that is ready is not held, and a copy of it neither before the      *)
(* thread comes to it.                                                     *)
Marked(r) ==
  InExchange(r) \/ InQueue(r) =>
    row[r] = "sending" \/ (row[r] = "none" /\ MailingOf[r] \in closed)
HeldOnce(r) ==
  /\ \A p, q \in queues : r \in p.left /\ r \in q.left => p = q
  /\ ~(InExchange(r) /\ InQueue(r))
  /\ r \in todo => ~InExchange(r) /\ ~InQueue(r)
HoldersOK ==
  /\ Sorted /\ ToDoOfHalf
  /\ \A r \in Recipient \ spoiled : Marked(r) /\ HeldOnce(r)

(* The limits while the thread works: what queues and exchanges come to.   *)
Exchanges(h) == Cardinality(DomainsIn(h))
Running == Cardinality(Managed)
NothingIn(h) == \A d \in Domain : exchange[h][d] = {}

ConnectionsOK ==
  /\ Running + Exchanges("normal") + Exchanges("testing")
       <= 2 * scenario.connections
  /\ step = "idle" => NothingIn("normal")
  /\ step # "make" /\ half = "normal" => NothingIn("testing")
  /\ step \in {"read", "fill"} => Running <= scenario.connections
  /\ step = "read" /\ half = "normal" => NothingIn("normal")
  /\ step = "fill" => /\ Running <= seen /\ seen <= scenario.connections
                      /\ Exchanges(half) <= scenario.connections - seen
  /\ half = "testing" => Exchanges("normal") <= scenario.connections
  /\ step \in {"idle", "make"} => half = "normal"
  /\ step = "read" /\ half = "testing" => NothingIn("testing")

HalvesOf(d) == {HalfOf(r) : r \in {r \in Recipient : DomainOf[r] = d}}
Has(h, d) == IF exchange[h][d] = {} THEN 0 ELSE 1
DomainsOK ==
  \A d \in Domain :
    Cardinality(OfDomain(d)) + Has("normal", d) + Has("testing", d)
      <= scenario.perDomain + Cardinality(HalvesOf(d)) - 1
SizesOK ==
  /\ \A q \in queues : Cardinality(q.left) <= MaxPerQueue
  /\ \A h \in Half, d \in Domain : Cardinality(exchange[h][d]) <= MaxPerQueue

LimitsOK == ConnectionsOK /\ DomainsOK /\ SizesOK

IInv == Typed /\ SlotsDiffer /\ NobodyForgotten /\ HoldersOK /\ LimitsOK

-----------------------------------------------------------------------------
(* Lemmas.                                                                 *)

LEMMA Kinds ==
  /\ Half = {"normal", "testing"}
  /\ \A r : HalfOf(r) \in Half
BY DEF Half, HalfOf

(* Replacing a member by another makes a set no larger.                    *)
LEMMA ReplaceMember ==
  ASSUME NEW S, IsFiniteSet(S), NEW a, NEW b, NEW T,
         T \subseteq (S \ {a}) \cup {b}, b \in T => a \in S
  PROVE  IsFiniteSet(T) /\ Cardinality(T) <= Cardinality(S)
<1>1. CASE a \in S
  <2> DEFINE U == S \ {a}
  <2>1. IsFiniteSet(U) /\ Cardinality(U) = Cardinality(S) - 1
    BY <1>1, FS_RemoveElement
  <2>2. Cardinality(S) \in Nat /\ Cardinality(U) \in Nat
    BY <2>1, FS_CardinalityType
  <2> HIDE DEF U
  <2>3. /\ IsFiniteSet(U \cup {b})
        /\ Cardinality(U \cup {b}) =
             IF b \in U THEN Cardinality(U) ELSE Cardinality(U) + 1
    BY <2>1, FS_AddElement
  <2>4. T \in SUBSET (U \cup {b})
    BY DEF U
  <2>5. IsFiniteSet(T) /\ Cardinality(T) <= Cardinality(U \cup {b})
    BY <2>3, <2>4, FS_Subset
  <2>6. Cardinality(T) \in Nat
    BY <2>5, FS_CardinalityType
  <2> QED
    BY <2>1, <2>2, <2>3, <2>5, <2>6
<1>2. CASE a \notin S
  BY <1>2, FS_Subset
<1> QED
  BY <1>1, <1>2

LEMMA OneMore ==
  ASSUME NEW S, IsFiniteSet(S), NEW x
  PROVE  /\ IsFiniteSet(S \cup {x}) /\ Cardinality(S \cup {x}) \in Nat
         /\ Cardinality(S \cup {x}) <= Cardinality(S) + 1
<1>1. Cardinality(S) \in Nat
  BY FS_CardinalityType
<1>2. /\ IsFiniteSet(S \cup {x})
      /\ Cardinality(S \cup {x}) =
           IF x \in S THEN Cardinality(S) ELSE Cardinality(S) + 1
  BY FS_AddElement
<1> QED
  BY <1>1, <1>2

(* One slot more than there are queues leaves a slot free.                 *)
LEMMA SlotIsFree ==
  ASSUME QueuesOK
  PROVE  FreeSlot \in Nat /\ \A q \in queues : q.slot # FreeSlot
<1> DEFINE n == Cardinality(queues)
           slots == 1..n + 1
           owner == [m \in slots |-> CHOOSE q \in queues : q.slot = m]
<1>1. n \in Nat
  BY FS_CardinalityType DEF QueuesOK
<1>2. IsFiniteSet(slots) /\ Cardinality(slots) = n + 1
  BY <1>1, FS_Interval
<1>3. SUFFICES ASSUME \A m \in slots : \E q \in queues : q.slot = m
               PROVE  FALSE
  <2>1. \E m \in 1..Cardinality(queues) + 1 : \A q \in queues : q.slot # m
    BY <1>3
  <2>2. /\ FreeSlot \in 1..Cardinality(queues) + 1
        /\ \A q \in queues : q.slot # FreeSlot
    BY <2>1 DEF FreeSlot
  <2> QED
    BY <1>1, <2>2
<1>4. owner \in [slots -> queues] /\ \A m \in slots : owner[m].slot = m
  BY <1>3
<1>5. Cardinality(queues) < Cardinality(slots)
  BY <1>1, <1>2
<1> HIDE DEF slots, owner
<1>6. \E x, y \in slots : x # y /\ owner[x] = owner[y]
  BY <1>2, <1>4, <1>5, FS_PigeonHole DEF QueuesOK
<1> QED
  BY <1>4, <1>6

(* What is in the hands of the thread or of a queue, member by member.     *)
LEMMA Held ==
  \A r : /\ r \in InExchanges <=> InExchange(r)
         /\ r \in InQueues <=> InQueue(r)
BY DEF InExchanges, InQueues, InExchange, InQueue
LEMMA HeldNext ==
  \A r : /\ r \in InExchanges' <=> InExchange(r)'
         /\ r \in InQueues' <=> InQueue(r)'
BY DEF InExchanges, InQueues, InExchange, InQueue

-----------------------------------------------------------------------------
(* Types.                                                                  *)

LEMMA BudgetTyped ==
  ASSUME budget \in Scenario
  PROVE  /\ \A r \in Recipient :
              budget.pages[r] > 0 =>
                [budget EXCEPT !.pages[r] = @ - 1] \in Scenario
         /\ \A m : [budget EXCEPT !.closes = @ \ {m}] \in Scenario
         /\ budget.zombies > 0 =>
              [budget EXCEPT !.zombies = @ - 1] \in Scenario
         /\ budget.stops > 0 => [budget EXCEPT !.stops = @ - 1] \in Scenario
BY DEF Scenario

LEMMA EmptyTyped ==
  /\ Empty \in [Half -> [Domain -> SUBSET Recipient]]
  /\ \A h \in Half, d \in Domain : Empty[h][d] = {}
BY DEF Empty

(* What queues become: a queue is removed, or replaced by one with no more *)
(* to send, of the same slot and domain; only MakeQueue adds one.          *)
Lessened(q, new) ==
  /\ q \in queues /\ new \in Queue
  /\ new.slot = q.slot /\ new.domain = q.domain /\ new.left \subseteq q.left
  /\ new.managed => q.managed
QueueGoes == \E q \in queues : queues' = queues \ {q}
QueueLessens == \E q, new \in Queue : Lessened(q, new) /\ Replace(q, new)

LEMMA QueuesElse ==
  ASSUME Typed, [Next]_vars
  PROVE  \/ UNCHANGED queues \/ QueueGoes \/ QueueLessens
         \/ queues' = {} /\ Restart
         \/ \E d \in Domain : MakeQueue(d)
<1> USE DEF rowVars, threadVars, queueVars, stateVars, vars
<1>1. CASE \E q \in queues : GiveUp(q)
  <2>1. PICK q \in queues : GiveUp(q)
    BY <1>1
  <2>2. PICK reached \in Reached(q) :
          Replace(q, [q EXCEPT !.left = @ \ reached, !.late = @ \cup reached,
                               !.managed = reached # q.left])
    BY <2>1 DEF GiveUp
  <2>3. q \in Queue /\ q.managed
    BY <2>1 DEF GiveUp, Typed, QueuesOK
  <2>4. reached \subseteq q.left
    BY <2>2, <2>3 DEF Reached
  <2> DEFINE new == [q EXCEPT !.left = @ \ reached, !.late = @ \cup reached,
                               !.managed = reached # q.left]
  <2>5. Lessened(q, new)
    BY <2>3, <2>4 DEF Lessened, Queue
  <2> QED
    BY <2>2, <2>3, <2>5 DEF QueueLessens, Lessened
<1>2. CASE \E q \in queues, r \in Recipient : EndRecipient(q, r) \/ EndLate(q, r)
  <2>1. PICK q \in queues, r \in Recipient : EndRecipient(q, r) \/ EndLate(q, r)
    BY <1>2
  <2>2. q \in Queue
    BY DEF Typed, QueuesOK
  <2>3. CASE EndRecipient(q, r)
    <3> DEFINE new == [q EXCEPT !.left = @ \ {r}]
    <3>1. Lessened(q, new)
      BY <2>2 DEF Lessened, Queue
    <3> QED
      BY <2>2, <2>3, <3>1 DEF QueueLessens, Lessened, EndRecipient
  <2>4. CASE EndLate(q, r)
    <3> DEFINE new == [q EXCEPT !.late = @ \ {r}]
    <3>1. Lessened(q, new)
      BY <2>2 DEF Lessened, Queue
    <3> QED
      BY <2>2, <2>4, <3>1 DEF QueueLessens, Lessened, EndLate
  <2> QED
    BY <2>1, <2>3, <2>4
<1>3. CASE \E q \in queues : FailQueue(q) \/ EndQueue(q)
  BY <1>3 DEF FailQueue, EndQueue, RemoveActiveRelay, QueueGoes
<1>4. CASE Restart
  BY <1>4 DEF Restart
<1>5. CASE ThreadStep
  BY <1>5 DEF ThreadStep, ReadRows, EndHalf, FinishThread, BreakThread,
              EndThread, PassOver, RefuseRow, SkipDomain, TakeRow, Handles
<1>6. CASE \/ \E r \in Recipient : ReceivePage(r) \/ Report(r)
           \/ \E m \in Mailing : CloseMailing(m)
           \/ CheckMailing \/ UNCHANGED vars
  BY <1>6 DEF ReceivePage, Report, CloseMailing, CheckMailing
<1> QED
  BY <1>1, <1>2, <1>3, <1>4, <1>5, <1>6 DEF Next, Change, QueueStep

LEMMA TypedInit == Init => Typed
<1> SUFFICES ASSUME Init PROVE Typed
  OBVIOUS
<1>1. RowsOK
  BY DEF Init, RowsOK, RowStatus
<1>2. ThreadOK
  BY EmptyTyped, Kinds DEF Init, ThreadOK
<1>3. QueuesOK
  BY FS_EmptySet DEF Init, QueuesOK
<1>4. OtherOK
  BY QueuesAssumption DEF Init, OtherOK
<1> QED
  BY <1>1, <1>2, <1>3, <1>4 DEF Typed

LEMMA QueuesTyped ==
  ASSUME Typed, [Next]_vars
  PROVE  queues' \subseteq Queue /\ IsFiniteSet(queues')
<1> USE DEF Typed, QueuesOK
<1>1. CASE UNCHANGED queues
  BY <1>1
<1>2. CASE QueueGoes
  BY <1>2, FS_Subset DEF QueueGoes
<1>3. CASE QueueLessens
  <2>1. PICK q \in Queue, new \in Queue : Lessened(q, new) /\ Replace(q, new)
    BY <1>3 DEF QueueLessens
  <2>2. queues' = (queues \ {q}) \cup {new} /\ q \in queues
    BY <2>1 DEF Lessened, Replace
  <2>3. queues' \subseteq Queue
    BY <2>2
  <2>4. IsFiniteSet(queues')
    BY <2>2, ReplaceMember
  <2> QED
    BY <2>3, <2>4
<1>4. CASE queues' = {}
  BY <1>4, FS_EmptySet
<1>5. CASE \E d \in Domain : MakeQueue(d)
  <2>1. PICK d \in Domain : MakeQueue(d)
    BY <1>5
  <2> DEFINE new == [slot |-> FreeSlot, domain |-> d,
                     left |-> exchange[MadeFirst][d],
                     late |-> {}, managed |-> TRUE]
  <2>2. MadeFirst \in Half
    BY Kinds DEF MadeFirst
  <2>3. exchange[MadeFirst][d] \subseteq Recipient
    BY <2>2 DEF ThreadOK
  <2>4. new \in Queue
    BY <2>3, SlotIsFree DEF Queue
  <2>5. queues' = queues \cup {new}
    BY <2>1 DEF MakeQueue
  <2> QED
    BY <2>4, <2>5, FS_AddElement
<1> QED
  BY <1>1, <1>2, <1>3, <1>4, <1>5, QueuesElse

LEMMA RowsTyped ==
  ASSUME Typed, [Next]_vars
  PROVE  RowsOK' /\ OtherOK'
<1> USE DEF rowVars, threadVars, queueVars, stateVars, vars, Typed, RowsOK,
            OtherOK, RowStatus
<1>1. CASE \E r \in Recipient : ReceivePage(r) \/ Report(r)
  BY <1>1, BudgetTyped, QueuesAssumption DEF ReceivePage, Report, Next
<1>2. CASE \E m \in Mailing : CloseMailing(m)
  <2>1. PICK m \in Mailing : CloseMailing(m)
    BY <1>2
  <2>2. RowsOK'
    BY <2>1 DEF CloseMailing
  <2>3. budget' \in Scenario
    BY <2>1, BudgetTyped DEF CloseMailing
  <2> QED
    BY <2>1, <2>2, <2>3 DEF CloseMailing, Next
<1>3. CASE CheckMailing \/ UNCHANGED vars
  BY <1>3 DEF CheckMailing, Next
<1>4. CASE ThreadStep
  <2>1. CASE ReadRows \/ EndHalf \/ FinishThread \/ \E d \in Domain : MakeQueue(d)
    BY <1>4, <2>1 DEF ReadRows, EndHalf, FinishThread, EndThread, MakeQueue, Next
  <2>2. CASE \E d \in Domain : BreakThread(d)
    <3>1. InExchanges \subseteq Recipient
      BY DEF InExchanges, ThreadOK
    <3> QED
      BY <1>4, <2>2, <3>1 DEF BreakThread, EndThread, Next
  <2>3. CASE \E r \in Recipient :
               PassOver(r) \/ RefuseRow(r) \/ SkipDomain(r) \/ TakeRow(r)
    BY <1>4, <2>3 DEF PassOver, RefuseRow, SkipDomain, TakeRow, Handles,
                      SetInProgress, Next
  <2> QED
    BY <1>4, <2>1, <2>2, <2>3 DEF ThreadStep
<1>5. CASE \E q \in queues : QueueStep(q)
  <2>1. PICK q \in queues : QueueStep(q)
    BY <1>5
  <2>2. q.left \subseteq Recipient /\ q.late \subseteq Recipient
    BY DEF QueuesOK, Queue
  <2> QED
    BY <2>1, <2>2 DEF QueueStep, FailQueue, EndQueue, EndRecipient, EndLate,
                      SaveFailure, Next
<1>6. CASE \E q \in queues : GiveUp(q)
  BY <1>6, BudgetTyped DEF GiveUp, SaveFailure, Next
<1>7. CASE Restart
  BY <1>7, BudgetTyped DEF Restart, Next
<1> QED
  BY <1>1, <1>2, <1>3, <1>4, <1>5, <1>6, <1>7 DEF Next, Change

LEMMA ThreadTyped ==
  ASSUME Typed, [Next]_vars
  PROVE  ThreadOK' /\ checking' \in BOOLEAN
<1> USE DEF rowVars, threadVars, queueVars, stateVars, vars, Typed, ThreadOK,
            QueuesOK
<1>1. Cardinality(Managed) \in Nat
  BY FS_Subset, FS_CardinalityType DEF Managed
<1>2. CASE ThreadStep
  <2>1. CASE ReadRows \/ EndHalf \/ FinishThread
    BY <1>1, <2>1, EmptyTyped, Kinds
    DEF ReadRows, EndHalf, FinishThread, EndThread, Unlock, Wanted, ToSend
  <2>2. CASE \E d \in Domain : MakeQueue(d) \/ BreakThread(d)
    <3>1. MadeFirst \in Half
      BY Kinds DEF MadeFirst
    <3>2. CASE \E d \in Domain : MakeQueue(d)
      BY <3>1, <3>2 DEF MakeQueue
    <3>3. CASE \E d \in Domain : BreakThread(d)
      BY <3>3, EmptyTyped DEF BreakThread, EndThread, Unlock
    <3> QED
      BY <2>2, <3>2, <3>3
  <2>3. CASE \E r \in Recipient :
               PassOver(r) \/ RefuseRow(r) \/ SkipDomain(r) \/ TakeRow(r)
    <3>1. PICK r \in Recipient :
            PassOver(r) \/ RefuseRow(r) \/ SkipDomain(r) \/ TakeRow(r)
      BY <2>3
    <3>2. DomainOf[r] \in Domain
      BY QueuesAssumption
    <3> QED
      BY <3>1, <3>2 DEF PassOver, RefuseRow, SkipDomain, TakeRow, Handles
  <2> QED
    BY <1>2, <2>1, <2>2, <2>3 DEF ThreadStep
<1>3. CASE CheckMailing
  BY <1>3, Kinds DEF CheckMailing, RowsOK
<1>4. CASE Restart
  BY <1>4, EmptyTyped, Kinds DEF Restart
<1>5. CASE \/ \E r \in Recipient : ReceivePage(r) \/ Report(r)
           \/ \E m \in Mailing : CloseMailing(m)
           \/ UNCHANGED vars
  BY <1>5 DEF ReceivePage, Report, CloseMailing
<1>6. CASE \E q \in queues : QueueStep(q)
  <2>1. UNCHANGED <<threadVars, checking>>
    BY <1>6 DEF QueueStep, FailQueue, EndQueue, EndRecipient, EndLate
  <2> QED
    BY <2>1
<1>7. CASE \E q \in queues : GiveUp(q)
  <2>1. checking' \in BOOLEAN
    BY <1>7, Zenon DEF GiveUp
  <2>2. UNCHANGED threadVars
    BY <1>7 DEF GiveUp
  <2> QED
    BY <2>1, <2>2
<1> QED
  BY <1>2, <1>3, <1>4, <1>5, <1>6, <1>7 DEF Next, Change

LEMMA TypedNext == Typed /\ [Next]_vars => Typed'
BY QueuesTyped, RowsTyped, ThreadTyped DEF Typed, QueuesOK

-----------------------------------------------------------------------------
(* Queues are told apart.                                                  *)

LEMMA SlotsNext ==
  ASSUME Typed, SlotsDiffer, [Next]_vars
  PROVE  SlotsDiffer'
<1>1. CASE UNCHANGED queues
  BY <1>1 DEF SlotsDiffer
<1>2. CASE QueueGoes
  BY <1>2 DEF QueueGoes, SlotsDiffer
<1>3. CASE QueueLessens
  BY <1>3 DEF QueueLessens, Lessened, Replace, SlotsDiffer
<1>4. CASE queues' = {}
  BY <1>4 DEF SlotsDiffer
<1>5. CASE \E d \in Domain : MakeQueue(d)
  <2>1. PICK d \in Domain : MakeQueue(d)
    BY <1>5
  <2> DEFINE new == [slot |-> FreeSlot, domain |-> d,
                     left |-> exchange[MadeFirst][d],
                     late |-> {}, managed |-> TRUE]
  <2>2. queues' = queues \cup {new} /\ new.slot = FreeSlot
    BY <2>1 DEF MakeQueue
  <2> HIDE DEF new
  <2> QED
    BY <2>2, SlotIsFree DEF SlotsDiffer, Typed
<1> QED
  BY <1>1, <1>2, <1>3, <1>4, <1>5, QueuesElse

-----------------------------------------------------------------------------
(* Nobody is forgotten.                                                    *)

(* Rows and what marks them, by steps.                                     *)
Forgotten(r) ==
  row[r] = "sending" /\ ~InExchange(r) /\ ~InQueue(r) /\ r \notin spoiled

LEMMA ForgottenIs == NobodyForgotten <=> \A r \in Recipient : ~Forgotten(r)
BY Held DEF NobodyForgotten, Forgotten
LEMMA ForgottenNext ==
  NobodyForgotten' <=> \A r \in Recipient : ~Forgotten(r)'
BY HeldNext DEF NobodyForgotten, Forgotten

LEMMA RowsForgotten ==
  ASSUME Typed, NobodyForgotten,
         \/ \E r \in Recipient : ReceivePage(r) \/ Report(r)
         \/ \E m \in Mailing : CloseMailing(m)
         \/ CheckMailing \/ UNCHANGED vars
  PROVE  NobodyForgotten'
<1> USE DEF rowVars, threadVars, queueVars, stateVars, vars, Typed, RowsOK
<1>1. UNCHANGED <<exchange, queues, spoiled>>
  BY DEF ReceivePage, Report, CloseMailing, CheckMailing
<1>2. \A r \in Recipient : row'[r] = "sending" => row[r] = "sending"
  BY DEF ReceivePage, Report, CloseMailing, CheckMailing
<1> QED
  BY <1>1, <1>2, ForgottenIs, ForgottenNext DEF Forgotten, InExchange, InQueue

LEMMA ThreadForgotten ==
  ASSUME Typed, NobodyForgotten, ThreadStep
  PROVE  NobodyForgotten'
<1> USE DEF rowVars, threadVars, queueVars, Typed, RowsOK, ThreadOK
<1> USE ForgottenIs, ForgottenNext DEF Forgotten
<1>1. CASE ReadRows \/ EndHalf
  BY <1>1 DEF ReadRows, EndHalf, InExchange, InQueue
<1>2. CASE FinishThread
  <2>1. \A r : ~InExchange(r)
    BY <1>2, Held DEF FinishThread
  <2> QED
    BY <1>2, <2>1 DEF FinishThread, EndThread, InQueue
<1>3. CASE \E d \in Domain : BreakThread(d)
  <2>1. \A r : InExchange(r) => r \in spoiled'
    BY <1>3, Held DEF BreakThread
  <2>2. UNCHANGED <<row, queues>> /\ spoiled \subseteq spoiled'
    BY <1>3 DEF BreakThread, EndThread
  <2> QED
    BY <2>1, <2>2 DEF InQueue
<1>4. CASE \E r \in Recipient : PassOver(r) \/ RefuseRow(r) \/ SkipDomain(r)
  <2>1. /\ UNCHANGED <<exchange, queues, spoiled>>
        /\ \A r \in Recipient : row'[r] = "sending" => row[r] = "sending"
    BY <1>4 DEF PassOver, RefuseRow, SkipDomain, Handles
  <2> QED
    BY <2>1 DEF InExchange, InQueue
<1>5. CASE \E r \in Recipient : TakeRow(r)
  <2>1. PICK r \in Recipient : TakeRow(r)
    BY <1>5
  <2>2. DomainOf[r] \in Domain
    BY QueuesAssumption
  <2>3. UNCHANGED <<queues, spoiled>>
    BY <2>1 DEF TakeRow, Handles
  <2>4. \A s \in Recipient : s # r => row'[s] = row[s]
    BY <2>1 DEF TakeRow, SetInProgress
  <2>5. InExchange(r)' /\ \A s : InExchange(s) => InExchange(s)'
    BY <2>1, <2>2 DEF TakeRow, InExchange
  <2> QED
    BY <2>3, <2>4, <2>5 DEF InQueue
<1>6. CASE \E d \in Domain : MakeQueue(d)
  <2>1. PICK d \in Domain : MakeQueue(d)
    BY <1>6
  <2>2. MadeFirst \in Half
    BY Kinds DEF MadeFirst
  <2>3. PICK new : new.left = exchange[MadeFirst][d] /\ queues' = queues \cup {new}
    BY <2>1 DEF MakeQueue
  <2>4. \A r : InExchange(r) => InExchange(r)' \/ InQueue(r)'
    BY <2>1, <2>2, <2>3 DEF MakeQueue, InExchange, InQueue
  <2>5. UNCHANGED <<row, spoiled>> /\ \A r : InQueue(r) => InQueue(r)'
    BY <2>1, <2>3 DEF MakeQueue, InQueue
  <2> QED
    BY <2>4, <2>5
<1> QED
  BY <1>1, <1>2, <1>3, <1>4, <1>5, <1>6 DEF ThreadStep

(* What remains in queues after a step of one.                             *)
LEMMA StillInQueue ==
  ASSUME NEW q \in queues, NEW new, Replace(q, new), NEW r, InQueue(r)
  PROVE  r \in q.left \ new.left \/ InQueue(r)'
BY DEF Replace, InQueue

(* Of what is given up nothing stays in progress, but for what is spoiled  *)
(* or still in the queue.                                                  *)
LEMMA QueueForgotten ==
  ASSUME Typed, NobodyForgotten,
         NEW q \in queues, QueueStep(q) \/ GiveUp(q)
  PROVE  NobodyForgotten'
<1> USE DEF rowVars, threadVars, queueVars, Typed, RowsOK, QueuesOK
<1> USE ForgottenIs, ForgottenNext DEF Forgotten
<1>1. UNCHANGED exchange
  BY DEF QueueStep, FailQueue, EndQueue, EndRecipient, EndLate, GiveUp
<1>2. q \in Queue /\ \A r : q.left \subseteq Recipient
  BY DEF Queue
<1>3. CASE \E r \in Recipient : EndRecipient(q, r)
  <2>1. PICK r \in Recipient : EndRecipient(q, r)
    BY <1>3
  <2>2. \A s : InQueue(s) => s = r \/ InQueue(s)'
    <3> DEFINE new == [q EXCEPT !.left = @ \ {r}]
    <3>1. Replace(q, new) /\ new.left = q.left \ {r}
      BY <1>2, <2>1 DEF EndRecipient, Queue
    <3> QED
      BY <3>1, StillInQueue
  <2>3. /\ \A s \in Recipient : row'[s] = "sending" => row[s] = "sending"
        /\ row'[r] # "sending" \/ r \in spoiled'
        /\ spoiled \subseteq spoiled'
    BY <2>1 DEF EndRecipient
  <2> QED
    BY <1>1, <2>2, <2>3 DEF InExchange
<1>4. CASE \E r \in Recipient : EndLate(q, r)
  <2>1. PICK r \in Recipient : EndLate(q, r)
    BY <1>4
  <2>2. \A s : InQueue(s) => InQueue(s)'
    <3> DEFINE new == [q EXCEPT !.late = @ \ {r}]
    <3>1. Replace(q, new) /\ new.left = q.left
      BY <1>2, <2>1 DEF EndLate, Queue
    <3> QED
      BY <3>1, StillInQueue
  <2>3. /\ \A s \in Recipient : row'[s] = "sending" => row[s] = "sending"
        /\ spoiled \subseteq spoiled'
    BY <2>1 DEF EndLate
  <2> QED
    BY <1>1, <2>2, <2>3 DEF InExchange
<1>5. CASE EndQueue(q)
  BY <1>1, <1>5 DEF EndQueue, RemoveActiveRelay, InQueue, InExchange
<1>6. CASE FailQueue(q)
  <2>1. PICK reached \in Reached(q) :
          /\ SaveFailure(reached)
          /\ spoiled' = spoiled \cup
                          (IF \A r \in q.left : IsOpen(r) THEN {}
                           ELSE q.left \ reached)
    BY <1>6 DEF FailQueue
  <2>2. \A r \in q.left : r \in reached \/ r \in spoiled'
    BY <2>1 DEF Reached
  <2>3. \A r \in Recipient :
          row'[r] = "sending" => row[r] = "sending" /\ r \notin reached
    BY <2>1 DEF SaveFailure
  <2>4. \A r : InQueue(r) => r \in q.left \/ InQueue(r)'
    BY <1>6 DEF FailQueue, RemoveActiveRelay, InQueue
  <2> QED
    BY <1>1, <2>1, <2>2, <2>3, <2>4 DEF InExchange
<1>7. CASE GiveUp(q)
  <2>1. PICK reached \in Reached(q) :
          /\ SaveFailure(reached)
          /\ Replace(q, [q EXCEPT !.left = @ \ reached,
                                  !.late = @ \cup reached,
                                  !.managed = reached # q.left])
    BY <1>7 DEF GiveUp
  <2>2. \A r \in Recipient :
          row'[r] = "sending" => row[r] = "sending" /\ r \notin reached
    BY <2>1 DEF SaveFailure
  <2>3. \A r : InQueue(r) => r \in reached \/ InQueue(r)'
    <3> DEFINE new == [q EXCEPT !.left = @ \ reached, !.late = @ \cup reached,
                                !.managed = reached # q.left]
    <3>1. Replace(q, new) /\ new.left = q.left \ reached
      BY <1>2, <2>1 DEF Queue
    <3> QED
      BY <3>1, StillInQueue
  <2> QED
    BY <1>1, <1>7, <2>2, <2>3 DEF InExchange, GiveUp
<1> QED
  BY <1>3, <1>4, <1>5, <1>6, <1>7 DEF QueueStep

LEMMA ForgottenPreserved ==
  ASSUME Typed, NobodyForgotten, [Next]_vars
  PROVE  NobodyForgotten'
<1>1. CASE Restart
  <2>1. \A r \in Recipient : row'[r] # "sending"
    BY <1>1 DEF Restart
  <2> QED
    BY <2>1 DEF NobodyForgotten
<1> QED
  BY <1>1, RowsForgotten, ThreadForgotten, QueueForgotten DEF Next, Change

-----------------------------------------------------------------------------
(* Nobody is held twice.                                                   *)

LEMMA SortedNext ==
  ASSUME Typed, HoldersOK, [Next]_vars
  PROVE  Sorted' /\ ToDoOfHalf'
<1> USE DEF rowVars, threadVars, queueVars, stateVars, vars, Typed, ThreadOK,
            HoldersOK
<1>1. CASE Restart
  BY <1>1, EmptyTyped DEF Restart, Sorted, ToDoOfHalf
<1>2. CASE \/ \E r \in Recipient : ReceivePage(r) \/ Report(r)
           \/ \E m \in Mailing : CloseMailing(m)
           \/ \E q \in queues : QueueStep(q) \/ GiveUp(q)
           \/ UNCHANGED vars
  <2>1. UNCHANGED threadVars
    BY <1>2 DEF ReceivePage, Report, CloseMailing, QueueStep, FailQueue,
                EndQueue, EndRecipient, EndLate, GiveUp
  <2> QED
    BY <2>1 DEF Sorted, ToDoOfHalf
<1>3. CASE CheckMailing
  BY <1>3 DEF CheckMailing, Sorted, ToDoOfHalf
<1>4. CASE ReadRows \/ EndHalf
  BY <1>4 DEF ReadRows, EndHalf, Sorted, ToDoOfHalf, Wanted
<1>5. CASE FinishThread \/ \E d \in Domain : BreakThread(d)
  <2>1. exchange' = Empty /\ todo' = todo /\ step = "make"
    BY <1>5 DEF FinishThread, BreakThread, EndThread
  <2> QED
    BY <2>1, EmptyTyped DEF Sorted, ToDoOfHalf
<1>6. CASE \E d \in Domain : MakeQueue(d)
  <2>1. PICK d \in Domain : MakeQueue(d)
    BY <1>6
  <2>2. /\ exchange' = [exchange EXCEPT ![MadeFirst][d] = {}]
        /\ UNCHANGED <<todo, step, half>> /\ MadeFirst \in Half
    BY <2>1, Kinds DEF MakeQueue, MadeFirst
  <2>3. \A h \in Half, c \in Domain : exchange'[h][c] \subseteq exchange[h][c]
    BY <2>2
  <2> QED
    BY <2>2, <2>3 DEF Sorted, ToDoOfHalf
<1>7. CASE \E r \in Recipient :
             PassOver(r) \/ RefuseRow(r) \/ SkipDomain(r) \/ TakeRow(r)
  <2>1. PICK r \in Recipient :
          PassOver(r) \/ RefuseRow(r) \/ SkipDomain(r) \/ TakeRow(r)
    BY <1>7
  <2>2. /\ step' = step /\ half' = half /\ r \in todo /\ todo' = todo \ {r}
        /\ \/ UNCHANGED exchange
           \/ exchange' = [exchange EXCEPT ![half][DomainOf[r]] = @ \cup {r}]
    BY <2>1 DEF PassOver, RefuseRow, SkipDomain, TakeRow, Handles
  <2>3. HalfOf(r) = half /\ DomainOf[r] \in Domain
    BY <2>2, QueuesAssumption DEF ToDoOfHalf
  <2>4. \A h \in Half, d \in Domain : \A s \in exchange'[h][d] :
          s \in exchange[h][d] \/ (s = r /\ h = half /\ d = DomainOf[r])
    BY <2>2, <2>3
  <2>5. Sorted'
    BY <2>3, <2>4 DEF Sorted, HalfOf
  <2>6. ToDoOfHalf'
    BY <2>2 DEF ToDoOfHalf, HalfOf
  <2> QED
    BY <2>5, <2>6
<1> QED
  BY <1>1, <1>2, <1>3, <1>4, <1>5, <1>6, <1>7 DEF Next, Change, ThreadStep

LEMMA RowsHeld ==
  ASSUME Typed, HoldersOK, NEW r \in Recipient \ spoiled,
         \/ \E s \in Recipient : ReceivePage(s) \/ Report(s)
         \/ \E m \in Mailing : CloseMailing(m)
         \/ CheckMailing \/ UNCHANGED vars
  PROVE  Marked(r)' /\ HeldOnce(r)'
<1> USE DEF rowVars, threadVars, queueVars, stateVars, vars, Typed, RowsOK
<1>1. UNCHANGED <<exchange, queues, todo>>
  BY DEF ReceivePage, Report, CloseMailing, CheckMailing
<1>2. /\ InExchange(r)' <=> InExchange(r)
      /\ InQueue(r)' <=> InQueue(r)
  BY <1>1 DEF InExchange, InQueue
<1>3. HeldOnce(r)'
  BY <1>1, <1>2 DEF HeldOnce, HoldersOK
<1>4. Marked(r)
  BY DEF HoldersOK
<1>5. CASE \E s \in Recipient : ReceivePage(s)
  <2>1. PICK s \in Recipient : ReceivePage(s)
    BY <1>5
  <2>2. closed' = closed /\ row' = [row EXCEPT ![s] = IF @ = "none" THEN "ready" ELSE @]
    BY <2>1 DEF ReceivePage
  <2>3. MailingOf[s] \in closed => ~InExchange(s) /\ ~InQueue(s)
    BY <2>1, Held DEF ReceivePage
  <2> QED
    BY <1>2, <1>3, <1>4, <2>2, <2>3 DEF Marked
<1>6. CASE \E s \in Recipient : Report(s)
  BY <1>2, <1>3, <1>4, <1>6 DEF Report, Marked
<1>7. CASE \E m \in Mailing : CloseMailing(m)
  BY <1>2, <1>3, <1>4, <1>7 DEF CloseMailing, Marked
<1>8. CASE CheckMailing \/ UNCHANGED vars
  BY <1>2, <1>3, <1>4, <1>8 DEF CheckMailing, Marked
<1> QED
  BY <1>5, <1>6, <1>7, <1>8

LEMMA ThreadHeld ==
  ASSUME Typed, HoldersOK, NEW r \in Recipient \ spoiled', ThreadStep
  PROVE  r \notin spoiled => Marked(r)' /\ HeldOnce(r)'
<1> USE DEF rowVars, threadVars, queueVars, Typed, RowsOK, ThreadOK
<1> SUFFICES ASSUME r \notin spoiled PROVE Marked(r)' /\ HeldOnce(r)'
  OBVIOUS
<1>0. Marked(r) /\ HeldOnce(r)
  BY DEF HoldersOK
<1>1. CASE ReadRows \/ EndHalf
  <2>1. /\ UNCHANGED <<exchange, queues, row, closed>>
        /\ r \in todo' => r \in todo \/ row[r] = "ready"
    BY <1>1 DEF ReadRows, EndHalf, Wanted, ToSend
  <2>2. /\ InExchange(r)' <=> InExchange(r)
        /\ InQueue(r)' <=> InQueue(r)
    BY <2>1 DEF InExchange, InQueue
  <2>3. row[r] = "ready" => ~InExchange(r) /\ ~InQueue(r)
    BY <1>0 DEF Marked
  <2>4. Marked(r)'
    BY <1>0, <2>1, <2>2 DEF Marked
  <2>5. HeldOnce(r)'
    BY <1>0, <2>1, <2>2, <2>3 DEF HeldOnce
  <2> QED
    BY <2>4, <2>5
<1>2. CASE FinishThread \/ \E d \in Domain : BreakThread(d)
  <2>1. exchange' = Empty /\ UNCHANGED <<queues, todo, row, closed>>
    BY <1>2 DEF FinishThread, BreakThread, EndThread
  <2>2. ~InExchange(r)' /\ (InQueue(r)' <=> InQueue(r))
    BY <2>1, EmptyTyped DEF InExchange, InQueue
  <2>3. Marked(r)'
    BY <1>0, <2>1, <2>2 DEF Marked
  <2>4. HeldOnce(r)'
    BY <1>0, <2>1, <2>2 DEF HeldOnce
  <2> QED
    BY <2>3, <2>4
<1>3. CASE \E s \in Recipient : PassOver(s) \/ RefuseRow(s) \/ SkipDomain(s)
  <2>1. PICK s \in Recipient : PassOver(s) \/ RefuseRow(s) \/ SkipDomain(s)
    BY <1>3
  <2>2. /\ UNCHANGED <<exchange, queues, closed>>
        /\ s \in todo /\ todo' = todo \ {s}
        /\ r # s => row'[r] = row[r]
    BY <2>1 DEF PassOver, RefuseRow, SkipDomain, Handles
  <2>3. /\ InExchange(r)' <=> InExchange(r)
        /\ InQueue(r)' <=> InQueue(r)
    BY <2>2 DEF InExchange, InQueue
  <2>4. r = s => ~InExchange(r) /\ ~InQueue(r)
    BY <1>0, <2>2 DEF HeldOnce
  <2>5. Marked(r)'
    BY <1>0, <2>2, <2>3, <2>4 DEF Marked
  <2>6. HeldOnce(r)'
    BY <1>0, <2>2, <2>3 DEF HeldOnce
  <2> QED
    BY <2>5, <2>6
<1>4. CASE \E s \in Recipient : TakeRow(s)
  <2>1. PICK s \in Recipient : TakeRow(s)
    BY <1>4
  <2>2. /\ UNCHANGED <<queues, closed>>
        /\ s \in todo /\ todo' = todo \ {s}
        /\ row' = [row EXCEPT ![s] = "sending"]
        /\ exchange' = [exchange EXCEPT ![half][DomainOf[s]] = @ \cup {s}]
    BY <2>1 DEF TakeRow, Handles, SetInProgress
  <2>3. /\ InExchange(r)' => InExchange(r) \/ r = s
        /\ InQueue(r)' <=> InQueue(r)
    BY <2>2 DEF InExchange, InQueue
  <2>4. r = s => ~InExchange(r) /\ ~InQueue(r)
    BY <1>0, <2>2 DEF HeldOnce
  <2>5. Marked(r)'
    BY <1>0, <2>2, <2>3 DEF Marked
  <2>6. HeldOnce(r)'
    BY <1>0, <2>2, <2>3, <2>4 DEF HeldOnce
  <2> QED
    BY <2>5, <2>6
<1>5. CASE \E d \in Domain : MakeQueue(d)
  <2>1. PICK d \in Domain : MakeQueue(d)
    BY <1>5
  <2> DEFINE rcpts == exchange[MadeFirst][d]
  <2>2. MadeFirst \in Half
    BY Kinds DEF MadeFirst
  <2>3. PICK new : new.left = rcpts /\ queues' = queues \cup {new}
    BY <2>1 DEF MakeQueue
  <2>4. UNCHANGED <<row, closed, todo>>
    BY <2>1 DEF MakeQueue
  <2>5. InExchange(r)' => InExchange(r) /\ r \notin rcpts
    <3>1. exchange' = [exchange EXCEPT ![MadeFirst][d] = {}]
      BY <2>1 DEF MakeQueue
    <3>2. \A h \in Half, c \in Domain :
            r \in exchange[h][c] => HalfOf(r) = h /\ DomainOf[r] = c
      BY DEF HoldersOK, Sorted
    <3>3. ASSUME NEW h \in Half, NEW c \in Domain, r \in exchange'[h][c]
          PROVE  r \in exchange[h][c] /\ ~(h = MadeFirst /\ c = d)
      BY <2>2, <3>1, <3>3
    <3> QED
      BY <2>2, <3>2, <3>3 DEF InExchange
  <2>6. InQueue(r)' <=> InQueue(r) \/ r \in rcpts
    BY <2>3 DEF InQueue
  <2>7. r \in rcpts => InExchange(r) /\ ~InQueue(r) /\ r \notin todo
    BY <1>0, <2>2 DEF HeldOnce, InExchange
  <2>8. Marked(r)'
    BY <1>0, <2>4, <2>5, <2>6, <2>7 DEF Marked
  <2> HIDE DEF rcpts
  <2>9. HeldOnce(r)'
    <3>1. \A p, q \in queues' : r \in p.left /\ r \in q.left => p = q
      BY <1>0, <2>3, <2>7 DEF HeldOnce, InQueue
    <3>2. ~(InExchange(r) /\ InQueue(r))'
      BY <1>0, <2>5, <2>6 DEF HeldOnce
    <3>3. (r \in todo => ~InExchange(r) /\ ~InQueue(r))'
      BY <1>0, <2>4, <2>5, <2>6, <2>7 DEF HeldOnce
    <3> QED
      BY <3>1, <3>2, <3>3 DEF HeldOnce
  <2> QED
    BY <2>8, <2>9
<1> QED
  BY <1>1, <1>2, <1>3, <1>4, <1>5 DEF ThreadStep

(* After a step that leaves a queue less to send, the others are free.     *)
LEMMA QueueLetsGo ==
  ASSUME NEW r, HeldOnce(r), NEW q \in queues, NEW new,
         new.left \subseteq q.left, queues' \subseteq (queues \ {q}) \cup {new},
         UNCHANGED <<exchange, todo>>
  PROVE  /\ HeldOnce(r)'
         /\ InQueue(r)' => InQueue(r)
         /\ InExchange(r)' <=> InExchange(r)
         /\ r \in q.left \ new.left => ~InQueue(r)' /\ ~InExchange(r)'
<1>1. InExchange(r)' <=> InExchange(r)
  BY DEF InExchange
<1>2. InQueue(r)' => InQueue(r)
  BY DEF InQueue
<1>3. \A p, o \in queues' : r \in p.left /\ r \in o.left => p = o
  BY DEF HeldOnce
<1>4. HeldOnce(r)'
  BY <1>1, <1>2, <1>3 DEF HeldOnce
<1>5. r \in q.left \ new.left => ~InQueue(r)' /\ ~InExchange(r)'
  BY <1>1 DEF HeldOnce, InQueue
<1> QED
  BY <1>1, <1>2, <1>4, <1>5

LEMMA QueueHeld ==
  ASSUME Typed, HoldersOK, NEW r \in Recipient \ spoiled',
         NEW q \in queues, QueueStep(q) \/ GiveUp(q)
  PROVE  Marked(r)' /\ HeldOnce(r)'
<1> USE DEF rowVars, threadVars, queueVars, Typed, RowsOK, QueuesOK
<1>0. UNCHANGED <<exchange, todo, closed>>
  BY DEF QueueStep, FailQueue, EndQueue, EndRecipient, EndLate, GiveUp
<1>1. spoiled \subseteq spoiled'
  BY DEF QueueStep, FailQueue, EndQueue, EndRecipient, EndLate, GiveUp
<1>2. Marked(r) /\ HeldOnce(r) /\ q \in Queue
  BY <1>1 DEF HoldersOK
<1>3. CASE \E s \in Recipient : EndRecipient(q, s)
  <2>1. PICK s \in Recipient : EndRecipient(q, s)
    BY <1>3
  <2> DEFINE new == [q EXCEPT !.left = @ \ {s}]
  <2>2. new.left = q.left \ {s} /\ queues' = (queues \ {q}) \cup {new}
    BY <1>2, <2>1 DEF EndRecipient, Replace, Queue
  <2>3. s \in q.left /\ (r # s => row'[r] = row[r])
    BY <2>1 DEF EndRecipient
  <2> HIDE DEF new
  <2>4. /\ HeldOnce(r)'
        /\ InQueue(r)' => InQueue(r)
        /\ InExchange(r)' <=> InExchange(r)
        /\ r \in q.left \ new.left => ~InQueue(r)' /\ ~InExchange(r)'
    BY <1>0, <1>2, <2>2, QueueLetsGo
  <2> QED
    BY <1>0, <1>2, <2>2, <2>3, <2>4 DEF Marked
<1>4. CASE \E s \in Recipient : EndLate(q, s)
  <2>1. PICK s \in Recipient : EndLate(q, s)
    BY <1>4
  <2> DEFINE new == [q EXCEPT !.late = @ \ {s}]
  <2>2. new.left = q.left /\ queues' = (queues \ {q}) \cup {new}
    BY <1>2, <2>1 DEF EndLate, Replace, Queue
  <2>3. row'[r] = row[r] \/ (~InExchange(r) /\ ~InQueue(r))
    BY <2>1, Held DEF EndLate
  <2> HIDE DEF new
  <2>4. /\ HeldOnce(r)'
        /\ InQueue(r)' => InQueue(r)
        /\ InExchange(r)' <=> InExchange(r)
    BY <1>0, <1>2, <2>2, QueueLetsGo
  <2> QED
    BY <1>0, <1>2, <2>3, <2>4 DEF Marked
<1>5. CASE EndQueue(q)
  <2>1. queues' \subseteq (queues \ {q}) \cup {q} /\ row' = row
    BY <1>5 DEF EndQueue, RemoveActiveRelay
  <2>2. /\ HeldOnce(r)'
        /\ InQueue(r)' => InQueue(r)
        /\ InExchange(r)' <=> InExchange(r)
    BY <1>0, <1>2, <2>1, QueueLetsGo
  <2> QED
    BY <1>0, <1>2, <2>1, <2>2 DEF Marked
<1>6. CASE FailQueue(q)
  <2>1. PICK reached \in Reached(q) : SaveFailure(reached)
    BY <1>6 DEF FailQueue
  <2> DEFINE new == [q EXCEPT !.left = {}]
  <2>2. new.left = {} /\ queues' \subseteq (queues \ {q}) \cup {new}
    BY <1>2, <1>6 DEF FailQueue, RemoveActiveRelay, Queue
  <2>3. r \in q.left \/ row'[r] = row[r]
    BY <2>1 DEF SaveFailure, Reached
  <2> HIDE DEF new
  <2>4. /\ HeldOnce(r)'
        /\ InQueue(r)' => InQueue(r)
        /\ InExchange(r)' <=> InExchange(r)
        /\ r \in q.left \ new.left => ~InQueue(r)' /\ ~InExchange(r)'
    BY <1>0, <1>2, <2>2, QueueLetsGo
  <2> QED
    BY <1>0, <1>2, <2>2, <2>3, <2>4 DEF Marked
<1>7. CASE GiveUp(q)
  <2>1. PICK reached \in Reached(q) :
          /\ SaveFailure(reached)
          /\ Replace(q, [q EXCEPT !.left = @ \ reached,
                                  !.late = @ \cup reached,
                                  !.managed = reached # q.left])
    BY <1>7 DEF GiveUp
  <2> DEFINE new == [q EXCEPT !.left = @ \ reached, !.late = @ \cup reached,
                              !.managed = reached # q.left]
  <2>2. new.left = q.left \ reached /\ queues' = (queues \ {q}) \cup {new}
    BY <1>2, <2>1 DEF Replace, Queue
  <2>3. (r \in q.left /\ r \in reached) \/ row'[r] = row[r]
    BY <2>1 DEF SaveFailure, Reached
  <2> HIDE DEF new
  <2>4. /\ HeldOnce(r)'
        /\ InQueue(r)' => InQueue(r)
        /\ InExchange(r)' <=> InExchange(r)
        /\ r \in q.left \ new.left => ~InQueue(r)' /\ ~InExchange(r)'
    BY <1>0, <1>2, <2>2, QueueLetsGo
  <2> QED
    BY <1>0, <1>2, <2>2, <2>3, <2>4 DEF Marked
<1> QED
  BY <1>3, <1>4, <1>5, <1>6, <1>7 DEF QueueStep

LEMMA HoldersNext ==
  ASSUME Typed, HoldersOK, [Next]_vars
  PROVE  HoldersOK'
<1> USE DEF rowVars, threadVars, queueVars, stateVars, vars
<1>1. ASSUME NEW r \in Recipient \ spoiled' PROVE Marked(r)' /\ HeldOnce(r)'
  <2>1. CASE Restart
    <3>1. queues' = {} /\ todo' = {} /\ exchange' = Empty
      BY <2>1 DEF Restart
    <3>2. ~InExchange(r)' /\ ~InQueue(r)'
      BY <3>1, EmptyTyped DEF InExchange, InQueue
    <3> QED
      BY <3>1, <3>2 DEF Marked, HeldOnce
  <2>2. CASE \/ \E s \in Recipient : ReceivePage(s) \/ Report(s)
             \/ \E m \in Mailing : CloseMailing(m)
             \/ CheckMailing \/ UNCHANGED vars
    <3>1. spoiled' = spoiled
      BY <2>2 DEF ReceivePage, Report, CloseMailing, CheckMailing
    <3> QED
      BY <1>1, <2>2, <3>1, RowsHeld
  <2>3. CASE ThreadStep
    <3>1. spoiled \subseteq spoiled'
      BY <2>3 DEF ThreadStep, ReadRows, EndHalf, FinishThread, BreakThread,
                  MakeQueue, PassOver, RefuseRow, SkipDomain, TakeRow, Handles
    <3> QED
      BY <1>1, <2>3, <3>1, ThreadHeld
  <2>4. CASE \E q \in queues : QueueStep(q) \/ GiveUp(q)
    BY <1>1, <2>4, QueueHeld
  <2> QED
    BY <2>1, <2>2, <2>3, <2>4 DEF Next, Change
<1> QED
  BY <1>1, SortedNext DEF HoldersOK

LEMMA HeldInOnePlace ==
  ASSUME Typed, HoldersOK
  PROVE  OneQueueEach
<1> SUFFICES ASSUME NEW r \in Recipient \ spoiled
             PROVE  Cardinality({q \in queues : r \in q.left})
                      + Cardinality({h \in Half : r \in exchange[h][DomainOf[r]]})
                      <= 1
  BY DEF OneQueueEach
<1> DEFINE qs == {q \in queues : r \in q.left}
           hs == {h \in Half : r \in exchange[h][DomainOf[r]]}
<1>1. HeldOnce(r) /\ Sorted /\ DomainOf[r] \in Domain
  BY QueuesAssumption DEF HoldersOK
<1>2. qs = {} \/ \E q : qs = {q}
  BY <1>1 DEF HeldOnce
<1>3. hs = {} \/ hs = {HalfOf(r)}
  BY <1>1 DEF Sorted
<1>4. qs = {} \/ hs = {}
  BY <1>1 DEF HeldOnce, InExchange, InQueue
<1>5. Cardinality({}) = 0 /\ \A x : Cardinality({x}) = 1
  BY FS_EmptySet, FS_Singleton
<1> HIDE DEF qs, hs
<1>6. Cardinality(qs) \in {0, 1} /\ Cardinality(hs) \in {0, 1}
  BY <1>2, <1>3, <1>5, Zenon
<1>7. Cardinality(qs) + Cardinality(hs) <= 1
  <2>1. CASE qs = {}
    BY <1>5, <1>6, <2>1
  <2>2. CASE hs = {}
    BY <1>5, <1>6, <2>2
  <2> QED
    BY <1>4, <2>1, <2>2
<1> QED
  BY <1>7 DEF qs, hs

-----------------------------------------------------------------------------
(* Limits.                                                                 *)

Countable ==
  /\ Running \in Nat /\ \A d : Cardinality(OfDomain(d)) \in Nat
  /\ IsFiniteSet(Managed) /\ \A d : IsFiniteSet(OfDomain(d))
  /\ \A h \in Half : IsFiniteSet(DomainsIn(h)) /\ Exchanges(h) \in Nat
  /\ \A h \in Half, d \in Domain :
       IsFiniteSet(exchange[h][d]) /\ Cardinality(exchange[h][d]) \in Nat
  /\ \A q \in queues : IsFiniteSet(q.left)

LEMMA Counts == Typed /\ HoldersOK => Countable
<1> SUFFICES ASSUME Typed, HoldersOK PROVE Countable
  OBVIOUS
<1>1. IsFiniteSet(Managed) /\ \A d : IsFiniteSet(OfDomain(d))
  BY FS_Subset DEF Typed, QueuesOK, Managed, OfDomain
<1>2. ASSUME NEW h \in Half PROVE IsFiniteSet(DomainsIn(h))
  <2> DEFINE D == {DomainOf[r] : r \in Recipient}
  <2>1. DomainOf \in [Recipient -> D]
    BY QueuesAssumption
  <2>2. DomainOf \in Surjection(Recipient, D)
    BY <2>1, Zenon DEF Surjection
  <2>3. IsFiniteSet(D)
    BY <2>2, FS_Surjection, QueuesAssumption
  <2>4. DomainsIn(h) \in SUBSET D
    BY DEF DomainsIn, HoldersOK, Sorted, Typed, ThreadOK
  <2> QED
    BY <2>3, <2>4, FS_Subset
<1>3. \A h \in Half, d \in Domain : IsFiniteSet(exchange[h][d])
  BY QueuesAssumption, FS_Subset DEF Typed, ThreadOK
<1>4. \A q \in queues : IsFiniteSet(q.left)
  BY QueuesAssumption, FS_Subset DEF Typed, QueuesOK, Queue
<1> QED
  BY <1>1, <1>2, <1>3, <1>4, FS_CardinalityType
  DEF Running, Exchanges, Countable

LEMMA CountsNext == Typed' /\ HoldersOK' => Countable'
BY Counts, PTL

LEMMA NothingCounts ==
  ASSUME NEW h, NothingIn(h)
  PROVE  Exchanges(h) = 0 /\ \A d \in Domain : Has(h, d) = 0
<1>1. DomainsIn(h) = {}
  BY DEF NothingIn, DomainsIn
<1> QED
  BY <1>1, FS_EmptySet DEF Exchanges, NothingIn, Has

(* A domain whose recipients are of both halves may have one queue more.   *)
LEMMA HalvesCount ==
  ASSUME NEW d
  PROVE  /\ Cardinality(HalvesOf(d)) \in Nat
         /\ \A h \in HalvesOf(d) : Cardinality(HalvesOf(d)) >= 1
         /\ {"normal", "testing"} \subseteq HalvesOf(d) =>
              Cardinality(HalvesOf(d)) >= 2
<1>1. HalvesOf(d) \in SUBSET {"normal", "testing"}
  BY Kinds DEF HalvesOf
<1>2. /\ \A x : IsFiniteSet({x}) /\ Cardinality({x}) = 1
      /\ IsFiniteSet({"normal", "testing"})
      /\ Cardinality({"normal", "testing"}) = 2
  <2>1. \A x : IsFiniteSet({x}) /\ Cardinality({x}) = 1
    BY FS_Singleton
  <2>2. {"normal", "testing"} = {"normal"} \cup {"testing"}
    OBVIOUS
  <2>3. "testing" \notin {"normal"}
    OBVIOUS
  <2> QED
    <3> DEFINE first == {"normal"}
    <3>1. IsFiniteSet(first) /\ Cardinality(first) = 1 /\ "testing" \notin first
      BY <2>1, <2>3
    <3> HIDE DEF first
    <3>2. /\ IsFiniteSet(first \cup {"testing"})
          /\ Cardinality(first \cup {"testing"}) = 2
      BY <3>1, FS_AddElement
    <3> QED
      BY <2>1, <2>2, <3>2 DEF first
<1>3. IsFiniteSet(HalvesOf(d))
  BY <1>1, <1>2, FS_Subset
<1>4. Cardinality(HalvesOf(d)) \in Nat
  BY <1>3, FS_CardinalityType
<1>5. ASSUME NEW h \in HalvesOf(d) PROVE Cardinality(HalvesOf(d)) >= 1
  <2>1. {h} \in SUBSET HalvesOf(d)
    OBVIOUS
  <2>2. Cardinality({h}) <= Cardinality(HalvesOf(d))
    BY <1>3, <2>1, FS_Subset
  <2> QED
    BY <1>2, <1>4, <2>2
<1>6. ASSUME {"normal", "testing"} \subseteq HalvesOf(d)
      PROVE  Cardinality(HalvesOf(d)) >= 2
  <2>1. HalvesOf(d) = {"normal", "testing"}
    BY <1>1, <1>6
  <2> QED
    BY <1>2, <2>1
<1> QED
  BY <1>4, <1>5, <1>6

(* Queues that end, or are left less to send, are within all limits.       *)
LEMMA FewerQueues ==
  ASSUME Typed, HoldersOK,
         UNCHANGED queues \/ QueueGoes \/ QueueLessens \/ queues' = {}
  PROVE  /\ Running' <= Running
         /\ \A d : Cardinality(OfDomain(d)') <= Cardinality(OfDomain(d))
         /\ (\A q \in queues : Cardinality(q.left) <= MaxPerQueue) =>
              \A q \in queues' : Cardinality(q.left) <= MaxPerQueue
<1>1. IsFiniteSet(Managed) /\ \A d : IsFiniteSet(OfDomain(d))
  BY FS_Subset DEF Typed, QueuesOK, Managed, OfDomain
<1>2. Running \in Nat /\ \A d : Cardinality(OfDomain(d)) \in Nat
  BY Counts DEF Countable
<1>3. CASE UNCHANGED queues
  <2>1. Managed' = Managed /\ \A d : OfDomain(d)' = OfDomain(d)
    BY <1>3 DEF Managed, OfDomain
  <2> QED
    BY <1>2, <1>3, <2>1 DEF Running
<1>4. CASE QueueGoes \/ queues' = {}
  <2>1. queues' \subseteq queues
    BY <1>4 DEF QueueGoes
  <2>2. Managed' \in SUBSET Managed /\ \A d : OfDomain(d)' \in SUBSET OfDomain(d)
    BY <2>1 DEF Managed, OfDomain
  <2> QED
    BY <1>1, <2>1, <2>2, FS_Subset DEF Running
<1>5. CASE QueueLessens
  <2>1. PICK q \in Queue, new \in Queue : Lessened(q, new) /\ Replace(q, new)
    BY <1>5 DEF QueueLessens
  <2>2. /\ queues' = (queues \ {q}) \cup {new} /\ q \in queues
        /\ new.domain = q.domain /\ new.left \subseteq q.left
        /\ new.managed => q.managed
    BY <2>1 DEF Lessened, Replace
  <2>3. /\ Managed' \subseteq (Managed \ {q}) \cup {new}
        /\ new \in Managed' => q \in Managed
    BY <2>2 DEF Managed
  <2>4. Running' <= Running
    BY <1>1, <2>2, <2>3, ReplaceMember DEF Running, Managed
  <2>5. ASSUME NEW d
        PROVE  Cardinality(OfDomain(d)') <= Cardinality(OfDomain(d))
    <3>1. OfDomain(d)' \subseteq (OfDomain(d) \ {q}) \cup {new}
      BY <2>2 DEF OfDomain, Managed
    <3>2. new \in OfDomain(d)' => q \in OfDomain(d)
      BY <2>2 DEF OfDomain, Managed
    <3> QED
      BY <1>1, <3>1, <3>2, ReplaceMember
  <2>6. Cardinality(new.left) <= Cardinality(q.left)
    <3>1. IsFiniteSet(q.left) /\ new.left \in SUBSET q.left
      BY <2>2, Counts DEF Countable
    <3> QED
      BY <3>1, FS_Subset
  <2>7. Cardinality(q.left) \in Nat /\ Cardinality(new.left) \in Nat
    <3>1. IsFiniteSet(q.left) /\ new.left \in SUBSET q.left
      BY <2>2, Counts DEF Countable
    <3> QED
      BY <3>1, FS_Subset, FS_CardinalityType
  <2> QED
    BY <2>2, <2>4, <2>5, <2>6, <2>7, QueuesAssumption
<1> QED
  BY <1>3, <1>4, <1>5

(* Steps of queues, and of nobody the limits know of.                      *)
LEMMA QueueLimits ==
  ASSUME Typed, HoldersOK, LimitsOK, [Next]_vars,
         \/ \E r \in Recipient : ReceivePage(r) \/ Report(r)
         \/ \E m \in Mailing : CloseMailing(m)
         \/ \E q \in queues : QueueStep(q) \/ GiveUp(q)
         \/ UNCHANGED vars
  PROVE  LimitsOK'
<1> USE DEF rowVars, threadVars, queueVars, stateVars, vars
<1>1. UNCHANGED threadVars /\ UNCHANGED scenario
  BY DEF ReceivePage, Report, CloseMailing, QueueStep, FailQueue, EndQueue,
         EndRecipient, EndLate, GiveUp, Next
<1>2. \A d \in Domain : ~MakeQueue(d)
  <2>1. ASSUME NEW d \in Domain, MakeQueue(d) PROVE FALSE
    <3>1. MadeFirst \in Half
      BY Kinds DEF MadeFirst
    <3>2. exchange'[MadeFirst][d] = {} /\ exchange[MadeFirst][d] # {}
      BY <2>1, <3>1 DEF MakeQueue, Typed, ThreadOK
    <3> QED
      BY <1>1, <3>2
  <2> QED
    BY <2>1
<1>3. /\ Running' <= Running
      /\ \A d : Cardinality(OfDomain(d)') <= Cardinality(OfDomain(d))
      /\ \A q \in queues' : Cardinality(q.left) <= MaxPerQueue
  BY <1>2, QueuesElse, FewerQueues DEF LimitsOK, SizesOK
<1>4. Countable /\ Countable'
  BY Counts, CountsNext, TypedNext, HoldersNext
<1>5. /\ Running \in Nat /\ Running' \in Nat
      /\ \A d : /\ Cardinality(OfDomain(d)) \in Nat
               /\ Cardinality(OfDomain(d)') \in Nat
  BY <1>4 DEF Countable
<1>7. ConnectionsOK'
  <2>1. \A h : Exchanges(h)' = Exchanges(h) /\ NothingIn(h)' = NothingIn(h)
    BY <1>1 DEF Exchanges, DomainsIn, NothingIn
  <2>2. /\ Exchanges("normal") \in Nat /\ Exchanges("testing") \in Nat
        /\ Exchanges(half) \in Nat
    BY <1>4, Kinds DEF Countable, Typed, ThreadOK
  <2>3. scenario.connections \in Nat /\ seen \in Nat
    BY DEF Typed, OtherOK, Scenario, ThreadOK
  <2>4. ConnectionsOK
    BY DEF LimitsOK
  <2>5. Exchanges(half)' = Exchanges(half)
    BY <1>1 DEF Exchanges, DomainsIn
  <2> QED
    BY <1>1, <1>3, <1>5, <2>1, <2>2, <2>3, <2>4, <2>5 DEF ConnectionsOK
<1>8. DomainsOK'
  <2>1. SUFFICES ASSUME NEW d \in Domain
                 PROVE  Cardinality(OfDomain(d)') + Has("normal", d)' + Has("testing", d)'
                          <= scenario'.perDomain + Cardinality(HalvesOf(d)) - 1
    BY DEF DomainsOK, HalvesOf, HalfOf
  <2>2. \A h : Has(h, d)' = Has(h, d) /\ Has(h, d) \in {0, 1}
    BY <1>1 DEF Has
  <2>3. Cardinality(OfDomain(d)) + Has("normal", d) + Has("testing", d)
          <= scenario.perDomain + Cardinality(HalvesOf(d)) - 1
    BY DEF LimitsOK, DomainsOK
  <2>4. Cardinality(HalvesOf(d)) \in Nat /\ scenario.perDomain \in Nat
    BY HalvesCount DEF Typed, OtherOK, Scenario
  <2> QED
    BY <1>1, <1>3, <1>5, <2>2, <2>3, <2>4
<1>9. SizesOK'
  BY <1>1, <1>3 DEF LimitsOK, SizesOK
<1> QED
  BY <1>7, <1>8, <1>9 DEF LimitsOK

(* Steps of the thread that leave exchanges alone.                         *)
LEMMA PassingLimits ==
  ASSUME Typed, HoldersOK, LimitsOK, UNCHANGED scenario,
         \/ CheckMailing \/ ReadRows \/ EndHalf
         \/ \E r \in Recipient : PassOver(r) \/ RefuseRow(r) \/ SkipDomain(r)
  PROVE  LimitsOK'
<1> USE DEF rowVars, threadVars, queueVars, stateVars, vars
<1>1. UNCHANGED <<exchange, queues, scenario>>
  BY DEF CheckMailing, ReadRows, EndHalf, PassOver, RefuseRow, SkipDomain,
         Handles
<1>2. /\ \A h : Exchanges(h)' = Exchanges(h) /\ NothingIn(h)' = NothingIn(h)
      /\ Running' = Running
  <2>1. Managed' = Managed /\ \A h : DomainsIn(h)' = DomainsIn(h)
    BY <1>1 DEF Managed, DomainsIn
  <2> QED
    BY <1>1, <2>1 DEF Exchanges, NothingIn, Running
<1>3. /\ Running \in Nat /\ seen \in Nat /\ scenario.connections \in Nat \ {0}
      /\ Exchanges("normal") \in Nat /\ Exchanges("testing") \in Nat
      /\ half \in {"normal", "testing"}
  BY Counts, Kinds DEF Countable, Typed, ThreadOK, OtherOK, Scenario
<1>4. /\ NothingIn("normal") => Exchanges("normal") = 0
      /\ NothingIn("testing") => Exchanges("testing") = 0
  BY NothingCounts
<1>5. ConnectionsOK
  BY DEF LimitsOK
<1>6. ConnectionsOK'
  <2>1. CASE CheckMailing
    <3>1. Running <= scenario.connections
      <4>1. scenario.connections \div 2 <= scenario.connections
        BY <1>3
      <4>2. Running < IF scenario.connections \div 2 = 0 THEN 1
                      ELSE scenario.connections \div 2
        BY <2>1 DEF CheckMailing, Few, Running
      <4> QED
        BY <1>3, <4>1, <4>2
    <3>2. /\ step = "idle" /\ step' = "read" /\ half' = "normal"
      BY <2>1 DEF CheckMailing, Typed, ThreadOK
    <3> QED
      BY <1>1, <1>2, <1>3, <1>5, <3>1, <3>2 DEF ConnectionsOK
  <2>2. CASE ReadRows
    <3>1. /\ step = "read" /\ step' = "fill" /\ half' = half
          /\ seen' = Running
      BY <2>2 DEF ReadRows, Running
    <3>2. Exchanges(half)' = Exchanges(half) /\ Exchanges(half') = Exchanges(half)
      BY <1>2, <3>1
    <3>3. Exchanges(half)' = 0
      BY <1>2, <1>3, <1>4, <1>5, <3>1, <3>2 DEF ConnectionsOK
    <3> QED
      BY <1>1, <1>2, <1>3, <1>5, <3>1, <3>3 DEF ConnectionsOK
  <2>3. CASE EndHalf
    <3>1. /\ step = "fill"
          /\ step' = (IF half = "normal" THEN "read" ELSE "make")
          /\ half' = (IF half = "normal" THEN "testing" ELSE "normal")
      BY <2>3 DEF EndHalf
    <3>2. CASE half = "normal"
      BY <1>1, <1>2, <1>3, <1>5, <3>1, <3>2 DEF ConnectionsOK
    <3>3. CASE half = "testing"
      BY <1>1, <1>2, <1>3, <1>5, <3>1, <3>3 DEF ConnectionsOK
    <3> QED
      BY <1>3, <3>2, <3>3
  <2>4. CASE \E r \in Recipient : PassOver(r) \/ RefuseRow(r) \/ SkipDomain(r)
    <3>1. UNCHANGED <<step, half, seen>>
      BY <2>4 DEF PassOver, RefuseRow, SkipDomain, Handles
    <3>2. Exchanges(half)' = Exchanges(half)
      BY <1>1, <3>1 DEF Exchanges, DomainsIn
    <3> QED
      BY <1>1, <1>2, <1>5, <3>1, <3>2 DEF ConnectionsOK
  <2> QED
    BY <2>1, <2>2, <2>3, <2>4
<1>7. DomainsOK'
  <2>1. \A d : /\ OfDomain(d)' = OfDomain(d)
               /\ \A h : Has(h, d)' = Has(h, d)
    BY <1>1 DEF OfDomain, Managed, Has
  <2> QED
    BY <1>1, <2>1 DEF LimitsOK, DomainsOK, HalvesOf, HalfOf
<1>8. SizesOK'
  BY <1>1 DEF LimitsOK, SizesOK
<1> QED
  BY <1>6, <1>7, <1>8 DEF LimitsOK

(* The thread ends, or the process: exchanges are empty then.              *)
LEMMA EmptyingLimits ==
  ASSUME Typed, HoldersOK, LimitsOK, [Next]_vars,
         Restart \/ FinishThread \/ \E d \in Domain : BreakThread(d)
  PROVE  LimitsOK'
<1> USE DEF rowVars, threadVars, queueVars, stateVars, vars
<1>1. /\ exchange' = Empty /\ step' = "idle" /\ half' = "normal"
      /\ scenario' = scenario /\ (UNCHANGED queues \/ queues' = {})
  <2>1. step = "make" => half = "normal"
    BY DEF LimitsOK, ConnectionsOK
  <2> QED
    BY <2>1 DEF Restart, FinishThread, BreakThread, EndThread, Next
<1>2. NothingIn("normal")' /\ NothingIn("testing")'
  BY <1>1, EmptyTyped, Kinds DEF NothingIn
<1>3. /\ Exchanges("normal")' = 0 /\ Exchanges("testing")' = 0
      /\ \A d \in Domain : Has("normal", d)' = 0 /\ Has("testing", d)' = 0
  <2>1. DomainsIn("normal")' = {} /\ DomainsIn("testing")' = {}
    BY <1>2 DEF NothingIn, DomainsIn
  <2> QED
    BY <1>2, <2>1, FS_EmptySet DEF Exchanges, NothingIn, Has
<1>4. /\ Running' <= Running
      /\ \A d : Cardinality(OfDomain(d)') <= Cardinality(OfDomain(d))
      /\ \A q \in queues' : Cardinality(q.left) <= MaxPerQueue
  BY <1>1, FewerQueues DEF LimitsOK, SizesOK
<1>5. Countable /\ Countable'
  BY Counts, CountsNext, TypedNext, HoldersNext
<1>6. ConnectionsOK'
  <2>1. /\ Running \in Nat /\ Running' \in Nat /\ scenario.connections \in Nat
        /\ Exchanges("normal") \in Nat /\ Exchanges("testing") \in Nat
    BY <1>5, Kinds DEF Countable, Typed, OtherOK, Scenario
  <2>2. Running <= 2 * scenario.connections
    BY <2>1 DEF LimitsOK, ConnectionsOK
  <2> QED
    BY <1>1, <1>2, <1>3, <1>4, <2>1, <2>2 DEF ConnectionsOK
<1>7. DomainsOK'
  <2>1. SUFFICES ASSUME NEW d \in Domain
                 PROVE  Cardinality(OfDomain(d)')
                          <= scenario'.perDomain + Cardinality(HalvesOf(d)) - 1
    <3>1. \A d \in Domain : Cardinality(OfDomain(d)') \in Nat
      BY <1>5 DEF Countable
    <3> QED
      BY <1>3, <2>1, <3>1 DEF DomainsOK, HalvesOf, HalfOf
  <2>2. /\ Cardinality(OfDomain(d)) \in Nat /\ Cardinality(OfDomain(d)') \in Nat
        /\ Has("normal", d) \in {0, 1} /\ Has("testing", d) \in {0, 1}
        /\ Cardinality(HalvesOf(d)) \in Nat /\ scenario.perDomain \in Nat
    BY <1>5, HalvesCount DEF Countable, Has, Typed, OtherOK, Scenario
  <2>3. Cardinality(OfDomain(d)) + Has("normal", d) + Has("testing", d)
          <= scenario.perDomain + Cardinality(HalvesOf(d)) - 1
    BY DEF LimitsOK, DomainsOK
  <2> QED
    BY <1>1, <1>4, <2>2, <2>3
<1>8. SizesOK'
  <2>1. ASSUME NEW h \in Half, NEW d \in Domain
        PROVE  Cardinality(exchange'[h][d]) <= MaxPerQueue
    <3>1. exchange'[h][d] = {}
      BY <1>1, EmptyTyped
    <3> QED
      BY <3>1, FS_EmptySet, QueuesAssumption
  <2> QED
    BY <1>4, <2>1 DEF SizesOK
<1> QED
  BY <1>6, <1>7, <1>8 DEF LimitsOK

(* A row is put into an exchange only where there is room for it.          *)
LEMMA TakingLimits ==
  ASSUME Typed, HoldersOK, LimitsOK, UNCHANGED scenario,
         NEW r \in Recipient, TakeRow(r)
  PROVE  LimitsOK'
<1> DEFINE d == DomainOf[r]
           isNew == exchange[half][d] = {}
<1> USE DEF rowVars, threadVars, queueVars, stateVars, vars
<1>1. /\ UNCHANGED <<queues, scenario, step, half, seen>>
      /\ exchange' = [exchange EXCEPT ![half][d] = @ \cup {r}]
      /\ step = "fill" /\ d \in Domain /\ half \in Half
      /\ HasRoom(d) /\ RoomFor(d) = MaxPerQueue
  BY QueuesAssumption
  DEF TakeRow, Handles, RoomFor, Typed, ThreadOK
<1>2. /\ exchange'[half][d] = exchange[half][d] \cup {r}
      /\ \A h \in Half, c \in Domain :
           h # half \/ c # d => exchange'[h][c] = exchange[h][c]
  BY <1>1 DEF Typed, ThreadOK
<1>3. /\ HalfOf(r) = half
      /\ \A h \in Half, c \in Domain : \A s \in exchange[h][c] :
           DomainOf[s] = c /\ HalfOf(s) = h
  BY DEF HoldersOK, Sorted, ToDoOfHalf, TakeRow, Handles
<1>4. Countable
  BY Counts
<1> HIDE DEF d
<1>5. ConnectionsOK'
  <2>1. /\ Running \in Nat /\ seen \in Nat /\ scenario.connections \in Nat
        /\ Exchanges("normal") \in Nat /\ Exchanges("testing") \in Nat
        /\ half \in {"normal", "testing"}
    BY <1>4, Kinds DEF Countable, Typed, ThreadOK, OtherOK, Scenario
  <2>2. /\ Running <= seen /\ seen <= scenario.connections
        /\ Exchanges(half) <= scenario.connections - seen
        /\ half = "normal" => Exchanges("testing") = 0 /\ NothingIn("testing")
        /\ half = "testing" => Exchanges("normal") <= scenario.connections
    BY <1>1, NothingCounts DEF LimitsOK, ConnectionsOK
  <2>3. Running' = Running
    BY <1>1 DEF Running, Managed
  <2>4. \A h \in Half : h # half =>
          Exchanges(h)' = Exchanges(h) /\ (NothingIn(h) => NothingIn(h)')
    <3>1. \A h \in Half : h # half => DomainsIn(h)' = DomainsIn(h)
      BY <1>2 DEF DomainsIn
    <3> QED
      BY <1>2, <3>1 DEF Exchanges, NothingIn
  <2>5. Exchanges(half)' <= scenario.connections - seen
    <3>1. DomainsIn(half)' = DomainsIn(half) \cup {d}
      BY <1>1, <1>2 DEF DomainsIn
    <3>2. IsFiniteSet(DomainsIn(half)) /\ Cardinality(DomainsIn(half)) \in Nat
      BY <1>1, <1>4, FS_CardinalityType DEF Countable
    <3>3. Cardinality(DomainsIn(half) \cup {d}) =
            IF d \in DomainsIn(half) THEN Cardinality(DomainsIn(half))
            ELSE Cardinality(DomainsIn(half)) + 1
      BY <3>2, FS_AddElement
    <3>4. CASE d \in DomainsIn(half)
      BY <2>2, <3>1, <3>3, <3>4 DEF Exchanges
    <3>5. CASE d \notin DomainsIn(half)
      <4>1. Cardinality(DomainsIn(half)) < scenario.connections - seen
        BY <1>1, <3>5 DEF HasRoom, DomainsIn
      <4> QED
        BY <2>1, <3>1, <3>2, <3>3, <3>5, <4>1 DEF Exchanges
    <3> QED
      BY <3>4, <3>5
  <2>6. Exchanges(half)' \in Nat
    <3>1. DomainsIn(half)' = DomainsIn(half) \cup {d}
      BY <1>1, <1>2 DEF DomainsIn
    <3>2. IsFiniteSet(DomainsIn(half))
      BY <1>1, <1>4 DEF Countable
    <3>3. IsFiniteSet(DomainsIn(half) \cup {d})
      BY <3>2, FS_AddElement
    <3> QED
      BY <3>1, <3>3, FS_CardinalityType DEF Exchanges
  <2>7. CASE half = "normal"
    <3>1. Exchanges("testing")' = 0 /\ NothingIn("testing")'
      BY <2>2, <2>4, <2>7, Kinds
    <3>2. /\ Exchanges("normal")' = Exchanges(half)'
      BY <1>1, <2>7
    <3> QED
      BY <1>1, <2>1, <2>2, <2>3, <2>5, <2>6, <2>7, <3>1, <3>2 DEF ConnectionsOK
  <2>8. CASE half = "testing"
    <3>1. Exchanges("normal")' = Exchanges("normal")
      BY <2>4, <2>8, Kinds
    <3>2. Exchanges("testing")' = Exchanges(half)'
      BY <1>1, <2>8
    <3> QED
      BY <1>1, <2>1, <2>2, <2>3, <2>5, <2>6, <2>8, <3>1, <3>2 DEF ConnectionsOK
  <2> QED
    BY <2>1, <2>7, <2>8
<1>6. DomainsOK'
  <2>1. SUFFICES ASSUME NEW c \in Domain
                 PROVE  Cardinality(OfDomain(c)) + Has("normal", c)' + Has("testing", c)'
                          <= scenario.perDomain + Cardinality(HalvesOf(c)) - 1
    <3>1. \A c : OfDomain(c)' = OfDomain(c)
      BY <1>1 DEF OfDomain, Managed
    <3> QED
      BY <1>1, <2>1, <3>1 DEF DomainsOK, HalvesOf, HalfOf
  <2>2. Cardinality(OfDomain(c)) + Has("normal", c) + Has("testing", c)
          <= scenario.perDomain + Cardinality(HalvesOf(c)) - 1
    BY DEF LimitsOK, DomainsOK
  <2>3. CASE c # d \/ ~isNew
    <3>1. \A h \in Half : Has(h, c)' = Has(h, c)
      BY <1>1, <1>2, <2>3 DEF Has
    <3> QED
      BY <2>2, <3>1, Kinds
  <2>4. CASE c = d /\ isNew
    <3>1. Cardinality(OfDomain(c)) < scenario.perDomain
      BY <1>1, <2>4 DEF HasRoom
    <3>2. half \in HalvesOf(c)
      BY <1>3, <2>4 DEF HalvesOf, d
    <3>3. /\ Cardinality(OfDomain(c)) \in Nat /\ scenario.perDomain \in Nat
          /\ Cardinality(HalvesOf(c)) \in Nat
          /\ Cardinality(HalvesOf(c)) >= 1
      BY <1>4, <3>2, HalvesCount DEF Countable, Typed, OtherOK, Scenario
    <3>4. /\ Has(half, c)' = 1
          /\ \A h \in Half : h # half => Has(h, c)' = Has(h, c)
      BY <1>1, <1>2, <2>4 DEF Has
    <3>5. CASE half = "normal"
      <4>1. Has("testing", c)' = 0
        <5>1. NothingIn("testing")
          BY <1>1, <3>5 DEF LimitsOK, ConnectionsOK
        <5> QED
          BY <3>4, <3>5, <5>1, Kinds, NothingCounts
      <4>2. Has("normal", c)' = 1
        BY <1>1, <3>4, <3>5
      <4> QED
        BY <3>1, <3>3, <4>1, <4>2
    <3>6. CASE half = "testing"
      <4>1. Has("normal", c)' = Has("normal", c) /\ Has("testing", c)' = 1
        BY <1>1, <3>4, <3>6, Kinds
      <4>2. CASE Has("normal", c) = 0
        BY <3>1, <3>3, <4>1, <4>2
      <4>3. CASE Has("normal", c) = 1
        <5>1. PICK s \in exchange["normal"][c] : TRUE
          BY <4>3 DEF Has
        <5>2. s \in Recipient /\ DomainOf[s] = c /\ HalfOf(s) = "normal"
          BY <1>3, <5>1, Kinds DEF Typed, ThreadOK
        <5>3. "normal" \in HalvesOf(c)
          BY <5>2 DEF HalvesOf
        <5>4. Cardinality(HalvesOf(c)) >= 2
          BY <3>2, <3>6, <5>3, HalvesCount
        <5> QED
          BY <3>1, <3>3, <4>1, <4>3, <5>4
      <4> QED
        BY <4>2, <4>3 DEF Has
    <3> QED
      BY <1>1, <3>5, <3>6, Kinds
  <2> QED
    BY <2>3, <2>4
<1>7. SizesOK'
  <2>1. Cardinality(exchange'[half][d]) <= MaxPerQueue
    <3>1. IsFiniteSet(exchange[half][d]) /\ Cardinality(exchange[half][d]) \in Nat
      BY <1>1, <1>4 DEF Countable
    <3>2. Cardinality(exchange[half][d] \cup {r}) <= Cardinality(exchange[half][d]) + 1
      BY <3>1, OneMore
    <3>3. Cardinality(exchange[half][d] \cup {r}) \in Nat
      BY <3>1, FS_AddElement, FS_CardinalityType
    <3>4. Cardinality(exchange[half][d]) + 1 <= MaxPerQueue
      <4>1. CASE isNew
        BY <4>1, FS_EmptySet, QueuesAssumption
      <4>2. CASE ~isNew
        BY <1>1, <3>1, <4>2, QueuesAssumption DEF HasRoom
      <4> QED
        BY <4>1, <4>2
    <3> QED
      BY <1>2, <3>1, <3>2, <3>3, <3>4, QueuesAssumption
  <2> QED
    BY <1>1, <1>2, <2>1 DEF LimitsOK, SizesOK
<1> QED
  BY <1>5, <1>6, <1>7 DEF LimitsOK

(* The thread hands an exchange over to a queue.                           *)
LEMMA MakingLimits ==
  ASSUME Typed, HoldersOK, LimitsOK, UNCHANGED scenario,
         NEW d \in Domain, MakeQueue(d)
  PROVE  LimitsOK'
<1>1. PICK h \in Half : h = MadeFirst
  BY Kinds DEF MadeFirst
<1> DEFINE new == [slot |-> FreeSlot, domain |-> d, left |-> exchange[h][d],
                   late |-> {}, managed |-> TRUE]
<1>2. /\ queues' = queues \cup {new} /\ new.domain = d
      /\ new.left = exchange[h][d] /\ exchange[h][d] # {}
      /\ exchange' = [exchange EXCEPT ![h][d] = {}]
      /\ UNCHANGED <<step, half, seen, scenario>> /\ step = "make"
  BY <1>1 DEF MakeQueue, threadVars
<1> HIDE DEF new
<1>3. /\ exchange'[h][d] = {}
      /\ \A g \in Half, c \in Domain :
           g # h \/ c # d => exchange'[g][c] = exchange[g][c]
  BY <1>1, <1>2 DEF Typed, ThreadOK
<1>4. Countable
  BY Counts
<1>5. h \in {"normal", "testing"} /\ half = "normal"
  BY <1>1, <1>2, Kinds DEF LimitsOK, ConnectionsOK
<1>6. ConnectionsOK'
  <2>1. Running' <= Running + 1 /\ Running' \in Nat
    <3>1. Managed' \in SUBSET (Managed \cup {new})
      BY <1>2 DEF Managed
    <3>2. /\ IsFiniteSet(Managed \cup {new})
          /\ Cardinality(Managed \cup {new}) <= Running + 1
      BY <1>4, OneMore DEF Countable, Running
    <3>3. IsFiniteSet(Managed') /\ Cardinality(Managed') <= Cardinality(Managed \cup {new})
      BY <3>1, <3>2, FS_Subset
    <3> QED
      BY <1>4, <3>2, <3>3, FS_CardinalityType DEF Countable, Running
  <2>2. Exchanges(h)' = Exchanges(h) - 1
    <3>1. DomainsIn(h)' = DomainsIn(h) \ {d} /\ d \in DomainsIn(h)
      BY <1>1, <1>2, <1>3 DEF DomainsIn
    <3>2. IsFiniteSet(DomainsIn(h))
      BY <1>1, <1>4 DEF Countable
    <3> QED
      BY <3>1, <3>2, FS_RemoveElement DEF Exchanges
  <2>3. \A g \in Half : g # h => Exchanges(g)' = Exchanges(g)
    <3>1. \A g \in Half : g # h => DomainsIn(g)' = DomainsIn(g)
      BY <1>3 DEF DomainsIn
    <3> QED
      BY <3>1 DEF Exchanges
  <2>4. /\ Running \in Nat /\ scenario.connections \in Nat
        /\ Exchanges("normal") \in Nat /\ Exchanges("testing") \in Nat
    BY <1>4, Kinds DEF Countable, Typed, OtherOK, Scenario
  <2>5. Running' + Exchanges("normal")' + Exchanges("testing")'
          <= 2 * scenario.connections
    <3>1. Running + Exchanges("normal") + Exchanges("testing")
            <= 2 * scenario.connections
      BY DEF LimitsOK, ConnectionsOK
    <3>2. CASE h = "normal"
      <4>1. /\ Exchanges("normal")' = Exchanges("normal") - 1
            /\ Exchanges("testing")' = Exchanges("testing")
        BY <2>2, <2>3, <3>2, Kinds
      <4> QED
        BY <2>1, <2>4, <3>1, <4>1
    <3>3. CASE h = "testing"
      <4>1. /\ Exchanges("testing")' = Exchanges("testing") - 1
            /\ Exchanges("normal")' = Exchanges("normal")
        BY <2>2, <2>3, <3>3, Kinds
      <4> QED
        BY <2>1, <2>4, <3>1, <4>1
    <3> QED
      BY <1>5, <3>2, <3>3
  <2> QED
    BY <1>2, <1>5, <2>5 DEF ConnectionsOK
<1>7. DomainsOK'
  <2>1. SUFFICES ASSUME NEW c \in Domain
                 PROVE  Cardinality(OfDomain(c)') + Has("normal", c)' + Has("testing", c)'
                          <= scenario.perDomain + Cardinality(HalvesOf(c)) - 1
    BY <1>2 DEF DomainsOK, HalvesOf, HalfOf
  <2>2. Cardinality(OfDomain(c)) + Has("normal", c) + Has("testing", c)
          <= scenario.perDomain + Cardinality(HalvesOf(c)) - 1
    BY DEF LimitsOK, DomainsOK
  <2>3. CASE c # d
    <3>1. \A g \in Half : Has(g, c)' = Has(g, c)
      BY <1>3, <2>3 DEF Has
    <3>2. OfDomain(c)' = OfDomain(c)
      BY <1>2, <2>3 DEF OfDomain, Managed
    <3> QED
      BY <2>2, <3>1, <3>2, Kinds
  <2>4. CASE c = d
    <3>1. OfDomain(c)' \in SUBSET (OfDomain(c) \cup {new})
      BY <1>2 DEF OfDomain, Managed
    <3>2. /\ IsFiniteSet(OfDomain(c) \cup {new})
          /\ Cardinality(OfDomain(c) \cup {new}) <= Cardinality(OfDomain(c)) + 1
      BY <1>4, OneMore DEF Countable
    <3>3. /\ IsFiniteSet(OfDomain(c)')
          /\ Cardinality(OfDomain(c)') <= Cardinality(OfDomain(c) \cup {new})
      BY <3>1, <3>2, FS_Subset
    <3>4. /\ Cardinality(OfDomain(c)') <= Cardinality(OfDomain(c)) + 1
          /\ Cardinality(OfDomain(c)') \in Nat
      BY <1>4, <3>2, <3>3, FS_CardinalityType DEF Countable
    <3>5. /\ Has(h, c) = 1 /\ Has(h, c)' = 0
          /\ \A g \in Half : g # h => Has(g, c)' = Has(g, c)
      BY <1>2, <1>3, <2>4 DEF Has
    <3>6. /\ Cardinality(OfDomain(c)) \in Nat /\ scenario.perDomain \in Nat
          /\ Cardinality(HalvesOf(c)) \in Nat
          /\ Has("normal", c) \in {0, 1} /\ Has("testing", c) \in {0, 1}
      BY <1>4, HalvesCount DEF Countable, Typed, OtherOK, Scenario, Has
    <3>7. CASE h = "normal"
      <4>1. /\ Has("normal", c) = 1 /\ Has("normal", c)' = 0
            /\ Has("testing", c)' = Has("testing", c)
        BY <3>5, <3>7, Kinds
      <4> QED
        BY <2>2, <3>4, <3>6, <4>1
    <3>8. CASE h = "testing"
      <4>1. /\ Has("testing", c) = 1 /\ Has("testing", c)' = 0
            /\ Has("normal", c)' = Has("normal", c)
        BY <3>5, <3>8, Kinds
      <4> QED
        BY <2>2, <3>4, <3>6, <4>1
    <3> QED
      BY <1>5, <3>7, <3>8
  <2> QED
    BY <2>3, <2>4
<1>8. SizesOK'
  <2>1. Cardinality(exchange'[h][d]) <= MaxPerQueue
    BY <1>3, FS_EmptySet, QueuesAssumption
  <2> QED
    BY <1>1, <1>2, <1>3, <2>1 DEF LimitsOK, SizesOK
<1> QED
  BY <1>6, <1>7, <1>8 DEF LimitsOK

LEMMA LimitsNext ==
  ASSUME Typed, HoldersOK, LimitsOK, [Next]_vars
  PROVE  LimitsOK'
<1>1. UNCHANGED scenario
  BY DEF Next, vars
<1>2. CASE ThreadStep
  BY <1>1, <1>2, PassingLimits, EmptyingLimits, TakingLimits, MakingLimits
  DEF ThreadStep
<1> QED
  BY <1>1, <1>2, PassingLimits, EmptyingLimits, QueueLimits DEF Next, Change

LEMMA InitLimits == Init => SlotsDiffer /\ NobodyForgotten /\ HoldersOK /\ LimitsOK
<1> SUFFICES ASSUME Init
             PROVE  SlotsDiffer /\ NobodyForgotten /\ HoldersOK /\ LimitsOK
  OBVIOUS
<1>1. /\ queues = {} /\ todo = {} /\ step = "idle" /\ half = "normal"
      /\ \A h \in Half, d \in Domain : exchange[h][d] = {}
      /\ \A r \in Recipient : row[r] = "none"
  BY EmptyTyped DEF Init
<1>2. SlotsDiffer /\ NobodyForgotten
  BY <1>1 DEF SlotsDiffer, NobodyForgotten
<1>3. HoldersOK
  <2>1. \A r \in Recipient : ~InExchange(r) /\ ~InQueue(r)
    BY <1>1 DEF InExchange, InQueue
  <2> QED
    BY <1>1, <2>1 DEF HoldersOK, Sorted, ToDoOfHalf, Marked, HeldOnce
<1>4. /\ Managed = {} /\ \A d : OfDomain(d) = {}
      /\ NothingIn("normal") /\ NothingIn("testing")
  BY <1>1, Kinds DEF Managed, OfDomain, NothingIn
<1>5. /\ Running = 0 /\ \A d : Cardinality(OfDomain(d)) = 0
      /\ Exchanges("normal") = 0 /\ Exchanges("testing") = 0
      /\ \A d \in Domain : Has("normal", d) = 0 /\ Has("testing", d) = 0
  BY <1>4, FS_EmptySet, NothingCounts DEF Running
<1>6. scenario.connections \in Nat /\ scenario.perDomain \in Nat \ {0}
  BY QueuesAssumption DEF Init, Scenario
<1>7. ConnectionsOK
  BY <1>1, <1>4, <1>5, <1>6 DEF ConnectionsOK
<1>8. DomainsOK
  BY <1>5, <1>6, HalvesCount DEF DomainsOK
<1>9. SizesOK
  <2>1. \A h \in Half, d \in Domain : Cardinality(exchange[h][d]) = 0
    <3>1. ASSUME NEW h \in Half, NEW d \in Domain
          PROVE  Cardinality(exchange[h][d]) = 0
      <4>1. exchange[h][d] = {}
        BY <1>1
      <4> QED
        BY <4>1, FS_EmptySet
    <3> QED
      BY <3>1
  <2> QED
    BY <1>1, <2>1, QueuesAssumption DEF SizesOK
<1> QED
  BY <1>2, <1>3, <1>7, <1>8, <1>9 DEF LimitsOK

LEMMA LimitsHold ==
  ASSUME Typed, HoldersOK, LimitsOK
  PROVE  WithinLimits
<1>1. /\ Running \in Nat /\ \A d : Cardinality(OfDomain(d)) \in Nat
      /\ Exchanges("normal") \in Nat /\ Exchanges("testing") \in Nat
      /\ scenario.connections \in Nat /\ scenario.perDomain \in Nat
  BY Counts, Kinds DEF Countable, Typed, OtherOK, Scenario
<1>2. Cardinality(Managed) <= 2 * scenario.connections
  BY <1>1 DEF LimitsOK, ConnectionsOK, Running
<1>3. ASSUME NEW d \in Domain
      PROVE  Cardinality(OfDomain(d))
               <= scenario.perDomain + Cardinality(HalvesOf(d)) - 1
  <2>1. /\ Has("normal", d) \in {0, 1} /\ Has("testing", d) \in {0, 1}
        /\ Cardinality(HalvesOf(d)) \in Nat
    BY HalvesCount DEF Has
  <2> QED
    BY <1>1, <2>1 DEF LimitsOK, DomainsOK
<1> QED
  BY <1>2, <1>3 DEF WithinLimits, HalvesOf, LimitsOK, SizesOK

-----------------------------------------------------------------------------
(* Theorems.                                                               *)

LEMMA Invariant == Spec => []IInv
<1>1. Init => IInv
  BY TypedInit, InitLimits DEF IInv
<1>2. IInv /\ [Next]_vars => IInv'
  BY TypedNext, SlotsNext, ForgottenPreserved, HoldersNext, LimitsNext DEF IInv
<1> QED
  BY <1>1, <1>2, PTL DEF Spec

LEMMA TypedIsTypeOK == Typed => TypeOK
BY DEF Typed, TypeOK, RowsOK, ThreadOK, QueuesOK, OtherOK, RowStatus

(* What the thread, queues and rows are made of, whatever the scenario.    *)
THEOREM HandlingTyped == Spec => []TypeOK
<1>1. IInv => TypeOK
  BY TypedIsTypeOK DEF IInv
<1> QED
  BY <1>1, Invariant, PTL

(* No row stays in progress that nobody sends: whoever takes, refuses,     *)
(* fails or gives up rows leaves none behind, but when a mailing is closed *)
(* under those who hold them.                                              *)
THEOREM NobodyIsForgotten == Spec => []NobodyForgotten
<1>1. IInv => NobodyForgotten
  BY DEF IInv
<1> QED
  BY <1>1, Invariant, PTL

(* A recipient is in one exchange or one queue at a time, however the      *)
(* timer, the thread, queues, pages and closes cross.                      *)
THEOREM OneQueueForEach == Spec => []OneQueueEach
<1>1. IInv => OneQueueEach
  BY HeldInOnePlace DEF IInv
<1> QED
  BY <1>1, Invariant, PTL

(* Queues that run are at most twice the connections; those of a domain    *)
(* exceed its limit by one if its recipients are of both halves; and a     *)
(* queue is no longer than the limit: for all limits.                      *)
THEOREM LimitsAreKept == Spec => []WithinLimits
<1>1. IInv => WithinLimits
  BY LimitsHold DEF IInv
<1> QED
  BY <1>1, Invariant, PTL

=============================================================================
