-------------------------- MODULE SmtpServerProofs --------------------------
(***************************************************************************)
(* Proofs about SmtpServer: its type invariant; the first letter of a user *)
(* is posted for those it was accepted for; and no letter is posted to the *)
(* addresses of another.                                                   *)
(*                                                                         *)
(* The inductive invariant says of each session what the list of its       *)
(* delivery, which all its letters share, has to do with the addresses of  *)
(* the letter under way.                                                   *)
(***************************************************************************)
EXTENDS SmtpServer, FiniteSetTheorems, TLAPS

-----------------------------------------------------------------------------
(* The inductive invariant.                                                *)

(* Who brings what: a user's session only has users' e-mails; the accepted *)
(* addresses are some of those of the letter.                              *)
Matches(d) ==
  IF d.letter = NoLetter THEN d.to = {} /\ d.real = FALSE
  ELSE /\ d.user <=> letter[d.letter].kind = "submission"
       /\ d.to \subseteq letter[d.letter].to

(* The addresses accepted for a user's letter are the last of the list:    *)
(* when there are no others, the list is exactly them and one of them has  *)
(* the real message; and when one has it, there are no others.             *)
Alone(d) == Len(d.recipients) = Cardinality(d.to)

Listed(d) ==
  d.user =>
    /\ IsFiniteSet(d.to) /\ d.to \subseteq d.tried
    /\ Len(d.recipients) >= Cardinality(d.to)
    /\ Alone(d) => /\ Range(d.recipients) = d.to
                   /\ d.to # {} => d.real
    /\ d.real => Range(d.recipients) = d.to

Sound(d) == DialogueOK(d) /\ Matches(d) /\ Listed(d)

IInv ==
  /\ TypeOK
  /\ \A s \in Session : Sound(session[s])
  /\ FirstIsPosted /\ PostedToItsOwn

-----------------------------------------------------------------------------
(* Lemmas.                                                                 *)

(* A letter of the scenario is one; where users' e-mails and others go.    *)
LEMMA Letters ==
  ASSUME scenario \in Scenarios, NEW l \in Letter
  PROVE  /\ letter[l].to \subseteq Address
         /\ letter[l].to \subseteq
              IF letter[l].kind = "submission" THEN Outsider ELSE ReturnPath
<1>1. scenario \in Scenario
  BY SmtpAssumption
<1>2. letter[l] \in [kind: Kind, to: SUBSET Address]
  BY <1>1 DEF Scenario, letter
<1> QED
  BY <1>2, SmtpAssumption DEF letter

LEMMA EmptyList == ASSUME NEW l, Len(l) = 0, l \in Seq(Outsider) PROVE Range(l) = {}
BY DEF Range

LEMMA LongerList ==
  ASSUME NEW l \in Seq(Outsider), NEW a \in Outsider
  PROVE  /\ Append(l, a) \in Seq(Outsider) /\ Len(Append(l, a)) = Len(l) + 1
         /\ Range(Append(l, a)) = Range(l) \cup {a}
<1>1. /\ Append(l, a) \in Seq(Outsider) /\ Len(Append(l, a)) = Len(l) + 1
      /\ \A i \in 1..Len(l) : Append(l, a)[i] = l[i]
      /\ Append(l, a)[Len(l) + 1] = a
      /\ Len(l) \in Nat /\ DOMAIN l = 1..Len(l)
      /\ DOMAIN Append(l, a) = 1..(Len(l) + 1)
  OBVIOUS
<1>2. \A i \in 1..(Len(l) + 1) : i \in 1..Len(l) \/ i = Len(l) + 1
  BY <1>1
<1>3. 1..Len(l) \subseteq 1..(Len(l) + 1) /\ Len(l) + 1 \in 1..(Len(l) + 1)
  BY <1>1
<1> DEFINE longer == Append(l, a)
           n == Len(l)
<1> HIDE DEF longer, n
<1>4. Range(longer) = Range(l) \cup {a}
  BY <1>1, <1>2, <1>3, Zenon DEF Range, longer, n
<1> QED
  BY <1>1, <1>4 DEF longer

LEMMA OneMore ==
  ASSUME NEW S, IsFiniteSet(S), NEW x, x \notin S
  PROVE  /\ IsFiniteSet(S \cup {x}) /\ Cardinality(S) \in Nat
         /\ Cardinality(S \cup {x}) = Cardinality(S) + 1
BY FS_AddElement, FS_CardinalityType

(* Nothing is expected of a session that is not a user's, nor of one that  *)
(* has accepted no address and has no real message.                        *)
LEMMA NothingListed ==
  ASSUME NEW d, \/ d.user = FALSE
                \/ d.to = {} /\ d.real = FALSE /\ d.recipients \in Seq(Outsider)
  PROVE  Listed(d)
<1>1. CASE d.user = FALSE
  BY <1>1 DEF Listed
<1>2. CASE d.to = {} /\ d.real = FALSE /\ d.recipients \in Seq(Outsider)
  <2>1. /\ IsFiniteSet(d.to) /\ Cardinality(d.to) = 0
        /\ Len(d.recipients) \in Nat
    BY <1>2, FS_EmptySet
  <2> QED
    BY <1>2, <2>1, EmptyList DEF Listed, Alone
<1> QED
  BY <1>1, <1>2

(* The dialogues that begin and end sessions and transactions.             *)
LEMMA Fresh ==
  /\ Sound(Closed)
  /\ Sound([Closed EXCEPT !.stage = "ready"])
  /\ \A d \in Dialogue : Sound(Ready(d))
<1>1. Closed \in Dialogue
  BY DEF Closed, Dialogue, Stage
<1>2. Sound(Closed)
  <2>1. Closed.user = FALSE /\ Closed.letter = NoLetter /\ Closed.to = {}
        /\ Closed.real = FALSE /\ Closed.stage = "closed"
    BY DEF Closed
  <2> QED
    BY <1>1, <2>1, NothingListed DEF Sound, DialogueOK, Matches
<1>3. Sound([Closed EXCEPT !.stage = "ready"])
  <2> DEFINE e == [Closed EXCEPT !.stage = "ready"]
  <2>1. /\ e \in Dialogue /\ e.user = FALSE /\ e.letter = NoLetter /\ e.to = {}
        /\ e.stage = "ready" /\ e.real = FALSE
    BY <1>1 DEF Closed, Dialogue, Stage
  <2> HIDE DEF e
  <2>2. Sound(e)
    BY <2>1, NothingListed DEF Sound, DialogueOK, Matches
  <2> QED
    BY <2>2 DEF e
<1>4. ASSUME NEW d \in Dialogue PROVE Sound(Ready(d))
  <2>1. d.user \in BOOLEAN /\ d.recipients \in Seq(Outsider)
    BY DEF Dialogue
  <2>2. Ready(d) \in Dialogue
    BY <1>1, <2>1 DEF Ready, Dialogue, Stage
  <2>3. /\ Ready(d).letter = NoLetter /\ Ready(d).stage = "ready"
        /\ Ready(d).to = {} /\ Ready(d).real = FALSE
        /\ Ready(d).recipients = d.recipients
    BY DEF Ready, Closed
  <2> QED
    BY <2>1, <2>2, <2>3, NothingListed DEF Sound, DialogueOK, Matches
<1> QED
  BY <1>2, <1>3, <1>4

(* What is known of a session, and of its letter when it has one.          *)
LEMMA InSession ==
  ASSUME IInv, NEW s \in Session
  PROVE  /\ session[s] \in Dialogue /\ DialogueOK(session[s])
         /\ Matches(session[s]) /\ Listed(session[s])
BY DEF IInv, TypeOK, SessionsOK, Sound

LEMMA InTransaction ==
  ASSUME IInv, NEW s \in Session, session[s].letter # NoLetter
  PROVE  /\ session[s].letter \in Letter
         /\ letter[session[s].letter].to \subseteq Address
         /\ letter[session[s].letter].to \subseteq
              IF session[s].user THEN Outsider ELSE ReturnPath
<1>1. session[s] \in Dialogue /\ Matches(session[s]) /\ scenario \in Scenarios
  BY InSession DEF IInv, TypeOK
<1>2. session[s].letter \in Letter
  BY <1>1 DEF Dialogue
<1> QED
  BY <1>1, <1>2, Letters DEF Matches

(* A step that puts one dialogue in the place of another.                  *)
LEMMA Putting ==
  ASSUME IInv, UNCHANGED scenario, NEW s \in Session, NEW d, Put(s, d), Sound(d)
  PROVE  SessionsOK' /\ (\A t \in Session : Sound(session[t]))'
<1>1. d \in Dialogue /\ session \in [Session -> Dialogue]
  BY DEF Sound, DialogueOK, IInv, TypeOK, SessionsOK
<1>2. /\ session' \in [Session -> Dialogue]
      /\ \A t \in Session : session'[t] = IF t = s THEN d ELSE session[t]
  BY <1>1 DEF Put
<1>3. \A t \in Session : Sound(session'[t])
  BY <1>2 DEF IInv
<1>4. (\A t \in Session : Sound(session[t]))'
  BY <1>3 DEF Sound, DialogueOK, Matches, Listed, Alone, letter
<1> QED
  BY <1>2, <1>3, <1>4 DEF SessionsOK, Sound, DialogueOK

(* Steps of the dialogue: nothing is posted or answered 250.               *)
Bounded ==
  /\ UNCHANGED resets \/ (resets > 0 /\ resets' = resets - 1)
  /\ UNCHANGED mishaps \/ Mishap

LEMMA Talking ==
  ASSUME IInv, UNCHANGED <<scenario, history>>, outbox' \subseteq outbox, Bounded,
         SessionsOK', (\A t \in Session : Sound(session[t]))'
  PROVE  IInv'
<1>1. LettersOK' /\ resets' \in Nat /\ mishaps' \in Nat /\ scenario' \in Scenarios
  BY DEF IInv, TypeOK, LettersOK, history, Bounded, Mishap
<1>2. FirstIsPosted' /\ PostedToItsOwn'
  BY DEF IInv, FirstIsPosted, PostedToItsOwn, history, letter
<1> QED
  BY <1>1, <1>2 DEF IInv, TypeOK

LEMMA TalkStep ==
  ASSUME IInv, UNCHANGED <<scenario, history>>, outbox' \subseteq outbox, Bounded,
         NEW s \in Session, NEW d, Put(s, d), Sound(d)
  PROVE  IInv'
BY Putting, Talking

-----------------------------------------------------------------------------
(* Sessions and transactions.                                              *)

LEMMA Sessions ==
  ASSUME IInv, UNCHANGED scenario, NEW s \in Session,
         \/ Open(s) \/ Authenticate(s) \/ Rset(s) \/ Quit(s)
         \/ LoseConnection(s) \/ EndNotification(s)
  PROVE  IInv'
<1> DEFINE d == session[s]
<1>0. d \in Dialogue /\ DialogueOK(d) /\ Matches(d) /\ Listed(d)
  BY InSession
<1>1. UNCHANGED <<history, outbox>> /\ Bounded
  BY DEF Open, Authenticate, Rset, Quit, LoseConnection, EndNotification, Bounded, bounds
<1>2. ASSUME NEW e, Put(s, e), Sound(e) PROVE IInv'
  BY <1>1, <1>2, TalkStep
<1>3. CASE Open(s) \/ Rset(s) \/ Quit(s) \/ LoseConnection(s) \/ EndNotification(s)
  BY <1>0, <1>2, <1>3, Fresh DEF Open, Rset, Quit, LoseConnection, EndNotification
<1>4. CASE Authenticate(s)
  <2> DEFINE e == [d EXCEPT !.user = TRUE]
  <2>1. d.stage = "ready" /\ d.letter = NoLetter /\ d.to = {} /\ d.real = FALSE
    BY <1>0, <1>4 DEF Authenticate, DialogueOK, Matches, Dialogue
  <2>2. /\ e \in Dialogue /\ e.letter = NoLetter /\ e.stage = "ready" /\ e.to = {}
        /\ e.real = FALSE /\ e.recipients = d.recipients
        /\ d.recipients \in Seq(Outsider)
    BY <1>0, <2>1 DEF Dialogue
  <2> QED
    BY <1>2, <1>4, <2>2, NothingListed DEF Authenticate, Sound, DialogueOK, Matches
<1> QED
  BY <1>3, <1>4

LEMMA Letting ==
  ASSUME IInv, UNCHANGED scenario, NEW s \in Session,
         \/ Data(s)
         \/ \E l \in Letter : MailFrom(s, l) \/ RefuseSender(s, l)
  PROVE  IInv'
<1> DEFINE d == session[s]
<1>0. d \in Dialogue /\ DialogueOK(d) /\ Matches(d) /\ Listed(d)
  BY InSession
<1>1. UNCHANGED history /\ outbox' \subseteq outbox /\ Bounded
  BY DEF Data, MailFrom, RefuseSender, Bounded, bounds
<1>2. ASSUME NEW e, Put(s, e), Sound(e) PROVE IInv'
  BY <1>1, <1>2, TalkStep
<1>3. CASE Data(s)
  <2> DEFINE e == [d EXCEPT !.stage = "data"]
  <2>1. /\ e \in Dialogue /\ e.letter = d.letter /\ e.user = d.user /\ e.to = d.to
        /\ e.stage = "data" /\ e.tried = d.tried /\ e.real = d.real
        /\ e.recipients = d.recipients
    BY <1>0 DEF Dialogue, Stage
  <2>2. CASE CanBeMade(d)
    <3>1. d.stage = "mail" /\ Put(s, e)
      BY <1>3, <2>2 DEF Data
    <3>2. Sound(e)
      BY <1>0, <2>1, <2>2, <3>1 DEF CanBeMade, Sound, DialogueOK, Matches, Listed, Alone
    <3> QED
      BY <1>2, <3>1, <3>2
  <2>3. CASE ~CanBeMade(d)
    BY <1>0, <1>2, <1>3, <2>3, Fresh DEF Data
  <2> QED
    BY <2>2, <2>3
<1>4. ASSUME NEW l \in Letter, MailFrom(s, l) PROVE IInv'
  <2> DEFINE e == [d EXCEPT !.stage = "mail", !.letter = l]
  <2>1. /\ e \in Dialogue /\ e.letter = l /\ e.user = d.user /\ e.to = d.to
        /\ e.stage = "mail" /\ e.tried = d.tried /\ e.real = d.real
        /\ e.recipients = d.recipients
    BY <1>0 DEF Dialogue, Stage
  <2>2. d.to = {} /\ (d.user <=> letter[l].kind = "submission") /\ l # NoLetter
    BY <1>0, <1>4, SmtpAssumption DEF MailFrom, DialogueOK, Matches
  <2>3. Sound(e)
    BY <1>0, <2>1, <2>2 DEF Sound, DialogueOK, Matches, Listed, Alone
  <2> QED
    BY <1>2, <1>4, <2>3 DEF MailFrom
<1>5. ASSUME NEW l \in Letter, RefuseSender(s, l) PROVE IInv'
  <2>1. session' = session
    BY <1>5 DEF RefuseSender
  <2>2. Put(s, d)
    BY <2>1 DEF IInv, TypeOK, SessionsOK, Put
  <2> QED
    BY <1>0, <1>2, <2>2 DEF Sound
<1> QED
  BY <1>3, <1>4, <1>5

(* An accepted address is new, and is the last of the list.                *)
LEMMA Addressing ==
  ASSUME IInv, UNCHANGED scenario, NEW s \in Session, NEW a,
         RcptTo(s, a) \/ RefuseRecipient(s, a)
  PROVE  IInv'
<1> DEFINE d == session[s]
<1>0. d \in Dialogue /\ DialogueOK(d) /\ Matches(d) /\ Listed(d)
  BY InSession
<1>1. UNCHANGED history /\ outbox' \subseteq outbox /\ Bounded
  BY DEF RcptTo, RefuseRecipient, Bounded, bounds
<1>2. /\ d.stage = "mail" /\ d.letter # NoLetter
      /\ a \in letter[d.letter].to /\ a \notin d.tried
  BY <1>0 DEF RcptTo, RefuseRecipient, DialogueOK
<1>3. a \in Address /\ (d.user => a \in Outsider)
  BY <1>2, InTransaction
<1> DEFINE Same(e) == /\ e.letter = d.letter /\ e.stage = d.stage /\ e.user = d.user
                      /\ e.to \subseteq d.to \cup {a}
<1>4. ASSUME NEW e \in Dialogue, Same(e), Put(s, e), Listed(e) PROVE IInv'
  <2>1. Sound(e)
    BY <1>0, <1>2, <1>4 DEF Sound, DialogueOK, Matches
  <2> QED
    BY <1>1, <1>4, <2>1, TalkStep
<1>5. CASE RefuseRecipient(s, a)
  <2> DEFINE e == [d EXCEPT !.tried = @ \cup {a}]
  <2>1. /\ e \in Dialogue /\ Same(e) /\ e.to = d.to /\ d.tried \subseteq e.tried
        /\ e.recipients = d.recipients /\ e.real = d.real
    BY <1>0, <1>3 DEF Dialogue
  <2>2. Listed(e)
    BY <1>0, <2>1 DEF Listed, Alone
  <2> QED
    BY <1>4, <1>5, <2>1, <2>2 DEF RefuseRecipient
<1>6. CASE RcptTo(s, a) /\ ~d.user
  <2> DEFINE to == IF Accepts(a) THEN d.to \cup {a} ELSE d.to
             e == [d EXCEPT !.tried = @ \cup {a}, !.to = to]
  <2>1. to \in SUBSET Address /\ to \subseteq d.to \cup {a}
    BY <1>0, <1>3 DEF Dialogue
  <2> HIDE DEF to
  <2>2. e \in Dialogue /\ Same(e) /\ e.user = FALSE
    BY <1>0, <1>3, <1>6, <2>1 DEF Dialogue
  <2>3. Put(s, e)
    BY <1>6 DEF RcptTo, to
  <2> QED
    BY <1>4, <2>2, <2>3, NothingListed
<1>7. CASE RcptTo(s, a) /\ d.user
  <2> DEFINE listed == [d EXCEPT !.recipients = Append(@, a)]
             e == [listed EXCEPT !.tried = @ \cup {a}, !.to = @ \cup {a},
                                 !.real = @ \/ IsReal(listed)]
  <2>1. a \in Outsider /\ d.recipients \in Seq(Outsider) /\ d.real \in BOOLEAN
    BY <1>0, <1>3, <1>7 DEF Dialogue
  <2>2. Append(d.recipients, a) \in Seq(Outsider)
    BY <2>1
  <2>3. /\ listed \in Dialogue /\ listed.recipients = Append(d.recipients, a)
        /\ listed.real = d.real /\ listed.tried = d.tried /\ listed.to = d.to
        /\ listed.user = d.user /\ listed.letter = d.letter /\ listed.stage = d.stage
    BY <1>0, <2>2 DEF Dialogue
  <2>4. Put(s, e)
    BY <1>7 DEF RcptTo
  <2>5. IsReal(listed) \in BOOLEAN /\ (IsReal(listed) <=> Len(d.recipients) + 1 = 1)
    BY <2>1, <2>3, LongerList DEF IsReal
  <2> HIDE DEF listed
  <2>6. /\ e \in Dialogue /\ Same(e)
        /\ e.recipients = Append(d.recipients, a) /\ e.to = d.to \cup {a}
        /\ e.tried = d.tried \cup {a} /\ e.real = (d.real \/ IsReal(listed))
    BY <1>3, <2>3, <2>5 DEF Dialogue
  <2> HIDE DEF e
  <2>7. /\ IsFiniteSet(d.to) /\ a \notin d.to /\ d.to \subseteq d.tried
        /\ Len(d.recipients) \in Nat /\ Len(d.recipients) >= Cardinality(d.to)
    BY <1>0, <1>2, <1>7, <2>1 DEF Listed
  <2>8. /\ IsFiniteSet(e.to) /\ Cardinality(d.to) \in Nat
        /\ Cardinality(e.to) = Cardinality(d.to) + 1
    <3>1. /\ IsFiniteSet(d.to \cup {a}) /\ Cardinality(d.to) \in Nat
          /\ Cardinality(d.to \cup {a}) = Cardinality(d.to) + 1
      BY <2>7, OneMore
    <3> QED
      BY <2>6, <3>1
  <2>9. Len(e.recipients) = Len(d.recipients) + 1
        /\ Range(e.recipients) = Range(d.recipients) \cup {a}
    BY <2>1, <2>6, LongerList
  <2>10. Len(d.recipients) = 0 => Range(d.recipients) = {} /\ d.to = {}
    <3>1. Len(d.recipients) = 0 => Cardinality(d.to) = 0
      BY <2>7, <2>8
    <3> QED
      BY <2>1, <2>7, <3>1, EmptyList, FS_EmptySet
  <2>11. ASSUME e.real PROVE Range(e.recipients) = e.to
    <3>1. CASE d.real
      BY <1>0, <1>7, <2>6, <2>9, <3>1 DEF Listed
    <3>2. CASE IsReal(listed)
      <4>1. Len(d.recipients) = 0
        BY <2>5, <2>7, <3>2
      <4> QED
        BY <2>6, <2>9, <2>10, <4>1
    <3> QED
      BY <2>6, <2>11, <3>1, <3>2
  <2>12. ASSUME Alone(e) PROVE Range(e.recipients) = e.to /\ e.real
    <3>1. Alone(d)
      BY <2>7, <2>8, <2>9, <2>12 DEF Alone
    <3>2. Range(d.recipients) = d.to /\ (d.to # {} => d.real)
      BY <1>0, <1>7, <3>1, Zenon DEF Listed
    <3>3. Range(e.recipients) = e.to
      BY <2>6, <2>9, <3>2
    <3>4. CASE d.to # {}
      BY <2>6, <3>2, <3>3, <3>4, Zenon
    <3>5. CASE d.to = {}
      <4>1. Len(d.recipients) + 1 = 1
        BY <3>1, <3>5, FS_EmptySet DEF Alone
      <4> QED
        BY <2>5, <2>6, <3>3, <4>1, Zenon
    <3> QED
      BY <3>4, <3>5
  <2>13. Len(e.recipients) >= Cardinality(e.to) /\ e.to \subseteq e.tried
    BY <2>6, <2>7, <2>8, <2>9
  <2>14. Listed(e)
    BY <2>8, <2>11, <2>12, <2>13 DEF Listed
  <2> QED
    BY <1>4, <2>4, <2>6, <2>14 DEF e
<1> QED
  BY <1>5, <1>6, <1>7

-----------------------------------------------------------------------------
(* The end of a user's letter.                                             *)

(* What is posted goes to addresses that were accepted for the letter.     *)
LEMMA Ending ==
  ASSUME IInv, UNCHANGED scenario, NEW s \in Session, EndSubmission(s)
  PROVE  IInv'
<1> DEFINE d == session[s]
           new == [letter |-> d.letter, to |-> d.to,
                   fresh |-> Len(d.recipients) = Cardinality(d.to)]
<1>0. d \in Dialogue /\ DialogueOK(d) /\ Matches(d) /\ Listed(d)
  BY InSession
<1>1. /\ d.stage = "data" /\ d.user /\ d.letter # NoLetter /\ d.to # {}
      /\ d.letter \in Letter /\ d.to \subseteq letter[d.letter].to
      /\ d.to \subseteq Address
  BY <1>0 DEF EndSubmission, DialogueOK, Matches, Dialogue
<1>2. ASSUME d.real PROVE Posted(d) = [letter |-> d.letter, to |-> d.to]
  BY <1>0, <1>1, <1>2 DEF Listed, Posted
<1>3. /\ posted \subseteq posted'
      /\ \A p \in posted' \ posted : p = [letter |-> d.letter, to |-> d.to]
  BY <1>2 DEF EndSubmission, Post
<1>4. /\ outbox' \subseteq outbox
      /\ acknowledged' = acknowledged
         \/ (acknowledged' = acknowledged \cup {new} /\ Post(d))
  BY DEF EndSubmission, Answered
<1>5. /\ new.letter = d.letter /\ new.to = d.to /\ new.fresh = Alone(d)
      /\ new \in [letter: Letter, to: SUBSET Address, fresh: BOOLEAN]
  BY <1>1 DEF Alone
<1>6. SessionsOK' /\ (\A t \in Session : Sound(session[t]))'
  <2>1. Put(s, Ready(d)) \/ Put(s, Closed)
    BY DEF EndSubmission
  <2> QED
    BY <1>0, <2>1, Fresh, Putting
<1>7. LettersOK'
  <2>1. posted \subseteq History /\ outbox \subseteq Letter
        /\ acknowledged \subseteq [letter: Letter, to: SUBSET Address, fresh: BOOLEAN]
    BY DEF IInv, TypeOK, LettersOK
  <2>2. [letter |-> d.letter, to |-> d.to] \in History
    BY <1>1 DEF History
  <2>3. posted' \subseteq History
    BY <1>3, <2>1, <2>2
  <2> HIDE DEF new
  <2>4. acknowledged' \subseteq [letter: Letter, to: SUBSET Address, fresh: BOOLEAN]
    BY <1>4, <1>5, <2>1
  <2> QED
    BY <1>4, <2>1, <2>3, <2>4 DEF LettersOK
<1>8. PostedToItsOwn'
  BY <1>1, <1>3 DEF IInv, PostedToItsOwn, letter
<1>9. ASSUME Alone(d), Post(d) PROVE [letter |-> d.letter, to |-> d.to] \in posted'
  <2>1. d.real
    BY <1>0, <1>1, <1>9, Zenon DEF Listed
  <2> QED
    BY <1>2, <1>9, <2>1 DEF Post
<1> HIDE DEF new
<1>10. FirstIsPosted'
  BY <1>3, <1>4, <1>5, <1>9 DEF IInv, FirstIsPosted, letter
<1>11. resets' \in Nat /\ mishaps' \in Nat
  BY DEF EndSubmission, IInv, TypeOK, Mishap
<1> QED
  BY <1>6, <1>7, <1>8, <1>10, <1>11 DEF IInv, TypeOK

LEMMA Stopping == ASSUME IInv, UNCHANGED scenario, Stop PROVE IInv'
<1>1. session' = [s \in Session |-> Closed] /\ UNCHANGED <<history, outbox>> /\ Bounded
  BY DEF Stop, Bounded
<1>2. \A s \in Session : Sound(session'[s])
  BY <1>1, Fresh
<1>3. (\A s \in Session : Sound(session[s]))'
  BY <1>2 DEF Sound, DialogueOK, Matches, Listed, Alone, letter
<1>4. SessionsOK'
  BY <1>1, <1>2 DEF SessionsOK, Sound, DialogueOK
<1> QED
  BY <1>1, <1>3, <1>4, Talking

-----------------------------------------------------------------------------
(* The theorems.                                                           *)

LEMMA First == Init => IInv
<1> SUFFICES ASSUME Init PROVE IInv
  OBVIOUS
<1>1. scenario \in Scenarios /\ scenario.resets \in Nat /\ scenario.mishaps \in Nat
  BY SmtpAssumption DEF Init, Scenario
<1>2. \A s \in Session : session[s] = Closed /\ Sound(session[s])
  BY Fresh DEF Init
<1>3. SessionsOK
  BY <1>2 DEF Init, SessionsOK, Sound, DialogueOK
<1> QED
  BY <1>1, <1>2, <1>3 DEF Init, IInv, TypeOK, LettersOK, FirstIsPosted, PostedToItsOwn

LEMMA Inductive == IInv /\ [Next]_vars => IInv'
<1> SUFFICES ASSUME IInv, [Next]_vars PROVE IInv'
  OBVIOUS
<1>1. CASE UNCHANGED vars
  <2>1. UNCHANGED <<session, outbox, posted, acknowledged, resets, mishaps, scenario>>
    BY <1>1 DEF vars, history, bounds
  <2> QED
    BY <2>1 DEF IInv, TypeOK, SessionsOK, LettersOK, DialogueOK, Sound, Matches,
                Listed, Alone, FirstIsPosted, PostedToItsOwn, letter
<1>2. CASE Next
  <2>0. UNCHANGED scenario
    BY <1>2 DEF Next
  <2> QED
    BY <1>2, <2>0, Sessions, Letting, Addressing, Ending, Stopping DEF Next
<1> QED
  BY <1>1, <1>2

LEMMA Invariance == Spec => []IInv
BY First, Inductive, PTL DEF Spec

(* All variables keep their types: transactions have a letter, and none    *)
(* ends with an address whose message cannot be made.                      *)
THEOREM SessionsTyped == Spec => []TypeOK
<1>1. IInv => TypeOK
  BY DEF IInv
<1> QED
  BY <1>1, Invariance, PTL

(* The first letter of a user's session that is answered 250 was taken by  *)
(* the API, for exactly the recipients that were accepted, whatever was    *)
(* refused, given up, lost or stopped before: ExternalMessageDelivery gives*)
(* the real message to the first of the list, and the list is shared.      *)
THEOREM FirstLetterPosted == Spec => []FirstIsPosted
<1>1. IInv => FirstIsPosted
  BY DEF IInv
<1> QED
  BY <1>1, Invariance, PTL

(* No letter is posted to an address of another one, though all letters of *)
(* a session share the list that handle_message posts: a letter has a real *)
(* message only when the list was empty before it.                         *)
THEOREM LettersStayApart == Spec => []PostedToItsOwn
<1>1. IInv => PostedToItsOwn
  BY DEF IInv
<1> QED
  BY <1>1, Invariance, PTL
=============================================================================
