----------------------------- MODULE SmtpServer -----------------------------
(***************************************************************************)
(* The SMTP server beside the master.  Mail servers bring it notifications *)
(* about e-mails that were delivered in vain, addressed to a return path   *)
(* that names the mailing and the recipient; users who log in bring        *)
(* e-mails, which an external API checks and takes.  One process serves    *)
(* all sessions; calls of the API block it.                                *)
(*                                                                         *)
(* The SMTP dialogue is Twisted's and the clients' (external): addresses   *)
(* of a letter are given one by one and those refused are left out, a      *)
(* client that gets no answer tries the letter again in another session,   *)
(* and one that is refused gives it up.                                    *)
(*                                                                         *)
(* The lines of a message are bytes.  The end of a notification joins them *)
(* with a text, which raises an error before the notification is looked    *)
(* at: what handle_report and store_recipient_report do is never done, and *)
(* no kind of notification is told from another here.                      *)
(***************************************************************************)
EXTENDS Integers, Sequences, FiniteSets, Functions

CONSTANTS
  Session,
  Recipient,      \* return paths that name a mailing and a recipient
  BadNumber,      \* a return path whose mailing is not a number
  NoDash,         \* an address that is no return path
  Outsider,       \* addresses of the e-mails of users
  Letter, NoLetter,
  Scenarios       \* what clients bring: one is chosen at first

ReturnPath == Recipient \cup {BadNumber, NoDash}
Address == ReturnPath \cup Outsider
Kind == {"notification", "submission"}

(* letters: what clients bring; resets: transactions given up with RSET;   *)
(* mishaps: lost connections, refusals and failures of the API, stops of   *)
(* the process.                                                            *)
Scenario == [letters: [Letter -> [kind: Kind, to: SUBSET Address]],
             resets: Nat, mishaps: Nat]

(* Users write to outsiders; who knows no return path does not notify.     *)
ASSUME SmtpAssumption ==
  /\ NoLetter \notin Letter
  /\ Scenarios \subseteq Scenario
  /\ \A c \in Scenarios : \A l \in Letter :
       c.letters[l].to \subseteq
         IF c.letters[l].kind = "submission" THEN Outsider ELSE ReturnPath

Stage == {"closed", "ready", "mail", "data"}

(* A session: who uses it, the letter of its transaction, the addresses    *)
(* that were given and those accepted.  recipients is the list of the      *)
(* user's delivery, real whether one of the accepted addresses has a real  *)
(* message.                                                                *)
Dialogue == [stage: Stage, user: BOOLEAN, letter: Letter \cup {NoLetter},
             tried: SUBSET Address, to: SUBSET Address,
             recipients: Seq(Outsider), real: BOOLEAN]

Closed == [stage |-> "closed", user |-> FALSE, letter |-> NoLetter,
           tried |-> {}, to |-> {}, recipients |-> <<>>, real |-> FALSE]

VARIABLES
  session,
  outbox,        \* letters the clients still have to deliver
  posted,        \* history: letters the API took, and for whom
  acknowledged,  \* history: letters answered 250, their accepted addresses
  resets, mishaps,  \* what may still happen
  scenario       \* the scenario that was chosen; never changes

history == <<posted, acknowledged>>
bounds == <<resets, mishaps>>
vars == <<session, outbox, history, bounds, scenario>>

letter == scenario.letters
History == [letter: Letter, to: SUBSET Address]

DialogueOK(d) ==
  /\ d \in Dialogue
  /\ d.stage \in {"mail", "data"} <=> d.letter # NoLetter
  /\ d.stage = "data" => d.to # {} /\ BadNumber \notin d.to

SessionsOK ==
  session \in [Session -> Dialogue] /\ \A s \in Session : DialogueOK(session[s])

LettersOK ==
  /\ outbox \subseteq Letter
  /\ posted \subseteq History
  /\ acknowledged \subseteq [letter: Letter, to: SUBSET Address, fresh: BOOLEAN]

TypeOK ==
  /\ SessionsOK /\ LettersOK
  /\ resets \in Nat /\ mishaps \in Nat
  /\ scenario \in Scenarios

Init ==
  /\ scenario \in Scenarios
  /\ session = [s \in Session |-> Closed]
  /\ outbox = Letter
  /\ posted = {} /\ acknowledged = {}
  /\ resets = scenario.resets /\ mishaps = scenario.mishaps

Mishap == mishaps > 0 /\ mishaps' = mishaps - 1

Put(s, dialogue) == session' = [session EXCEPT ![s] = dialogue]

(* The end of a transaction: the session can be used again.  The delivery  *)
(* of a user, with its list of recipients, stays.                          *)
Ready(d) == [Closed EXCEPT !.stage = "ready", !.user = d.user,
                           !.recipients = d.recipients]

-----------------------------------------------------------------------------
(* Sessions and transactions.                                              *)

Open(s) ==
  /\ session[s].stage = "closed"
  /\ Put(s, [Closed EXCEPT !.stage = "ready"])
  /\ UNCHANGED <<outbox, history, bounds>>

(* A user logs in: the API accepts the password, and from now on the       *)
(* session has a delivery of its own.                                      *)
Authenticate(s) ==
  /\ session[s].stage = "ready" /\ ~session[s].user
  /\ Put(s, [session[s] EXCEPT !.user = TRUE])
  /\ UNCHANGED <<outbox, history, bounds>>

(* No session has it.                                                      *)
Idle(l) == \A s \in Session : session[s].letter # l

(* Notifications come without a login, users' e-mails after one; the API   *)
(* may refuse the sender.                                                  *)
MailFrom(s, l) ==
  LET d == session[s] IN
  /\ d.stage = "ready" /\ l \in outbox /\ Idle(l)
  /\ d.user <=> letter[l].kind = "submission"
  /\ Put(s, [d EXCEPT !.stage = "mail", !.letter = l])
  /\ UNCHANGED <<outbox, history, bounds>>

RefuseSender(s, l) ==
  /\ session[s].stage = "ready" /\ session[s].user /\ l \in outbox /\ Idle(l)
  /\ letter[l].kind = "submission"
  /\ Mishap
  /\ outbox' = outbox \ {l}
  /\ UNCHANGED <<session, resets, history>>

(* The first recipient of a delivery has the message that is posted; the   *)
(* others have one that does nothing.  Variant: all have a real one.       *)
AlwaysReal(d) == d.recipients # <<>>
IsReal(d) == Len(d.recipients) = 1

Accepts(a) == a # NoDash

RcptTo(s, a) ==
  LET d == session[s]
      listed == [d EXCEPT !.recipients = Append(@, a)]
  IN /\ d.stage = "mail" /\ a \in letter[d.letter].to \ d.tried
     /\ IF d.user
        THEN Put(s, [listed EXCEPT !.tried = @ \cup {a}, !.to = @ \cup {a},
                                   !.real = @ \/ IsReal(listed)])
        ELSE Put(s, [d EXCEPT !.tried = @ \cup {a},
                              !.to = IF Accepts(a) THEN @ \cup {a} ELSE @])
     /\ UNCHANGED <<outbox, history, bounds>>

(* The API refuses a recipient: it is not listed.                          *)
RefuseRecipient(s, a) ==
  /\ session[s].stage = "mail" /\ session[s].user
  /\ a \in letter[session[s].letter].to \ session[s].tried
  /\ Mishap
  /\ Put(s, [session[s] EXCEPT !.tried = @ \cup {a}])
  /\ UNCHANGED <<outbox, resets, history>>

(* The client changes its mind and tries again later.                      *)
Rset(s) ==
  /\ session[s].stage = "mail" /\ resets > 0 /\ resets' = resets - 1
  /\ Put(s, Ready(session[s]))
  /\ UNCHANGED <<outbox, mishaps, history>>

(* All addresses were given.  The messages are made: one whose mailing is  *)
(* not a number refuses the letter for all.  Variant: it does not.         *)
MadeForSome(d) == d.to # {}
CanBeMade(d) == d.to # {} /\ BadNumber \notin d.to

Data(s) ==
  LET d == session[s] IN
  /\ d.stage = "mail" /\ d.tried = letter[d.letter].to
  /\ IF CanBeMade(d)
     THEN Put(s, [d EXCEPT !.stage = "data"]) /\ UNCHANGED outbox
     ELSE Put(s, Ready(d)) /\ outbox' = outbox \ {d.letter}
  /\ UNCHANGED <<history, bounds>>

-----------------------------------------------------------------------------
(* What is done with a message at its end.                                 *)

(* The lines are joined before handle_report is called, and its handler of *)
(* errors does not see the one that is raised: nothing is stored, Twisted  *)
(* drops the connection, and the client has no answer.                     *)
EndNotification(s) ==
  /\ session[s].stage = "data" /\ ~session[s].user
  /\ Put(s, Closed)
  /\ UNCHANGED <<outbox, history, bounds>>

(* handle_message: the real message, if the letter has one, is posted for  *)
(* the recipients its list has by now.  Variant: that it had when the      *)
(* message was promised.                                                   *)
PostedEarly(d) == [letter |-> d.letter, to |-> {Head(d.recipients)}]
Posted(d) == [letter |-> d.letter, to |-> Range(d.recipients)]

Post(d) == posted' = posted \cup (IF d.real THEN {Posted(d)} ELSE {})

Answered(d) ==
  acknowledged \cup {[letter |-> d.letter, to |-> d.to,
                      fresh |-> Len(d.recipients) = Cardinality(d.to)]}

(* The letter is answered 250; or refused, whether or not the API took it  *)
(* before it failed to say so; or the client is gone before the answer.    *)
EndSubmission(s) ==
  LET d == session[s] IN
  /\ d.stage = "data" /\ d.user
  /\ \/ /\ Post(d) /\ Put(s, Ready(d))
        /\ outbox' = outbox \ {d.letter} /\ acknowledged' = Answered(d)
        /\ UNCHANGED mishaps
     \/ /\ Mishap /\ d.real /\ (Post(d) \/ UNCHANGED posted) /\ Put(s, Ready(d))
        /\ outbox' = outbox \ {d.letter} /\ UNCHANGED acknowledged
     \/ /\ Mishap /\ Post(d) /\ Put(s, Closed)
        /\ UNCHANGED <<outbox, acknowledged>>
  /\ UNCHANGED resets

-----------------------------------------------------------------------------
(* The connection is lost: a message that has not ended is discarded.      *)
LoseConnection(s) ==
  /\ session[s].stage # "closed"
  /\ Mishap
  /\ Put(s, Closed)
  /\ UNCHANGED <<outbox, resets, history>>

Quit(s) ==
  /\ session[s].stage = "ready"
  /\ Put(s, Closed)
  /\ UNCHANGED <<outbox, history, bounds>>

(* The process stops, and starts again.                                    *)
Stop ==
  /\ Mishap
  /\ session' = [s \in Session |-> Closed]
  /\ UNCHANGED <<outbox, resets, history>>

Next ==
  /\ \/ \E s \in Session :
          \/ Open(s) \/ Authenticate(s) \/ Rset(s) \/ Data(s)
          \/ EndNotification(s) \/ EndSubmission(s)
          \/ LoseConnection(s) \/ Quit(s)
          \/ \E l \in Letter : MailFrom(s, l) \/ RefuseSender(s, l)
          \/ \E a \in Address : RcptTo(s, a)
          \/ \E a \in Outsider : RefuseRecipient(s, a)
     \/ Stop
  /\ UNCHANGED scenario

Spec == Init /\ [][Next]_vars

-----------------------------------------------------------------------------
(* Properties.                                                             *)

(* What ExternalMessageDelivery and its messages do with the first letter  *)
(* of a session: if it is answered 250, the API has taken it, for exactly  *)
(* the recipients that were accepted.                                      *)
FirstIsPosted ==
  \A a \in acknowledged :
    letter[a.letter].kind = "submission" /\ a.fresh =>
      [letter |-> a.letter, to |-> a.to] \in posted

(* The list of recipients is shared by all letters of a session, with the  *)
(* addresses of those given up before: yet no letter is posted to an       *)
(* address of another, since the only message that is not fake is that of  *)
(* the first address of all.                                               *)
PostedToItsOwn == \A p \in posted : p.to \subseteq letter[p.letter].to

(* What the comment at the second kind of message says: the fake messages  *)
(* need not be posted, because all recipients are in the first one.  It    *)
(* does not hold: the list is the delivery's, and a second letter in the   *)
(* same session has fake messages only.                                    *)
AllAreInFirst ==
  \A a \in acknowledged :
    letter[a.letter].kind = "submission" =>
      \E p \in posted : p.letter = a.letter /\ a.to \subseteq p.to
=============================================================================
