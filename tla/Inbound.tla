------------------------------- MODULE Inbound -------------------------------
(***************************************************************************)
(* Orders from outside, from the channel on which they arrive to the       *)
(* decision about them: the collectors that read the mailbox and the       *)
(* Telegram bot, and the review queue of Inbox.                            *)
(*                                                                         *)
(*   backend/app/inbound/collector.py   collect, _handle_update, _link_chat *)
(*   backend/app/inbound/pipeline.py    route, ingest                      *)
(*   backend/app/inbound/email.py       _fetch_pop3                        *)
(*   backend/app/inbound/telegram.py    get_updates                        *)
(*                                                                         *)
(* A collector is one call of collect() after another: the poller of a     *)
(* process, or the requests that press the button.  The Telegram offset is *)
(* a variable of a process; what Telegram has been told is confirmed.      *)
(***************************************************************************)
EXTENDS Inbox

CONSTANTS
  Chats, NoChat,
  NoBusiness,  \* what a token or a chat leads to that belongs to no business
  Collectors,
  Processes,
  ProcessOf,   \* the process in which a collector runs
  Contents,    \* bound: what is sent to the bot
  Addresses,   \* bound: businesses whose token emails carry, or NoBusiness
  MaxFaults    \* bound: sweeps that fail, requests and processes that die

Kinds == {"order", "link", "noise"}
Targets == Businesses \cup {NoBusiness}

ASSUME InboundAssumption ==
  /\ NoBusiness \notin Businesses
  /\ NoChat \notin Chats
  /\ ProcessOf \in [Collectors -> Processes]
  /\ Contents \subseteq [kind : Kinds, chat : Chats, to : Targets]
  /\ Addresses \subseteq Targets
  /\ MaxFaults \in Nat

VARIABLES
  sent,       \* updates that Telegram has received for the bot
  confirmed,  \* of those, how many it has forgotten
  mailbox,    \* emails on the mail server
  content,    \* of a message: its kind, its chat, the business of its token
  link,       \* channel_links: the business of a chat
  offset,     \* _telegram_offset of a process, 0 for None
  pc,         \* the channel a collector is busy with
  mails,      \* emails it has taken from the mailbox and not yet stored
  next, last, \* updates it has read and not yet handled: next..last
  unrouted,   \* history: orders dropped because they led to no business
  lost,       \* history: emails that a fault took from a sweep
  faults

channels  == <<sent, mailbox, content>>
collector == <<offset, pc, mails, next, last>>
vars == <<inbox, channels, confirmed, link, collector, unrouted, lost, faults>>

Init ==
  /\ InboxInit
  /\ sent      = 0
  /\ confirmed = 0
  /\ mailbox   = {}
  /\ content   = [i \in Messages |-> [kind |-> "noise", chat |-> NoChat, to |-> NoBusiness]]
  /\ link      = [x \in Chats |-> NoBusiness]
  /\ offset    = [p \in Processes |-> 0]
  /\ pc        = [c \in Collectors |-> "telegram"]
  /\ mails     = [c \in Collectors |-> {}]
  /\ next      = [c \in Collectors |-> 1]
  /\ last      = [c \in Collectors |-> 0]
  /\ unrouted  = {}
  /\ lost      = {}
  /\ faults    = 0

-----------------------------------------------------------------------------
(* The outside world.                                                      *)

SendUpdate(u) ==
  /\ sent < MaxUpdates
  /\ sent' = sent + 1
  /\ content' = [content EXCEPT ![sent + 1] = u]
  /\ UNCHANGED <<inbox, mailbox, confirmed, link, collector, unrouted, lost, faults>>

SendMail(i, b) ==
  /\ content[i].kind = "noise"
  /\ content' = [content EXCEPT ![i] = [kind |-> "order", chat |-> NoChat, to |-> b]]
  /\ mailbox' = mailbox \cup {i}
  /\ UNCHANGED <<inbox, sent, confirmed, link, collector, unrouted, lost, faults>>

-----------------------------------------------------------------------------
(* Collection.                                                             *)

\* route(): an email by the token it was addressed to, an update by its chat.
Route_Guessing(i) ==
  IF i \in Mails THEN content[i].to
  ELSE IF link[content[i].chat] # NoBusiness THEN link[content[i].chat]
  ELSE CHOOSE b \in Businesses : TRUE
Route(i) == IF i \in Mails THEN content[i].to ELSE link[content[i].chat]

\* ingest(): an order that leads to no business is dropped; one that cannot be
\* read is queued all the same.
Ingest_ReadableOnly(i) ==
  IF Route(i) = NoBusiness
  THEN unrouted' = unrouted \cup {i} /\ UNCHANGED inbox
  ELSE /\ Queue(<<Route(i), i>>, "pending") \/ UNCHANGED inbox
       /\ UNCHANGED unrouted

Ingest(i) ==
  IF Route(i) = NoBusiness
  THEN unrouted' = unrouted \cup {i} /\ UNCHANGED inbox
  ELSE /\ \E s \in {"pending", "failed"} : Queue(<<Route(i), i>>, s)
       /\ UNCHANGED unrouted

Resting(c) == pc[c] = "telegram" /\ next[c] > last[c]

\* _fetch_pop3(): as many emails as fit the batch, or none if the server cannot
\* be reached, are deleted there before any is stored; or are not deleted, if the
\* session cannot be ended.
Fetch(c) ==
  /\ Resting(c)
  /\ pc'      = [pc EXCEPT ![c] = "email"]
  /\ \E S \in SUBSET mailbox :
       /\ mails' = [mails EXCEPT ![c] = S]
       /\ \/ mailbox' = mailbox \ S /\ UNCHANGED faults
          \/ faults < MaxFaults /\ faults' = faults + 1 /\ UNCHANGED mailbox
  /\ UNCHANGED <<inbox, sent, content, confirmed, link, offset, next, last, unrouted, lost>>

StoreMail(c, i) ==
  /\ pc[c] = "email"
  /\ i \in mails[c]
  /\ Ingest(i)
  /\ mails' = [mails EXCEPT ![c] = @ \ {i}]
  /\ UNCHANGED <<channels, confirmed, link, offset, pc, next, last, lost, faults>>

\* get_updates(): the offset confirms every update before it, and Telegram
\* answers with those that are not confirmed.
Confirmed(p) == IF offset[p] > confirmed THEN offset[p] - 1 ELSE confirmed

Poll(c) ==
  /\ pc[c] = "email"
  /\ mails[c] = {}
  /\ pc'        = [pc EXCEPT ![c] = "telegram"]
  /\ confirmed' = Confirmed(ProcessOf[c])
  /\ next'      = [next EXCEPT ![c] = confirmed' + 1]
  /\ last'      = [last EXCEPT ![c] = sent]
  /\ UNCHANGED <<inbox, channels, link, offset, mails, unrouted, lost, faults>>

\* The offset moves once the update has been dealt with, whatever came of it.
Past_SkippingOne(u) == u + 2
Past_Staying(u) == u
Past(u) == u + 1

Links(i) == content[i].kind = "link" /\ content[i].to # NoBusiness

Handle(c) ==
  LET u == next[c] IN
  /\ pc[c] = "telegram"
  /\ u <= last[c]
  /\ IF content[u].kind = "order" THEN Ingest(u) ELSE UNCHANGED <<inbox, unrouted>>
  /\ link'   = IF Links(u) THEN [link EXCEPT ![content[u].chat] = content[u].to] ELSE link
  /\ offset' = [offset EXCEPT ![ProcessOf[c]] = Past(u)]
  /\ next'   = [next EXCEPT ![c] = u + 1]
  /\ UNCHANGED <<channels, confirmed, pc, mails, last, lost, faults>>

\* An exception ends the sweep, or Telegram does not answer: what was read
\* and not yet handled is dropped from memory.
Fail(c) ==
  /\ ~Resting(c)
  /\ faults < MaxFaults
  /\ pc'     = [pc EXCEPT ![c] = "telegram"]
  /\ mails'  = [mails EXCEPT ![c] = {}]
  /\ lost'   = lost \cup mails[c]
  /\ next'   = [next EXCEPT ![c] = last[c] + 1]
  /\ faults' = faults + 1
  /\ UNCHANGED <<inbox, channels, confirmed, link, offset, last, unrouted>>

\* A process dies and starts again, without its offset.
Restart(p) ==
  /\ faults < MaxFaults
  /\ offset' = [offset EXCEPT ![p] = 0]
  /\ pc'     = [c \in Collectors |-> IF ProcessOf[c] = p THEN "telegram" ELSE pc[c]]
  /\ mails'  = [c \in Collectors |-> IF ProcessOf[c] = p THEN {} ELSE mails[c]]
  /\ lost'   = lost \cup UNION {mails[c] : c \in {d \in Collectors : ProcessOf[d] = p}}
  /\ next'   = [c \in Collectors |-> IF ProcessOf[c] = p THEN last[c] + 1 ELSE next[c]]
  /\ faults' = faults + 1
  /\ UNCHANGED <<inbox, channels, confirmed, link, last, unrouted>>

\* DELETE /inbox/links/{id}
Unlink(x) ==
  /\ link[x] # NoBusiness
  /\ link' = [link EXCEPT ![x] = NoBusiness]
  /\ UNCHANGED <<inbox, channels, confirmed, collector, unrouted, lost, faults>>

-----------------------------------------------------------------------------
(* Review.                                                                 *)

Decide ==
  \/ \E r \in Reviewers, m \in Rows : Record(r, m) \/ Reject(r, m)
  \/ \E r \in Reviewers : MarkAccepted(r)
  \/ \E m \in Rows : Remove(m)
  \/ \E b \in Businesses : ClearHandled(b)

Review ==
  /\ Decide
  /\ UNCHANGED <<channels, confirmed, link, collector, unrouted, lost, faults>>

CutShort(r) ==
  /\ faults < MaxFaults
  /\ Interrupt(r)
  /\ faults' = faults + 1
  /\ UNCHANGED <<channels, confirmed, link, collector, unrouted, lost>>

Collect(c) == Fetch(c) \/ (\E i \in Mails : StoreMail(c, i)) \/ Poll(c) \/ Handle(c)

Next ==
  \/ \E u \in Contents : SendUpdate(u)
  \/ \E i \in Mails, b \in Addresses : SendMail(i, b)
  \/ \E c \in Collectors : Collect(c) \/ Fail(c)
  \/ \E p \in Processes : Restart(p)
  \/ \E x \in Chats : Unlink(x)
  \/ Review
  \/ \E r \in Reviewers : CutShort(r)

\* The poller runs every thirty seconds and a sweep under way goes on.
Fairness == \A c \in Collectors : WF_vars(Collect(c))

Spec == Init /\ [][Next]_vars /\ Fairness

-----------------------------------------------------------------------------

TypeOK ==
  /\ InboxTypeOK
  /\ sent \in 0..MaxUpdates
  /\ confirmed \in 0..sent
  /\ mailbox \subseteq Mails
  /\ content \in [Messages -> [kind : Kinds, chat : Chats \cup {NoChat}, to : Targets]]
  /\ link \in [Chats -> Targets]
  /\ offset \in [Processes -> 0..(sent + 1)]
  /\ pc \in [Collectors -> {"email", "telegram"}]
  /\ mails \in [Collectors -> SUBSET Mails]
  /\ next \in [Collectors -> 1..(sent + 1)]
  /\ last \in [Collectors -> 0..sent]
  /\ unrouted \subseteq Messages
  /\ lost \subseteq Mails
  /\ faults \in 0..MaxFaults

Kept(i) == i \in unrouted \/ \E b \in Businesses : row[<<b, i>>] # "absent" \/ <<b, i>> \in gone

\* What Telegram has forgotten was dealt with: every order up to the confirmed
\* update was queued, however sweeps of several threads overlap, fail or start
\* again without their offset, unless its chat led to no business.
NothingSkipped ==
  \A u \in 1..confirmed : content[u].kind = "order" => Kept(u)

\* An email that was sent is on the server, in the hands of a sweep, or was
\* queued, however sweeps overlap: the only emails that are lost are those that a
\* sweep which failed or died had taken from the server and not yet stored.
MailLostOnlyByFault ==
  \A i \in Mails : content[i].kind = "order" =>
    \/ i \in mailbox
    \/ \E c \in Collectors : i \in mails[c]
    \/ Kept(i)
    \/ i \in lost

\* No order gets into the queue of a business that its sender did not address:
\* by the token of the email, or by a link that its chat has sent.
NoStrangersOrder ==
  \A b \in Businesses : \A i \in Messages : row[<<b, i>>] # "absent" =>
    IF i \in Mails THEN content[i].to = b
    ELSE \E u \in 1..sent : Links(u) /\ content[u].chat = content[i].chat /\ content[u].to = b

\* A message that says recorded was recorded, also when others decided on it,
\* deleted it or collected it again in the meantime.
AcceptedIsRecorded ==
  \A m \in Rows : row[m] = "accepted" => docs[m] > 0

\* The order is recorded once: from one row of the queue comes one document,
\* if no accept of it is cut short and one reviewer decides at a time.
RecordedOnce == \A m \in Rows \ cut : docs[m] <= 1

\* A dismissed order is not in the books, under the same conditions.
RejectedIsNotRecorded == \A m \in Rows \ cut : row[m] = "rejected" => docs[m] = 0

\* Nothing takes an accepted message back: not a late rejection, not the same
\* message read again.  It can only be deleted.
AcceptedStays ==
  [][\A m \in Rows : row[m] = "accepted" => row'[m] \in {"accepted", "absent"}]_vars

\* What has become of the order in a row of the queue.
VerdictOf(m) ==
  IF m \in cut THEN "unsure"
  ELSE IF row[m] = "absent" THEN "none"
  ELSE IF docs[m] > 0 THEN "recorded"
  ELSE IF row[m] = "rejected" THEN "dismissed"
  ELSE "waiting"

V == INSTANCE Decisions WITH Items   <- Rows,
                             verdict <- [m \in Rows |-> VerdictOf(m)]

\* With one reviewer at a time, a step of the queue is a step of Decisions or
\* changes none of its state: although accept() commits twice, an order is either
\* undecided or recorded or dismissed, never two of these, and no collector, late
\* status or deletion in between makes one out of another.
ImplementsDecisions == V!DecisionsSpec

\* Every update is read, dealt with and confirmed at last.
EventuallyConfirmed == \A u \in Updates : (sent >= u) ~> (confirmed >= u)

=============================================================================
