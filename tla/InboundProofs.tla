---------------------------- MODULE InboundProofs ----------------------------
(***************************************************************************)
(* Theorems about Inbound: what holds of the collectors and of the queue   *)
(* for every number of messages, collectors, processes and reviewers.      *)
(***************************************************************************)
EXTENDS Inbound, TLAPS

-----------------------------------------------------------------------------
(* Types.  What a collector handles next was sent by a chat.               *)

FromChats == \A u \in 1..sent : content[u].chat \in Chats

Typed == TypeOK /\ FromChats

\* The queue alone: what a step of Inbound may do to it.
InboxNext ==
  \/ \E m \in Rows, s \in {"pending", "failed"} : Queue(m, s)
  \/ \E r \in Reviewers, m \in Rows : Record(r, m) \/ Reject(r, m)
  \/ \E r \in Reviewers : MarkAccepted(r) \/ Interrupt(r)
  \/ \E D \in SUBSET Rows : Delete(D)

\* An order is stored where its route leads, or dropped.
LEMMA IngestStep ==
  ASSUME NEW i \in Messages, Route(i) \in Targets, Ingest(i)
  PROVE  /\ UNCHANGED inbox \/ \E m \in Rows, s \in {"pending", "failed"} : Queue(m, s)
         /\ unrouted' = unrouted \/ unrouted' = unrouted \cup {i}
<1>1. CASE Route(i) = NoBusiness
  BY <1>1 DEF Ingest
<1>2. CASE Route(i) # NoBusiness
  <2>1. <<Route(i), i>> \in Rows
    BY <1>2 DEF Targets, Rows
  <2> QED BY <1>2, <2>1 DEF Ingest
<1> QED BY <1>1, <1>2

LEMMA RouteTyped ==
  ASSUME TypeOK, NEW i \in Messages, i \in Mails \/ content[i].chat \in Chats
  PROVE  Route(i) \in Targets
BY DEF TypeOK, Route, Targets

\* Every step of the system is a step of the queue, or leaves it alone.
LEMMA InboxSteps ==
  ASSUME Typed, [Next]_vars
  PROVE  InboxNext \/ UNCHANGED inbox
<1> USE DEF Typed
<1>1. ASSUME NEW c \in Collectors, NEW i \in Mails, StoreMail(c, i)
      PROVE  InboxNext \/ UNCHANGED inbox
  <2>1. i \in Messages /\ Route(i) \in Targets
    BY RouteTyped DEF Messages
  <2>2. Ingest(i)
    BY <1>1 DEF StoreMail
  <2> QED BY <2>1, <2>2, IngestStep DEF InboxNext
<1>2. ASSUME NEW c \in Collectors, Handle(c)
      PROVE  InboxNext \/ UNCHANGED inbox
  <2>1. next[c] \in 1..sent /\ next[c] \in Messages
    BY <1>2, InboxAssumption DEF Handle, TypeOK, Messages, Updates
  <2>2. Route(next[c]) \in Targets
    BY <2>1, RouteTyped DEF FromChats
  <2>3. Ingest(next[c]) \/ UNCHANGED inbox
    BY <1>2 DEF Handle
  <2> QED BY <2>1, <2>2, <2>3, IngestStep DEF InboxNext
<1>3. ASSUME Review PROVE InboxNext
  <2>1. CASE \E m \in Rows : Remove(m)
    BY <2>1 DEF Remove, InboxNext
  <2>2. CASE \E b \in Businesses : ClearHandled(b)
    <3>1. \A b \in Businesses : Cleared(b) \in SUBSET Rows
      BY DEF Cleared
    <3> QED BY <2>2, <3>1 DEF ClearHandled, InboxNext
  <2> QED BY <1>3, <2>1, <2>2 DEF Review, Decide, InboxNext
<1>4. ASSUME NEW r \in Reviewers, CutShort(r) PROVE InboxNext
  BY <1>4 DEF CutShort, InboxNext
<1>5. ASSUME NEW c \in Collectors, Fetch(c) \/ Poll(c) \/ Fail(c) PROVE UNCHANGED inbox
  BY <1>5 DEF Fetch, Poll, Fail
<1>6. ASSUME NEW p \in Processes, Restart(p) PROVE UNCHANGED inbox
  BY <1>6 DEF Restart
<1>7. ASSUME NEW x \in Chats, Unlink(x) PROVE UNCHANGED inbox
  BY <1>7 DEF Unlink
<1>8. ASSUME NEW u \in Contents, SendUpdate(u) PROVE UNCHANGED inbox
  BY <1>8 DEF SendUpdate
<1>9. ASSUME NEW i \in Mails, NEW b \in Addresses, SendMail(i, b) PROVE UNCHANGED inbox
  BY <1>9 DEF SendMail
<1>10. UNCHANGED vars => UNCHANGED inbox
  BY DEF vars
<1> QED BY <1>1, <1>2, <1>3, <1>4, <1>5, <1>6, <1>7, <1>8, <1>9, <1>10 DEF Next, Collect

LEMMA InboxTyped ==
  ASSUME InboxTypeOK, InboxNext \/ UNCHANGED inbox
  PROVE  InboxTypeOK'
<1> USE DEF InboxTypeOK
<1>1. ASSUME NEW m \in Rows, NEW s \in {"pending", "failed"}, Queue(m, s)
      PROVE  InboxTypeOK'
  BY <1>1 DEF Queue, Statuses
<1>2. ASSUME NEW r \in Reviewers, NEW m \in Rows, Record(r, m)
      PROVE  InboxTypeOK'
  BY <1>2 DEF Record
<1>3. ASSUME NEW r \in Reviewers, NEW m \in Rows, Reject(r, m)
      PROVE  InboxTypeOK'
  BY <1>3 DEF Reject, Statuses
<1>4. ASSUME NEW r \in Reviewers, MarkAccepted(r)
      PROVE  InboxTypeOK'
  BY <1>4 DEF MarkAccepted, Statuses
<1>5. ASSUME NEW r \in Reviewers, Interrupt(r)
      PROVE  InboxTypeOK'
  <2>1. at[r] \in Rows
    BY <1>5 DEF Interrupt
  <2> QED BY <1>5, <2>1 DEF Interrupt
<1>6. ASSUME NEW D \in SUBSET Rows, Delete(D)
      PROVE  InboxTypeOK'
  BY <1>6 DEF Delete, Statuses
<1>7. CASE UNCHANGED inbox
  BY <1>7 DEF inbox
<1> QED BY <1>1, <1>2, <1>3, <1>4, <1>5, <1>6, <1>7 DEF InboxNext

\* The program's variables keep their types, the queue's follow from InboxTyped.
LEMMA TypedSteps ==
  ASSUME Typed, [Next]_vars
  PROVE  Typed'
<1> USE InboxAssumption, InboundAssumption DEF Typed
<1>0. InboxTypeOK'
  BY InboxSteps, InboxTyped DEF TypeOK
<1>1. ASSUME NEW u \in Contents, SendUpdate(u) PROVE Typed'
  <2>1. sent + 1 \in Messages /\ sent + 1 \in Updates
    BY <1>1 DEF SendUpdate, TypeOK, Messages, Updates
  <2>2. content' = [content EXCEPT ![sent + 1] = u] /\ sent' = sent + 1
    BY <1>1 DEF SendUpdate
  <2>3. u \in [kind : Kinds, chat : Chats \cup {NoChat}, to : Targets] /\ u.chat \in Chats
    OBVIOUS
  <2>4. content' \in [Messages -> [kind : Kinds, chat : Chats \cup {NoChat}, to : Targets]]
    BY <2>1, <2>2, <2>3 DEF TypeOK
  <2>5. FromChats'
    <3>1. \A v \in 1..sent : v \in Messages /\ v # sent + 1
      BY DEF TypeOK, Messages, Updates
    <3>2. \A v \in 1..sent' : v = sent + 1 \/ v \in 1..sent
      BY <2>2 DEF TypeOK
    <3> QED BY <2>1, <2>2, <2>3, <3>1, <3>2 DEF FromChats, TypeOK
  <2>6. sent' \in 0..MaxUpdates /\ confirmed' \in 0..sent'
    BY <1>1 DEF SendUpdate, TypeOK
  <2>7. /\ offset' \in [Processes -> 0..(sent' + 1)]
        /\ next' \in [Collectors -> 1..(sent' + 1)]
        /\ last' \in [Collectors -> 0..sent']
    <3>1. /\ 0..(sent + 1) \subseteq 0..(sent' + 1)
          /\ 1..(sent + 1) \subseteq 1..(sent' + 1)
          /\ 0..sent \subseteq 0..sent'
      BY <2>2 DEF TypeOK
    <3> QED BY <1>1, <3>1 DEF SendUpdate, collector, TypeOK
  <2> QED BY <1>0, <1>1, <2>4, <2>5, <2>6, <2>7 DEF SendUpdate, TypeOK, collector
<1>2. ASSUME NEW i \in Mails, NEW b \in Addresses, SendMail(i, b) PROVE Typed'
  <2>1. i \in Messages /\ b \in Targets /\ \A u \in 1..sent : u # i /\ u \in Messages
    BY DEF Messages, Updates, TypeOK
  <2>2. FromChats'
    BY <1>2, <2>1 DEF SendMail, FromChats, TypeOK
  <2> QED BY <1>0, <1>2, <2>1, <2>2 DEF SendMail, TypeOK, collector, Kinds
<1>3. ASSUME NEW c \in Collectors, Fetch(c) PROVE Typed'
  BY <1>0, <1>3 DEF Fetch, TypeOK, FromChats
<1>4. ASSUME NEW c \in Collectors, NEW i \in Mails, StoreMail(c, i) PROVE Typed'
  <2>1. i \in Messages /\ Route(i) \in Targets
    BY RouteTyped DEF Messages
  <2>2. unrouted' \subseteq Messages
    BY <1>4, <2>1, IngestStep DEF StoreMail, TypeOK
  <2> QED BY <1>0, <1>4, <2>2 DEF StoreMail, TypeOK, FromChats, channels
<1>5. ASSUME NEW c \in Collectors, Poll(c) PROVE Typed'
  <2>1. confirmed' \in 0..sent
    <3>1. offset[ProcessOf[c]] \in 0..(sent + 1)
      BY DEF TypeOK
    <3> QED BY <1>5, <3>1 DEF Poll, Confirmed, TypeOK
  <2>2. confirmed' + 1 \in 1..(sent + 1) /\ sent \in 0..sent
    <3>1. sent \in Nat
      BY DEF TypeOK
    <3>2. \A k \in 0..sent : k + 1 \in 1..(sent + 1) /\ sent \in 0..sent
      BY <3>1
    <3> QED BY <2>1, <3>2
  <2> QED BY <1>0, <1>5, <2>1, <2>2 DEF Poll, TypeOK, FromChats, channels
<1>6. ASSUME NEW c \in Collectors, Handle(c) PROVE Typed'
  <2>1. next[c] \in 1..sent /\ next[c] \in Messages
    BY <1>6 DEF Handle, TypeOK, Messages, Updates
  <2>2. Route(next[c]) \in Targets /\ content[next[c]].to \in Targets
    BY <2>1, RouteTyped DEF FromChats, TypeOK
  <2>3. unrouted' \subseteq Messages
    BY <1>6, <2>1, <2>2, IngestStep DEF Handle, TypeOK
  <2>4. link' \in [Chats -> Targets]
    BY <1>6, <2>2 DEF Handle, TypeOK
  <2>5. next[c] + 1 \in 1..(sent + 1) /\ next[c] + 1 \in 0..(sent + 1)
    BY <2>1 DEF TypeOK
  <2>6. offset' \in [Processes -> 0..(sent + 1)] /\ next' \in [Collectors -> 1..(sent + 1)]
    BY <1>6, <2>5 DEF Handle, Past, TypeOK
  <2> QED BY <1>0, <1>6, <2>3, <2>4, <2>6 DEF Handle, TypeOK, FromChats, channels
<1>7. ASSUME NEW c \in Collectors, Fail(c) PROVE Typed'
  <2>1. last[c] + 1 \in 1..(sent + 1)
    BY DEF TypeOK
  <2> QED BY <1>0, <1>7, <2>1 DEF Fail, TypeOK, FromChats, channels
<1>8. ASSUME NEW p \in Processes, Restart(p) PROVE Typed'
  <2>1. \A c \in Collectors : last[c] + 1 \in 1..(sent + 1) /\ next[c] \in 1..(sent + 1)
    BY DEF TypeOK
  <2>2. next' \in [Collectors -> 1..(sent + 1)]
    BY <1>8, <2>1 DEF Restart
  <2>3. offset' \in [Processes -> 0..(sent + 1)]
    BY <1>8 DEF Restart, TypeOK
  <2> QED BY <1>0, <1>8, <2>2, <2>3 DEF Restart, TypeOK, FromChats, channels
<1>9. ASSUME NEW x \in Chats, Unlink(x) PROVE Typed'
  BY <1>0, <1>9 DEF Unlink, TypeOK, FromChats, channels, collector, Targets
<1>10. CASE Review
  BY <1>0, <1>10 DEF Review, TypeOK, FromChats, channels, collector
<1>11. ASSUME NEW r \in Reviewers, CutShort(r) PROVE Typed'
  BY <1>0, <1>11 DEF CutShort, TypeOK, FromChats, channels, collector
<1>12. CASE UNCHANGED vars
  BY <1>0, <1>12 DEF vars, TypeOK, FromChats, channels, collector
<1> QED BY <1>1, <1>2, <1>3, <1>4, <1>5, <1>6, <1>7, <1>8, <1>9, <1>10, <1>11, <1>12
        DEF Next, Collect

LEMMA TypedInit == Init => Typed
<1> SUFFICES ASSUME Init PROVE Typed
  OBVIOUS
<1>1. InboxTypeOK
  BY DEF Init, InboxInit, InboxTypeOK, Statuses
<1> QED BY <1>1, InboxAssumption, InboundAssumption
        DEF Init, Typed, TypeOK, FromChats, Targets, Kinds

\* Every variable of the collectors and of the queue keeps its type.
THEOREM TypeCorrect == Spec => []TypeOK
<1>1. Typed => TypeOK
  BY DEF Typed
<1> QED BY <1>1, TypedInit, TypedSteps, PTL DEF Spec

-----------------------------------------------------------------------------
(* Decisions.                                                              *)

\* With one reviewer at a time.
Solitary == \A r, q \in Reviewers : r = q

\* A document was recorded from a row that says so, or about to say so; what
\* is about to say so was not dismissed.
DocsAccounted ==
  /\ \A r \in Reviewers : at[r] # Nowhere => docs[at[r]] > 0
  /\ AcceptedIsRecorded

OneDecision ==
  /\ \A m \in Rows \ cut : docs[m] > 0 => row[m] = "accepted" \/ \E r \in Reviewers : at[r] = m
  /\ \A r \in Reviewers : at[r] # Nowhere => row[at[r]] # "rejected"
  /\ RecordedOnce

LEMMA DocsAccountedSteps ==
  ASSUME InboxTypeOK, DocsAccounted, InboxNext \/ UNCHANGED inbox
  PROVE  DocsAccounted'
<1> USE InboxAssumption DEF DocsAccounted, AcceptedIsRecorded, InboxTypeOK
<1>1. ASSUME NEW m \in Rows, NEW s \in {"pending", "failed"}, Queue(m, s)
      PROVE  DocsAccounted'
  BY <1>1 DEF Queue
<1>2. ASSUME NEW r \in Reviewers, NEW m \in Rows, Record(r, m)
      PROVE  DocsAccounted'
  BY <1>2 DEF Record, Undecided
<1>3. ASSUME NEW r \in Reviewers, NEW m \in Rows, Reject(r, m)
      PROVE  DocsAccounted'
  BY <1>3 DEF Reject
<1>4. ASSUME NEW r \in Reviewers, MarkAccepted(r)
      PROVE  DocsAccounted'
  BY <1>4 DEF MarkAccepted
<1>5. ASSUME NEW r \in Reviewers, Interrupt(r)
      PROVE  DocsAccounted'
  BY <1>5 DEF Interrupt
<1>6. ASSUME NEW D \in SUBSET Rows, Delete(D)
      PROVE  DocsAccounted'
  BY <1>6 DEF Delete
<1>7. CASE UNCHANGED inbox
  BY <1>7 DEF inbox
<1> QED BY <1>1, <1>2, <1>3, <1>4, <1>5, <1>6, <1>7 DEF InboxNext

\* A message that says recorded was recorded, whatever the interleaving of
\* reviewers, sweeps, deletions and crashes.
THEOREM AcceptedHasDocument == Spec => []AcceptedIsRecorded
<1>1. Init => DocsAccounted
  BY InboxAssumption DEF Init, InboxInit, DocsAccounted, AcceptedIsRecorded
<1>2. Typed /\ DocsAccounted /\ [Next]_vars => DocsAccounted'
  BY InboxSteps, DocsAccountedSteps DEF Typed, TypeOK
<1>3. DocsAccounted => AcceptedIsRecorded
  BY DEF DocsAccounted
<1> QED BY <1>1, <1>2, <1>3, TypedInit, TypedSteps, PTL DEF Spec

LEMMA OneDecisionSteps ==
  ASSUME Solitary, InboxTypeOK, OneDecision, InboxNext \/ UNCHANGED inbox
  PROVE  OneDecision'
<1> USE InboxAssumption DEF OneDecision, RecordedOnce, InboxTypeOK
<1>1. ASSUME NEW m \in Rows, NEW s \in {"pending", "failed"}, Queue(m, s)
      PROVE  OneDecision'
  BY <1>1 DEF Queue
<1>2. ASSUME NEW r \in Reviewers, NEW m \in Rows, Record(r, m)
      PROVE  OneDecision'
  <2>1. \A q \in Reviewers : at[q] = Nowhere
    BY <1>2 DEF Record, Solitary
  <2>2. m \notin cut => docs[m] = 0
    BY <1>2, <2>1 DEF Record, Undecided
  <2>3. /\ docs' = [docs EXCEPT ![m] = docs[m] + 1] /\ at' = [at EXCEPT ![r] = m]
        /\ row' = row /\ cut' = cut /\ row[m] # "rejected"
    BY <1>2 DEF Record, Undecided
  <2>4. /\ at'[r] = m
        /\ docs'[m] = docs[m] + 1
        /\ \A n \in Rows : n # m => docs'[n] = docs[n]
    BY <2>3
  <2>5. \A n \in Rows \ cut : docs'[n] > 0 => row[n] = "accepted" \/ \E q \in Reviewers : at'[q] = n
    BY <2>1, <2>4
  <2>6. \A q \in Reviewers : q = r
    BY DEF Solitary
  <2> QED BY <2>2, <2>3, <2>4, <2>5, <2>6
<1>3. ASSUME NEW r \in Reviewers, NEW m \in Rows, Reject(r, m)
      PROVE  OneDecision'
  <2>1. \A q \in Reviewers : at[q] = Nowhere
    BY <1>3 DEF Reject, Solitary
  <2> QED BY <1>3, <2>1 DEF Reject, Undecided
<1>4. ASSUME NEW r \in Reviewers, MarkAccepted(r)
      PROVE  OneDecision'
  BY <1>4 DEF MarkAccepted
<1>5. ASSUME NEW r \in Reviewers, Interrupt(r)
      PROVE  OneDecision'
  BY <1>5 DEF Interrupt
<1>6. ASSUME NEW D \in SUBSET Rows, Delete(D)
      PROVE  OneDecision'
  <2>1. \A m \in Rows : m \notin D => row'[m] = row[m] /\ docs'[m] = docs[m]
    BY <1>6 DEF Delete
  <2>2. \A m \in D : row'[m] = "absent" /\ docs'[m] = 0
    BY <1>6 DEF Delete
  <2>3. \A r \in Reviewers : at'[r] = IF at[r] \in D THEN Nowhere ELSE at[r]
    BY <1>6 DEF Delete
  <2>4. cut' = cut
    BY <1>6 DEF Delete
  <2> QED BY <2>1, <2>2, <2>3, <2>4
<1>7. CASE UNCHANGED inbox
  BY <1>7 DEF inbox
<1> QED BY <1>1, <1>2, <1>3, <1>4, <1>5, <1>6, <1>7 DEF InboxNext

LEMMA OneDecisionInit == Init => OneDecision
BY InboxAssumption DEF Init, InboxInit, OneDecision, RecordedOnce

\* With one reviewer at a time, a row of the queue yields one document, unless
\* an accept of it was cut short.
THEOREM OneDocument ==
  ASSUME Solitary
  PROVE  Spec => []RecordedOnce
<1>1. Typed /\ OneDecision /\ [Next]_vars => OneDecision'
  BY InboxSteps, OneDecisionSteps DEF Typed, TypeOK
<1>2. OneDecision => RecordedOnce
  BY DEF OneDecision
<1> QED BY <1>1, <1>2, OneDecisionInit, TypedInit, TypedSteps, PTL DEF Spec

\* Under the same conditions a dismissed order is not in the books.
THEOREM DismissedIsUnrecorded ==
  ASSUME Solitary
  PROVE  Spec => []RejectedIsNotRecorded
<1>1. Typed /\ OneDecision /\ [Next]_vars => OneDecision'
  BY InboxSteps, OneDecisionSteps DEF Typed, TypeOK
<1>2. Typed /\ OneDecision => RejectedIsNotRecorded
  BY InboxAssumption DEF OneDecision, RejectedIsNotRecorded, Typed, TypeOK, InboxTypeOK
<1> QED BY <1>1, <1>2, OneDecisionInit, TypedInit, TypedSteps, PTL DEF Spec

\* An accepted message stays accepted until somebody deletes it.
THEOREM DecisionsStand == Spec => AcceptedStays
<1> DEFINE Stays == \A m \in Rows : row[m] = "accepted" => row'[m] \in {"accepted", "absent"}
<1>1. InboxTypeOK /\ (InboxNext \/ UNCHANGED inbox) => Stays
  BY DEF InboxTypeOK, InboxNext, inbox, Queue, Record, Reject, MarkAccepted, Interrupt,
         Delete, Undecided
<1>2. Typed /\ [Next]_vars => [Stays]_vars
  BY <1>1, InboxSteps DEF Typed, TypeOK
<1> QED BY <1>2, TypedInit, TypedSteps, PTL DEF Spec, AcceptedStays

-----------------------------------------------------------------------------
(* Acknowledgement.                                                        *)

\* The orders among the first n updates were dealt with.
DealtWith(n) == \A u \in 1..n : content[u].kind = "order" => Kept(u)

\* NothingSkipped is about what Telegram was told; that comes from the offsets,
\* and those from the batches that the sweeps have in hand.
Progress ==
  /\ DealtWith(confirmed)
  /\ \A p \in Processes : DealtWith(offset[p] - 1)
  /\ \A c \in Collectors : next[c] <= last[c] => DealtWith(next[c] - 1)

\* What was kept stays kept: a row disappears only with a trace.
LEMMA KeptStays ==
  ASSUME InboxTypeOK, InboxNext \/ UNCHANGED inbox, unrouted \subseteq unrouted',
         NEW i \in Messages, Kept(i)
  PROVE  Kept(i)'
<1>1. CASE i \in unrouted
  BY <1>1 DEF Kept
<1>2. ASSUME NEW b \in Businesses, row[<<b, i>>] # "absent" \/ <<b, i>> \in gone
      PROVE  row'[<<b, i>>] # "absent" \/ <<b, i>> \in gone'
  <2>1. <<b, i>> \in Rows
    BY DEF Rows
  <2> QED BY <1>2, <2>1 DEF InboxTypeOK, InboxNext, inbox, Queue, Record, Reject,
             MarkAccepted, Interrupt, Delete
<1> QED BY <1>1, <1>2 DEF Kept

LEMMA Growth ==
  ASSUME Typed, [Next]_vars, NEW u \in 1..sent
  PROVE  content'[u] = content[u] /\ (Kept(u) => Kept(u)')
<1> USE InboxAssumption DEF Typed
<1>1. u \in Messages /\ u \in Updates
  BY DEF TypeOK, Messages, Updates
<1>2. unrouted \subseteq unrouted'
  <2>1. ASSUME NEW i, Ingest(i) PROVE unrouted \subseteq unrouted'
    BY <2>1 DEF Ingest
  <2> QED BY <2>1 DEF Next, Collect, vars, SendUpdate, SendMail, Fetch, StoreMail, Poll,
             Handle, Fail, Restart, Unlink, Review, CutShort
<1>3. content'[u] = content[u]
  <2>1. u # sent + 1 /\ \A i \in Mails : u # i
    BY <1>1 DEF TypeOK
  <2> QED BY <1>1, <2>1 DEF TypeOK, Next, Collect, vars, channels, SendUpdate, SendMail, Fetch,
             StoreMail, Poll, Handle, Fail, Restart, Unlink, Review, CutShort
<1> QED BY <1>1, <1>2, <1>3, InboxSteps, KeptStays DEF TypeOK

LEMMA DealtWithStays ==
  ASSUME Typed, [Next]_vars, NEW n \in Int, n <= sent, DealtWith(n)
  PROVE  DealtWith(n)'
<1>1. \A u \in 1..n : u \in 1..sent
  BY DEF Typed, TypeOK
<1>2. \A u \in 1..n : content'[u] = content[u] /\ (Kept(u) => Kept(u)')
  BY <1>1, Growth
<1> QED BY <1>2 DEF DealtWith

LEMMA HandleKeeps ==
  ASSUME Typed, NEW c \in Collectors, Handle(c),
         NEW u, u = next[c], content[u].kind = "order"
  PROVE  Kept(u)'
<1>1. u \in 1..sent /\ u \in Messages
  BY InboxAssumption DEF Handle, Typed, TypeOK, Messages, Updates
<1>2. Route(u) \in Targets
  BY <1>1, RouteTyped DEF Typed, FromChats
<1>3. Ingest(u)
  BY DEF Handle
<1>4. CASE Route(u) = NoBusiness
  BY <1>3, <1>4 DEF Ingest, Kept
<1>5. CASE Route(u) # NoBusiness
  <2>1. Route(u) \in Businesses /\ <<Route(u), u>> \in Rows
    BY <1>1, <1>2, <1>5 DEF Targets, Rows
  <2>2. row'[<<Route(u), u>>] # "absent"
    BY <1>3, <1>5, <2>1 DEF Ingest, Queue, Typed, TypeOK, InboxTypeOK
  <2>3. PICK b \in Businesses : row'[<<b, u>>] # "absent"
    BY <2>1, <2>2
  <2> QED BY <2>3 DEF Kept
<1> QED BY <1>4, <1>5

LEMMA ProgressSteps ==
  ASSUME Typed, Progress, [Next]_vars
  PROVE  Progress'
<1>1. /\ sent \in Nat
      /\ confirmed \in Int /\ confirmed <= sent
      /\ \A p \in Processes : offset[p] \in Int /\ offset[p] - 1 \in Int /\ offset[p] - 1 <= sent
      /\ \A c \in Collectors : next[c] \in Nat /\ last[c] \in Nat /\ last[c] <= sent
      /\ \A c \in Collectors : ProcessOf[c] \in Processes
  BY InboxAssumption, InboundAssumption DEF Typed, TypeOK
<1>11. \A c \in Collectors : next'[c] \in Nat /\ last'[c] \in Nat
  BY TypedSteps, InboxAssumption DEF Typed, TypeOK
<1>2. DealtWith(confirmed)'  \/ confirmed' # confirmed
  <2>1. (\A u \in 1..confirmed : content[u].kind = "order" => Kept(u))'
           \/ confirmed' # confirmed
    <3>1. \A u \in 1..confirmed : content'[u] = content[u] /\ (Kept(u) => Kept(u)')
      BY <1>1, Growth
    <3> QED BY <3>1 DEF Progress, DealtWith
  <2> QED BY <2>1 DEF DealtWith
<1>3. \A p \in Processes : offset'[p] = offset[p] => DealtWith(offset[p] - 1)'
  <2>1. \A p \in Processes : \A u \in 1..(offset[p] - 1) :
          content'[u] = content[u] /\ (Kept(u) => Kept(u)')
    BY <1>1, Growth
  <2> QED BY <2>1 DEF Progress, DealtWith
<1>4. \A c \in Collectors : next'[c] = next[c] /\ next[c] <= last[c] => DealtWith(next[c] - 1)'
  <2>1. \A c \in Collectors : next[c] <= last[c] => \A u \in 1..(next[c] - 1) :
          content'[u] = content[u] /\ (Kept(u) => Kept(u)')
    BY <1>1, Growth
  <2> QED BY <2>1 DEF Progress, DealtWith
\* Nothing but Poll and Handle moves a mark onto an update in hand.
<1>5. ASSUME confirmed' = confirmed, offset' = offset, last' = last,
             \A c \in Collectors : next'[c] = next[c] \/ next'[c] > last[c]
      PROVE  Progress'
  BY <1>1, <1>2, <1>3, <1>4, <1>5, <1>11 DEF Progress
<1>6. ASSUME NEW c \in Collectors, Poll(c) PROVE Progress'
  <2>1. /\ confirmed' = Confirmed(ProcessOf[c]) /\ offset' = offset
        /\ next' = [next EXCEPT ![c] = confirmed' + 1]
        /\ last' = [last EXCEPT ![c] = sent]
    BY <1>6 DEF Poll
  <2>2. PICK n \in Int : n = confirmed' /\ n <= sent /\ DealtWith(n)
    BY <1>1, <2>1 DEF Confirmed, Progress
  <2>3. DealtWith(n)'
    BY <2>2, DealtWithStays
  <2>4. DealtWith(confirmed)'
    BY <2>2, <2>3 DEF DealtWith
  <2>5. next'[c] = n + 1 /\ DealtWith(next[c] - 1)'
    <3>1. next'[c] = n + 1 /\ next'[c] - 1 = n
      BY <2>1, <2>2 DEF Typed, TypeOK
    <3> QED BY <2>3, <3>1 DEF DealtWith
  <2>6. \A d \in Collectors : d # c => next'[d] = next[d] /\ last'[d] = last[d]
    BY <2>1 DEF Typed, TypeOK
  <2> QED BY <1>3, <1>4, <2>1, <2>4, <2>5, <2>6 DEF Progress
<1>7. ASSUME NEW c \in Collectors, Handle(c) PROVE Progress'
  <2>1. PICK u \in Int : u = next[c] /\ u <= last[c] /\ u <= sent
    BY <1>1, <1>7 DEF Handle
  <2>2. /\ offset' = [offset EXCEPT ![ProcessOf[c]] = u + 1]
        /\ next' = [next EXCEPT ![c] = u + 1]
        /\ last' = last /\ confirmed' = confirmed
    BY <1>7, <2>1 DEF Handle, Past
  <2>3. DealtWith(u - 1)
    BY <2>1 DEF Progress
  <2>4. DealtWith(u - 1)'
    <3>1. \A v \in 1..(u - 1) : content'[v] = content[v] /\ (Kept(v) => Kept(v)')
      BY <1>1, <2>1, Growth
    <3> QED BY <2>3, <3>1 DEF DealtWith
  <2>5. content[u].kind = "order" => Kept(u)'
    BY <1>7, <2>1, HandleKeeps
  <2>6. content' = content
    BY <1>7 DEF Handle, channels
  <2>7. DealtWith(u)'
    <3>1. \A v \in 1..u : v = u \/ v \in 1..(u - 1)
      BY <2>1
    <3> QED BY <2>4, <2>5, <2>6, <3>1 DEF DealtWith
  <2>8. DealtWith(offset[ProcessOf[c]] - 1)'
    <3>1. offset'[ProcessOf[c]] - 1 = u
      BY <1>1, <2>1, <2>2 DEF Typed, TypeOK
    <3> QED BY <2>7, <3>1 DEF DealtWith
  <2>9. DealtWith(next[c] - 1)'
    <3>1. next'[c] - 1 = u
      BY <2>1, <2>2 DEF Typed, TypeOK
    <3> QED BY <2>7, <3>1 DEF DealtWith
  <2>10. /\ \A p \in Processes : p # ProcessOf[c] => offset'[p] = offset[p]
         /\ \A d \in Collectors : d # c => next'[d] = next[d]
    BY <2>2 DEF Typed, TypeOK
  <2> QED BY <1>2, <1>3, <1>4, <2>2, <2>8, <2>9, <2>10 DEF Progress
<1>8. ASSUME NEW c \in Collectors, Fail(c) PROVE Progress'
  <2>1. \A d \in Collectors : next'[d] = next[d] \/ next'[d] > last[d]
    BY <1>1, <1>8 DEF Fail, Typed, TypeOK
  <2> QED BY <1>5, <1>8, <2>1 DEF Fail
<1>9. ASSUME NEW p \in Processes, Restart(p) PROVE Progress'
  <2>1. \A d \in Collectors : next'[d] = next[d] \/ next'[d] > last[d]
    BY <1>1, <1>9 DEF Restart
  <2>2. \A q \in Processes : offset'[q] = offset[q] \/ offset'[q] = 0
    BY <1>9 DEF Restart, Typed, TypeOK
  <2>3. \A q \in Processes : offset'[q] = 0 => DealtWith(offset[q] - 1)'
    <3>1. \A q \in Processes : offset'[q] = 0 => 1..(offset'[q] - 1) = {}
      OBVIOUS
    <3> QED BY <3>1 DEF DealtWith
  <2>4. confirmed' = confirmed /\ last' = last
    BY <1>9 DEF Restart
  <2> QED BY <1>1, <1>2, <1>3, <1>4, <1>11, <2>1, <2>2, <2>3, <2>4 DEF Progress
<1>10. ASSUME UNCHANGED <<confirmed, offset, next, last>> PROVE Progress'
  BY <1>5, <1>10
<1> QED BY <1>6, <1>7, <1>8, <1>9, <1>10 DEF Next, Collect, vars, collector, SendUpdate,
           SendMail, Fetch, StoreMail, Unlink, Review, CutShort

\* For every number of sweeps, processes, faults and updates: no order up to the
\* confirmed update was passed over.
THEOREM NothingLost == Spec => []NothingSkipped
<1>1. Init => Progress
  BY InboundAssumption DEF Init, Progress, DealtWith
<1>2. Typed /\ Progress /\ [Next]_vars => Progress'
  BY ProgressSteps
<1>3. Progress => NothingSkipped
  BY DEF Progress, DealtWith, NothingSkipped
<1> QED BY <1>1, <1>2, <1>3, TypedInit, TypedSteps, PTL DEF Spec

-----------------------------------------------------------------------------
(* Emails.                                                                 *)

\* A sweep that is done with its emails has none.
Emptied == \A c \in Collectors : pc[c] = "telegram" => mails[c] = {}

\* Where an email may be.
Somewhere(i) == \/ i \in mailbox
                \/ \E c \in Collectors : i \in mails[c]
                \/ Kept(i)

LEMMA StoreKeeps ==
  ASSUME Typed, NEW c \in Collectors, NEW i \in Mails, StoreMail(c, i)
  PROVE  Kept(i)'
<1>1. i \in Messages /\ Route(i) \in Targets
  BY RouteTyped DEF Typed, Messages
<1>2. Ingest(i)
  BY DEF StoreMail
<1>3. CASE Route(i) = NoBusiness
  BY <1>2, <1>3 DEF Ingest, Kept
<1>4. CASE Route(i) # NoBusiness
  <2>1. Route(i) \in Businesses /\ <<Route(i), i>> \in Rows
    BY <1>1, <1>4 DEF Targets, Rows
  <2>2. row'[<<Route(i), i>>] # "absent"
    BY <1>2, <1>4, <2>1 DEF Ingest, Queue, Typed, TypeOK, InboxTypeOK
  <2>3. PICK b \in Businesses : row'[<<b, i>>] # "absent"
    BY <2>1, <2>2
  <2> QED BY <2>3 DEF Kept
<1> QED BY <1>3, <1>4

LEMMA MailKept ==
  ASSUME Typed, [Next]_vars, NEW i \in Mails, Kept(i)
  PROVE  Kept(i)'
<1>1. unrouted \subseteq unrouted'
  <2>1. ASSUME NEW j, Ingest(j) PROVE unrouted \subseteq unrouted'
    BY <2>1 DEF Ingest
  <2> QED BY <2>1 DEF Next, Collect, vars, SendUpdate, SendMail, Fetch, StoreMail, Poll,
             Handle, Fail, Restart, Unlink, Review, CutShort
<1>2. InboxTypeOK /\ i \in Messages
  BY DEF Typed, TypeOK, Messages
<1> QED BY <1>1, <1>2, InboxSteps, KeptStays

\* What an email says changes only when it is sent.
LEMMA MailSays ==
  ASSUME Typed, [Next]_vars, NEW i \in Mails
  PROVE  \/ content'[i] = content[i]
         \/ content[i].kind = "noise" /\ content'[i].kind = "order" /\ i \in mailbox'
<1> USE InboxAssumption DEF Typed
<1>1. i \in Messages /\ (sent < MaxUpdates => i # sent + 1)
  BY DEF TypeOK, Messages, Updates
<1>2. ASSUME NEW j \in Mails, NEW b \in Addresses, SendMail(j, b)
      PROVE  \/ content'[i] = content[i]
             \/ content[i].kind = "noise" /\ content'[i].kind = "order" /\ i \in mailbox'
  <2>1. content' = [content EXCEPT ![j] = [kind |-> "order", chat |-> NoChat, to |-> b]]
        /\ mailbox' = mailbox \cup {j} /\ content[j].kind = "noise"
    BY <1>2 DEF SendMail
  <2> QED BY <1>1, <2>1 DEF TypeOK
<1>3. ASSUME NEW u \in Contents, SendUpdate(u)
      PROVE  content'[i] = content[i]
  BY <1>1, <1>3 DEF SendUpdate, TypeOK
<1> QED BY <1>2, <1>3 DEF Next, Collect, vars, channels, Fetch, StoreMail, Poll, Handle, Fail,
           Restart, Unlink, Review, CutShort

LEMMA MailSteps ==
  ASSUME Typed, Emptied, MailLostOnlyByFault, [Next]_vars
  PROVE  Emptied' /\ MailLostOnlyByFault'
<1> USE DEF Typed
<1>1. ASSUME \A c \in Collectors : pc'[c] = pc[c] /\ mails'[c] = mails[c], mailbox \subseteq mailbox',
             lost \subseteq lost'
      PROVE  Emptied' /\ MailLostOnlyByFault'
  <2>1. Emptied'  BY <1>1 DEF Emptied
  <2>2. ASSUME NEW i \in Mails, content'[i].kind = "order"
        PROVE  Somewhere(i)' \/ i \in lost'
    <3>1. i \in mailbox' \/ content[i].kind = "order"  BY <2>2, MailSays
    <3>2. CASE content[i].kind = "order"
      <4>1. Somewhere(i) \/ i \in lost  BY <3>2 DEF MailLostOnlyByFault, Somewhere
      <4>2. Kept(i) => Kept(i)'  BY MailKept
      <4> QED  BY <1>1, <4>1, <4>2 DEF Somewhere
    <3> QED  BY <3>1, <3>2 DEF Somewhere
  <2> QED  BY <2>1, <2>2 DEF MailLostOnlyByFault, Somewhere
<1>2. ASSUME NEW c \in Collectors, Fetch(c)
      PROVE  Emptied' /\ MailLostOnlyByFault'
  <2>1. PICK S \in SUBSET mailbox : /\ mails' = [mails EXCEPT ![c] = S]
                                   /\ mailbox \ S \subseteq mailbox'
    BY <1>2 DEF Fetch
  <2>2. pc' = [pc EXCEPT ![c] = "email"] /\ pc[c] = "telegram" /\ UNCHANGED <<content, lost>>
    BY <1>2 DEF Fetch, Resting
  <2>3. mails[c] = {}  BY <2>2 DEF Emptied
  <2>4. Emptied'  BY <2>1, <2>2 DEF Emptied, TypeOK
  <2>5. ASSUME NEW i \in Mails, Somewhere(i)  PROVE Somewhere(i)'
    <3>1. CASE i \in mailbox
      <4>1. CASE i \in S
        <5>1. i \in mails'[c]  BY <2>1, <4>1 DEF TypeOK
        <5> QED  BY <5>1 DEF Somewhere
      <4>2. CASE i \notin S  BY <2>1, <3>1, <4>2 DEF Somewhere
      <4> QED  BY <4>1, <4>2
    <3>2. ASSUME NEW d \in Collectors, i \in mails[d]  PROVE Somewhere(i)'
      <4>1. mails'[d] = mails[d]  BY <2>1, <2>3, <3>2 DEF TypeOK
      <4> QED  BY <3>2, <4>1 DEF Somewhere
    <3>3. CASE Kept(i)  BY <3>3, MailKept DEF Somewhere
    <3> QED  BY <2>5, <3>1, <3>2, <3>3 DEF Somewhere
  <2> QED  BY <2>2, <2>4, <2>5 DEF MailLostOnlyByFault, Somewhere
<1>3. ASSUME NEW c \in Collectors, NEW j \in Mails, StoreMail(c, j)
      PROVE  Emptied' /\ MailLostOnlyByFault'
  <2>1. /\ mails' = [mails EXCEPT ![c] = @ \ {j}] /\ pc' = pc
        /\ UNCHANGED <<mailbox, content, lost>>
    BY <1>3 DEF StoreMail, channels
  <2>2. Emptied'  BY <2>1 DEF Emptied, TypeOK
  <2>3. ASSUME NEW i \in Mails, Somewhere(i)  PROVE Somewhere(i)'
    <3>1. CASE i = j  BY <1>3, <3>1, StoreKeeps DEF Somewhere
    <3>2. CASE Kept(i)  BY <3>2, MailKept DEF Somewhere
    <3>3. ASSUME NEW d \in Collectors, i \in mails[d], i # j  PROVE Somewhere(i)'
      <4>1. i \in mails'[d]  BY <2>1, <3>3 DEF TypeOK
      <4> QED  BY <4>1 DEF Somewhere
    <3> QED  BY <2>1, <2>3, <3>1, <3>2, <3>3 DEF Somewhere
  <2> QED  BY <2>1, <2>2, <2>3 DEF MailLostOnlyByFault, Somewhere
<1>4. ASSUME NEW c \in Collectors, Poll(c) \/ Handle(c)
      PROVE  Emptied' /\ MailLostOnlyByFault'
  <2>1. UNCHANGED <<mails, mailbox, content, lost>>
        /\ \A d \in Collectors : pc'[d] = "telegram" => pc[d] = "telegram" \/ mails[d] = {}
    BY <1>4 DEF Poll, Handle, channels, TypeOK
  <2>2. Emptied'  BY <2>1 DEF Emptied
  <2>3. \A i \in Mails : Somewhere(i) => Somewhere(i)'
    BY <2>1, MailKept DEF Somewhere
  <2> QED  BY <2>1, <2>2, <2>3 DEF MailLostOnlyByFault, Somewhere
<1>5. ASSUME NEW c \in Collectors, Fail(c)
      PROVE  Emptied' /\ MailLostOnlyByFault'
  <2>1. /\ lost' = lost \cup mails[c] /\ UNCHANGED <<mailbox, content>>
        /\ pc' = [pc EXCEPT ![c] = "telegram"] /\ mails' = [mails EXCEPT ![c] = {}]
    BY <1>5 DEF Fail, channels
  <2>2. Emptied'  BY <2>1 DEF Emptied, TypeOK
  <2>3. \A i \in Mails : Somewhere(i) => Somewhere(i)' \/ i \in lost'
    BY <2>1, MailKept DEF Somewhere, TypeOK
  <2> QED  BY <2>1, <2>2, <2>3 DEF MailLostOnlyByFault, Somewhere
<1>6. ASSUME NEW p \in Processes, Restart(p)
      PROVE  Emptied' /\ MailLostOnlyByFault'
  <2>1. /\ lost' = lost \cup UNION {mails[c] : c \in {d \in Collectors : ProcessOf[d] = p}}
        /\ UNCHANGED <<mailbox, content>>
        /\ pc' = [c \in Collectors |-> IF ProcessOf[c] = p THEN "telegram" ELSE pc[c]]
        /\ mails' = [c \in Collectors |-> IF ProcessOf[c] = p THEN {} ELSE mails[c]]
    BY <1>6 DEF Restart, channels
  <2>2. Emptied'  BY <2>1 DEF Emptied
  <2>3. \A i \in Mails : Somewhere(i) => Somewhere(i)' \/ i \in lost'
    BY <2>1, MailKept DEF Somewhere, TypeOK
  <2> QED  BY <2>1, <2>2, <2>3 DEF MailLostOnlyByFault, Somewhere
<1>7. ASSUME \/ \E u \in Contents : SendUpdate(u)
             \/ \E i \in Mails, b \in Addresses : SendMail(i, b)
             \/ \E x \in Chats : Unlink(x)
             \/ Review
             \/ \E r \in Reviewers : CutShort(r)
             \/ UNCHANGED vars
      PROVE  /\ \A c \in Collectors : pc'[c] = pc[c] /\ mails'[c] = mails[c]
             /\ mailbox \subseteq mailbox' /\ lost \subseteq lost'
  BY <1>7 DEF SendUpdate, SendMail, Unlink, Review, CutShort, vars, collector, channels, TypeOK
<1> QED BY <1>1, <1>2, <1>3, <1>4, <1>5, <1>6, <1>7 DEF Next, Collect

\* However sweeps overlap, an email that was sent is on the server, in the hands of
\* a sweep, queued or led to no business: only a fault between fetch() and ingest()
\* loses one.
THEOREM MailIsSafe == Spec => []MailLostOnlyByFault
<1>1. Init => Emptied /\ MailLostOnlyByFault
  <2>1. Init => \A i \in Mails : content[i].kind = "noise"
    BY DEF Init, Messages
  <2>2. Init => \A c \in Collectors : mails[c] = {}
    BY DEF Init
  <2> QED BY <2>1, <2>2 DEF Emptied, MailLostOnlyByFault
<1>2. Typed /\ Emptied /\ MailLostOnlyByFault /\ [Next]_vars => Emptied' /\ MailLostOnlyByFault'
  BY MailSteps
<1> QED BY <1>1, <1>2, TypedInit, TypedSteps, PTL DEF Spec
-----------------------------------------------------------------------------
(* Addresses.                                                              *)

\* A chat has sent a link to a business.
Asked(x, b) == \E u \in 1..sent : Links(u) /\ content[u].chat = x /\ content[u].to = b

\* A reviewer between two transactions is on a row.
OnARow == \A r \in Reviewers : at[r] \in Rows => row[at[r]] # "absent"

\* NoStrangersOrder holds of the rows because it holds of the links they were
\* routed by, and because an email says what it will say from when it is sent.
Addressed ==
  /\ \A x \in Chats : link[x] # NoBusiness => Asked(x, link[x])
  /\ \A i \in Mails : (i \in mailbox \/ \E c \in Collectors : i \in mails[c])
                        => content[i].kind = "order"
  /\ \A b \in Businesses : \A i \in Mails :
       row[<<b, i>>] # "absent" => content[i].kind = "order" /\ content[i].to = b
  /\ \A b \in Businesses : \A u \in Updates :
       row[<<b, u>>] # "absent" => u <= sent /\ Asked(content[u].chat, b)

LEMMA OnARowSteps ==
  ASSUME InboxTypeOK, OnARow, InboxNext \/ UNCHANGED inbox
  PROVE  OnARow'
<1> USE DEF InboxTypeOK, OnARow
<1>1. ASSUME NEW m \in Rows, NEW s \in {"pending", "failed"}, Queue(m, s)
      PROVE  OnARow'
  BY <1>1 DEF Queue
<1>2. ASSUME NEW r \in Reviewers, NEW m \in Rows, Record(r, m) \/ Reject(r, m)
      PROVE  OnARow'
  BY <1>2 DEF Record, Reject, Undecided
<1>3. ASSUME NEW r \in Reviewers, MarkAccepted(r)
      PROVE  OnARow'
  BY <1>3, InboxAssumption DEF MarkAccepted
<1>4. ASSUME NEW r \in Reviewers, Interrupt(r)
      PROVE  OnARow'
  BY <1>4, InboxAssumption DEF Interrupt
<1>5. ASSUME NEW D \in SUBSET Rows, Delete(D)
      PROVE  OnARow'
  BY <1>5, InboxAssumption DEF Delete
<1>6. CASE UNCHANGED inbox
  BY <1>6 DEF inbox
<1> QED BY <1>1, <1>2, <1>3, <1>4, <1>5, <1>6 DEF InboxNext

\* A row that is there was there before, or a message was stored in it.
LEMMA RowsAppear ==
  ASSUME InboxTypeOK, OnARow, InboxNext \/ UNCHANGED inbox, NEW m \in Rows,
         row[m] = "absent", row'[m] # "absent"
  PROVE  \E s \in {"pending", "failed"} : Queue(m, s)
<1> USE DEF InboxTypeOK, OnARow
<1>1. ASSUME NEW n \in Rows, NEW s \in {"pending", "failed"}, Queue(n, s)
      PROVE  n = m
  BY <1>1 DEF Queue
<1>2. ASSUME NEW r \in Reviewers, NEW n \in Rows, Record(r, n) \/ Reject(r, n)
      PROVE  FALSE
  BY <1>2 DEF Record, Reject, Undecided
<1>3. ASSUME NEW r \in Reviewers, MarkAccepted(r) \/ Interrupt(r)
      PROVE  FALSE
  BY <1>3 DEF MarkAccepted, Interrupt
<1>4. ASSUME NEW D \in SUBSET Rows, Delete(D)
      PROVE  FALSE
  BY <1>4 DEF Delete
<1>5. CASE UNCHANGED inbox
  BY <1>5 DEF inbox
<1> QED BY <1>1, <1>2, <1>3, <1>4, <1>5 DEF InboxNext

LEMMA StoredWhere ==
  ASSUME Typed, OnARow, NEW i \in Messages, Route(i) \in Targets, Ingest(i),
         NEW m \in Rows, row[m] = "absent", row'[m] # "absent"
  PROVE  Route(i) # NoBusiness /\ m = <<Route(i), i>>
<1>1. CASE Route(i) = NoBusiness
  BY <1>1 DEF Ingest, inbox
<1>2. CASE Route(i) # NoBusiness
  <2>1. <<Route(i), i>> \in Rows
    BY <1>2 DEF Targets, Rows
  <2> QED BY <1>2, <2>1 DEF Ingest, Queue, Typed, TypeOK, InboxTypeOK
<1> QED BY <1>1, <1>2

\* Who stores a new row, and where.
LEMMA NewRows ==
  ASSUME Typed, OnARow, [Next]_vars,
         NEW b \in Businesses, NEW i \in Messages,
         row[<<b, i>>] = "absent", row'[<<b, i>>] # "absent"
  PROVE  \/ /\ \E c \in Collectors : StoreMail(c, i)
            /\ i \in Mails /\ b = Route(i)
         \/ \E c \in Collectors :
              Handle(c) /\ i = next[c] /\ i <= sent /\ b = Route(i) /\ b # NoBusiness
<1> USE DEF Typed
<1>1. <<b, i>> \in Rows  BY DEF Rows
<1>2. ASSUME NEW c \in Collectors, NEW j \in Mails, StoreMail(c, j)
      PROVE  i = j /\ b = Route(j)
  <2>1. j \in Messages /\ Route(j) \in Targets
    BY RouteTyped DEF Messages
  <2>2. Ingest(j)
    BY <1>2 DEF StoreMail
  <2>3. <<b, i>> = <<Route(j), j>>
    BY <1>1, <2>1, <2>2, StoredWhere
  <2> QED BY <2>3
<1>3. ASSUME NEW c \in Collectors, Handle(c)
      PROVE  i = next[c] /\ i <= sent /\ b = Route(i) /\ b # NoBusiness
  <2>1. next[c] \in 1..sent /\ next[c] \in Messages
    BY <1>3, InboxAssumption DEF Handle, TypeOK, Messages, Updates
  <2>2. Route(next[c]) \in Targets
    BY <2>1, RouteTyped DEF FromChats
  <2>3. Ingest(next[c])
    BY <1>1, <1>3 DEF Handle, inbox
  <2>4. <<b, i>> = <<Route(next[c]), next[c]>> /\ Route(next[c]) # NoBusiness
    BY <1>1, <2>1, <2>2, <2>3, StoredWhere
  <2> QED BY <2>1, <2>4
<1>4. ASSUME \/ \E c \in Collectors : Fetch(c) \/ Poll(c) \/ Fail(c)
             \/ \E p \in Processes : Restart(p)
             \/ \E x \in Chats : Unlink(x)
             \/ \E u \in Contents : SendUpdate(u)
             \/ \E j \in Mails, a \in Addresses : SendMail(j, a)
             \/ UNCHANGED vars
      PROVE  UNCHANGED inbox
  BY <1>4 DEF Fetch, Poll, Fail, Restart, Unlink, SendUpdate, SendMail, vars
<1>5. ASSUME Review \/ \E r \in Reviewers : CutShort(r)
      PROVE  FALSE
  <2>1. \A B \in Businesses : Cleared(B) \in SUBSET Rows
    BY DEF Cleared
  <2>2. \/ \E r \in Reviewers, m \in Rows : Record(r, m) \/ Reject(r, m)
        \/ \E r \in Reviewers : MarkAccepted(r) \/ Interrupt(r)
        \/ \E D \in SUBSET Rows : Delete(D)
    BY <1>5, <2>1 DEF Review, Decide, CutShort, Remove, ClearHandled
  <2>3. ASSUME NEW r \in Reviewers, NEW m \in Rows, Record(r, m) \/ Reject(r, m)
        PROVE  FALSE
    BY <1>1, <2>3 DEF Record, Reject, Undecided, TypeOK, InboxTypeOK
  <2>4. ASSUME NEW r \in Reviewers, MarkAccepted(r) \/ Interrupt(r)
        PROVE  FALSE
    BY <1>1, <2>4 DEF MarkAccepted, Interrupt, OnARow, TypeOK, InboxTypeOK
  <2>5. ASSUME NEW D \in SUBSET Rows, Delete(D)
        PROVE  FALSE
    BY <1>1, <2>5 DEF Delete
  <2> QED BY <2>2, <2>3, <2>4, <2>5
<1> QED BY <1>1, <1>2, <1>3, <1>4, <1>5 DEF Next, Collect, inbox

LEMMA AskedStays ==
  ASSUME Typed, [Next]_vars, NEW x, NEW b, Asked(x, b)
  PROVE  Asked(x, b)'
<1>1. PICK u \in 1..sent : Links(u) /\ content[u].chat = x /\ content[u].to = b
  BY DEF Asked
<1>2. content'[u] = content[u]
  BY Growth
<1>3. sent' = sent \/ sent' = sent + 1
  BY DEF Next, Collect, vars, channels, SendUpdate, SendMail, Fetch, StoreMail, Poll,
         Handle, Fail, Restart, Unlink, Review, CutShort
<1>4. u \in 1..sent'
  BY <1>3 DEF Typed, TypeOK
<1> QED BY <1>1, <1>2, <1>4 DEF Asked, Links

LEMMA LinksAsked ==
  ASSUME Typed, Addressed, [Next]_vars, NEW x \in Chats, NEW b, link'[x] = b, b # NoBusiness
  PROVE  Asked(x, b)'
<1>1. CASE link[x] = b
  BY <1>1, AskedStays DEF Addressed
<1>2. ASSUME NEW c \in Collectors, Handle(c), link[x] # b
      PROVE  Asked(x, b)'
  <2>1. next[c] \in 1..sent
    BY <1>2 DEF Handle, Typed, TypeOK
  <2>2. Links(next[c]) /\ x = content[next[c]].chat /\ b = content[next[c]].to
    BY <1>2 DEF Handle, Typed, TypeOK
  <2>3. Asked(x, b)
    BY <2>1, <2>2 DEF Asked
  <2> QED BY <2>3, AskedStays
<1>3. ASSUME NEW y \in Chats, Unlink(y)
      PROVE  link[x] = b
  BY <1>3 DEF Unlink, Typed, TypeOK
<1>4. link' = link \/ (\E c \in Collectors : Handle(c)) \/ (\E y \in Chats : Unlink(y))
  BY DEF Next, Collect, vars, SendUpdate, SendMail, Fetch, StoreMail, Poll, Fail,
         Restart, Review, CutShort
<1> QED BY <1>1, <1>2, <1>3, <1>4

LEMMA MailsSay ==
  ASSUME Typed, Addressed, [Next]_vars, NEW i \in Mails,
         i \in mailbox' \/ \E c \in Collectors : i \in mails'[c]
  PROVE  content'[i].kind = "order"
<1>1. \/ i \in mailbox \/ \E c \in Collectors : i \in mails[c]
      \/ \E b \in Addresses : SendMail(i, b)
  <2>1. ASSUME NEW c \in Collectors, Fetch(c)
        PROVE  i \in mailbox \/ \E d \in Collectors : i \in mails[d]
    BY <2>1 DEF Fetch, Typed, TypeOK
  <2>2. ASSUME NEW c \in Collectors, NEW j \in Mails, StoreMail(c, j)
        PROVE  i \in mailbox \/ \E d \in Collectors : i \in mails[d]
    BY <2>2 DEF StoreMail, channels, Typed, TypeOK
  <2>3. ASSUME NEW c \in Collectors, Fail(c)
        PROVE  i \in mailbox \/ \E d \in Collectors : i \in mails[d]
    BY <2>3 DEF Fail, channels, Typed, TypeOK
  <2>4. ASSUME NEW p \in Processes, Restart(p)
        PROVE  i \in mailbox \/ \E d \in Collectors : i \in mails[d]
    BY <2>4 DEF Restart, channels, Typed, TypeOK
  <2>5. ASSUME NEW j \in Mails, NEW b \in Addresses, SendMail(j, b)
        PROVE  i = j \/ i \in mailbox \/ \E d \in Collectors : i \in mails[d]
    BY <2>5 DEF SendMail, collector
  <2>6. ASSUME mailbox' = mailbox /\ mails' = mails
        PROVE  i \in mailbox \/ \E d \in Collectors : i \in mails[d]
    BY <2>6
  <2> QED BY <2>1, <2>2, <2>3, <2>4, <2>5, <2>6 DEF Next, Collect, vars, channels, collector,
             SendUpdate, Poll, Handle, Unlink, Review, CutShort
<1>2. ASSUME NEW b \in Addresses, SendMail(i, b)
      PROVE  content'[i].kind = "order"
  BY <1>2 DEF SendMail, Typed, TypeOK, Messages
<1>3. content[i].kind = "order" => content'[i].kind = "order"
  BY MailSays
<1> QED BY <1>1, <1>2, <1>3 DEF Addressed

LEMMA AddressedSteps ==
  ASSUME Typed, OnARow, Addressed, [Next]_vars
  PROVE  Addressed'
<1>1. ASSUME NEW b \in Businesses, NEW i \in Mails, row'[<<b, i>>] # "absent"
      PROVE  content'[i].kind = "order" /\ content'[i].to = b
  <2>1. content[i].kind = "order" => content'[i] = content[i]
    BY MailSays
  <2>2. CASE row[<<b, i>>] # "absent"
    BY <2>1, <2>2 DEF Addressed
  <2>3. CASE row[<<b, i>>] = "absent"
    <3>1. i \in Messages /\ \A c \in Collectors : next[c] <= sent => next[c] \in Updates
      BY InboxAssumption DEF Messages, Updates, Typed, TypeOK
    <3>2. b = Route(i) /\ \E c \in Collectors : StoreMail(c, i)
      BY <1>1, <2>3, <3>1, NewRows, InboxAssumption
    <3>3. content[i].kind = "order"
      BY <3>2 DEF StoreMail, Addressed
    <3> QED BY <2>1, <3>2, <3>3 DEF Route
  <2> QED BY <2>2, <2>3
<1>2. ASSUME NEW b \in Businesses, NEW u \in Updates, row'[<<b, u>>] # "absent"
      PROVE  u <= sent' /\ Asked(content[u].chat, b)'
  <2>1. u \in Messages /\ u \notin Mails /\ u \in Nat
    BY InboxAssumption DEF Messages, Updates
  <2>2. u <= sent /\ Asked(content[u].chat, b)
    <3>1. CASE row[<<b, u>>] # "absent"
      BY <3>1 DEF Addressed
    <3>2. CASE row[<<b, u>>] = "absent"
      <4>1. PICK c \in Collectors :
              Handle(c) /\ u = next[c] /\ u <= sent /\ b = Route(u) /\ b # NoBusiness
        BY <1>2, <2>1, <3>2, NewRows
      <4>2. u \in 1..sent /\ content[u].chat \in Chats
        BY <2>1, <4>1 DEF Typed, TypeOK, FromChats
      <4> QED BY <2>1, <4>1, <4>2 DEF Addressed, Route
    <3> QED BY <3>1, <3>2
  <2>3. sent' = sent \/ sent' = sent + 1
    BY DEF Next, Collect, vars, channels, SendUpdate, SendMail, Fetch, StoreMail, Poll,
           Handle, Fail, Restart, Unlink, Review, CutShort
  <2>4. content'[u] = content[u]
    <3>1. u \in 1..sent
      BY <2>1, <2>2 DEF Typed, TypeOK, Updates
    <3> QED BY <3>1, Growth
  <2>5. PICK x : x = content[u].chat
    OBVIOUS
  <2>6. Asked(x, b)'
    BY <2>2, <2>5, AskedStays
  <2>7. x = content'[u].chat
    BY <2>4, <2>5
  <2>8. Asked(content[u].chat, b)'
    BY <2>6, <2>7 DEF Asked
  <2>9. u <= sent'
    BY <2>2, <2>3 DEF Typed, TypeOK, Updates
  <2> QED BY <2>8, <2>9
<1>3. ASSUME NEW x \in Chats, link'[x] # NoBusiness
      PROVE  Asked(x, link[x])'
  <2>1. PICK b : b = link'[x]
    OBVIOUS
  <2>2. Asked(x, b)'
    BY <1>3, <2>1, LinksAsked
  <2> QED BY <2>1, <2>2 DEF Asked
<1> QED BY <1>1, <1>2, <1>3, MailsSay DEF Addressed

\* Whoever decides, unlinks, deletes, fails or starts again in between, an order
\* is queued only with the business that the token of its email names, or that
\* its chat has sent a link to (route() and _link_chat()).
THEOREM OrdersAreAddressed == Spec => []NoStrangersOrder
<1>1. Init => Typed /\ OnARow /\ Addressed
  <2>1. Init => Typed  BY TypedInit
  <2>2. Init => OnARow  BY InboxAssumption DEF Init, InboxInit, OnARow
  <2>3. Init => Addressed
    BY DEF Init, InboxInit, Addressed, Rows, Messages
  <2> QED BY <2>1, <2>2, <2>3
<1>2. Typed /\ OnARow /\ Addressed /\ [Next]_vars => (Typed /\ OnARow /\ Addressed)'
  <2>1. Typed => InboxTypeOK  BY DEF Typed, TypeOK
  <2> QED BY <2>1, TypedSteps, InboxSteps, OnARowSteps, AddressedSteps
<1>3. Addressed => NoStrangersOrder
  BY DEF Addressed, NoStrangersOrder, Asked, Messages
<1> QED BY <1>1, <1>2, <1>3, PTL DEF Spec

-----------------------------------------------------------------------------
(* The decisions that the queue implements.                                *)

\* What the rows and the reviewers between two transactions know of each other.
Decided == DocsAccounted /\ OneDecision /\ OnARow

\* Verdicts change where rows do.
LEMMA VerdictUpdate ==
  ASSUME NEW m \in Rows, NEW v, VerdictOf(m)' = v,
         \A n \in Rows : n # m => VerdictOf(n)' = VerdictOf(n)
  PROVE  [n \in Rows |-> VerdictOf(n)]' = [[n \in Rows |-> VerdictOf(n)] EXCEPT ![m] = v]
OBVIOUS

\* A row that is not there has no documents, and with one reviewer who is between
\* no two transactions an undecided one has none either.
LEMMA WaitingHasNone ==
  ASSUME InboxTypeOK, Decided, NEW m \in Rows, m \notin cut
  PROVE  /\ row[m] = "absent" => docs[m] = 0
         /\ Solitary /\ Undecided(m) /\ (\E r \in Reviewers : at[r] = Nowhere) => docs[m] = 0
BY InboxAssumption DEF InboxTypeOK, Decided, OneDecision, OnARow, Undecided, Solitary

LEMMA DecisionsStep ==
  ASSUME Solitary, InboxTypeOK, Decided, InboxNext \/ UNCHANGED inbox
  PROVE  V!DecisionsNext \/ UNCHANGED [m \in Rows |-> VerdictOf(m)]
<1> DEFINE verdict == [m \in Rows |-> VerdictOf(m)]
<1>0. /\ row \in [Rows -> Statuses] /\ docs \in [Rows -> Nat] /\ at \in [Reviewers -> Rows \cup {Nowhere}]
      /\ Nowhere \notin Rows
  BY InboxAssumption DEF InboxTypeOK
<1>1. ASSUME NEW m \in Rows, NEW s \in {"pending", "failed"}, Queue(m, s)
      PROVE  V!DecisionsNext \/ UNCHANGED verdict
  <2>1. CASE row[m] = "absent" /\ m \notin cut
    <3>1. row' = [row EXCEPT ![m] = s] /\ UNCHANGED <<docs, cut>>
      BY <1>1, <2>1 DEF Queue
    <3>2. docs[m] = 0 /\ row'[m] = s /\ \A n \in Rows : n # m => row'[n] = row[n]
      BY <1>0, <2>1, <3>1, WaitingHasNone
    <3>3. /\ VerdictOf(m) = "none" /\ VerdictOf(m)' = "waiting"
          /\ \A n \in Rows : n # m => VerdictOf(n)' = VerdictOf(n)
      BY <2>1, <3>1, <3>2 DEF VerdictOf
    <3>4. V!Arrive(m)
      BY <3>3, VerdictUpdate DEF V!Arrive
    <3> QED
      BY <3>4 DEF V!DecisionsNext
  <2>2. CASE ~(row[m] = "absent" /\ m \notin cut)
    <3>1. \A n \in Rows : n \in cut \/ row'[n] = row[n]
      BY <1>0, <1>1, <2>2 DEF Queue
    <3>2. \A n \in Rows : VerdictOf(n)' = VerdictOf(n)
      BY <1>1, <3>1 DEF Queue, VerdictOf
    <3> QED
      BY <3>2
  <2> QED
    BY <2>1, <2>2
<1>2. ASSUME NEW r \in Reviewers, NEW m \in Rows, Record(r, m)
      PROVE  V!DecisionsNext \/ UNCHANGED verdict
  <2>1. /\ at[r] = Nowhere /\ Undecided(m) /\ UNCHANGED <<row, cut>>
        /\ docs'[m] = docs[m] + 1 /\ \A n \in Rows : n # m => docs'[n] = docs[n]
    BY <1>0, <1>2 DEF Record
  <2>2. \A n \in Rows : n # m => VerdictOf(n)' = VerdictOf(n)
    BY <2>1 DEF VerdictOf
  <2>3. CASE m \in cut
    <3>1. VerdictOf(m)' = VerdictOf(m)
      BY <2>1, <2>3 DEF VerdictOf
    <3> QED
      BY <2>2, <3>1
  <2>4. CASE m \notin cut
    <3>1. docs[m] = 0
      BY <2>1, <2>4, WaitingHasNone
    <3>2. VerdictOf(m) = "waiting" /\ VerdictOf(m)' = "recorded"
      BY <1>0, <2>1, <2>4, <3>1 DEF VerdictOf, Undecided
    <3>3. V!DecideOn(m, "recorded")
      BY <2>2, <3>2, VerdictUpdate DEF V!DecideOn
    <3> QED
      BY <3>3 DEF V!DecisionsNext
  <2> QED
    BY <2>3, <2>4
<1>3. ASSUME NEW r \in Reviewers, NEW m \in Rows, Reject(r, m)
      PROVE  V!DecisionsNext \/ UNCHANGED verdict
  <2>1. /\ at[r] = Nowhere /\ Undecided(m) /\ UNCHANGED <<docs, cut>>
        /\ row'[m] = "rejected" /\ \A n \in Rows : n # m => row'[n] = row[n]
    BY <1>0, <1>3 DEF Reject
  <2>2. \A n \in Rows : n # m => VerdictOf(n)' = VerdictOf(n)
    BY <2>1 DEF VerdictOf
  <2>3. CASE m \in cut
    <3>1. VerdictOf(m)' = VerdictOf(m)
      BY <2>1, <2>3 DEF VerdictOf
    <3> QED
      BY <2>2, <3>1
  <2>4. CASE m \notin cut
    <3>1. docs[m] = 0
      BY <2>1, <2>4, WaitingHasNone
    <3>2. VerdictOf(m) = "waiting" /\ VerdictOf(m)' = "dismissed"
      BY <1>0, <2>1, <2>4, <3>1 DEF VerdictOf, Undecided
    <3>3. V!DecideOn(m, "dismissed")
      BY <2>2, <3>2, VerdictUpdate DEF V!DecideOn
    <3> QED
      BY <3>3 DEF V!DecisionsNext
  <2> QED
    BY <2>3, <2>4
<1>4. ASSUME NEW r \in Reviewers, MarkAccepted(r)
      PROVE  UNCHANGED verdict
  <2>1. PICK m \in Rows : m = at[r]
    BY <1>0, <1>4 DEF MarkAccepted
  <2>2. docs[m] > 0 /\ row[m] # "absent"
    BY <1>4, <2>1 DEF MarkAccepted, Decided, DocsAccounted, OnARow
  <2>3. /\ row'[m] = "accepted" /\ (\A n \in Rows : n # m => row'[n] = row[n])
        /\ UNCHANGED <<docs, cut>>
    BY <1>0, <1>4, <2>1 DEF MarkAccepted
  <2>4. \A n \in Rows : VerdictOf(n)' = VerdictOf(n)
    BY <2>2, <2>3 DEF VerdictOf
  <2> QED
    BY <2>4
<1>5. ASSUME NEW r \in Reviewers, Interrupt(r)
      PROVE  V!DecisionsNext \/ UNCHANGED verdict
  <2>1. PICK m \in Rows : m = at[r]
    BY <1>0, <1>5 DEF Interrupt
  <2>2. docs[m] > 0 /\ row[m] # "absent"
    BY <1>5, <2>1 DEF Interrupt, Decided, DocsAccounted, OnARow
  <2>3. cut' = cut \cup {m} /\ UNCHANGED <<row, docs>>
    BY <1>5, <2>1 DEF Interrupt
  <2>4. VerdictOf(m)' = "unsure" /\ \A n \in Rows : n # m => VerdictOf(n)' = VerdictOf(n)
    BY <2>3 DEF VerdictOf
  <2>5. CASE m \in cut
    <3>1. VerdictOf(m) = "unsure"
      BY <2>5 DEF VerdictOf
    <3> QED
      BY <2>4, <3>1
  <2>6. CASE m \notin cut
    <3>1. VerdictOf(m) = "recorded"
      BY <2>2, <2>6 DEF VerdictOf
    <3>2. V!Doubt(m)
      BY <2>4, <3>1, VerdictUpdate DEF V!Doubt
    <3> QED
      BY <3>2 DEF V!DecisionsNext
  <2> QED
    BY <2>5, <2>6
<1>6. ASSUME NEW S \in SUBSET Rows, Delete(S)
      PROVE  V!DecisionsNext
  <2>1. /\ \A n \in Rows : /\ row'[n] = IF n \in S THEN "absent" ELSE row[n]
                           /\ docs'[n] = IF n \in S THEN 0 ELSE docs[n]
        /\ cut' = cut
    BY <1>6 DEF Delete
  <2>2. \A n \in Rows : (VerdictOf(n) = "unsure" <=> n \in cut)
    BY DEF VerdictOf
  <2>3. \A n \in Rows : VerdictOf(n)' = IF n \in S /\ VerdictOf(n) # "unsure" THEN "none" ELSE VerdictOf(n)
    <3> SUFFICES ASSUME NEW n \in Rows
                 PROVE  VerdictOf(n)' = IF n \in S /\ VerdictOf(n) # "unsure" THEN "none" ELSE VerdictOf(n)
      OBVIOUS
    <3>1. CASE n \in S
      BY <2>1, <2>2, <3>1 DEF VerdictOf
    <3>2. CASE n \notin S
      BY <2>1, <3>2 DEF VerdictOf
    <3> QED
      BY <3>1, <3>2
  <2>4. V!ClearAway(S)
    BY <2>3 DEF V!ClearAway
  <2> QED
    BY <2>4 DEF V!DecisionsNext
<1>7. CASE UNCHANGED inbox
  <2>1. \A n \in Rows : VerdictOf(n)' = VerdictOf(n)
    BY <1>7 DEF inbox, VerdictOf
  <2> QED
    BY <2>1
<1> QED
  BY <1>1, <1>2, <1>3, <1>4, <1>5, <1>6, <1>7 DEF InboxNext

\* With one reviewer at a time the queue implements Decisions, in every
\* interleaving with sweeps, deletions and crashes: whoever is first decides, and
\* an order is never two of undecided, recorded and dismissed.
THEOREM FirstDecides ==
  ASSUME Solitary
  PROVE  Spec => ImplementsDecisions
<1>1. Init => Decided /\ V!DecisionsInit
  <2>1. Init => Decided
    BY OneDecisionInit, InboxAssumption
       DEF Init, InboxInit, Decided, DocsAccounted, AcceptedIsRecorded, OnARow
  <2>2. Init => V!DecisionsInit
    BY DEF Init, InboxInit, V!DecisionsInit, VerdictOf
  <2> QED
    BY <2>1, <2>2
<1>2. Typed /\ Decided /\ [Next]_vars => Decided'
  <2>1. Typed => InboxTypeOK
    BY DEF Typed, TypeOK
  <2> QED
    BY <2>1, InboxSteps, DocsAccountedSteps, OneDecisionSteps, OnARowSteps DEF Decided
<1>3. Typed /\ Decided /\ [Next]_vars => [V!DecisionsNext]_[m \in Rows |-> VerdictOf(m)]
  <2>1. Typed => InboxTypeOK
    BY DEF Typed, TypeOK
  <2> QED
    BY <2>1, InboxSteps, DecisionsStep
<1> QED
  BY <1>1, <1>2, <1>3, TypedInit, TypedSteps, PTL
     DEF Spec, ImplementsDecisions, V!DecisionsSpec

=============================================================================
