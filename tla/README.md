# SmartSME in TLA+

SmartSME keeps the books of small businesses: sales and purchases, stock, the
balances of customers and suppliers, alerts, and orders that arrive by email or
Telegram. A FastAPI process writes to PostgreSQL; effects of a write are applied
later, by whoever takes the event that was written with it. This directory holds
TLA+ models of that program, what TLC checks of them, and what TLAPS proves.

Paths below are relative to `backend/app/`.

## Inventory

| Part | State it keeps | Operations | What is hard | What makes it correct |
|---|---|---|---|---|
| **Event outbox** `events.py worker.py tasks.py celery_app.py routers/ops.py` | `events` (status, retry_count, claimed_at), messages in Redis, each worker's task | publish with a write, drain, claim, apply, fail, sweep, replay | several workers, crashes between claim and outcome, redelivery, a sweep that judges by age, Redis lost | one worker per event, effects once, bounded retries, nothing lost |
| **Books** `domain/*.py workflow.py` | stock and movement rows, balances, documents and payments | create, apply, cancel, pay, settle, adjust, delete | effects lag behind documents; every operation may meet a document whose event is still pending | stock explained by movements, balances by documents, no overselling, cancellation neutral |
| **Rules and alerts** `workflow.py routers/ops.py` | rules, executions, notifications | evaluate, notify, toggle, edit, read, dismiss | check-then-insert de-duplication, rules edited while events run, several rules on one event | one unread alert per title, each execution recorded once |
| **Inbox** `routers/inbox.py smart_input.py` | inbound messages and what they became | collect, accept, reject, remove, clear | a row lock released by an inner commit, two reviewers | an order becomes one sale at most |
| **Collection** `inbound/*.py` | Telegram offset (in memory), links of chats, deduplicated messages | poll, ingest, link, unlink | restarts forget the offset; POP3 deletes before ingestion; relinking | no message twice, none lost, none to another business |
| **Team** `routers/users.py routers/auth.py core/deps.py core/roles.py cli.py` | accounts, roles, invitations | sign up, invite, revoke, accept, set role, remove | check-then-act on the last owner, a link used twice or replaced while it is used | always an owner, one seat per link, one live link per address |
| **Sign-in throttle** `core/throttle.py routers/auth.py` | attempt rows | check, record | streaks, expiry, attempts in flight, which are not counted yet | a bound on guesses at one account and from one address |
| **AI client** `ai/client.py` | failures in a row, time to skip until | complete | calls that hang while the breaker opens | a provider that is down is not waited for |
| **Smart Input** `smart_input.py ai/nlp.py ai/lang.py routers/input.py` | none; a draft is held by the browser or an inbox row | parse, ground, publish | words of a note compete for their meaning; the catalogue changes before the draft is confirmed | nothing said is dropped, the document is the draft |
| **Money** `core/utils.py domain/sales.py domain/purchases.py` | none | round, totals | rounding at the half, discounts larger than the goods, payments larger than the total | with the figures below |
| **Reports and analytics** `reports.py analytics.py core/utils.py` | none | periods, sections, series, overview | three ways to cut time into days, weeks and months | the figures agree |
| **Expenses, settings** `domain/catalog.py routers/business.py` | expenses; fields of the business | add, delete; edit | an expense deleted while a rule flags it | with alerts and figures |
| Web client, serialisation, tooling | none of their own | pages, formatting, start-up, seeding | | not stated as invariants |

The parts meet in two places. Every write goes through `publish()` and so through
the outbox; and the outbox applies the effects of documents (`_apply_sale`,
`_apply_purchase`) to the books and then runs the rules, in one transaction. The
inbox ends in the same domain functions as the forms. PostgreSQL runs at READ
COMMITTED without row locks (except one in the inbox), and the ORM writes values,
not increments, so overlapping handlers of one row can lose an update.

## Modules

| Module | Contents |
|---|---|
| `Outbox` | the outbox in both dispatch modes, with faults and the operator |
| `Delivery` | what the outbox promises, as an abstract specification |
| `Ledger` | documents, stock, balances and payments of one business, a transaction per action |
| `Overlap` | the same operations as transactions that overlap and write back what they have read |
| `Inbox` | the review queue: rows of inbound messages and the decisions on them |
| `Inbound` | composes `Inbox` with the collectors of email and Telegram |
| `Decisions` | what the review queue promises, as an abstract specification |
| `Alerts` | rules, their evaluation by overlapping workers, the alert log |
| `Team` | accounts, roles and invitations under overlapping requests |
| `Throttle` | sign-in and its two limits |
| `Provider` | the provider of the language model behind its circuit breaker |
| `Notes`, `Lang` | how a note is read: English; Hindi and Kannada rewritten into it |
| `Drafting` | from a note or a slip to a draft and to the document, over a catalogue that changes |
| `Figures` | totals of documents, report, revenue series and dashboard over a calendar |
| `OutboxProofs`, `LedgerProofs`, `OverlapProofs`, `InboundProofs`, `AlertsProofs`, `AccessProofs`, `DraftingProofs` | inductive invariants, theorems, refinements of `Delivery` and `Decisions` |
| `SetLemmas` | what the proofs need of finite sets and sums |
| `MCOutbox`, `MCInbound`, `MCAlerts`, `MCOverlap` | symmetry sets and small values for TLC |
| `MCLedger` | the same for `Ledger`, in two halves, of money and of goods, whose states add up |
| `MCAccess` | `Team` and `Throttle`, for one run |
| `MCDrafting` | `Provider`, `Drafting` (with `Notes` and `Lang`) and `Figures`, for one run |

In the last two the modules share no variable that both write: a variable `part`
says which of them a behaviour belongs to, so that their states add up instead of
multiplying. `Delivery` is what `Outbox` implements and `Decisions` what
`Inbound` implements; `Inbound` is built over `Inbox` and `Overlap` over `Ledger`.

### Outbox

A *worker* is whatever runs `process_claimed`: a request thread or the poller in
inline mode, a Celery process in celery mode. Actions are transactions:

| Code | Action |
|---|---|
| a handler's commit with `publish()` | `Publish` |
| `drain_queue()` in celery mode; `POST /events/drain` | `Drain`; `DrainByHand` |
| `claim()` from `process_batch()` / from `process_event()`, won / lost | `ClaimPolled` / `ClaimDelivered`, `SkipDelivered` |
| `process_claimed()`: the session's first reads, its commit, its exception | `Load`, `Commit`, `Raise` |
| `_mark_failed()` | `MarkFailed` |
| end of `process_event()`: hand the chain over, acknowledge | `Handoff` |
| `sweep_outbox()` | `Sweep` |
| `replay_event()` | `Replay` |
| death of a worker, kill at the time limit, death of the API process, Redis lost | `WorkerDies`, `HandlerDies`, `BrokerFails`, `BrokerReturns` |

`Load` and `Commit` are apart because what a transaction has read (is the row
processing, do stock movements exist) may be stale when it commits. `applied[e]`
counts commits of the effects of e; an event of a document that has nothing to do
(cancelled before it was applied) counts as applied. `Guarded` are the events
whose document has product lines, which are the ones the replay guard recognises.
Time is in ticks: `Tick` ages events, claims and running tasks together, so that a
claim is always as old as the task that holds it; a pool that enforces
`task_time_limit` does not let a task reach the age at which the sweep gives its
claim up (120 s against at least 300 s in the code). `Sweep` is one step although
the code uses two transactions: nothing between them changes what the second reads
in a way the next sweep would not meet. The limits of 240 and 500 ids per query
are not modelled.

### Ledger

Each action is one committed transaction; each document has one creation event,
*pending*, *done*, or *again* (pending by a replay). Money is in hundredths, what
`round2` leaves (an opening balance is the one amount the code stores unrounded).
A line is a quantity per product; free-text lines carry none. Two histories are
kept that the database does not have: `opening`, the part of a balance that is on
no document, and the difference between *pending* and *again*.

Nothing restricts the orders in which operations come: they run while events of other
documents and of their own are pending, events are replayed with and without product
lines, documents of either kind are made for parties of either type (the forms offer
customers for sales and suppliers for purchases, but `assert_party_owned` only checks
that the party is the business's), and the type of a party is edited. Where the books
come out wrong for it, two histories say so and the properties leave out just that:

* `skewed`: documents whose due amount their party's balance may hold not at all or
  twice. A payment or a cancellation before the event puts a document there; so does a
  replay of one without product lines, which the replay guard cannot recognise; and so
  does a settlement that pays a document without clearing its party, or clears the party
  without paying it (`Strays`), because `settle_party` and `settle_all_outstanding`
  choose documents by the type the party has by then;
* `rushed`: products that were sold or corrected away while the goods of a recorded
  sale were still in stock, so that the check counted them twice.

`Shifted`, `Credit`, `Moves` and `Due` are the shared steps that the code repeats
for sales and purchases. `payment_status_for` compares floats with `total - 0.01`; for
about one total in eight the comparison fails at exactly one hundredth below, so
there both labels are possible (`StatusesFor`).

### Overlap

PostgreSQL runs at READ COMMITTED, the session reads rows when the handler asks for
them and writes new *values* at the commit, of those columns only that have another
value than was read (`Changed`). `Overlap` takes the operations of `Ledger` apart
accordingly:

| Code | Action |
|---|---|
| the first query of a handler, and what follows from it | `TakeEvent`, `TakeCancel`, `TakePayment`, `TakeParty`, `TakeCorrection` |
| the products and the party; the documents of a settlement | `Fetch`; `FetchDocs` |
| the commit: changed values are written, movement rows inserted | `Commit` |
| `replay_event()` | `ReplayOne` |

Updates are lost this way, and the code does nothing against it. The history `torn`
names the rows that were written while another handler had read them, and `skewed` is
that of `Ledger`; the properties explain every other row, whatever else overlaps. What is paid on a document and its label are two columns,
so that after an overlap they may come from two handlers: a part payment that keeps
the label, committed over a settlement, leaves a document that is called paid and is
not (`LabelsAgree` leaves out only rows that are torn; the run reaches such a one).
The documents exist at the start, with their events
pending, of parties of either type, and the catalogue does not change: creating them is in `Ledger`, deleting
products meanwhile in `Drafting`.

### Inbox and Inbound

| Code | Action |
|---|---|
| `accept()`: lock, check, document, commit / status, commit | `Record` / `MarkAccepted` |
| a crash between the two | `Interrupt` (`CutShort`) |
| `reject()`, `remove()`, `clear_handled()` | `Reject`, `Remove`, `ClearHandled` |
| `_collect_email()`: `fetch()`, then `ingest()` of each | `Fetch`, `StoreMail` |
| `_collect_telegram()`: `get_updates()`, then `_handle_update()` of each | `Poll`, `Handle` |
| an exception in a sweep; a process that dies | `Fail`; `Restart` |
| `unlink()` | `Unlink` |

`Inbox` has the queue's variables and its actions; `Inbound` extends it with the
channels and composes them. `publish_draft()` ends in a domain function that
commits, and with that commit the row lock of `_pending_or_404` is gone while the
status still says pending, so `accept()` is two transactions. A row is identified
by business and message, as the unique constraint has it; `docs` counts documents
recorded from the row as it stands, so a message that was deleted and collected
again starts anew. A `MarkAccepted` whose row was deleted updates nothing and the
request fails: `Delete` takes the reviewer off the row.

`Decisions` is what `docs/inbound-orders.md` says under "When two people have the
Inbox open": who is first decides, and the decision stands until the order is cleared
away. `VerdictOf` maps a row to it: recorded once a document came of it, whatever its
status says by then; dismissed if it is rejected without one; waiting otherwise; none
if there is no row. A row whose acceptance was cut short between the two commits is
`unsure`, since it is recorded and may still be offered, and nothing is promised of it.

A collector is a thread that calls `collect()` again and again. `offset` belongs
to a process (`ProcessOf`): the poller thread of inline mode shares it with the
requests that collect by hand, and a restart forgets it. `confirmed` is what the
Telegram server was told and has dropped. POP3 is modelled; IMAP marks emails as
seen at the same point. A session that cannot be ended properly leaves the emails on
the server although they were read; it counts as a fault. `lost` has the emails that a
sweep had in hand when it failed or died. Emails are such as `to_incoming()` can read:
one on which the parser raises is deleted and logged. Parsing is a choice between readable (`pending`) and not
(`failed`). Storing one message is one step. Left out: at most 100 updates in one
answer, updates that Telegram drops after a day, replies to the chat.

### Alerts

| Code | Action |
|---|---|
| handlers that publish an event a rule can watch | `ChangeStock`, `RecordSale`, `AddExpense` |
| those that publish none | `Restore` (cancelling a sale or a purchase), `UpdateProduct` (threshold and name), `PaySale`, `DeleteExpense` |
| `run_workflow_rules()`: context, conditions, twins | `Load` |
| the commit; an exception and `_mark_failed()` | `Commit`; `Fail` |
| `create_rule`, `update_rule`, `toggle_rule`, `delete_rule` | `CreateRule`, `UpdateRule`, `ToggleRule`, `DeleteRule` |
| the alert log | `MarkRead`, `MarkUnread`, `Dismiss`, `ClearRead`, `MarkAllRead` |

`Load` is one step although it is several queries: what the rules say, the context
of the event and the unread alerts. `overlapped` records which events were held at
once. The session does not flush between rules, so two rules of one event with one
title both insert. A title is its text: the level and the *name* of a product for a stock alert, what
`form` says for another rule. Names are neither unique nor fixed (`Names` may be fewer
than `Products`, and `UpdateProduct` renames), and `Deduped` compares texts within the
business, so that an unread alert of a namesake, or of a rule with such a title,
swallows one that is owed; `hushed` records where it did. What a rule flags is what it
said when it was loaded (`flags`). A rule's condition is evaluated with the operators of
`_condition_met`, on numbers, texts and values that are missing.

### Team and Throttle

| Code | Action |
|---|---|
| `get_session()`, `require()`, `require_tenant()` | `Open` |
| `set_role()`, `remove_member()` up to the write / commit | `CheckRole`, `CheckRemove` / `CommitRole`, `CommitRemove` |
| `create_invite()`, `revoke_invite()` | `CheckInvite`, `CheckRevoke` / `CommitInvite`, `CommitRevoke` |
| `accept_invite()` | `CheckAccept` / `CommitAccept` |
| `sign_up()`; `create_platform_user()` at the console | `SignUp`; `CreatePlatformUser` |
| time passes for a link | `Expire` |
| `check_sign_in_allowed()` / `record_attempt()` | `Check` / `Record` |

A request is resolved once: its role and business are those of the moment it opened.
What it checked may be stale at the commit; `raced` records which businesses had two
requests that take an owner away, and which addresses two that invite. Passwords,
cookies and token hashes are abstracted away: a link is the invitation.

`Throttle` keeps the attempt rows, numbered in the order of `created_at`, and derives
both limits from them as the code does: the streak since the last success within the
lookback, the lock that doubles with it, the failures of one address within the window
are sets of row numbers. `Check` and `Record` are apart because the password is
verified in between.

### Provider, Notes, Lang and Drafting

| Code | Action or operator |
|---|---|
| `complete()`: breaker, call; the answer; the failure | `Call`; `Succeed`; `Break` |
| `normalize()` | `Rewritten` (`Lang`) |
| `heuristic_parse()`, `_normalize()` | `Heuristic`, `Normalize` (`Notes`) |
| `best_match()`, `ground_text()`, `draft_from_image()` | `Best`, `GroundText`, `GroundSlip` |
| `draft_from_text()` with and without an answer of the model; a slip | `DraftFromReply`, `DraftFromText`; `DraftFromImage` |
| `publish_draft()`: line items, checks; the commit | `Confirm`; `Record` |
| the event; edits of the catalogue | `ApplyInventory`; `UpdateProduct`, `UpdateParty`, `DeleteParty` |
| `delete_product()`: look for documents; delete | `CheckDelete`; `DeleteProduct` |

An order in `Drafting` is what somebody wants to record, with what the words mean; a
*pen* is a way to write it (English with the name first or last, with units and
joining words, with a price at the end or after each line; Hindi with separate
postpositions; Kannada with glued ones). A note is a sequence of classified tokens, so
that `NothingDropped` compares what was meant with the draft. The rules read two things
wrong (`Misread`): a price that is not at the end, which they take for a quantity of what
follows it, and goods of two words right before one word of a name with a postposition,
which lose the second to the name. `NothingDropped` says for each what the draft has
then and that everything else is as it was meant, instead of leaving such notes out. Which words fold, sound or stand for the same is given
by constants. What the language model answers is a choice; grounding does not trust it.

### Figures

`Enter` records a document with its totals, dated on any day around today at midnight,
noon, the last moment a report includes (23:59:59.999) or after it; `Cancel`,
`DeleteExpense` and `NextDay` change what is there. `Report`, `Series` and `Overview`
are operators over the documents, translated from the three modules that compute
them. Amounts are in exact hundredths; the float effects inside `round2` are left out.

## Runs

| Run | Question | Bounds |
|---|---|---|
| `Outbox_celery` | one worker per event, effects once, bounded retries, nobody's claim taken, implements `Delivery` | 2 events (one with product lines, one chained or published), 2 workers, 2 attempts, 1 fault, 1 replay |
| `Outbox_inline` | implements `Delivery` in inline mode | 3 events, 2 workers, 1 death, 2 replays |
| `Outbox_live` | every committed event is eventually applied or dead-lettered | 2 events, 2 workers, 1 fault, no replay |
| `Ledger_whole` | in every order of operations: movements are whole, stock is the sum of its rows, balances are explained by documents, nothing oversells, cancelled documents stay closed | 1 product, 1 party of either type, pieces of 1, totals of 0 and 3, payments of 2, 1 replay; a half with money (1 sale, 1 purchase) and a half with goods (2 sales, 1 purchase, corrections of one piece) |
| `Overlap` | balances and stock are explained by documents, and labels agree with amounts, under overlapping transactions | 1 sale, 1 purchase, 1 product, 1 party of either type; 2 handlers at once, 3 in a behaviour; unpaid documents of 3 with and without goods, part-paid ones of 5, which another payment of 2 leaves part-paid |
| `Inbound` | orders reach the business they were sent to, are recorded once, accepted ones stay so, the queue implements `Decisions` | 2 sweeps of one process, 1 email, 2 updates of one chat (orders, links to 2 businesses, noise), 1 reviewer, 1 fault |
| `Inbound_live` | the offset passes no order over; every update is confirmed at last | 2 sweeps, 3 updates (orders and a link), 1 fault |
| `Alerts` | a stock alert is swallowed only by a text that is the same, twins need an overlap, each alert is explained by an execution | 2 products with names out of 2, which may be one, fine or low by one piece, 1 sale, 1 expense, 3 rules (2 seeded, 1 with the title of a stock alert), 2 workers, 2 events, 2 attempts, 1 edit of a rule or a product |
| `Access` | a business keeps an owner, a link seats one person, one live link per address; bounds on guesses | 3 accounts, 2 addresses, 2 businesses, 2 invitations, 2 requests; 2 names, 2 sign-ins at once, 4 attempt rows, 3 ticks |
| `Drafting` | no waiting for a dead provider, a draft says what the note says but for two misreadings, the document is the draft, lines keep their goods, invoice numbers differ, figures agree | 2 callers, breaker of 2 and cooldown of 2; 5 orders and a slip, 2 products, 2 parties, 2 drafts, 2 edits of the catalogue; 2 documents, end of February of a leap year, every period the page offers |
| `Drafting_names` | no line of a note has a word in its name that names never have (violated) | as in `Drafting` |

Two workers and two events are enough for every conflict over a row: a conflict
is between two holders of one event, or a holder and the sweep or a replay, and a
third event only adds load (in `Outbox_inline` it is there for a chain next to an
independent event). `MaxRetries = 2` has a failure that retries and one that
dead-letters. `Stranded = 1 < Abandoned = 2` and `TaskLimit = 1` keep the order of
the three times in the code. One copy of a message in the list is enough for a
duplicate: the sweep adds it while the event is held. In the books one product
and one party suffice because no property relates two of them; totals of 3 have a
part payment, the boundary one below, and the whole. A lost update takes two
handlers of one row; the third in a behaviour is there to go wrong because of it,
and four were checked once. Two sweeps over two or three updates have one sweep
handle what the other read before a relink, a failure or a restart, and set the
shared offset back. With one chat all updates compete for one link. `RecordedOnce`
and `ImplementsDecisions` need one reviewer; the other properties of that run were
also checked with two.

In `Alerts` twins take two evaluations of one title, so two workers and two events;
one alert swallows another with two products that may have one name, or with a rule
that has the title of a stock alert;
three rules are two of the four that a business starts with (restock and expenses,
which write alerts; stock alerts are the ones owed) and one of its own, which with one
edit can be created, changed, switched or deleted under an evaluation. In
`Access` the last owner is lost by two requests and no fewer, a link is used twice
by two accepts, with a third account to be the one who was there before; a streak
of two failures locks and one more doubles the lock, which is then at its cap. In
`Drafting` the breaker opens with both callers out, which is when they count twice;
every order is written with every pen; two drafts are confirmed at once. The dates
in `Figures` have a month end, a leap day, a week boundary and, for the longest
period, cuts by day, week and month.

Two runs expect a violation, a disagreement between the code and its documentation:

* in `Inbound_twice` two reviewers accept one message and both record it, where
  `docs/inbound-orders.md` says that the order is recorded once, by one of them;
* in `Drafting_names` "bought 1 basmati for 12 from Ram" is drafted with a second line,
  12 of "From Ram", where `ai/nlp.py:297` says of "from" and the like that they can never
  be part of a name, and `ai/nlp.py:319-320` that an item ends at a stop word: the first
  word of an item belongs to it whatever it is.

Also seen, in the models or while writing them, without a run of their own. The
outbox:

* in inline mode a process that dies between `claim()` and the outcome leaves its
  event in `processing`, where nothing looks for it, while `docs/architecture.md:75`
  says an event is never lost;
* with `"processing"` in `ReplayFrom` (a page that still shows an event as dead
  offers the button), `replay_event` lets two workers apply one sale
  (`AppliedAtMostOnce`);
* with `LimitEnforced = FALSE` (a solo pool) the sweep takes an event from its
  running worker (`NoTheft`).

The books:

* two sales recorded before either is applied both pass the stock check
  (`domain/sales.py:58`), which is what `rushed` records;
* a cancellation before the event reverses a due amount that was never added, and
  a payment before the event is subtracted twice; a replay does not see documents
  without product lines and adds their due amount again; a customer turned supplier and
  settled, or a sale to a supplier, leaves unpaid invoices under a cleared balance. These
  are the documents in `skewed`;
* overlapping handlers lose updates of stock, balance and `amount_paid` (`torn`), and
  can leave a document labelled paid with money owed on it;
* a sale created one hundredth short is labelled paid with that hundredth still
  on the balance;
* two overlapping confirmations get one invoice number, and a product that is
  deleted between the check for documents and a commit is stripped from the lines.

Alerts, accounts, collection:

* two workers that evaluate at once write an alert twice, and so do two rules of one
  event with the same title, because the session does not flush between them; the
  execution of a rule says "Notification created" also when there was one already;
* cancelling a purchase and editing a product lower stock or raise the threshold
  without an event, so that no rule looks;
* the unread alert of one product swallows that of another of the same name, and so does
  a rule whose title is "Low stock: Rice" (`hushed`), while `docs/features.md:70` says of
  the de-duplication that a noisy rule cannot bury the alert that matters;
* `update_rule` takes an event type that `create_rule` refuses; `eq` compares texts,
  so that 5 and 5.0 differ;
* a rule or an expense that is deleted while it is evaluated fails the event, which
  is then tried again;
* two owners who demote or remove each other at once leave the business without
  one, which `docs/auth.md:88` excludes; two invitations of one address at once leave
  two live links; a link seats a second person if the first is removed while the
  second accept is on its way;
* a failure that leaves the lookback shortens the streak, and with it a lock that
  was running;
* a chat that is relinked while an update of it is read again (after a restart, or
  by a second sweep) has one order in the queues of two businesses.

Reading and reporting:

* the receivable of the dashboard (`analytics.py:153`) counts a sale on credit both
  in the balances and in the unpaid documents;
* a report leaves out documents of the last millisecond of its last day, which the
  revenue series has;
* without the language model a price in the middle of a note becomes a line of its own
  (`Drafting_names`), and so would a date, which the notes of `Drafting` do not have;
  "2 basmati rice Anita ko becha" is read as a party "rice Anita" (`Misread`); a
  postposition glued to a Kannada name of two words keeps only the second, by
  which the party is still found in the notes that are checked.

## Fairness

`Outbox` assumes that a thread that runs takes its next step (weak fairness of
`Load`, of committing or raising, of `MarkFailed` and `Handoff`), that a message
in the Redis list reaches some worker (strong fairness: workers may be busy
whenever it is there, and the list is served in order), that beat keeps running the
sweep while Redis is up (`beat_schedule`), that time passes, and that an outage of
Redis ends. Nothing is assumed of `Drain` or `DrainByHand`: the sweep alone must be
enough, which is its purpose. Faults are finitely many in a behaviour. No fairness
is assumed of publishing, replays or faults.

`Inbound` assumes that every collector goes on (`WF` of `Collect`): the poller
starts a sweep every thirty seconds and a sweep under way takes its next step.
Sweeps that fail are among the bounded faults. Nothing is assumed of reviewers.

`Alerts`, `Team`, `Throttle`, `Provider`, `Drafting` and `Figures` state safety only.

## Proofs

Every theorem holds for every value of the constants that satisfies the named
assumption of its module.

`OutboxProofs`: `TypeCorrect` without further assumptions; `OneHolder`,
`AppliedOnce`, `AppliedIsDone`, `DeadAfterRetries`, `NobodySteals`,
`SettledUntilReplay` and `Refinement` (every step of the outbox is a step of
`Delivery` or a stutter) assuming `Disciplined`: the pool enforces its time limit
and nobody replays an event in processing. The list above shows that neither can be
dropped. `SingleHolder` is not inductive. It needs that the row of a held event says
processing (`HolderOwnsRow`), so that nobody claims it, and that in celery mode
the age of a claim is the age of its holder's task and within the limit
(`ClaimAgeIsTaskAge`), so that the sweep leaves it alone. `AppliedAtMostOnce` needs
that what the holder has read is still so when it commits (`SeenIsCurrent`). With
these, the outcomes of an event follow row by row: `OutcomeRows` says what a commit
and a failure do to the row, which the last three theorems share.

`LedgerProofs`, in every order of operations, events and replays: documents move
stock wholly or not at all and cancellation undoes exactly that (`WholeMoves`),
payments stay within totals and are labelled accordingly (`PaymentsAgree`),
recorded money never falls (`PaidOnlyRises`), cancelled documents
stay closed (`CancelledStays`), and the movement rows of a product sum up to its stock
(`StockIsExplained`). The strengthening is `AbsentIsBlank`, that an unused id
has no rows and no money, and for the sum `RowsInv`: documents name only products that
exist, a live document has moved its lines once its event is done and not before
(`EffectsOnce`), and the sum holds of unused ids as well, so that creating a product
finds nothing. Two theorems except what the list above shows to go wrong, by histories:

* `NeverOversold`, for products that are not `rushed`: the stock less what recorded sales
  whose events are pending will take (`Promised`) covers what cancelled receipts took
  back (`StockedInv`, `Covers`), so that a sale that passes its check with nothing
  promised is covered when its event is applied;
* `BalanceIsExplained`, for parties without `skewed` documents: a balance is its opening
  and what its applied documents leave due (`DuesInv`), also of ids that are not in use.
  `HistoryInv` says that a document that was replayed without product lines is in the
  history, since nothing in its row tells the first application from the second.

The sums are over sets of documents, which the assumption on the constants makes finite.
What the prover needs to know of them is in `SetLemmas`, proved from the definition of
`SumFunction`: one term changes and the sum changes by as much, zeros may be left out,
the sums over disjoint parts add up to the sum over all of them (`SumOfParts`). They go
by induction over subsets in a form that takes a set and not an operator
(`SetInduction`).

`OverlapProofs`, over the same operations in overlapping transactions and for every
number of handlers: `OverlapStock` and `OverlapBalance`, without further assumptions.
`StockInv` and `BalanceInv` say
what a handler under way has in hand: the value it will write counts from the present
one, unless the row is torn (`Shelved`, `Pursed`), and the rows it will insert and the
amount it will add are still due (`ShiftIsDue`, `CreditIsDue`); a settlement has read
every document it is to clear (`Clears`). `torn` is needed in both: a commit writes
values and tears what others have read. `OverlapPayments` (`LabelInv`): the columns that
a handler will write agree with each other and with those it leaves, as long as the row
is not torn.

`TransactionsAreWhole` is why `Ledger` may take a transaction in one action: every step
of the overlapping ones is a step of `Ledger` or writes no row of the books, but for the
commit of a handler that has read a torn row, and a row is torn only if it was written
under a handler that had read it. `WholeInv` says that what any other handler has in hand
is what it would have if it read only now (`AsRead`, an operation at a time), so that its
commit is that operation. It is about steps, not a refinement: the
documents of `OverlapInit` have been recorded. No run checks `WholeOrTorn`; it was
checked once, with two handlers at once and four in a behaviour, before it was proved.

`InboundProofs`, for every number of messages, collectors, processes and
faults: `TypeCorrect`; `NothingLost`, that what Telegram was told to forget was
dealt with; `MailIsSafe`, which names the emails
that a fault took (`lost`); `OrdersAreAddressed`; `AcceptedHasDocument` and
`DecisionsStand`; and, assuming `Solitary` (one reviewer), `OneDocument`,
`DismissedIsUnrecorded` and `FirstDecides`, the refinement of `Decisions`. A step of the
queue maps to a step of `Decisions` by the invariant `Decided`: an accepted row has a
document, a row is recorded twice or dismissed after it was recorded only if it was cut
short, and a reviewer between the two commits holds a row that exists. `NothingSkipped` is not
inductive: what is confirmed comes from an offset, and an offset from the batch
that some sweep has in hand, possibly a stale one, so `Progress` says the same of
`confirmed`, of every offset and of every sweep. For `NoStrangersOrder` the links must
be explained too, since rows are routed by them, and emails must be known to say what
they will say (`Addressed`); that `MarkAccepted` writes without looking is harmless
because a reviewer is taken off a row that is deleted (`OnARow`). Every step of
`Inbound` is a step of the queue or leaves it alone (`InboxSteps`), so that the
theorems on decisions are argued over the queue's actions only.

`AlertsProofs`: `TypeCorrect`, `EveryAlertExplained`, `TwinsNeedOverlap` and
`LowStockIsAlerted`. An alert
is explained by an execution because the two are written by one commit from what the
worker has found, so `Planned` relates what it will insert to what it will record,
`Held` gives each event one worker, and `Unused` keeps the id of a rule to come out of
both. For twins, `Noted` says that whatever a worker will repeat without having seen
it is already among the overlaps; the de-duplication takes care of the rest.
`AlertedLow` speaks of the time when no event is open; `Served` says of every moment
where an alert that is owed is: unread, dealt with, still to come with an event, or in
the hands of a worker that will bring it, or else `hushed`. It needs that an alert is owed
only while some rule watches (`Watched`) and that a worker writes one alert of a rule
(`OneEach`), since a commit keeps one for each.

`AccessProofs`, about `Team`: `TypeCorrect`, `OneSeatHolds`, `LastOwnerStays` and `OneLinkLeft`. A
commit trusts a check that may be stale, so the last two are strengthened by what the
checked requests still know: `Owned` that an owner remains whom no request under way
takes out unless two requests raced, `Linked` that a link which a request is about to
replace is the only one, `Seats` needs no more than that an
email has one account and that whoever came by a link has the email it was for.

And about `Throttle`, for every limit, lock, lookback, window and retention that are
ordered as the settings are, and for tables and clocks without bound: `AttemptsInOrder`,
`GuessesBounded` and `SpraysBounded`. Neither budget is inductive, because attempts that
were let through fail later: `GuessInv` bounds the failures of a name within the length
of a lock together with its attempts under way, `SprayInv` likewise for an address. A
check finds few such failures either because the streak is short or because the lock is
over, and a lock is never shorter than `LockTicks` (`LockLasts`), however often it has
doubled. A sweep takes away the oldest rows only, so that no run of failures loses its
middle.

`DraftingProofs`, about the breaker of the provider: `TypeCorrect` and
`BoundedWaiting`, that in any window of one cooldown at most `BreakerFailures` calls, and
one for each other caller, fail between two successes. The window closes because whoever
fails after the breaker opened was out when it did (`StillOut`), which counts callers;
`SkipsFromLast` ties the breaker's time to the last failure.

And about `Drafting`, for every vocabulary, catalogue, note, slip and number of drafts:
`DocumentsKeepToDrafts`, `LinesKeepGoods` and `NumbersUnique`. A document is what its draft
said because what a confirmation has checked already is (`OnDesk`, `Agrees`), and a known
party is on the right side of it because grounding never says otherwise (`TextSided`,
`SlipSided`); deletions take names away and nothing else. `Raced` adds that a product on a
document is being deleted only if the document came after the look for one, and the
deletion finds nothing else to strike. `NumberInv` says that the recorded numbers of a
kind are behind its count and those of confirmations under way not ahead of it, so that a
new number can meet only one of the latter.

And about `Figures`, for every tax rate, pool of documents and length of a series, and for
every calendar of months of 28 to 31 days that is long enough (`CalendarIsLong`: a year
before the first day, the last day, every date that is entered): `FiguresAlwaysAgree`.
Whatever the number of days, the buckets of a series follow on one another (`Cut`, by
`DaysCut`, `WeeksCut` and `MonthsCut`), so that no moment is in two of them and none between
the first and the last in no bucket (`CutOrdered`, `CutCovers`); by `SumOfParts` they add up
to the sales of all their days, which a report has up to the end of the last one
(`ReportAndLate`). The last days, weeks and months are then the presets by arithmetic. For
the dashboard it takes that entries are dated within the calendar, that expenses are never
cancelled and nothing is paid beyond its total (`FiguresInv`).

Only model-checked: `EventuallySettled` and `EventuallyConfirmed`, which are liveness
under fairness and out of the prover's reach, and `NothingDropped`, which is about what
recursive readers make of sequences of words.

## Plan

The core and the parts around it are modelled. What would add most from here:

1. An abstract specification of a document's account (recorded, due, settled,
   cancelled) that `Ledger` implements.
2. In the outbox, tasks killed at the time limit without bound: `_mark_failed()` never
   counts them, and `EventuallySettled` then needs a fairness of commits that the code
   does not give.
3. In the inbox, a message that was cleared and is delivered again after a restart, as
   one order rather than as two rows.

## Not modelled

The web client (it holds tickets for pages and drafts; what its forms allow is less than
what the backend takes, and the models follow the backend: a sale may name a supplier,
since `assert_party_owned` looks at the business only), serialisation and paging (pages are ordered by keys that are
not unique, so that a row may appear on two of them), start-up, seeding, migrations,
configuration and the evaluation scripts. Of Smart Input, transliteration, dates,
categories and the layout of slips are constants or left out; of the reports, their
rendering as CSV, PDF or XLSX; of analytics, valuation, cost of goods and rankings;
of the business, its descriptive settings. Floats are exact hundredths except where
`StatusesFor` says otherwise.
