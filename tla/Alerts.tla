-------------------------------- MODULE Alerts --------------------------------
(***************************************************************************)
(* The rules of a business, their evaluation by the workers that apply     *)
(* events, and the alert log.                                              *)
(*                                                                         *)
(*   backend/app/workflow.py              run_workflow_rules and below     *)
(*   backend/app/routers/ops.py           rules and notifications          *)
(*   backend/app/models/workflow.py       WorkflowRule, WorkflowExecution  *)
(*   backend/app/models/notification.py   Notification                     *)
(*   backend/app/domain/catalog.py        the products that events are of  *)
(*                                                                         *)
(* A worker reads everything it needs in one session and writes it with    *)
(* one commit; whatever others commit in between it does not see.  Which   *)
(* worker gets an event, and retries after crashes, are the subject of     *)
(* Outbox: here an event is pending, held by one worker, done or dead.     *)
(***************************************************************************)
EXTENDS Integers, FiniteSets

CONSTANTS
  Products, Sales, Expenses,   \* what events are about
  Names,      \* of products
  Rules,      \* pool of rule ids
  BuiltIn,    \* the seeded rules among them
  SeedForm,   \* what the seeded rules say: a function from rule ids
  Forms,      \* contents that a rule can be given
  NoForm,     \* a rule id that is not used yet
  Erased,     \* a rule that was deleted
  Workers,
  Idle,       \* what a worker without an event is at
  Levels, Thresholds,   \* values of a product's stock and low_stock_threshold
  MaxEvents, MaxRetries, MaxEdits   \* bounds: events, attempts, edits of rules
                                    \* and unpublished ones of products

Subjects == Products \cup Sales \cup Expenses
Events   == 1..MaxEvents

ASSUME AlertsAssumption ==
  /\ MaxEvents \in Nat /\ MaxRetries \in Nat \ {0} /\ MaxEdits \in Nat
  /\ Idle \notin Events
  /\ NoForm \notin Forms /\ Erased \notin Forms /\ NoForm # Erased
  /\ BuiltIn \subseteq DOMAIN SeedForm /\ DOMAIN SeedForm \subseteq Rules
  /\ \A r \in DOMAIN SeedForm : SeedForm[r] \in Forms
  /\ Levels \subseteq Int /\ Thresholds \subseteq Int
  /\ IsFiniteSet(Workers)

VARIABLES
  stock, threshold, name,  \* of each product; a name may be another's too
  due,        \* history: the last change of a product's stock published an event,
              \* and a rule that watches it has been in force since
  unpaid,     \* sales that are not paid
  expense,    \* expenses: "absent", "small", "large", or "deleted"
  flagged,    \* expenses that a rule has flagged
  form, enabled,     \* workflow_rules
  edits,      \* bound: edits so far
  subject, event, tries,   \* events: what about, status, retry_count
  at,         \* the event that a worker has read
  plan,       \* the outcome of each rule the worker evaluated
  flags,      \* the expenses it will flag
  overlapped, \* history: pairs of events that two workers held at once
  raised,     \* <<rule, title>> of the alerts it will insert
  executions, \* workflow_executions: the outcome of a rule on an event
  alert,      \* notifications, by rule and event: "none", "unread", "read"
  title,      \* their titles
  named,      \* the alerts whose rule_id is not null
  back,       \* history: alerts that somebody marked unread again
  seen,       \* history: products with an alert that was dealt with, and
  hushed      \* with one that an alert of something else swallowed, since the
              \* last change

docs  == <<unpaid, expense, flagged>>
goods == <<stock, threshold, name, due>>
rules == <<form, enabled, edits>>
queue == <<subject, event, tries>>
work  == <<at, plan, flags, raised, overlapped>>
log   == <<executions, alert, title, named, back, seen, hushed>>
vars  == <<goods, docs, rules, queue, work, log>>

-----------------------------------------------------------------------------
(* Rules.                                                                  *)

EventTypes == {"SALE_CREATED", "STOCK_UPDATED", "EXPENSE_ADDED"}

TypeOf(x) == IF x \in Products THEN "STOCK_UPDATED"
             ELSE IF x \in Sales THEN "SALE_CREATED" ELSE "EXPENSE_ADDED"

\* A value is a pair of a kind and what it is: the text of an integer and that
\* of a float differ ("5", "5.0"), so a kind tells apart what str() does.
Unset == <<"unset">>
IsNumber(v) == v[1] \in {"int", "float"}

\* _build_context(): the fields a condition may name.  The document or product
\* of the event may be gone.
Context(x) ==
  CASE x \in Products -> [f \in {"stock", "threshold"} |->
                            <<"int", IF f = "stock" THEN stock[x] ELSE threshold[x]>>]
    [] x \in Sales    -> [f \in {"paymentStatus"} |->
                            <<"text", IF x \in unpaid THEN "unpaid" ELSE "paid">>]
    [] x \in Expenses /\ expense[x] \in {"small", "large"} ->
                         [f \in {"amount"} |-> <<"float", IF expense[x] = "small" THEN 1 ELSE 2>>]
    [] OTHER          -> [f \in {} |-> Unset]

\* _condition_met(): no condition holds always, a condition on a field that the
\* event does not carry never.  Equality is of texts.
Compared(op, v, w) ==
  CASE op = "gt"  -> IsNumber(v) /\ IsNumber(w) /\ v[2] > w[2]
    [] op = "gte" -> IsNumber(v) /\ IsNumber(w) /\ v[2] >= w[2]
    [] op = "lt"  -> IsNumber(v) /\ IsNumber(w) /\ v[2] < w[2]
    [] op = "lte" -> IsNumber(v) /\ IsNumber(w) /\ v[2] <= w[2]
    [] op = "eq"  -> v = w
    [] op = "neq" -> v # w
    [] OTHER      -> TRUE

Unconditional(f) == f.field = "" \/ f.op = "" \/ f.value = Unset

ConditionMet(f, ctx) ==
  \/ Unconditional(f)
  \/ f.field \in DOMAIN ctx /\ Compared(f.op, ctx[f.field], f.value)

\* The rules that run_workflow_rules() selects for an event about x.
Live(r)   == form[r] \in Forms
InForce(x) == {r \in Rules : Live(r) /\ enabled[r] /\ form[r].event = TypeOf(x)}

\* How the stock of a product reads to restock_alert.
Level(p) == IF stock[p] <= 0 THEN "out"
            ELSE IF stock[p] <= threshold[p] THEN "low" ELSE "fine"

\* _execute_action(): what a rule does about x, given that its condition holds.
Acts(f, x) ==
  CASE f.action = "restock_alert" -> x \in Products /\ Level(x) # "fine"
    [] f.action = "flag_expense"  -> x \in Expenses /\ expense[x] # "deleted"
    [] OTHER                      -> TRUE

Matches(r, x) == ConditionMet(form[r], Context(x)) /\ Acts(form[r], x)
Outcome(r, x) == IF Matches(r, x) THEN "matched" ELSE "skipped"

\* update_inventory only records that it ran; every other action notifies.
Notifies(r, x) == Matches(r, x) /\ form[r].action # "update_inventory"
Flags(r, x)    == Matches(r, x) /\ form[r].action = "flag_expense"

\* A title is a text, nothing else: that of a stock alert has the level and the
\* name of the product, and the title that a user gives a rule may be the same.
Wanted(p)      == <<Level(p), name[p]>>
TitleFor(r, x) == IF form[r].action = "restock_alert" THEN Wanted(x) ELSE form[r].title

\* The stock of every product is watched by a rule in force without condition.
Watching(fs, on) == \E r \in Rules : /\ fs[r] \in Forms /\ on[r]
                                     /\ fs[r].event = "STOCK_UPDATED"
                                     /\ fs[r].action = "restock_alert"
                                     /\ Unconditional(fs[r])

-----------------------------------------------------------------------------

Init ==
  /\ stock \in [Products -> Levels] /\ threshold \in [Products -> Thresholds]
  /\ name \in [Products -> Names]
  /\ due = [p \in Products |-> FALSE]
  /\ unpaid = {} /\ expense = [x \in Expenses |-> "absent"] /\ flagged = {}
  /\ form = [r \in Rules |-> IF r \in DOMAIN SeedForm THEN SeedForm[r] ELSE NoForm]
  /\ enabled = [r \in Rules |-> r \in DOMAIN SeedForm]
  /\ edits = 0
  /\ subject = [e \in Events |-> Idle]
  /\ event = [e \in Events |-> "absent"] /\ tries = [e \in Events |-> 0]
  /\ at = [w \in Workers |-> Idle]
  /\ plan = [w \in Workers |-> [r \in {} |-> "skipped"]]
  /\ flags = [w \in Workers |-> {}] /\ raised = [w \in Workers |-> {}] /\ overlapped = {}
  /\ executions = [e \in Events |-> [r \in {} |-> "skipped"]]
  /\ alert = [k \in Rules \X Events |-> "none"]
  /\ title = [k \in Rules \X Events |-> <<"none">>]
  /\ named = {} /\ back = {} /\ seen = {} /\ hushed = {}

\* publish(): the event of a write, in the transaction of the write.
Publish(x) ==
  \E e \in Events :
    /\ event[e] = "absent"
    /\ \A d \in Events : d < e => event[d] # "absent"
    /\ event'   = [event EXCEPT ![e] = "pending"]
    /\ subject' = [subject EXCEPT ![e] = x]
    /\ UNCHANGED tries

\* adjust_stock(), and the effects of a sale or a purchase: the new stock and
\* STOCK_UPDATED in one commit.
ChangeStock(p, n) ==
  /\ n # stock[p]
  /\ Publish(p)
  /\ stock'  = [stock EXCEPT ![p] = n]
  /\ due'    = [due EXCEPT ![p] = Watching(form, enabled)]
  /\ seen'   = seen \ {p}
  /\ hushed' = hushed \ {p}
  /\ UNCHANGED <<threshold, name, docs, rules, work, executions, alert, title, named, back>>

\* A change that publishes nothing: it shows in the alerts only if an event of
\* the product is still to be evaluated.
Quietly(p) ==
  /\ edits < MaxEdits
  /\ edits' = edits + 1
  /\ due' = [due EXCEPT ![p] = @ /\ \E e \in Events : subject[e] = p /\ event[e] = "pending"]
  /\ seen'   = seen \ {p}
  /\ hushed' = hushed \ {p}
  /\ UNCHANGED <<docs, form, enabled, queue, work, executions, alert, title, named, back>>

\* cancel_sale(), cancel_purchase().
Restore(p, n) ==
  /\ n # stock[p]
  /\ stock' = [stock EXCEPT ![p] = n]
  /\ Quietly(p)
  /\ UNCHANGED <<threshold, name>>

\* update_product().
UpdateProduct(p, t, n) ==
  /\ <<t, n>> # <<threshold[p], name[p]>>
  /\ threshold' = [threshold EXCEPT ![p] = t]
  /\ name'      = [name EXCEPT ![p] = n]
  /\ Quietly(p)
  /\ UNCHANGED stock

RecordSale(s) ==
  /\ s \notin {subject[e] : e \in Events}
  /\ Publish(s)
  /\ unpaid' \in {unpaid, unpaid \cup {s}}
  /\ UNCHANGED <<goods, expense, flagged, rules, work, log>>

PaySale(s) ==
  /\ s \in unpaid
  /\ unpaid' = unpaid \ {s}
  /\ UNCHANGED <<goods, expense, flagged, rules, queue, work, log>>

AddExpense(x, size) ==
  /\ expense[x] = "absent"
  /\ Publish(x)
  /\ expense' = [expense EXCEPT ![x] = size]
  /\ UNCHANGED <<goods, unpaid, flagged, rules, work, log>>

DeleteExpense(x) ==
  /\ expense[x] \in {"small", "large"}
  /\ expense' = [expense EXCEPT ![x] = "deleted"]
  /\ flagged' = flagged \ {x}
  /\ UNCHANGED <<goods, unpaid, rules, queue, work, log>>

-----------------------------------------------------------------------------
(* run_workflow_rules().                                                   *)

\* _notify() with dedupe: an unread alert of the title, as committed.  The
\* session does not flush on its own, so the alerts of its other rules are not
\* seen either.
Unread(t) == \E k \in Rules \X Events : alert[k] = "unread" /\ title[k] = t
Deduped_Any(t) == \E k \in Rules \X Events : alert[k] # "none" /\ title[k] = t
Deduped_Never(t) == FALSE
Deduped(t) == Unread(t)

\* An unread alert of this text that an event about the product wrote.
Told(p, t) == \E k \in Rules \X Events : alert[k] = "unread" /\ title[k] = t /\ subject[k[2]] = p

\* What the rules in force make of an event about x; flag_expense writes to the
\* expense.
Load(w, e) ==
  LET x == subject[e]
      on == InForce(x) IN
  /\ at[w] = Idle
  /\ event[e] = "pending"
  /\ event'  = [event EXCEPT ![e] = "held"]
  /\ at'     = [at EXCEPT ![w] = e]
  /\ plan'   = [plan EXCEPT ![w] = [r \in on |-> Outcome(r, x)]]
  /\ flags'  = [flags EXCEPT ![w] = {y \in Expenses : y = x /\ \E r \in on : Flags(r, y)}]
  /\ raised' = [raised EXCEPT ![w] =
                  {<<r, TitleFor(r, x)>> : r \in {q \in on :
                       Notifies(q, x) /\ ~Deduped(TitleFor(q, x))}}]
  /\ overlapped' = overlapped \cup {{e, at[v]} : v \in {u \in Workers : at[u] # Idle}}
  /\ hushed' = (hushed \ {x}) \cup {p \in Products : /\ p = x /\ Unread(Wanted(p))
                                                     /\ ~Told(p, Wanted(p))}
  /\ UNCHANGED <<goods, docs, rules, subject, tries,
                 executions, alert, title, named, back, seen>>

\* The rows of a rule that was deleted meanwhile violate their foreign key; an
\* expense that was deleted cannot be updated.
Writable_Always(w) == TRUE
Writable(w) == /\ \A r \in DOMAIN plan[w] : Live(r)
               /\ \A x \in flags[w] : expense[x] # "deleted"

Rest(w) ==
  /\ at'     = [at EXCEPT ![w] = Idle]
  /\ plan'   = [plan EXCEPT ![w] = [r \in {} |-> "skipped"]]
  /\ flags'  = [flags EXCEPT ![w] = {}]
  /\ raised' = [raised EXCEPT ![w] = {}]
  /\ UNCHANGED overlapped

Inserted(w) == {k \in Rules \X Events : k[2] = at[w] /\ \E a \in raised[w] : a[1] = k[1]}

Commit(w) ==
  /\ at[w] # Idle
  /\ Writable(w)
  /\ event'      = [event EXCEPT ![at[w]] = "done"]
  /\ executions' = [executions EXCEPT ![at[w]] = plan[w]]
  /\ alert'      = [k \in Rules \X Events |-> IF k \in Inserted(w) THEN "unread" ELSE alert[k]]
  /\ title'      = [k \in Rules \X Events |->
                      IF k \in Inserted(w) THEN (CHOOSE a \in raised[w] : a[1] = k[1])[2]
                                           ELSE title[k]]
  /\ named'      = named \cup Inserted(w)
  /\ flagged'    = flagged \cup flags[w]
  /\ Rest(w)
  /\ UNCHANGED <<goods, unpaid, expense, rules, subject, tries, back, seen, hushed>>

\* The transaction is rolled back; _mark_failed() counts the attempt.
Fail(w) ==
  /\ at[w] # Idle
  /\ ~Writable(w)
  /\ tries' = [tries EXCEPT ![at[w]] = @ + 1]
  /\ event' = [event EXCEPT ![at[w]] = IF tries[at[w]] + 1 >= MaxRetries THEN "dead" ELSE "pending"]
  /\ Rest(w)
  /\ UNCHANGED <<goods, docs, rules, subject, log>>

-----------------------------------------------------------------------------
(* The workflow page.                                                      *)

\* Every edit may leave the products without a rule that watches them.
Rewrite(fs, on) ==
  /\ edits < MaxEdits
  /\ edits'   = edits + 1
  /\ form'    = fs
  /\ enabled' = on
  /\ due'     = [p \in Products |-> due[p] /\ Watching(fs, on)]
  /\ UNCHANGED <<stock, threshold, name, docs, queue, work>>

CreateRule(r, f, on) ==
  /\ form[r] = NoForm
  /\ f.event \in EventTypes
  /\ Rewrite([form EXCEPT ![r] = f], [enabled EXCEPT ![r] = on])
  /\ UNCHANGED log

\* update_rule() takes any event type, and edits seeded rules too.
UpdateRule(r, f, on) ==
  /\ Live(r)
  /\ <<f, on>> # <<form[r], enabled[r]>>
  /\ Rewrite([form EXCEPT ![r] = f], [enabled EXCEPT ![r] = on])
  /\ UNCHANGED log

ToggleRule(r) ==
  /\ Live(r)
  /\ Rewrite(form, [enabled EXCEPT ![r] = ~@])
  /\ UNCHANGED log

\* ON DELETE SET NULL: the rows of a deleted rule lose its id, and stay.
Nulled(r) == {k \in named : k[1] # r}

DeleteRule(r) ==
  /\ Live(r)
  /\ r \notin BuiltIn
  /\ Rewrite([form EXCEPT ![r] = Erased], [enabled EXCEPT ![r] = FALSE])
  /\ named' = Nulled(r)
  /\ UNCHANGED <<executions, alert, title, back, seen, hushed>>

-----------------------------------------------------------------------------
(* The alert log.                                                          *)

\* The products that learn no more from the unread alerts among these.
Handled(K) == seen \cup {p \in Products : \E k \in K : /\ alert[k] = "unread" /\ title[k] = Wanted(p)
                                                       /\ subject[k[2]] = p}

MarkRead(k) ==
  /\ alert[k] = "unread"
  /\ alert' = [alert EXCEPT ![k] = "read"]
  /\ seen'  = Handled({k})
  /\ UNCHANGED <<goods, docs, rules, queue, work, executions, title, named, back, hushed>>

MarkUnread(k) ==
  /\ alert[k] = "read"
  /\ alert' = [alert EXCEPT ![k] = "unread"]
  /\ back'  = back \cup {k}
  /\ UNCHANGED <<goods, docs, rules, queue, work, executions, title, named, seen, hushed>>

Gone(K) == /\ alert' = [k \in Rules \X Events |-> IF k \in K THEN "none" ELSE alert[k]]
           /\ named' = named \ K
           /\ back'  = back \ K

Dismiss(k) ==
  /\ alert[k] # "none"
  /\ Gone({k})
  /\ seen' = Handled({k})
  /\ UNCHANGED <<goods, docs, rules, queue, work, executions, title, hushed>>

\* Everything already dealt with; the outstanding alerts stay.
Clearable == {k \in Rules \X Events : alert[k] = "read"}

ClearRead ==
  /\ Clearable # {}
  /\ Gone(Clearable)
  /\ UNCHANGED <<goods, docs, rules, queue, work, executions, title, seen, hushed>>

MarkAllRead ==
  LET K == {k \in Rules \X Events : alert[k] = "unread"} IN
  /\ K # {}
  /\ alert' = [k \in Rules \X Events |-> IF k \in K THEN "read" ELSE alert[k]]
  /\ seen'  = Handled(K)
  /\ UNCHANGED <<goods, docs, rules, queue, work, executions, title, named, back, hushed>>

-----------------------------------------------------------------------------

Next ==
  \/ \E p \in Products, n \in Levels : ChangeStock(p, n)
  \/ \E p \in Products, n \in Levels : Restore(p, n)
  \/ \E p \in Products, t \in Thresholds, n \in Names : UpdateProduct(p, t, n)
  \/ \E s \in Sales : RecordSale(s)
  \/ \E s \in Sales : PaySale(s)
  \/ \E x \in Expenses, size \in {"small", "large"} : AddExpense(x, size)
  \/ \E x \in Expenses : DeleteExpense(x)
  \/ \E w \in Workers, e \in Events : Load(w, e)
  \/ \E w \in Workers : Commit(w)
  \/ \E w \in Workers : Fail(w)
  \/ \E r \in Rules, f \in Forms, on \in BOOLEAN : CreateRule(r, f, on)
  \/ \E r \in Rules, f \in Forms, on \in BOOLEAN : UpdateRule(r, f, on)
  \/ \E r \in Rules : ToggleRule(r)
  \/ \E r \in Rules : DeleteRule(r)
  \/ \E k \in Rules \X Events : MarkRead(k)
  \/ \E k \in Rules \X Events : MarkUnread(k)
  \/ \E k \in Rules \X Events : Dismiss(k)
  \/ ClearRead
  \/ MarkAllRead

Spec == Init /\ [][Next]_vars

-----------------------------------------------------------------------------
(* Properties.                                                             *)

Titles == ({"low", "out", "fine"} \X Names) \cup {f.title : f \in Forms}

TypeOK ==
  /\ stock \in [Products -> Int] /\ threshold \in [Products -> Int]
  /\ name \in [Products -> Names] /\ due \in [Products -> BOOLEAN]
  /\ unpaid \subseteq Sales /\ flagged \subseteq Expenses
  /\ expense \in [Expenses -> {"absent", "small", "large", "deleted"}]
  /\ form \in [Rules -> Forms \cup {NoForm, Erased}] /\ enabled \in [Rules -> BOOLEAN]
  /\ edits \in 0..MaxEdits
  /\ subject \in [Events -> Subjects \cup {Idle}]
  /\ event \in [Events -> {"absent", "pending", "held", "done", "dead"}]
  /\ tries \in [Events -> 0..MaxRetries]
  /\ at \in [Workers -> Events \cup {Idle}]
  /\ \A w \in Workers : DOMAIN plan[w] \subseteq Rules /\ raised[w] \subseteq Rules \X Titles
  /\ flags \in [Workers -> SUBSET Expenses]
  /\ \A e \in Events : DOMAIN executions[e] \subseteq Rules
  /\ alert \in [Rules \X Events -> {"none", "unread", "read"}]
  /\ \A k \in Rules \X Events : alert[k] # "none" => title[k] \in Titles
  /\ named \subseteq Rules \X Events /\ back \subseteq Rules \X Events
  /\ seen \subseteq Products /\ hushed \subseteq Products /\ overlapped \subseteq SUBSET Events

\* An event about x that is not through, or given up.
Open(x) == \E e \in Events : subject[e] = x /\ event[e] \in {"pending", "held", "dead"}

\* A product that is low or out, by a change that published an event under a
\* rule that stayed in force, has an unread alert of its own that says so, or one
\* that somebody dealt with since the change: neither stale reads of overlapping
\* workers, edits of rules, renamings nor retries swallow the alert.  Only one
\* thing does: an alert of the same text that was unread when the event was
\* evaluated and came from elsewhere, a product of the same name or a rule with
\* such a title, for _notify() compares texts within the business.
AlertedLow ==
  \A p \in Products :
    due[p] /\ ~Open(p) /\ Level(p) # "fine" =>
      Told(p, Wanted(p)) \/ p \in seen \/ p \in hushed

\* A noisy rule cannot bury the log: of one rule and title there is one unread
\* alert, counting those nobody marked unread again, unless two workers looked
\* before either wrote.
TwinsOverlapped ==
  \A r \in Rules, e, f \in Events :
    /\ e # f
    /\ \A k \in {<<r, e>>, <<r, f>>} : alert[k] = "unread" /\ k \notin back
    /\ title[<<r, e>>] = title[<<r, f>>]
    => {e, f} \in overlapped

\* Where an alert came from can be shown: its event is done and was recorded as
\* matched by its rule, and a rule it still names still exists, although rules
\* are deleted while workers evaluate them.
AlertExplained ==
  \A k \in Rules \X Events : alert[k] # "none" =>
    /\ event[k[2]] = "done"
    /\ k[1] \in DOMAIN executions[k[2]] /\ executions[k[2]][k[1]] = "matched"
    /\ k \in named <=> Live(k[1])

=============================================================================
