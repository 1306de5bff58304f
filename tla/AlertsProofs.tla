------------------------------ MODULE AlertsProofs ------------------------------
(***************************************************************************)
(* Theorems about Alerts, for every catalogue, every set of rules and every*)
(* number of workers, events and edits.                                    *)
(***************************************************************************)
EXTENDS Alerts, TLAPS

Keys == Rules \X Events

\* What the types leave open of the functions that steps update.
Shaped == /\ TypeOK
          /\ plan = [w \in Workers |-> plan[w]] /\ raised = [w \in Workers |-> raised[w]]
          /\ executions = [e \in Events |-> executions[e]]
          /\ title = [k \in Keys |-> title[k]]

\* An event that is not given up has an attempt left.
Counted == \A e \in Events : event[e] \in {"absent", "pending", "held"} => tries[e] < MaxRetries

\* Each worker has an event of its own.
Held == \A w \in Workers : at[w] # Idle =>
          event[at[w]] = "held" /\ \A v \in Workers : at[v] = at[w] => v = w

\* What a worker will insert comes from rules that it found to match.
Planned == \A w \in Workers :
             /\ at[w] = Idle => raised[w] = {}
             /\ \A a \in raised[w] : a[1] \in DOMAIN plan[w] /\ plan[w][a[1]] = "matched"

\* A rule id that is not used yet occurs nowhere.
Unused == \A r \in Rules : form[r] = NoForm =>
            /\ \A e \in Events : alert[<<r, e>>] = "none"
            /\ \A w \in Workers : r \notin DOMAIN plan[w]

Origin == Shaped /\ Held /\ Planned /\ Unused /\ AlertExplained

\* Workers that are at it at once have been noted, and so has everything that a
\* worker has not seen of what it is going to repeat.
Noted ==
  /\ \A v, w \in Workers : v # w /\ at[v] # Idle /\ at[w] # Idle => {at[v], at[w]} \in overlapped
  /\ \A w \in Workers, k \in Keys :
       at[w] # Idle /\ alert[k] = "unread" /\ k \notin back /\ <<k[1], title[k]>> \in raised[w]
         => {k[2], at[w]} \in overlapped

-----------------------------------------------------------------------------
(* Types.                                                                  *)

LEMMA Titled ==
  ASSUME TypeOK, NEW r \in Rules, NEW x, Live(r), Notifies(r, x)
  PROVE  TitleFor(r, x) \in Titles
<1>1. form[r] \in Forms  BY DEF Live
<1>2. CASE form[r].action = "restock_alert"
  <2>1. x \in Products  BY <1>2 DEF Notifies, Matches, Acts
  <2>2. Level(x) \in {"low", "out", "fine"}  BY DEF Level
  <2> QED  BY <1>2, <2>1, <2>2 DEF TitleFor, Wanted, Titles, TypeOK
<1>3. CASE form[r].action # "restock_alert"  BY <1>1, <1>3 DEF TitleFor, Titles
<1> QED  BY <1>2, <1>3

LEMMA StartShaped ==
  ASSUME Init
  PROVE  Shaped
<1>1. plan = [w \in Workers |-> plan[w]] /\ raised = [w \in Workers |-> raised[w]]
      /\ executions = [e \in Events |-> executions[e]] /\ title = [k \in Keys |-> title[k]]
  BY DEF Init, Keys
<1>2. form \in [Rules -> Forms \cup {NoForm, Erased}]  BY AlertsAssumption DEF Init
<1>3. edits \in 0..MaxEdits /\ tries \in [Events -> 0..MaxRetries]  BY AlertsAssumption DEF Init
<1>4. stock \in [Products -> Int] /\ threshold \in [Products -> Int]
  <2>1. stock \in [Products -> Levels] /\ threshold \in [Products -> Thresholds]  BY DEF Init
  <2>2. Levels \subseteq Int /\ Thresholds \subseteq Int  BY AlertsAssumption
  <2> QED  BY <2>1, <2>2
<1>5. flags \in [Workers -> SUBSET Expenses]
  <2>1. {} \in SUBSET Expenses  OBVIOUS
  <2> QED  BY <2>1 DEF Init
<1>6. /\ \A w \in Workers : DOMAIN plan[w] \subseteq Rules /\ raised[w] \subseteq Rules \X Titles
      /\ \A e \in Events : DOMAIN executions[e] \subseteq Rules
  BY DEF Init
<1>7. /\ name \in [Products -> Names] /\ due \in [Products -> BOOLEAN]
      /\ unpaid \subseteq Sales /\ flagged \subseteq Expenses
      /\ expense \in [Expenses -> {"absent", "small", "large", "deleted"}]
      /\ enabled \in [Rules -> BOOLEAN]
      /\ subject \in [Events -> Subjects \cup {Idle}]
      /\ event \in [Events -> {"absent", "pending", "held", "done", "dead"}]
      /\ at \in [Workers -> Events \cup {Idle}]
      /\ alert \in [Keys -> {"none", "unread", "read"}]
      /\ \A k \in Keys : alert[k] # "none" => title[k] \in Titles
      /\ named = {} /\ back = {} /\ seen = {} /\ hushed = {} /\ overlapped = {}
  BY DEF Init, Keys
<1>8. TypeOK  BY <1>2, <1>3, <1>4, <1>5, <1>6, <1>7 DEF TypeOK, Keys
<1> QED  BY <1>1, <1>8 DEF Shaped

LEMMA LoadShaped ==
  ASSUME Shaped, NEW w \in Workers, NEW e \in Events, Load(w, e)
  PROVE  Shaped'
<1> DEFINE x == subject[e]
<1>1. \A r \in InForce(x) : r \in Rules /\ Live(r)  BY DEF InForce
<1>2. raised'[w] \subseteq Rules \X Titles
  <2>1. \A r \in InForce(x) : Notifies(r, x) => TitleFor(r, x) \in Titles
    BY <1>1, Titled DEF Shaped
  <2>2. raised'[w] = {<<r, TitleFor(r, x)>> : r \in {q \in InForce(x) :
                       Notifies(q, x) /\ ~Deduped(TitleFor(q, x))}}
    BY DEF Load, Shaped
  <2> QED  BY <1>1, <2>1, <2>2
<1>3. /\ \A v \in Workers : v # w => raised'[v] = raised[v] /\ plan'[v] = plan[v]
      /\ plan'[w] = [r \in InForce(x) |-> Outcome(r, x)]
      /\ plan' = [v \in Workers |-> plan'[v]] /\ raised' = [v \in Workers |-> raised'[v]]
  BY DEF Load, Shaped
<1>4. \A v \in Workers : DOMAIN plan'[v] \subseteq Rules /\ raised'[v] \subseteq Rules \X Titles
  <2>1. DOMAIN plan'[w] \subseteq Rules  BY <1>1, <1>3
  <2>2. \A v \in Workers : v # w => DOMAIN plan'[v] \subseteq Rules /\ raised'[v] \subseteq Rules \X Titles
    BY <1>3 DEF Shaped, TypeOK
  <2> QED  BY <1>2, <2>1, <2>2
<1>5. at' \in [Workers -> Events \cup {Idle}]
      /\ event' \in [Events -> {"absent", "pending", "held", "done", "dead"}]
  BY DEF Load, Shaped, TypeOK
<1>6. overlapped' \subseteq SUBSET Events
  BY DEF Load, Shaped, TypeOK
<1>7. UNCHANGED <<goods, docs, rules, subject, tries, executions, alert, title, named, back, seen>>
  BY DEF Load
<1>8. flags' \in [Workers -> SUBSET Expenses] /\ hushed' \subseteq Products
  <2>1. hushed' \subseteq Products  BY DEF Load, Shaped, TypeOK
  <2>2. \E F \in SUBSET Expenses : flags' = [flags EXCEPT ![w] = F]
    <3> WITNESS {y \in Expenses : y = x /\ \E r \in InForce(x) : Flags(r, y)} \in SUBSET Expenses
    <3> QED  BY DEF Load
  <2> QED  BY <2>1, <2>2 DEF Shaped, TypeOK
<1> QED  BY <1>3, <1>4, <1>5, <1>6, <1>7, <1>8 DEF Shaped, TypeOK, goods, docs, rules, Keys

LEMMA CommitShaped ==
  ASSUME Shaped, NEW w \in Workers, Commit(w)
  PROVE  Shaped'
<1>1. at[w] \in Events  BY DEF Commit, Shaped, TypeOK
<1>2. Inserted(w) \subseteq Keys  BY DEF Inserted, Keys
<1>3. \A k \in Inserted(w) : title'[k] \in Titles
  <2> SUFFICES ASSUME NEW k \in Inserted(w)  PROVE title'[k] \in Titles
    OBVIOUS
  <2> DEFINE a == CHOOSE a \in raised[w] : a[1] = k[1]
  <2>1. a \in raised[w]  BY DEF Inserted
  <2>2. a \in Rules \X Titles  BY <2>1 DEF Shaped, TypeOK
  <2>3. title'[k] = a[2]  BY <1>2 DEF Commit, Keys
  <2> QED  BY <2>2, <2>3
<1>4. \A k \in Keys : k \notin Inserted(w) => title'[k] = title[k] /\ alert'[k] = alert[k]
  BY DEF Commit, Keys
<1>5. /\ alert' \in [Keys -> {"none", "unread", "read"}]
      /\ \A k \in Keys : alert'[k] # "none" => title'[k] \in Titles
      /\ named' \subseteq Keys
  BY <1>2, <1>3, <1>4 DEF Commit, Shaped, TypeOK, Keys
<1>6. /\ event' \in [Events -> {"absent", "pending", "held", "done", "dead"}]
      /\ title' = [k \in Keys |-> title'[k]]
      /\ flagged' \subseteq Expenses
  <2>1. flagged' \subseteq Expenses
    <3>1. flagged \subseteq Expenses /\ flags[w] \subseteq Expenses  BY DEF Shaped, TypeOK
    <3> QED  BY <3>1 DEF Commit
  <2>2. title' = [k \in Keys |-> title'[k]]  BY DEF Commit, Keys
  <2>3. event' \in [Events -> {"absent", "pending", "held", "done", "dead"}]
    BY <1>1 DEF Commit, Shaped, TypeOK
  <2> QED  BY <2>1, <2>2, <2>3
<1>9. /\ executions' = [e \in Events |-> executions'[e]]
      /\ \A e \in Events : DOMAIN executions'[e] \subseteq Rules
  BY <1>1 DEF Commit, Shaped, TypeOK
<1>7. /\ at' \in [Workers -> Events \cup {Idle}]
      /\ plan' = [v \in Workers |-> plan'[v]] /\ raised' = [v \in Workers |-> raised'[v]]
      /\ \A v \in Workers : DOMAIN plan'[v] \subseteq Rules /\ raised'[v] \subseteq Rules \X Titles
      /\ overlapped' = overlapped /\ flags' \in [Workers -> SUBSET Expenses]
  BY DEF Commit, Rest, Shaped, TypeOK
<1>8. UNCHANGED <<goods, unpaid, expense, rules, subject, tries, back, seen, hushed>>  BY DEF Commit
<1> QED  BY <1>5, <1>6, <1>7, <1>8, <1>9 DEF Shaped, TypeOK, goods, rules, Keys

LEMMA FailShaped ==
  ASSUME Shaped, Counted, Held, NEW w \in Workers, Fail(w)
  PROVE  Shaped'
<1>1. at[w] \in Events /\ event[at[w]] = "held"  BY DEF Fail, Shaped, TypeOK, Held
<1>2. tries[at[w]] \in 0..MaxRetries /\ tries[at[w]] < MaxRetries  BY <1>1 DEF Counted, Shaped, TypeOK
<1>3. tries' \in [Events -> 0..MaxRetries]
  BY <1>1, <1>2, AlertsAssumption DEF Fail, Shaped, TypeOK
<1>4. event' \in [Events -> {"absent", "pending", "held", "done", "dead"}]
  BY DEF Fail, Shaped, TypeOK
<1>5. /\ at' \in [Workers -> Events \cup {Idle}]
      /\ plan' = [v \in Workers |-> plan'[v]] /\ raised' = [v \in Workers |-> raised'[v]]
      /\ \A v \in Workers : DOMAIN plan'[v] \subseteq Rules /\ raised'[v] \subseteq Rules \X Titles
      /\ overlapped' = overlapped /\ flags' \in [Workers -> SUBSET Expenses]
  BY DEF Fail, Rest, Shaped, TypeOK
<1>6. UNCHANGED <<goods, docs, rules, subject, log>>  BY DEF Fail
<1> QED  BY <1>3, <1>4, <1>5, <1>6 DEF Shaped, TypeOK, goods, docs, rules, log, Keys

LEMMA RewriteShaped ==
  ASSUME Shaped, NEW fs \in [Rules -> Forms \cup {NoForm, Erased}], NEW on \in [Rules -> BOOLEAN],
         Rewrite(fs, on), UNCHANGED <<executions, alert, title, back, seen, hushed>>, named' \subseteq named
  PROVE  Shaped'
<1>1. edits' \in 0..MaxEdits  BY AlertsAssumption DEF Rewrite, Shaped, TypeOK
<1>2. form' = fs /\ enabled' = on /\ due' \in [Products -> BOOLEAN]
  BY DEF Rewrite, Shaped, TypeOK, Watching
<1>3. UNCHANGED <<stock, threshold, name, docs, queue, work>>  BY DEF Rewrite
<1> QED  BY <1>1, <1>2, <1>3 DEF Shaped, TypeOK, docs, queue, work, Keys

\* What the alert log and the books do is plain.
LEMMA TypeStep ==
  ASSUME Shaped, Counted, Held, [Next]_vars
  PROVE  Shaped'
<1> USE DEF Shaped, TypeOK, goods, docs, rules, queue, work, log
<1>1. ASSUME NEW p \in Products, NEW n \in Levels, ChangeStock(p, n)  PROVE Shaped'
  <2>1. n \in Int /\ p \in Subjects  BY AlertsAssumption DEF Subjects
  <2>2. subject' \in [Events -> Subjects \cup {Idle}]
        /\ event' \in [Events -> {"absent", "pending", "held", "done", "dead"}] /\ UNCHANGED tries
    BY <1>1, <2>1 DEF ChangeStock, Publish
  <2>3. /\ stock' \in [Products -> Int] /\ due' \in [Products -> BOOLEAN]
        /\ seen' \subseteq Products /\ hushed' \subseteq Products
    BY <1>1, <2>1 DEF ChangeStock, Watching
  <2> QED  BY <1>1, <2>2, <2>3 DEF ChangeStock
<1>2. ASSUME NEW p \in Products, Quietly(p), stock' \in [Products -> Int],
             threshold' \in [Products -> Int], name' \in [Products -> Names]
      PROVE  Shaped'
  <2>1. /\ due' \in [Products -> BOOLEAN] /\ seen' \subseteq Products /\ hushed' \subseteq Products
        /\ edits' \in 0..MaxEdits
    BY <1>2, AlertsAssumption DEF Quietly
  <2> QED  BY <1>2, <2>1 DEF Quietly
<1>15. ASSUME NEW p \in Products, NEW n \in Levels, Restore(p, n)  PROVE Shaped'
  <2>1. n \in Int  BY AlertsAssumption
  <2> QED  BY <1>2, <1>15, <2>1 DEF Restore
<1>16. ASSUME NEW p \in Products, NEW t \in Thresholds, NEW n \in Names, UpdateProduct(p, t, n)
       PROVE  Shaped'
  <2>1. t \in Int  BY AlertsAssumption
  <2> QED  BY <1>2, <1>16, <2>1 DEF UpdateProduct
<1>3. ASSUME NEW s \in Sales, RecordSale(s)  PROVE Shaped'
  <2>1. s \in Subjects  BY DEF Subjects
  <2>2. subject' \in [Events -> Subjects \cup {Idle}]
        /\ event' \in [Events -> {"absent", "pending", "held", "done", "dead"}] /\ UNCHANGED tries
    BY <1>3, <2>1 DEF RecordSale, Publish
  <2> QED  BY <1>3, <2>2 DEF RecordSale
<1>4. ASSUME NEW s \in Sales, PaySale(s)  PROVE Shaped'
  BY <1>4 DEF PaySale
<1>5. ASSUME NEW x \in Expenses, NEW size \in {"small", "large"}, AddExpense(x, size)  PROVE Shaped'
  <2>1. x \in Subjects  BY DEF Subjects
  <2>2. subject' \in [Events -> Subjects \cup {Idle}]
        /\ event' \in [Events -> {"absent", "pending", "held", "done", "dead"}] /\ UNCHANGED tries
    BY <1>5, <2>1 DEF AddExpense, Publish
  <2> QED  BY <1>5, <2>2 DEF AddExpense
<1>6. ASSUME NEW x \in Expenses, DeleteExpense(x)  PROVE Shaped'
  BY <1>6 DEF DeleteExpense
<1>7. ASSUME NEW r \in Rules, NEW f \in Forms, NEW on \in BOOLEAN,
             CreateRule(r, f, on) \/ UpdateRule(r, f, on)
      PROVE  Shaped'
  <2>1. [form EXCEPT ![r] = f] \in [Rules -> Forms \cup {NoForm, Erased}]
        /\ [enabled EXCEPT ![r] = on] \in [Rules -> BOOLEAN]
    OBVIOUS
  <2> QED  BY <1>7, <2>1, RewriteShaped DEF CreateRule, UpdateRule
<1>8. ASSUME NEW r \in Rules, ToggleRule(r)  PROVE Shaped'
  <2>1. [enabled EXCEPT ![r] = ~@] \in [Rules -> BOOLEAN]  OBVIOUS
  <2> QED  BY <1>8, <2>1, RewriteShaped DEF ToggleRule
<1>9. ASSUME NEW r \in Rules, DeleteRule(r)  PROVE Shaped'
  <2>1. [form EXCEPT ![r] = Erased] \in [Rules -> Forms \cup {NoForm, Erased}]
        /\ [enabled EXCEPT ![r] = FALSE] \in [Rules -> BOOLEAN]
    OBVIOUS
  <2> QED  BY <1>9, <2>1, RewriteShaped DEF DeleteRule, Nulled
<1>10. ASSUME NEW k \in Keys, MarkRead(k) \/ MarkUnread(k)  PROVE Shaped'
  <2>1. alert' \in [Keys -> {"none", "unread", "read"}]
        /\ \A j \in Keys : alert'[j] # "none" => alert[j] # "none"
    <3>1. alert[k] # "none" /\ \E s \in {"unread", "read"} : alert' = [alert EXCEPT ![k] = s]
      BY <1>10 DEF MarkRead, MarkUnread
    <3>2. alert \in [Keys -> {"none", "unread", "read"}]  BY DEF Keys
    <3> HIDE DEF TypeOK, Shaped
    <3> QED  BY <3>1, <3>2
  <2>2. seen' \subseteq Products /\ back' \subseteq Keys  BY <1>10 DEF MarkRead, MarkUnread, Handled, Keys
  <2>3. UNCHANGED <<goods, docs, rules, queue, work, executions, title, named, hushed>>
    BY <1>10 DEF MarkRead, MarkUnread
  <2> QED  BY <2>1, <2>2, <2>3 DEF Keys
<1>11. ASSUME NEW k \in Keys, Dismiss(k)  PROVE Shaped'
  BY <1>11 DEF Dismiss, Gone, Handled, Keys
<1>12. ASSUME ClearRead  PROVE Shaped'
  BY <1>12 DEF ClearRead, Gone, Keys
<1>13. ASSUME MarkAllRead  PROVE Shaped'
  BY <1>13 DEF MarkAllRead, Handled, Keys
<1>14. CASE UNCHANGED vars  BY <1>14 DEF vars
<1> HIDE DEF Shaped, TypeOK, goods, docs, rules, queue, work, log
<1> QED
  BY <1>1, <1>15, <1>16, <1>3, <1>4, <1>5, <1>6, <1>7, <1>8, <1>9, <1>10, <1>11, <1>12, <1>13, <1>14,
     LoadShaped, CommitShaped, FailShaped DEF Next, Keys

-----------------------------------------------------------------------------
(* Attempts, and workers with their events.                                *)

\* Everything but evaluation leaves the workers alone, and events that are not
\* absent.
LEMMA Elsewhere ==
  ASSUME Shaped, [Next]_vars
  PROVE  \/ \E w \in Workers, e \in Events : Load(w, e)
         \/ \E w \in Workers : Commit(w) \/ Fail(w)
         \/ /\ UNCHANGED <<work, tries>>
            /\ \A e \in Events : event'[e] = event[e] \/ (event[e] = "absent" /\ event'[e] = "pending")
<1> USE DEF queue
<1>1. ASSUME NEW x, Publish(x), UNCHANGED work
      PROVE  /\ UNCHANGED <<work, tries>>
             /\ \A e \in Events : event'[e] = event[e] \/ (event[e] = "absent" /\ event'[e] = "pending")
  BY <1>1 DEF Publish, Shaped, TypeOK
<1>2. ASSUME NEW p \in Products, NEW n \in Levels, ChangeStock(p, n)
      PROVE  Publish(p) /\ UNCHANGED work
  BY <1>2 DEF ChangeStock
<1>3. ASSUME NEW s \in Sales, RecordSale(s)  PROVE Publish(s) /\ UNCHANGED work
  BY <1>3 DEF RecordSale
<1>4. ASSUME NEW x \in Expenses, NEW size \in {"small", "large"}, AddExpense(x, size)
      PROVE  Publish(x) /\ UNCHANGED work
  BY <1>4 DEF AddExpense
<1>5. ASSUME \/ \E p \in Products, n \in Levels : Restore(p, n)
             \/ \E p \in Products, t \in Thresholds, n \in Names : UpdateProduct(p, t, n)
             \/ \E s \in Sales : PaySale(s)
             \/ \E x \in Expenses : DeleteExpense(x)
             \/ \E r \in Rules, f \in Forms, on \in BOOLEAN : CreateRule(r, f, on)
             \/ \E r \in Rules, f \in Forms, on \in BOOLEAN : UpdateRule(r, f, on)
             \/ \E r \in Rules : ToggleRule(r)
             \/ \E r \in Rules : DeleteRule(r)
             \/ \E k \in Rules \X Events : MarkRead(k)
             \/ \E k \in Rules \X Events : MarkUnread(k)
             \/ \E k \in Rules \X Events : Dismiss(k)
             \/ ClearRead
             \/ MarkAllRead
             \/ UNCHANGED vars
      PROVE  UNCHANGED <<work, queue>>
  BY <1>5 DEF Restore, UpdateProduct, Quietly, PaySale, DeleteExpense, CreateRule, UpdateRule, ToggleRule, DeleteRule, Rewrite,
              MarkRead, MarkUnread, Dismiss, ClearRead, MarkAllRead, vars
<1> QED  BY <1>1, <1>2, <1>3, <1>4, <1>5 DEF Next

LEMMA CountedStep ==
  ASSUME Shaped, Counted, Held, [Next]_vars
  PROVE  Counted'
<1>1. ASSUME NEW w \in Workers, NEW e \in Events, Load(w, e)  PROVE Counted'
  BY <1>1 DEF Load, Counted, Shaped, TypeOK
<1>2. ASSUME NEW w \in Workers, Commit(w)  PROVE Counted'
  BY <1>2 DEF Commit, Counted, Shaped, TypeOK
<1>3. ASSUME NEW w \in Workers, Fail(w)  PROVE Counted'
  <2>1. at[w] \in Events /\ tries[at[w]] \in 0..MaxRetries  BY <1>3 DEF Fail, Shaped, TypeOK
  <2>2. /\ tries' = [tries EXCEPT ![at[w]] = @ + 1]
        /\ event' = [event EXCEPT ![at[w]] = IF tries[at[w]] + 1 >= MaxRetries THEN "dead" ELSE "pending"]
    BY <1>3 DEF Fail
  <2> QED  BY <2>1, <2>2, AlertsAssumption DEF Counted, Shaped, TypeOK
<1> QED  BY <1>1, <1>2, <1>3, Elsewhere DEF Counted

LEMMA HeldStep ==
  ASSUME Shaped, Held, [Next]_vars
  PROVE  Held'
<1>1. ASSUME NEW w \in Workers, NEW e \in Events, Load(w, e)  PROVE Held'
  <2>1. e # Idle /\ \A v \in Workers : at[v] # e  BY <1>1, AlertsAssumption DEF Load, Held
  <2>2. event' = [event EXCEPT ![e] = "held"] /\ at' = [at EXCEPT ![w] = e]  BY <1>1 DEF Load
  <2> QED  BY <2>1, <2>2 DEF Held, Shaped, TypeOK
<1>2. ASSUME NEW w \in Workers, Commit(w) \/ Fail(w)  PROVE Held'
  <2>1. at[w] \in Events /\ at' = [at EXCEPT ![w] = Idle]
    BY <1>2 DEF Commit, Fail, Rest, Shaped, TypeOK
  <2>2. \A e \in Events : e # at[w] => event'[e] = event[e]
    BY <1>2 DEF Commit, Fail, Shaped, TypeOK
  <2> QED  BY <2>1, <2>2, AlertsAssumption DEF Held, Shaped, TypeOK
<1> QED
  BY <1>1, <1>2, Elsewhere DEF Held, work, Shaped, TypeOK

LEMMA PlannedStep ==
  ASSUME Shaped, Planned, [Next]_vars
  PROVE  Planned'
<1>1. ASSUME NEW w \in Workers, NEW e \in Events, Load(w, e)  PROVE Planned'
  <2> DEFINE x == subject[e]
  <2>1. /\ plan' = [plan EXCEPT ![w] = [r \in InForce(x) |-> Outcome(r, x)]]
        /\ raised' = [raised EXCEPT ![w] =
                  {<<r, TitleFor(r, x)>> : r \in {q \in InForce(x) :
                       Notifies(q, x) /\ ~Deduped(TitleFor(q, x))}}]
        /\ at' = [at EXCEPT ![w] = e] /\ e # Idle
    BY <1>1, AlertsAssumption DEF Load
  <2>2. \A r \in InForce(x) : Notifies(r, x) => Outcome(r, x) = "matched"
    BY DEF Notifies, Outcome
  <2>3. \A a \in raised'[w] : a[1] \in DOMAIN plan'[w] /\ plan'[w][a[1]] = "matched"
    BY <2>1, <2>2 DEF Shaped
  <2>4. \A v \in Workers : v # w => raised'[v] = raised[v] /\ plan'[v] = plan[v] /\ at'[v] = at[v]
    BY <2>1 DEF Shaped, TypeOK
  <2>5. at'[w] # Idle  BY <2>1 DEF Shaped, TypeOK
  <2> QED  BY <2>3, <2>4, <2>5 DEF Planned
<1>2. ASSUME NEW w \in Workers, Commit(w) \/ Fail(w)  PROVE Planned'
  <2>1. Rest(w)  BY <1>2 DEF Commit, Fail
  <2> QED  BY <2>1 DEF Rest, Planned, Shaped, TypeOK
<1> QED  BY <1>1, <1>2, Elsewhere DEF Planned, work

-----------------------------------------------------------------------------
(* Where an alert came from.                                               *)

\* A pair is its two parts.
LEMMA Pairs ==
  ASSUME NEW A, NEW B, NEW a \in A \X B
  PROVE  a = <<a[1], a[2]>>
OBVIOUS

\* What a commit inserts, and that it leaves the rest.
LEMMA Inserts ==
  ASSUME Shaped, Held, NEW w \in Workers, Commit(w)
  PROVE  /\ at[w] \in Events /\ event[at[w]] = "held"
         /\ \A k \in Inserted(w) : /\ k \in Keys /\ k[2] = at[w]
                                   /\ alert'[k] = "unread" /\ <<k[1], title'[k]>> \in raised[w]
         /\ \A k \in Keys : k \notin Inserted(w) => alert'[k] = alert[k] /\ title'[k] = title[k]
<1>1. at[w] \in Events /\ event[at[w]] = "held"  BY DEF Commit, Held, Shaped, TypeOK
<1>2. ASSUME NEW k \in Inserted(w)
      PROVE  /\ k \in Keys /\ k[2] = at[w]
             /\ alert'[k] = "unread" /\ <<k[1], title'[k]>> \in raised[w]
  <2> DEFINE a == CHOOSE a \in raised[w] : a[1] = k[1]
  <2>1. k \in Keys /\ k[2] = at[w] /\ a \in raised[w] /\ a[1] = k[1]  BY DEF Inserted, Keys
  <2>2. alert'[k] = "unread" /\ title'[k] = a[2]  BY <2>1 DEF Commit, Keys
  <2>3. a \in Rules \X Titles  BY <2>1 DEF Shaped, TypeOK
  <2>4. a = <<k[1], title'[k]>>
    <3>1. a = <<a[1], a[2]>>  BY <2>3, Pairs
    <3> HIDE DEF a
    <3> QED  BY <2>1, <2>2, <3>1
  <2> QED  BY <2>1, <2>2, <2>4
<1>3. \A k \in Keys : k \notin Inserted(w) => alert'[k] = alert[k] /\ title'[k] = title[k]
  BY DEF Commit, Keys
<1> QED  BY <1>1, <1>2, <1>3

\* It was found to match, by rules that are still there.
LEMMA InsertedMatches ==
  ASSUME Origin, NEW w \in Workers, Commit(w), NEW k \in Inserted(w)
  PROVE  /\ k[2] = at[w] /\ k[1] \in Rules
         /\ k[1] \in DOMAIN plan[w] /\ plan[w][k[1]] = "matched"
         /\ Live(k[1]) /\ form[k[1]] # NoForm
<1>1. Shaped /\ Held /\ Planned  BY DEF Origin
<1>2. k[2] = at[w] /\ k[1] \in DOMAIN plan[w] /\ plan[w][k[1]] = "matched" /\ Live(k[1])
  <2>1. PICK a \in raised[w] : a[1] = k[1]  BY DEF Inserted
  <2>2. k[1] \in DOMAIN plan[w] /\ plan[w][k[1]] = "matched"  BY <1>1, <2>1 DEF Planned
  <2>3. Live(k[1])  BY <2>2 DEF Commit, Writable
  <2> QED  BY <2>2, <2>3 DEF Inserted
<1>3. k[1] \in Rules  BY DEF Inserted
<1> QED  BY <1>2, <1>3, AlertsAssumption DEF Live

\* What the workflow page does to a rule.
LEMMA Rewritten ==
  ASSUME Shaped, NEW r \in Rules,
         \/ \E f \in Forms, on \in BOOLEAN : CreateRule(r, f, on) \/ UpdateRule(r, f, on)
         \/ ToggleRule(r) \/ DeleteRule(r)
  PROVE  /\ UNCHANGED <<work, queue, alert, title, executions, back>>
         /\ \A q \in Rules : q # r => form'[q] = form[q]
         /\ \/ (form[r] = NoForm \/ Live(r)) /\ Live(r)' /\ named' = named
            \/ Live(r) /\ form'[r] = Erased /\ named' = {k \in named : k[1] # r}
<1> USE DEF Rewrite, Live, log
<1>1. ASSUME NEW f \in Forms, NEW on \in BOOLEAN, CreateRule(r, f, on) \/ UpdateRule(r, f, on)
      PROVE  /\ UNCHANGED <<work, queue, log>> /\ form' = [form EXCEPT ![r] = f]
             /\ form[r] = NoForm \/ Live(r)
  BY <1>1 DEF CreateRule, UpdateRule
<1>2. ASSUME ToggleRule(r)
      PROVE  UNCHANGED <<work, queue, log, form>> /\ Live(r)
  BY <1>2 DEF ToggleRule
<1>3. ASSUME DeleteRule(r)
      PROVE  /\ UNCHANGED <<work, queue, executions, alert, title, back>>
             /\ form' = [form EXCEPT ![r] = Erased] /\ Live(r)
             /\ named' = {k \in named : k[1] # r}
  BY <1>3 DEF DeleteRule, Nulled
<1> QED  BY <1>1, <1>2, <1>3 DEF Shaped, TypeOK

\* The steps of the alert log, by what they do to its rows.
Reviewed ==
  /\ UNCHANGED <<work, queue, rules, executions, title>>
  /\ \/ /\ UNCHANGED named /\ back \subseteq back'
        /\ \A k \in Keys : \/ alert'[k] = alert[k]
                           \/ alert[k] # "none" /\ alert'[k] = "read"
                           \/ alert[k] # "none" /\ alert'[k] = "unread" /\ k \in back'
     \/ \E K \in SUBSET Keys : Gone(K)

LEMMA Reviews ==
  ASSUME Shaped,
         \/ \E k \in Keys : MarkRead(k) \/ MarkUnread(k) \/ Dismiss(k)
         \/ ClearRead \/ MarkAllRead
  PROVE  Reviewed
<1>1. ASSUME NEW k \in Keys, MarkRead(k)  PROVE Reviewed
  BY <1>1 DEF MarkRead, Reviewed, Shaped, TypeOK, Keys
<1>2. ASSUME NEW k \in Keys, MarkUnread(k)  PROVE Reviewed
  BY <1>2 DEF MarkUnread, Reviewed, Shaped, TypeOK, Keys
<1>3. ASSUME NEW k \in Keys, Dismiss(k)  PROVE Reviewed
  <2>1. {k} \in SUBSET Keys  OBVIOUS
  <2> QED  BY <1>3, <2>1 DEF Dismiss, Reviewed
<1>4. ASSUME ClearRead  PROVE Reviewed
  <2>1. Clearable \in SUBSET Keys  BY DEF Clearable, Keys
  <2> QED  BY <1>4, <2>1 DEF ClearRead, Reviewed
<1>5. ASSUME MarkAllRead  PROVE Reviewed
  BY <1>5 DEF MarkAllRead, Reviewed, Shaped, TypeOK, Keys
<1> QED  BY <1>1, <1>2, <1>3, <1>4, <1>5

\* Every step is one of five kinds.
LEMMA Kinds ==
  ASSUME Shaped, [Next]_vars
  PROVE  \/ \E w \in Workers, e \in Events : Load(w, e)
         \/ \E w \in Workers : Commit(w)
         \/ \E w \in Workers : Fail(w)
         \/ \E r \in Rules :
              \/ \E f \in Forms, on \in BOOLEAN : CreateRule(r, f, on) \/ UpdateRule(r, f, on)
              \/ ToggleRule(r) \/ DeleteRule(r)
         \/ Reviewed
         \/ /\ UNCHANGED <<work, form, enabled, executions, alert, title, named, back>>
            /\ \A e \in Events : event'[e] = event[e] \/ (event[e] = "absent" /\ event'[e] = "pending")
<1>1. ASSUME NEW x, Publish(x)
      PROVE  \A e \in Events : event'[e] = event[e] \/ (event[e] = "absent" /\ event'[e] = "pending")
  BY <1>1 DEF Publish, Shaped, TypeOK
<1>2. ASSUME NEW p \in Products, NEW n \in Levels, ChangeStock(p, n)
      PROVE  Publish(p) /\ UNCHANGED <<work, form, enabled, executions, alert, title, named, back>>
  BY <1>2 DEF ChangeStock, rules
<1>3. ASSUME NEW s \in Sales, RecordSale(s)
      PROVE  Publish(s) /\ UNCHANGED <<work, form, enabled, executions, alert, title, named, back>>
  BY <1>3 DEF RecordSale, log, rules
<1>4. ASSUME NEW x \in Expenses, NEW size \in {"small", "large"}, AddExpense(x, size)
      PROVE  Publish(x) /\ UNCHANGED <<work, form, enabled, executions, alert, title, named, back>>
  BY <1>4 DEF AddExpense, log, rules
<1>5. ASSUME \/ \E p \in Products, n \in Levels : Restore(p, n)
             \/ \E p \in Products, t \in Thresholds, n \in Names : UpdateProduct(p, t, n)
             \/ \E s \in Sales : PaySale(s)
             \/ \E x \in Expenses : DeleteExpense(x)
             \/ UNCHANGED vars
      PROVE  UNCHANGED <<work, queue, form, enabled, executions, alert, title, named, back>>
  BY <1>5 DEF Restore, UpdateProduct, Quietly, PaySale, DeleteExpense, vars, rules, log
<1>6. Reviewed \/ ~(\/ \E k \in Keys : MarkRead(k) \/ MarkUnread(k) \/ Dismiss(k)
                    \/ ClearRead \/ MarkAllRead)
  BY Reviews
<1> QED  BY <1>1, <1>2, <1>3, <1>4, <1>5, <1>6 DEF Next, Keys, queue, log

LEMMA UnusedStep ==
  ASSUME Origin, [Next]_vars
  PROVE  Unused'
<1> USE DEF Origin
<1>1. ASSUME NEW w \in Workers, NEW e \in Events, Load(w, e)  PROVE Unused'
  <2>1. /\ plan' = [plan EXCEPT ![w] = [r \in InForce(subject[e]) |-> Outcome(r, subject[e])]]
        /\ UNCHANGED <<form, alert>>
    BY <1>1 DEF Load, rules
  <2>2. \A r \in InForce(subject[e]) : form[r] # NoForm  BY AlertsAssumption DEF InForce, Live
  <2> QED  BY <2>1, <2>2 DEF Unused, Shaped
<1>2. ASSUME NEW w \in Workers, Commit(w)  PROVE Unused'
  <2>1. /\ UNCHANGED form
        /\ \A v \in Workers : DOMAIN plan'[v] \subseteq DOMAIN plan[v]
    BY <1>2 DEF Commit, Rest, rules, Shaped
  <2>2. \A k \in Inserted(w) : form[k[1]] # NoForm
    BY <1>2, InsertedMatches
  <2>3. \A k \in Keys : k \notin Inserted(w) => alert'[k] = alert[k]  BY <1>2, Inserts
  <2>4. ASSUME NEW r \in Rules, form'[r] = NoForm, NEW e \in Events  PROVE alert'[<<r, e>>] = "none"
    <3>1. <<r, e>> \in Keys /\ <<r, e>> \notin Inserted(w)  BY <2>1, <2>2, <2>4 DEF Keys
    <3> QED  BY <2>1, <2>3, <2>4, <3>1 DEF Unused
  <2> QED  BY <2>1, <2>4 DEF Unused
<1>3. ASSUME NEW w \in Workers, Fail(w)  PROVE Unused'
  <2>1. /\ UNCHANGED <<form, alert>>
        /\ \A v \in Workers : DOMAIN plan'[v] \subseteq DOMAIN plan[v]
    BY <1>3 DEF Fail, Rest, rules, log, Shaped
  <2> QED  BY <2>1 DEF Unused
<1>4. ASSUME NEW r \in Rules,
             \/ \E f \in Forms, on \in BOOLEAN : CreateRule(r, f, on) \/ UpdateRule(r, f, on)
             \/ ToggleRule(r) \/ DeleteRule(r)
      PROVE  Unused'
  <2>1. form'[r] # NoForm  BY <1>4, Rewritten, AlertsAssumption DEF Live
  <2>2. UNCHANGED <<work, alert>> /\ \A q \in Rules : q # r => form'[q] = form[q]
    BY <1>4, Rewritten
  <2> QED  BY <2>1, <2>2 DEF Unused, work
<1>5. ASSUME Reviewed  PROVE Unused'
  <2>1. \A k \in Keys : alert[k] = "none" => alert'[k] = "none"
    BY <1>5 DEF Reviewed, Gone, Keys
  <2>2. UNCHANGED <<work, form>>  BY <1>5 DEF Reviewed, rules
  <2> QED  BY <2>1, <2>2 DEF Unused, work, Keys
<1>6. ASSUME UNCHANGED <<work, form, alert>>  PROVE Unused'
  BY <1>6 DEF Unused, work
<1> QED  BY <1>1, <1>2, <1>3, <1>4, <1>5, <1>6, Kinds

LEMMA ExplainedStep ==
  ASSUME Origin, [Next]_vars
  PROVE  AlertExplained'
<1> USE DEF Origin
<1>1. ASSUME NEW w \in Workers, NEW e \in Events, Load(w, e)  PROVE AlertExplained'
  <2>1. UNCHANGED <<form, executions, alert, named>> /\ \A d \in Events : event[d] = "done" => event'[d] = "done"
    BY <1>1 DEF Load, rules, log, Shaped, TypeOK
  <2> QED  BY <2>1 DEF AlertExplained, Live, Keys
<1>2. ASSUME NEW w \in Workers, Commit(w)  PROVE AlertExplained'
  <2> DEFINE d == at[w]
  <2>1. d \in Events /\ event[d] = "held"  BY <1>2, Inserts
  <2>2. /\ event' = [event EXCEPT ![d] = "done"] /\ executions' = [executions EXCEPT ![d] = plan[w]]
        /\ named' = named \cup Inserted(w) /\ UNCHANGED form
    BY <1>2 DEF Commit, rules
  <2>3. event'[d] = "done" /\ executions'[d] = plan[w]
        /\ \A e \in Events : e # d => event'[e] = event[e] /\ executions'[e] = executions[e]
    BY <2>1, <2>2 DEF Shaped, TypeOK
  <2>4. ASSUME NEW k \in Inserted(w)
        PROVE  /\ event'[k[2]] = "done"
               /\ k[1] \in DOMAIN executions'[k[2]] /\ executions'[k[2]][k[1]] = "matched"
               /\ (k \in named <=> Live(k[1]))'
    <3>1. /\ k[2] = d /\ k[1] \in DOMAIN plan[w] /\ plan[w][k[1]] = "matched" /\ Live(k[1])
      BY <1>2, <2>4, InsertedMatches
    <3> QED  BY <2>2, <2>3, <3>1 DEF Live
  <2>5. ASSUME NEW k \in Keys, k \notin Inserted(w), alert'[k] # "none"
        PROVE  /\ event'[k[2]] = "done"
               /\ k[1] \in DOMAIN executions'[k[2]] /\ executions'[k[2]][k[1]] = "matched"
               /\ (k \in named <=> Live(k[1]))'
    <3>1. alert[k] # "none"  BY <1>2, <2>5, Inserts
    <3>2. event[k[2]] = "done" /\ k[2] \in Events  BY <3>1 DEF AlertExplained, Keys
    <3>3. k[2] # d  BY <2>1, <3>2
    <3> QED  BY <2>2, <2>3, <2>5, <3>1, <3>2, <3>3 DEF AlertExplained, Live, Keys
  <2> QED  BY <2>4, <2>5 DEF AlertExplained, Keys
<1>3. ASSUME NEW w \in Workers, Fail(w)  PROVE AlertExplained'
  <2>1. at[w] \in Events /\ event[at[w]] = "held"  BY <1>3 DEF Fail, Held, Shaped, TypeOK
  <2>2. /\ UNCHANGED <<form, executions, alert, named>>
        /\ \A e \in Events : event[e] = "done" => event'[e] = "done"
    BY <1>3, <2>1 DEF Fail, rules, log, Shaped, TypeOK
  <2> QED  BY <2>2 DEF AlertExplained, Live, Keys
<1>4. ASSUME NEW r \in Rules,
             \/ \E f \in Forms, on \in BOOLEAN : CreateRule(r, f, on) \/ UpdateRule(r, f, on)
             \/ ToggleRule(r) \/ DeleteRule(r)
      PROVE  AlertExplained'
  <2>1. /\ UNCHANGED <<event, alert, executions>>
        /\ \A q \in Rules : q # r => form'[q] = form[q]
    BY <1>4, Rewritten DEF queue
  <2>2. \/ (form[r] = NoForm \/ Live(r)) /\ Live(r)' /\ named' = named
        \/ Live(r) /\ ~Live(r)' /\ named' = {k \in named : k[1] # r}
    BY <1>4, Rewritten, AlertsAssumption DEF Live
  <2>3. ASSUME NEW k \in Keys, alert[k] # "none"  PROVE k \in named' <=> Live(k[1])'
    <3>1. k \in named <=> Live(k[1])  BY <2>3 DEF AlertExplained, Keys
    <3>2. k[1] \in Rules /\ k[2] \in Events /\ k = <<k[1], k[2]>>  BY DEF Keys
    <3>3. CASE k[1] = r
      <4>1. form[r] # NoForm  BY <2>3, <3>2, <3>3 DEF Unused
      <4> QED  BY <2>2, <3>1, <3>3, <4>1
    <3>4. CASE k[1] # r  BY <2>1, <2>2, <3>1, <3>2, <3>4 DEF Live
    <3> QED  BY <3>3, <3>4
  <2> QED  BY <2>1, <2>3 DEF AlertExplained, Keys
<1>5. ASSUME Reviewed  PROVE AlertExplained'
  <2>1. UNCHANGED <<event, executions, form>>  BY <1>5 DEF Reviewed, queue, rules
  <2>2. ASSUME NEW k \in Keys, alert'[k] # "none"
        PROVE  alert[k] # "none" /\ (k \in named' <=> k \in named)
    BY <1>5, <2>2 DEF Reviewed, Gone, Keys
  <2> QED  BY <2>1, <2>2 DEF AlertExplained, Live, Keys
<1>6. ASSUME UNCHANGED <<work, form, executions, alert, title, named, back>>,
             \A e \in Events : event'[e] = event[e] \/ (event[e] = "absent" /\ event'[e] = "pending")
      PROVE  AlertExplained'
  BY <1>6 DEF AlertExplained, Live, Keys
<1> QED  BY <1>1, <1>2, <1>3, <1>4, <1>5, <1>6, Kinds

-----------------------------------------------------------------------------
(* Twins.                                                                  *)

LEMMA NotedStep ==
  ASSUME Origin, Noted, [Next]_vars
  PROVE  Noted'
<1> USE DEF Origin
<1>1. ASSUME NEW w \in Workers, NEW e \in Events, Load(w, e)  PROVE Noted'
  <2>1. /\ at' = [at EXCEPT ![w] = e] /\ UNCHANGED <<alert, back, title>>
        /\ overlapped' = overlapped \cup {{e, at[v]} : v \in {u \in Workers : at[u] # Idle}}
        /\ at[w] = Idle
    BY <1>1 DEF Load, log
  <2>2. at'[w] = e /\ \A v \in Workers : v # w => at'[v] = at[v] /\ raised'[v] = raised[v]
    BY <1>1, <2>1 DEF Load, Shaped, TypeOK
  <2>3. ASSUME NEW v \in Workers, NEW u \in Workers, u # v, at'[v] # Idle, at'[u] # Idle
        PROVE  {at'[v], at'[u]} \in overlapped'
    <3>1. CASE v = w  BY <2>1, <2>2, <2>3, <3>1
    <3>2. CASE u = w
      <4>1. {e, at[v]} \in overlapped'  BY <2>1, <2>2, <2>3, <3>2
      <4>2. {at'[v], at'[u]} = {e, at[v]}  BY <2>2, <2>3, <3>2
      <4> QED  BY <4>1, <4>2
    <3>3. CASE v # w /\ u # w  BY <2>1, <2>2, <2>3, <3>3 DEF Noted
    <3> QED  BY <3>1, <3>2, <3>3
  <2>4. ASSUME NEW k \in Keys, alert[k] = "unread"  PROVE <<k[1], title[k]>> \notin raised'[w]
    <3>1. raised'[w] = {<<r, TitleFor(r, subject[e])>> : r \in {q \in InForce(subject[e]) :
                       Notifies(q, subject[e]) /\ ~Deduped(TitleFor(q, subject[e]))}}
      BY <1>1 DEF Load, Shaped
    <3>2. Deduped(title[k])  BY <2>4 DEF Deduped, Unread, Keys
    <3> QED  BY <3>1, <3>2
  <2>5. ASSUME NEW v \in Workers, NEW k \in Keys, at'[v] # Idle, alert[k] = "unread", k \notin back,
               <<k[1], title[k]>> \in raised'[v]
        PROVE  {k[2], at'[v]} \in overlapped'
    BY <2>1, <2>2, <2>4, <2>5 DEF Noted
  <2> QED  BY <2>1, <2>3, <2>5 DEF Noted
<1>2. ASSUME NEW w \in Workers, Commit(w)  PROVE Noted'
  <2>1. /\ at' = [at EXCEPT ![w] = Idle] /\ raised' = [raised EXCEPT ![w] = {}]
        /\ UNCHANGED <<overlapped, back>> /\ at[w] # Idle
    BY <1>2 DEF Commit, Rest
  <2>2. at'[w] = Idle /\ \A v \in Workers : v # w => at'[v] = at[v] /\ raised'[v] = raised[v]
    BY <2>1 DEF Shaped, TypeOK
  <2>3. ASSUME NEW v \in Workers, NEW k \in Keys, at'[v] # Idle, alert'[k] = "unread", k \notin back,
               <<k[1], title'[k]>> \in raised'[v]
        PROVE  {k[2], at'[v]} \in overlapped
    <3>1. v # w /\ at'[v] = at[v] /\ raised'[v] = raised[v]  BY <2>2, <2>3
    <3>2. CASE k \in Inserted(w)
      <4>1. k[2] = at[w]  BY <1>2, <3>2, InsertedMatches
      <4> QED  BY <2>1, <2>3, <3>1, <4>1 DEF Noted
    <3>3. CASE k \notin Inserted(w)
      <4>1. alert'[k] = alert[k] /\ title'[k] = title[k]  BY <1>2, <3>3, Inserts
      <4> QED  BY <2>3, <3>1, <4>1 DEF Noted
    <3> QED  BY <3>2, <3>3
  <2> QED  BY <2>1, <2>2, <2>3 DEF Noted
<1>3. ASSUME NEW w \in Workers, Fail(w)  PROVE Noted'
  <2>1. UNCHANGED <<overlapped, back, alert, title>>
        /\ \A v \in Workers : at'[v] = Idle \/ (at'[v] = at[v] /\ raised'[v] = raised[v])
    BY <1>3 DEF Fail, Rest, log, Shaped, TypeOK
  <2> QED  BY <2>1 DEF Noted
<1>4. ASSUME NEW r \in Rules,
             \/ \E f \in Forms, on \in BOOLEAN : CreateRule(r, f, on) \/ UpdateRule(r, f, on)
             \/ ToggleRule(r) \/ DeleteRule(r)
      PROVE  Noted'
  <2>1. UNCHANGED <<work, alert, title, back>>  BY <1>4, Rewritten
  <2> QED  BY <2>1 DEF Noted, work
<1>5. ASSUME Reviewed  PROVE Noted'
  <2>1. UNCHANGED <<work, title>>  BY <1>5 DEF Reviewed
  <2>2. \A k \in Keys : alert'[k] = "unread" /\ k \notin back' => alert[k] = "unread" /\ k \notin back
    BY <1>5 DEF Reviewed, Gone, Keys
  <2> QED  BY <2>1, <2>2 DEF Noted, work
<1>6. ASSUME UNCHANGED <<work, alert, title, back>>  PROVE Noted'
  BY <1>6 DEF Noted, work
<1> QED  BY <1>1, <1>2, <1>3, <1>4, <1>5, <1>6, Kinds

LEMMA TwinsStep ==
  ASSUME Origin, Noted, TwinsOverlapped, [Next]_vars
  PROVE  TwinsOverlapped'
<1> USE DEF Origin
<1> DEFINE Same == /\ overlapped \subseteq overlapped'
                   /\ UNCHANGED title
                   /\ \A k \in Keys : alert'[k] = "unread" /\ k \notin back' => alert[k] = "unread" /\ k \notin back
<1>1. ASSUME NEW w \in Workers, Commit(w)  PROVE TwinsOverlapped'
  <2>1. UNCHANGED <<overlapped, back>> /\ at[w] # Idle  BY <1>1 DEF Commit, Rest
  <2>2. SUFFICES ASSUME NEW r \in Rules, NEW e \in Events, NEW f \in Events, e # f,
                        alert'[<<r, e>>] = "unread", <<r, e>> \notin back,
                        alert'[<<r, f>>] = "unread", <<r, f>> \notin back,
                        title'[<<r, e>>] = title'[<<r, f>>]
                 PROVE  {e, f} \in overlapped
    BY <2>1 DEF TwinsOverlapped
  <2>3. <<r, e>> \in Keys /\ <<r, f>> \in Keys  BY DEF Keys
  <2>4. ASSUME NEW c \in Events, NEW d \in Events, c # d, {c, d} = {e, f}, <<r, c>> \in Inserted(w),
               <<r, d>> \notin Inserted(w)
        PROVE  {e, f} \in overlapped
    <3>1. <<r, d>> \in Keys /\ <<r, c>> \in Keys  BY DEF Keys
    <3>2. alert[<<r, d>>] = "unread" /\ title[<<r, d>>] = title'[<<r, c>>] /\ <<r, d>> \notin back
      <4>1. alert'[<<r, d>>] = alert[<<r, d>>] /\ title'[<<r, d>>] = title[<<r, d>>]
        BY <1>1, <2>4, <3>1, Inserts
      <4>2. (c = e /\ d = f) \/ (c = f /\ d = e)  BY <2>4
      <4> QED  BY <2>2, <4>1, <4>2
    <3>3. c = at[w] /\ <<r, title'[<<r, c>>]>> \in raised[w]  BY <1>1, <2>4, Inserts
    <3>4. {d, c} \in overlapped  BY <2>1, <3>1, <3>2, <3>3 DEF Noted
    <3> QED  BY <2>4, <3>4
  <2>5. CASE <<r, e>> \in Inserted(w) /\ <<r, f>> \in Inserted(w)
    <3>1. \A k \in Inserted(w) : k[2] = at[w]  BY <1>1, InsertedMatches
    <3>2. e = at[w] /\ f = at[w]  BY <2>5, <3>1
    <3> QED  BY <2>2, <3>2
  <2>6. CASE <<r, e>> \notin Inserted(w) /\ <<r, f>> \notin Inserted(w)
    <3>1. /\ alert'[<<r, e>>] = alert[<<r, e>>] /\ title'[<<r, e>>] = title[<<r, e>>]
          /\ alert'[<<r, f>>] = alert[<<r, f>>] /\ title'[<<r, f>>] = title[<<r, f>>]
      BY <1>1, <2>3, <2>6, Inserts
    <3> QED  BY <2>2, <3>1 DEF TwinsOverlapped
  <2>7. {f, e} = {e, f}  OBVIOUS
  <2> QED  BY <2>2, <2>4, <2>5, <2>6, <2>7
<1>2. ASSUME NEW w \in Workers, NEW e \in Events, Load(w, e)  PROVE Same
  BY <1>2 DEF Load, log
<1>3. ASSUME NEW w \in Workers, Fail(w)  PROVE Same
  BY <1>3 DEF Fail, Rest, log
<1>4. ASSUME NEW r \in Rules,
             \/ \E f \in Forms, on \in BOOLEAN : CreateRule(r, f, on) \/ UpdateRule(r, f, on)
             \/ ToggleRule(r) \/ DeleteRule(r)
      PROVE  Same
  <2>1. UNCHANGED <<work, alert, title, back>>  BY <1>4, Rewritten
  <2> QED  BY <2>1 DEF work
<1>5. ASSUME Reviewed  PROVE Same
  <2>1. UNCHANGED <<work, title>>  BY <1>5 DEF Reviewed
  <2>2. \A k \in Keys : alert'[k] = "unread" /\ k \notin back' => alert[k] = "unread" /\ k \notin back
    BY <1>5 DEF Reviewed, Gone, Keys
  <2> QED  BY <2>1, <2>2 DEF work
<1>6. ASSUME UNCHANGED <<work, alert, title, back>>  PROVE Same
  BY <1>6 DEF work
<1>7. ASSUME Same  PROVE TwinsOverlapped'
  <2>1. \A r \in Rules, e \in Events : <<r, e>> \in Keys  BY DEF Keys
  <2> QED  BY <1>7, <2>1 DEF TwinsOverlapped
<1> HIDE DEF Same
<1> QED  BY <1>1, <1>2, <1>3, <1>4, <1>5, <1>6, <1>7, Kinds

-----------------------------------------------------------------------------
(* The theorems.                                                           *)

Inv == Origin /\ Counted /\ Noted /\ TwinsOverlapped

LEMMA Start ==
  ASSUME Init
  PROVE  Inv
<1>1. Shaped  BY StartShaped
<1>2. Held /\ Planned /\ Counted  BY AlertsAssumption DEF Init, Held, Planned, Counted
<1>3. Unused /\ AlertExplained  BY DEF Init, Unused, AlertExplained
<1>4. Noted /\ TwinsOverlapped  BY DEF Init, Noted, TwinsOverlapped, Keys
<1> QED  BY <1>1, <1>2, <1>3, <1>4 DEF Inv, Origin

LEMMA Step ==
  ASSUME Inv, [Next]_vars
  PROVE  Inv'
BY TypeStep, CountedStep, HeldStep, PlannedStep, UnusedStep, ExplainedStep, NotedStep, TwinsStep
   DEF Inv, Origin

THEOREM Invariance == Spec => []Inv
BY Start, Step, PTL DEF Spec

\* Rules, events, workers and the alert log keep their types, for any number of
\* each: an alert has a title that one of the rules can write.
THEOREM TypeCorrect == Spec => []TypeOK
BY Invariance, PTL DEF Inv, Origin, Shaped

\* An alert is always explained by an execution of a done event, and names its
\* rule as long as that exists, however rules are edited and deleted while
\* workers evaluate them (routers/ops.py, workflow.py).
THEOREM EveryAlertExplained == Spec => []AlertExplained
BY Invariance, PTL DEF Inv, Origin

\* One rule has two unread alerts of one title only if the workers that wrote them
\* were at it at once (_notify in workflow.py looks before it inserts).
THEOREM TwinsNeedOverlap == Spec => []TwinsOverlapped
BY Invariance, PTL DEF Inv
-----------------------------------------------------------------------------
(* Alerts that are owed.  A product that wants one has it, had it dealt    *)
(* with, had it swallowed by an alert of something else, or has an event   *)
(* or a worker that will bring it.                                         *)

Owed(p) == due[p] /\ Level(p) # "fine"
Coming(p) == \E e \in Events : subject[e] = p /\ event[e] \in {"pending", "dead"}
Brings(w, p) == /\ at[w] # Idle /\ subject[at[w]] = p
                /\ \E a \in raised[w] : a[2] = Wanted(p)

Served(p) == Owed(p) => \/ Told(p, Wanted(p))
                        \/ p \in seen
                        \/ p \in hushed
                        \/ Coming(p)
                        \/ \E w \in Workers : Brings(w, p)

\* While an alert is due some rule watches; a worker writes one alert of a rule.
Watched == (\E p \in Products : due[p]) => Watching(form, enabled)
OneEach == \A w \in Workers : \A a, b \in raised[w] : a[1] = b[1] => a = b

Watchful == Watched /\ OneEach /\ \A p \in Products : Served(p)

LEMMA LoadFaithful ==
  ASSUME Origin, Watchful, NEW w \in Workers, NEW e \in Events, Load(w, e)
  PROVE  Watchful'
<1> DEFINE x == subject[e]
<1>1. /\ at[w] = Idle /\ event[e] = "pending" /\ at' = [at EXCEPT ![w] = e]
      /\ event' = [event EXCEPT ![e] = "held"]
      /\ hushed' = (hushed \ {x}) \cup {p \in Products : /\ p = x /\ Unread(Wanted(p))
                                                         /\ ~Told(p, Wanted(p))}
      /\ UNCHANGED <<stock, threshold, name, due, form, enabled, subject, alert, title, seen>>
  BY DEF Load, goods, rules
<1>2. at'[w] = e /\ e # Idle /\ \A v \in Workers : v # w => at'[v] = at[v]
  BY <1>1, AlertsAssumption DEF Origin, Shaped, TypeOK
<1>3. /\ raised'[w] = {<<r, TitleFor(r, x)>> : r \in {q \in InForce(x) :
                       Notifies(q, x) /\ ~Deduped(TitleFor(q, x))}}
      /\ \A v \in Workers : v # w => raised'[v] = raised[v]
  BY DEF Load, Origin, Shaped
<1>4. Watched'
  BY <1>1 DEF Watched, Watchful, Watching, Unconditional
<1>5. OneEach'
  <2>1. \A a, b \in raised'[w] : a[1] = b[1] => a = b  BY <1>3
  <2> QED  BY <1>3, <2>1 DEF OneEach, Watchful
<1>6. ASSUME NEW p \in Products  PROVE Served(p)'
  <2>1. Wanted(p)' = Wanted(p) /\ (Owed(p)' <=> Owed(p))
    BY <1>1 DEF Wanted, Owed, Level
  <2>2. Told(p, Wanted(p)) => Told(p, Wanted(p))'  BY <1>1, <2>1 DEF Told
  <2>3. CASE x # p
    <3>1. p \in hushed => p \in hushed'  BY <1>1, <2>3
    <3>2. ASSUME NEW v \in Workers, Brings(v, p)  PROVE Brings(v, p)'
      <4>1. v # w  BY <1>1, <3>2 DEF Brings
      <4> QED  BY <1>1, <1>2, <1>3, <2>1, <3>2, <4>1 DEF Brings
    <3>3. Coming(p) => Coming(p)'
      <4>1. SUFFICES ASSUME NEW d \in Events, subject[d] = p, event[d] \in {"pending", "dead"}
                     PROVE  Coming(p)'
        BY DEF Coming
      <4>2. event'[d] = event[d] /\ subject'[d] = p
        BY <1>1, <2>3, <4>1 DEF Origin, Shaped, TypeOK
      <4> QED  BY <4>1, <4>2 DEF Coming
    <3> QED  BY <1>1, <2>1, <2>2, <3>1, <3>2, <3>3 DEF Served, Watchful
  <2>4. CASE x = p /\ Owed(p)
    <3>1. PICK r \in Rules : /\ form[r] \in Forms /\ enabled[r]
                             /\ form[r].event = "STOCK_UPDATED"
                             /\ form[r].action = "restock_alert"
                             /\ Unconditional(form[r])
      BY <2>4 DEF Owed, Watchful, Watched, Watching
    <3>2. r \in InForce(p)  BY <3>1 DEF InForce, Live, TypeOf
    <3>3. Notifies(r, p) /\ TitleFor(r, p) = Wanted(p)
      BY <2>4, <3>1 DEF Notifies, Matches, ConditionMet, Acts, Owed, TitleFor
    <3>4. CASE Deduped(Wanted(p))
      <4>1. Told(p, Wanted(p)) \/ p \in hushed'  BY <1>1, <2>4, <3>4 DEF Deduped
      <4> QED  BY <2>2, <4>1 DEF Served
    <3>5. CASE ~Deduped(Wanted(p))
      <4>1. <<r, Wanted(p)>> \in raised'[w]  BY <1>3, <2>4, <3>2, <3>3, <3>5
      <4>2. Brings(w, p)'  BY <1>1, <1>2, <2>1, <2>4, <4>1 DEF Brings
      <4> QED  BY <4>2 DEF Served
    <3> QED  BY <3>4, <3>5
  <2> QED  BY <2>1, <2>3, <2>4 DEF Served
<1> QED  BY <1>4, <1>5, <1>6 DEF Watchful

\* A commit writes what its worker brings, and no other alert is written over.
LEMMA CommitFaithful ==
  ASSUME Origin, Watchful, NEW w \in Workers, Commit(w)
  PROVE  Watchful'
<1>1. /\ at[w] # Idle /\ at' = [at EXCEPT ![w] = Idle] /\ raised' = [raised EXCEPT ![w] = {}]
      /\ event' = [event EXCEPT ![at[w]] = "done"]
      /\ UNCHANGED <<stock, threshold, name, due, form, enabled, subject, seen, hushed>>
  BY DEF Commit, Rest, goods, rules
<1>2. \A v \in Workers : v # w => at'[v] = at[v] /\ raised'[v] = raised[v]
  BY <1>1 DEF Origin, Shaped, TypeOK
<1>3. raised'[w] = {}  BY <1>1 DEF Origin, Shaped
<1>4. Watched'
  BY <1>1 DEF Watched, Watchful, Watching, Unconditional
<1>5. OneEach'
  BY <1>2, <1>3 DEF OneEach, Watchful
<1>6. at[w] \in Events /\ event[at[w]] = "held"
  BY Inserts DEF Origin
<1>7. ASSUME NEW p \in Products  PROVE Served(p)'
  <2>1. Wanted(p)' = Wanted(p) /\ (Owed(p)' <=> Owed(p))
    BY <1>1 DEF Wanted, Owed, Level
  <2>2. Told(p, Wanted(p)) => Told(p, Wanted(p))'
    <3>1. SUFFICES ASSUME NEW k \in Keys, alert[k] = "unread", title[k] = Wanted(p), subject[k[2]] = p
                   PROVE  Told(p, Wanted(p))'
      BY DEF Told, Keys
    <3>2. event[k[2]] = "done"  BY <3>1 DEF Origin, AlertExplained, Keys
    <3>3. k \notin Inserted(w)  BY <1>6, <3>2 DEF Inserted
    <3>4. alert'[k] = alert[k] /\ title'[k] = title[k]  BY <3>3, Inserts DEF Origin
    <3> QED  BY <1>1, <2>1, <3>1, <3>4 DEF Told, Keys
  <2>3. Coming(p) => Coming(p)'
    BY <1>1, <1>6 DEF Coming, Origin, Shaped, TypeOK
  <2>4. ASSUME NEW v \in Workers, Brings(v, p), v # w  PROVE Brings(v, p)'
    BY <1>1, <1>2, <2>1, <2>4 DEF Brings
  <2>5. ASSUME Brings(w, p)  PROVE Told(p, Wanted(p))'
    <3>1. PICK a \in raised[w] : a[2] = Wanted(p)  BY <2>5 DEF Brings
    <3>2. a \in Rules \X Titles  BY <3>1 DEF Origin, Shaped, TypeOK
    <3> DEFINE k == <<a[1], at[w]>>
    <3>3. k \in Inserted(w) /\ k \in Keys /\ k[1] = a[1] /\ k[2] = at[w]
      BY <1>6, <3>1, <3>2 DEF Inserted, Keys
    <3>4. alert'[k] = "unread" /\ <<k[1], title'[k]>> \in raised[w]  BY <3>3, Inserts DEF Origin
    <3>5. a = <<a[1], title'[k]>>
      <4>1. <<a[1], title'[k]>>[1] = a[1]  OBVIOUS
      <4> HIDE DEF k
      <4> QED  BY <3>1, <3>3, <3>4, <4>1 DEF Watchful, OneEach
    <3>6. title'[k] = Wanted(p)  BY <3>1, <3>5
    <3>7. subject'[k[2]] = p  BY <1>1, <2>5, <3>3 DEF Brings
    <3> HIDE DEF k
    <3> QED  BY <2>1, <3>3, <3>4, <3>6, <3>7 DEF Told, Keys
  <2> QED  BY <1>1, <2>1, <2>2, <2>3, <2>4, <2>5 DEF Served, Watchful
<1> QED  BY <1>4, <1>5, <1>7 DEF Watchful

\* After a failure the event is there to bring what its worker would have.
LEMMA FailFaithful ==
  ASSUME Origin, Watchful, NEW w \in Workers, Fail(w)
  PROVE  Watchful'
<1>1. /\ at[w] # Idle /\ at' = [at EXCEPT ![w] = Idle] /\ raised' = [raised EXCEPT ![w] = {}]
      /\ UNCHANGED <<stock, threshold, name, due, form, enabled, subject, alert, title, seen, hushed>>
  BY DEF Fail, Rest, goods, rules, log
<1>2. \A v \in Workers : v # w => at'[v] = at[v] /\ raised'[v] = raised[v]
  BY <1>1 DEF Origin, Shaped, TypeOK
<1>3. raised'[w] = {}  BY <1>1 DEF Origin, Shaped
<1>4. Watched'
  BY <1>1 DEF Watched, Watchful, Watching, Unconditional
<1>5. OneEach'
  BY <1>2, <1>3 DEF OneEach, Watchful
<1>6. at[w] \in Events /\ event[at[w]] = "held"
  BY <1>1 DEF Origin, Held, Shaped, TypeOK
<1>7. /\ event'[at[w]] \in {"pending", "dead"}
      /\ \A e \in Events : e # at[w] => event'[e] = event[e]
  BY <1>6 DEF Fail, Origin, Shaped, TypeOK
<1>8. ASSUME NEW p \in Products  PROVE Served(p)'
  <2>1. Wanted(p)' = Wanted(p) /\ (Owed(p)' <=> Owed(p))
    BY <1>1 DEF Wanted, Owed, Level
  <2>2. Told(p, Wanted(p)) => Told(p, Wanted(p))'  BY <1>1, <2>1 DEF Told
  <2>3. Coming(p) => Coming(p)'
    BY <1>1, <1>6, <1>7 DEF Coming
  <2>4. ASSUME NEW v \in Workers, Brings(v, p), v # w  PROVE Brings(v, p)'
    BY <1>1, <1>2, <2>1, <2>4 DEF Brings
  <2>5. Brings(w, p) => Coming(p)'
    BY <1>1, <1>6, <1>7 DEF Brings, Coming
  <2> QED  BY <1>1, <2>1, <2>2, <2>3, <2>4, <2>5 DEF Served, Watchful
<1> QED  BY <1>4, <1>5, <1>8 DEF Watchful

\* Steps that leave the workers and the log alone, and what is known of the
\* products of which an alert is still due.
LEMMA GoodsFaithful ==
  ASSUME Origin, Watchful, UNCHANGED <<work, alert, title>>,
         Watched',
         \A e \in Events : event[e] # "absent" => event'[e] = event[e] /\ subject'[e] = subject[e],
         \A p \in Products : due'[p] =>
           \/ Coming(p)'
           \/ /\ due[p] /\ stock'[p] = stock[p] /\ threshold'[p] = threshold[p] /\ name'[p] = name[p]
              /\ p \in seen => p \in seen'
              /\ p \in hushed => p \in hushed'
  PROVE  Watchful'
<1>1. UNCHANGED <<at, raised>>  BY DEF work
<1>2. \A w \in Workers : at[w] # Idle => event[at[w]] = "held" /\ at[w] \in Events
  BY DEF Origin, Held, Shaped, TypeOK
<1>3. \A w \in Workers : at[w] # Idle => subject'[at[w]] = subject[at[w]]  BY <1>2
<1>4. OneEach'  BY <1>1 DEF OneEach, Watchful
<1>5. ASSUME NEW p \in Products  PROVE Served(p)'
  <2>1. Coming(p) => Coming(p)'  BY DEF Coming
  <2>2. CASE due'[p] /\ ~Coming(p)'
    <3>1. /\ due[p] /\ stock'[p] = stock[p] /\ threshold'[p] = threshold[p] /\ name'[p] = name[p]
          /\ p \in seen => p \in seen'
          /\ p \in hushed => p \in hushed'
      BY <2>2
    <3>2. Wanted(p)' = Wanted(p) /\ (Owed(p)' => Owed(p))
      BY <3>1 DEF Wanted, Owed, Level
    <3>3. Told(p, Wanted(p)) => Told(p, Wanted(p))'
      <4>1. \A k \in Keys : alert[k] = "unread" => subject'[k[2]] = subject[k[2]]
        BY DEF Origin, AlertExplained, Keys
      <4> QED  BY <3>2, <4>1 DEF Told, Keys
    <3>4. \A w \in Workers : Brings(w, p) => Brings(w, p)'  BY <1>1, <1>3, <3>2 DEF Brings
    <3> QED  BY <2>1, <3>1, <3>2, <3>3, <3>4 DEF Served, Watchful
  <2> QED  BY <2>2 DEF Served, Owed
<1> QED  BY <1>4, <1>5 DEF Watchful

\* Whoever takes an unread alert away leaves a trace.
LEMMA LogFaithful ==
  ASSUME Origin, Watchful,
         \/ \E k \in Keys : MarkRead(k) \/ MarkUnread(k) \/ Dismiss(k)
         \/ ClearRead \/ MarkAllRead
  PROVE  Watchful'
<1>1. UNCHANGED <<stock, threshold, name, due, form, enabled, subject, event, at, raised, title, hushed>>
      /\ seen \subseteq seen'
  BY DEF MarkRead, MarkUnread, Dismiss, ClearRead, MarkAllRead, goods, rules, queue, work, Handled
<1>2. ASSUME NEW p \in Products, NEW k \in Keys,
             alert[k] = "unread", title[k] = Wanted(p), subject[k[2]] = p
      PROVE  alert'[k] = "unread" \/ p \in seen'
  <2>1. ASSUME NEW j \in Keys, MarkRead(j)  PROVE alert'[k] = "unread" \/ p \in seen'
    BY <1>2, <2>1 DEF MarkRead, Handled, Origin, Shaped, TypeOK, Keys
  <2>2. ASSUME NEW j \in Keys, MarkUnread(j)  PROVE alert'[k] = "unread"
    BY <1>2, <2>2 DEF MarkUnread, Origin, Shaped, TypeOK, Keys
  <2>3. ASSUME NEW j \in Keys, Dismiss(j)  PROVE alert'[k] = "unread" \/ p \in seen'
    BY <1>2, <2>3 DEF Dismiss, Gone, Handled, Keys
  <2>4. ASSUME ClearRead  PROVE alert'[k] = "unread"
    BY <1>2, <2>4 DEF ClearRead, Clearable, Gone, Keys
  <2>5. ASSUME MarkAllRead  PROVE p \in seen'
    BY <1>2, <2>5 DEF MarkAllRead, Handled, Keys
  <2> QED  BY <2>1, <2>2, <2>3, <2>4, <2>5
<1>3. Watched' /\ OneEach'
  BY <1>1 DEF Watched, OneEach, Watchful, Watching, Unconditional
<1>4. ASSUME NEW p \in Products  PROVE Served(p)'
  <2>1. Wanted(p)' = Wanted(p) /\ (Owed(p)' <=> Owed(p))
    BY <1>1 DEF Wanted, Owed, Level
  <2>2. Told(p, Wanted(p)) => Told(p, Wanted(p))' \/ p \in seen'
    BY <1>1, <1>2, <2>1 DEF Told, Keys
  <2>3. Coming(p) => Coming(p)'  BY <1>1 DEF Coming
  <2>4. \A w \in Workers : Brings(w, p) => Brings(w, p)'  BY <1>1, <2>1 DEF Brings
  <2> QED  BY <1>1, <2>1, <2>2, <2>3, <2>4 DEF Served, Watchful
<1> QED  BY <1>3, <1>4 DEF Watchful

\* A published event is pending, and every other event is as it was.
LEMMA Published ==
  ASSUME Shaped, NEW x, Publish(x)
  PROVE  /\ \A e \in Events : event[e] # "absent" => event'[e] = event[e] /\ subject'[e] = subject[e]
         /\ \E e \in Events : event'[e] = "pending" /\ subject'[e] = x
<1>1. PICK e \in Events : /\ event[e] = "absent"
                          /\ event' = [event EXCEPT ![e] = "pending"]
                          /\ subject' = [subject EXCEPT ![e] = x]
  BY DEF Publish
<1> QED  BY <1>1 DEF Shaped, TypeOK

LEMMA WatchfulStep ==
  ASSUME Origin, Watchful, [Next]_vars
  PROVE  Watchful'
<1>0. Shaped  BY DEF Origin
<1>1. ASSUME NEW p \in Products, NEW n \in Levels, ChangeStock(p, n)  PROVE Watchful'
  <2>1. /\ Publish(p) /\ stock' = [stock EXCEPT ![p] = n]
        /\ due' = [due EXCEPT ![p] = Watching(form, enabled)]
        /\ seen' = seen \ {p} /\ hushed' = hushed \ {p}
        /\ UNCHANGED <<threshold, name, work, alert, title, form, enabled>>
    BY <1>1 DEF ChangeStock, rules
  <2>2. Watched'
    <3>1. Watching(form, enabled)' <=> Watching(form, enabled)
      BY <2>1 DEF Watching, Unconditional
    <3>2. \A q \in Products : due'[q] => Watching(form, enabled) \/ due[q]
      BY <2>1 DEF Origin, Shaped, TypeOK
    <3> QED  BY <3>1, <3>2 DEF Watched, Watchful
  <2>3. Coming(p)'
    BY <1>0, <2>1, Published DEF Coming
  <2>4. ASSUME NEW q \in Products, q # p
        PROVE  /\ due'[q] = due[q] /\ stock'[q] = stock[q] /\ threshold'[q] = threshold[q]
               /\ name'[q] = name[q]
               /\ q \in seen => q \in seen'
               /\ q \in hushed => q \in hushed'
    BY <2>1, <2>4 DEF Origin, Shaped, TypeOK
  <2> QED  BY <1>0, <2>1, <2>2, <2>3, <2>4, Published, GoodsFaithful
<1>2. ASSUME NEW p \in Products, Quietly(p),
             \A q \in Products : q # p => /\ stock'[q] = stock[q] /\ threshold'[q] = threshold[q]
                                          /\ name'[q] = name[q]
      PROVE  Watchful'
  <2>1. /\ due' = [due EXCEPT ![p] = @ /\ \E e \in Events : subject[e] = p /\ event[e] = "pending"]
        /\ seen' = seen \ {p} /\ hushed' = hushed \ {p}
        /\ UNCHANGED <<work, alert, title, form, enabled, event, subject>>
    BY <1>2 DEF Quietly, queue
  <2>2. due'[p] => due[p] /\ Coming(p)'
    BY <2>1 DEF Coming, Origin, Shaped, TypeOK
  <2>3. \A q \in Products : q # p => /\ due'[q] = due[q]
                                     /\ q \in seen => q \in seen'
                                     /\ q \in hushed => q \in hushed'
    BY <2>1 DEF Origin, Shaped, TypeOK
  <2>4. Watched'
    BY <2>1, <2>2, <2>3 DEF Watched, Watchful, Watching, Unconditional
  <2> QED  BY <1>2, <2>1, <2>2, <2>3, <2>4, GoodsFaithful
<1>3. ASSUME NEW x, Publish(x), UNCHANGED <<goods, rules, work, log>>  PROVE Watchful'
  <2>1. UNCHANGED <<stock, threshold, name, due, form, enabled, work, alert, title, seen, hushed>>
    BY <1>3 DEF goods, rules, log
  <2>2. Watched'  BY <2>1 DEF Watched, Watchful, Watching, Unconditional
  <2> QED  BY <1>0, <1>3, <2>1, <2>2, Published, GoodsFaithful
<1>4. ASSUME UNCHANGED <<goods, rules, queue, work, log>>  PROVE Watchful'
  <2>1. UNCHANGED <<stock, threshold, name, due, form, enabled, work, alert, title, seen, hushed, event, subject>>
    BY <1>4 DEF goods, rules, log, queue
  <2>2. Watched'  BY <2>1 DEF Watched, Watchful, Watching, Unconditional
  <2> QED  BY <2>1, <2>2, GoodsFaithful
<1>5. ASSUME NEW fs, NEW on, Rewrite(fs, on), UNCHANGED <<alert, title, seen, hushed>>  PROVE Watchful'
  <2>1. /\ due' = [p \in Products |-> due[p] /\ Watching(form, enabled)']
        /\ UNCHANGED <<work, event, subject, stock, threshold, name>>
    BY <1>5 DEF Rewrite, queue, Watching
  <2>2. \A p \in Products : due'[p] => due[p] /\ Watching(form, enabled)'
    BY <2>1
  <2>3. Watched'  BY <2>2 DEF Watched
  <2> QED  BY <1>5, <2>1, <2>2, <2>3, GoodsFaithful
<1>6. ASSUME NEW r \in Rules,
             \/ \E f \in Forms, on \in BOOLEAN : CreateRule(r, f, on) \/ UpdateRule(r, f, on)
             \/ ToggleRule(r) \/ DeleteRule(r)
      PROVE  \E fs, on : Rewrite(fs, on) /\ UNCHANGED <<alert, title, seen, hushed>>
  BY <1>6 DEF CreateRule, UpdateRule, ToggleRule, DeleteRule, log
<1>7. ASSUME \/ \E s \in Sales : RecordSale(s)
             \/ \E x \in Expenses, size \in {"small", "large"} : AddExpense(x, size)
      PROVE  \E x : Publish(x) /\ UNCHANGED <<goods, rules, work, log>>
  BY <1>7 DEF RecordSale, AddExpense
<1>8. ASSUME \/ \E s \in Sales : PaySale(s)
             \/ \E x \in Expenses : DeleteExpense(x)
             \/ UNCHANGED vars
      PROVE  UNCHANGED <<goods, rules, queue, work, log>>
  BY <1>8 DEF PaySale, DeleteExpense, vars
<1>9. ASSUME NEW p \in Products, NEW n \in Levels, Restore(p, n)  PROVE Watchful'
  <2>1. \A q \in Products : q # p => /\ stock'[q] = stock[q] /\ threshold'[q] = threshold[q]
                                     /\ name'[q] = name[q]
    BY <1>9 DEF Restore, Origin, Shaped, TypeOK
  <2> QED  BY <1>2, <1>9, <2>1 DEF Restore
<1>10. ASSUME NEW p \in Products, NEW t \in Thresholds, NEW n \in Names, UpdateProduct(p, t, n)
       PROVE  Watchful'
  <2>1. \A q \in Products : q # p => /\ stock'[q] = stock[q] /\ threshold'[q] = threshold[q]
                                     /\ name'[q] = name[q]
    BY <1>10 DEF UpdateProduct, Origin, Shaped, TypeOK
  <2> QED  BY <1>2, <1>10, <2>1 DEF UpdateProduct
<1> QED
  BY <1>1, <1>3, <1>4, <1>5, <1>6, <1>7, <1>8, <1>9, <1>10, LoadFaithful, CommitFaithful, FailFaithful,
     LogFaithful DEF Next, Keys

\* However rules are edited, products renamed, workers overlap or fail and alerts
\* are dealt with, a product that is low or out has an unread alert of its own that
\* says so, or had one dealt with since its last change, unless an unread alert of
\* the same text from elsewhere swallowed it (_execute_action and _notify in
\* workflow.py).
THEOREM LowStockIsAlerted == Spec => []AlertedLow
<1>1. Init => Watchful
  <2>1. SUFFICES ASSUME Init  PROVE Watchful
    OBVIOUS
  <2>2. \A p \in Products : ~due[p]  BY <2>1 DEF Init
  <2>3. \A w \in Workers : raised[w] = {}  BY <2>1 DEF Init
  <2> QED  BY <2>2, <2>3 DEF Watchful, Watched, OneEach, Served, Owed
<1>2. Inv /\ Watchful /\ [Next]_vars => Watchful'
  BY WatchfulStep DEF Inv
<1>3. Inv /\ Watchful => AlertedLow
  <2>1. SUFFICES ASSUME Inv, Watchful, NEW p \in Products, due[p], ~Open(p), Level(p) # "fine"
                 PROVE  Told(p, Wanted(p)) \/ p \in seen \/ p \in hushed
    BY DEF AlertedLow
  <2>2. ~Coming(p)  BY <2>1 DEF Coming, Open
  <2>3. ASSUME NEW w \in Workers, Brings(w, p)  PROVE FALSE
    <3>1. at[w] \in Events /\ event[at[w]] = "held" /\ subject[at[w]] = p
      BY <2>1, <2>3 DEF Brings, Inv, Origin, Held, Shaped, TypeOK
    <3> QED  BY <2>1, <3>1 DEF Open
  <2> QED  BY <2>1, <2>2, <2>3 DEF Watchful, Served, Owed
<1> QED  BY <1>1, <1>2, <1>3, Invariance, PTL DEF Spec

=============================================================================
