------------------------------- MODULE MCAlerts -------------------------------
(* Small values for the rules of Alerts: default_rules() and one of a user,   *)
(* whose title is what a stock alert may say.                                 *)
EXTENDS Alerts, TLC

CONSTANTS restock, flag, own, w1, w2, p1, p2, rice

Rule(ev, fld, op, val, act, ttl) ==
  [event |-> ev, field |-> fld, op |-> op, value |-> val, action |-> act, title |-> ttl]

Restock  == Rule("STOCK_UPDATED", "", "", Unset, "restock_alert", <<"">>)
Flag     == Rule("EXPENSE_ADDED", "amount", "gt", <<"int", 1>>, "flag_expense", <<"flagged">>)
Reminder == Rule("SALE_CREATED", "paymentStatus", "eq", <<"text", "unpaid">>, "notify", <<"low", rice>>)

SeedForms == (restock :> Restock) @@ (flag :> Flag)
AllForms  == {Restock, Flag, Reminder}

Symmetry == Permutations({w1, w2}) \cup Permutations({p1, p2})
=============================================================================
