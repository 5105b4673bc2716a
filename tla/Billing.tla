-------------------------------- MODULE Billing --------------------------------
(***************************************************************************)
(* What usage metering and charging promise, whatever machines, passes,    *)
(* transactions and retries carry it out: a usage row that was written is  *)
(* billed at most once, with a cost fixed at that moment, and the balances *)
(* of the keys that pay for it move in the same step and in no other.      *)
(* UsageIngest implements it (UsageIngest!ImplementsBilling).              *)
(***************************************************************************)
EXTENDS Naturals, FiniteSetsExt

CONSTANTS Payers,        \* keys
          PaidBy(_),     \* the keys that pay for a row
          Amounts        \* what a row can cost

VARIABLES
    written,    \* rows the proxies have metered
    billed,     \* [row, cost]
    balance,    \* what every key was charged
    gone        \* keys that were deleted

billingVars == <<written, billed, balance, gone>>

BillingInit ==
    /\ written = {}
    /\ billed = {}
    /\ balance = [k \in Payers |-> 0]
    /\ gone = {}

\* A request is metered.
Meter ==
    /\ \E row \in written' \ written : written' = written \cup {row}
    /\ UNCHANGED <<billed, balance, gone>>

IsBilled(row) == \E b \in billed : b.row = row

\* Rows that were not billed yet are, together, and each at one price.
BillRows ==
    \E rs \in SUBSET {row \in written : ~IsBilled(row)} :
        \E price \in [rs -> Amounts] :
            LET bills == {[row |-> row, cost |-> price[row]] : row \in rs}
            IN  /\ billed' = billed \cup bills
                /\ balance' = [k \in Payers |->
                     balance[k] +
                       IF k \in gone THEN 0
                       ELSE MapThenSumSet(LAMBDA b : b.cost,
                                          {b \in bills : k \in PaidBy(b.row)})]
                /\ UNCHANGED <<written, gone>>

\* A key that never paid for a billed row of its own can go.
Remove ==
    /\ gone \subseteq gone'
    /\ \A b \in billed : PaidBy(b.row) \cap (gone' \ gone) = {}
    /\ UNCHANGED <<written, billed, balance>>

BillingNext == Meter \/ BillRows \/ Remove

BillingSpec == BillingInit /\ [][BillingNext]_billingVars
===============================================================================
