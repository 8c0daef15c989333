--------------------------- MODULE PaperAccount ---------------------------
(***************************************************************************)
(* The simulated trading account of one user: market orders for one stock  *)
(* and the reset (app/routers/paper.py).  An order is a request that reads  *)
(* the account, the position and the trades of the day, and then writes     *)
(* them one Mongo command after the other; requests of one user overlap.    *)
(*                                                                         *)
(* One step is one Mongo command with the code up to the next.  The order   *)
(* documents are written and never read by an order, and the average cost   *)
(* and the realised profit follow the quantities: all left out.             *)
(***************************************************************************)
EXTENDS Integers, Sequences, FiniteSets, Functions

CONSTANTS Requests,     \* order requests that may be in progress at once
          InitialCash,  \* INITIAL_CASH_BY_MARKET of the currency
          Prices,       \* prices a request may find
          Quantities,   \* quantities ordered
          Fee,          \* commission and duties of an order
          MaxOrders,    \* orders placed
          MaxMishaps    \* resets, Mongo errors and ends of a day, together

ASSUME PaperConstants ==
    /\ IsFiniteSet(Requests)
    /\ InitialCash \in Nat /\ Fee \in Nat
    /\ Prices \subseteq Nat \ {0} /\ Quantities \subseteq Nat \ {0}
    /\ MaxOrders \in Nat /\ MaxMishaps \in Nat

VARIABLES tPlus,     \* the market rules forbid selling on the day of the purchase
          account,   \* the paper_accounts document: does it exist, its cash
          positions, \* paper_positions of the stock; no index keeps it to one
          bought,    \* quantity of today's buys among paper_trades
          req,       \* per request: its place and what it has read
          reset,     \* where the reset request is
          log,       \* ended orders, and what the two collections owe to them (history)
          today,     \* shares at the start of the day, sold since, no overlap so far? (history)
          paperUsed  \* how often each bounded event happened

paperVars == <<tPlus, account, positions, bought, req, reset, log, today, paperUsed>>

-----------------------------------------------------------------------------
(* State                                                                   *)

NoOrder == [n |-> 0, pc |-> "idle", side |-> "buy", qty |-> 0, price |-> 0,
            cash |-> 0, id |-> 0, held |-> 0, avail |-> 0, old |-> FALSE,
            disturbed |-> FALSE]

Busy(r) == req[r].pc # "idle"
AtRest == reset = "idle" /\ \A r \in Requests : ~Busy(r)

\* round(price * qty, 2) with and without the commission.
Cost(o) == o.price * o.qty + Fee
Proceeds(o) == o.price * o.qty - Fee

CashChange(o) == IF o.side = "buy" THEN -Cost(o) ELSE Proceeds(o)
ShareChange(o) == IF o.side = "buy" THEN o.qty ELSE -o.qty

Shares == SumFunction([i \in DOMAIN positions |-> positions[i].qty])

\* find_one: the first document, or none (identifier 0).
FirstPosition == IF positions = <<>> THEN [id |-> 0, qty |-> 0] ELSE positions[1]

\* update_one and delete_one by _id: match nothing once the document is gone.
SetQuantity(id, qty) ==
    [i \in DOMAIN positions |->
        IF positions[i].id = id THEN [positions[i] EXCEPT !.qty = qty] ELSE positions[i]]
DeletePosition(id) ==
    LET found == {i \in DOMAIN positions : positions[i].id = id}
        i == CHOOSE i \in found : TRUE
    IN  IF found = {} THEN positions
        ELSE SubSeq(positions, 1, i - 1) \o SubSeq(positions, i + 1, Len(positions))

Spend(what, limit) == /\ paperUsed[what] < limit
                      /\ paperUsed' = [paperUsed EXCEPT ![what] = @ + 1]

PaperInit ==
    /\ tPlus \in BOOLEAN
    /\ account = [exists |-> FALSE, cash |-> 0]
    /\ positions = <<>>
    /\ bought = 0
    /\ req = [r \in Requests |-> NoOrder]
    /\ reset = "idle"
    /\ log = <<>>
    /\ today = [start |-> 0, sold |-> 0, clean |-> TRUE]
    /\ paperUsed = [w \in {"orders", "mishaps"} |-> 0]

-----------------------------------------------------------------------------
(* _get_or_create_account                                                  *)

CreateAccount ==
    account' = IF account.exists THEN account
               ELSE [exists |-> TRUE, cash |-> InitialCash]

\* A view of the account opens it, too; where another request was faster the
\* second document is never read.
ViewAccount ==
    /\ ~account.exists
    /\ CreateAccount
    /\ UNCHANGED <<tPlus, positions, bought, req, reset, log, today, paperUsed>>

-----------------------------------------------------------------------------
(* place_order                                                             *)

Goto(r, pc) == req' = [req EXCEPT ![r].pc = pc]

\* The request is answered; only what it has written is left of it.
Leave(r) == req' = [req EXCEPT ![r] = NoOrder]

PlaceOrder(r, side, qty) ==
    /\ ~Busy(r)
    /\ Spend("orders", MaxOrders)
    /\ req' = [x \in Requests |->
                 IF x = r THEN [NoOrder EXCEPT !.n = paperUsed'["orders"], !.pc = "account",
                                     !.side = side, !.qty = qty, !.disturbed = ~AtRest]
                 ELSE [req[x] EXCEPT !.disturbed = Busy(x)]]
    /\ today' = [today EXCEPT !.clean = @ /\ AtRest]
    /\ UNCHANGED <<tPlus, account, positions, bought, reset, log>>

ReadAccount(r) ==
    /\ req[r].pc = "account"
    /\ req' = [req EXCEPT ![r].cash = IF account.exists THEN account.cash ELSE InitialCash,
                          ![r].pc = IF account.exists THEN "position" ELSE "create"]
    /\ UNCHANGED <<tPlus, account, positions, bought, reset, log, today, paperUsed>>

OpenAccount(r) ==
    /\ req[r].pc = "create"
    /\ CreateAccount
    /\ Goto(r, "position")
    /\ UNCHANGED <<tPlus, positions, bought, reset, log, today, paperUsed>>

NoPrice(r) ==
    /\ req[r].pc = "position"
    /\ Leave(r)
    /\ UNCHANGED <<tPlus, account, positions, bought, reset, log, today, paperUsed>>

\* Mutant: the check of the funds is dropped.
ReadPosition_NoFundsCheck(r, price) ==
    /\ req[r].pc = "position"
    /\ req' = [req EXCEPT ![r].price = price, ![r].id = FirstPosition.id,
                          ![r].held = FirstPosition.qty,
                          ![r].pc = IF req[r].side = "sell" THEN "held" ELSE "pay"]
    /\ UNCHANGED <<tPlus, account, positions, bought, reset, log, today, paperUsed>>

\* A buy is refused at once when the cash it has read does not cover it.
ReadPosition(r, price) ==
    /\ req[r].pc = "position"
    /\ LET o == [req[r] EXCEPT !.price = price, !.id = FirstPosition.id,
                               !.held = FirstPosition.qty]
       IN  CASE o.side = "sell" -> req' = [req EXCEPT ![r] = [o EXCEPT !.pc = "held"]]
             [] o.side = "buy" /\ o.cash >= Cost(o) ->
                    req' = [req EXCEPT ![r] = [o EXCEPT !.pc = "pay"]]
             [] OTHER -> Leave(r)
    /\ UNCHANGED <<tPlus, account, positions, bought, reset, log, today, paperUsed>>

\* Mutant: the commission is not deducted.
Pay_WithoutFee(r) ==
    /\ req[r].pc = "pay"
    /\ account' = IF account.exists
                    THEN [account EXCEPT !.cash = req[r].cash - req[r].price * req[r].qty]
                    ELSE account
    /\ Goto(r, "shares")
    /\ UNCHANGED <<tPlus, positions, bought, reset, log, today, paperUsed>>

\* $set of the balance computed from the account read first.
Pay(r) ==
    /\ req[r].pc = "pay"
    /\ account' = IF account.exists
                    THEN [account EXCEPT !.cash = req[r].cash - Cost(req[r])]
                    ELSE account
    /\ Goto(r, "shares")
    /\ UNCHANGED <<tPlus, positions, bought, reset, log, today, paperUsed>>

\* A sell is refused, or fails on pos.get when there was no position before.
Sellable(r, available) ==
    IF available < req[r].qty \/ req[r].id = 0 THEN Leave(r) ELSE Goto(r, "payIn")

\* _get_available_quantity reads the position again ...
ReadHeld(r) ==
    /\ req[r].pc = "held"
    /\ IF tPlus /\ positions # <<>>
         THEN req' = [req EXCEPT ![r].avail = FirstPosition.qty, ![r].pc = "trades"]
         ELSE Sellable(r, FirstPosition.qty)
    /\ UNCHANGED <<tPlus, account, positions, bought, reset, log, today, paperUsed>>

\* Mutant: the buys of the day are read and not deducted.
ReadTrades_Ignored(r) ==
    /\ req[r].pc = "trades"
    /\ Sellable(r, req[r].avail)
    /\ UNCHANGED <<tPlus, account, positions, bought, reset, log, today, paperUsed>>

\* ... and, where T+1 holds, the buys of the day.
ReadTrades(r) ==
    /\ req[r].pc = "trades"
    /\ Sellable(r, IF req[r].avail > bought THEN req[r].avail - bought ELSE 0)
    /\ UNCHANGED <<tPlus, account, positions, bought, reset, log, today, paperUsed>>

\* $inc of the balance.
PayIn(r) ==
    /\ req[r].pc = "payIn"
    /\ account' = IF account.exists
                    THEN [account EXCEPT !.cash = @ + Proceeds(req[r])]
                    ELSE account
    /\ Goto(r, "shares")
    /\ UNCHANGED <<tPlus, positions, bought, reset, log, today, paperUsed>>

\* Quantities are computed from the position read first.
WriteShares(r) ==
    /\ req[r].pc = "shares"
    /\ LET o == req[r]
           new == o.held + ShareChange(o)
       IN  positions' = IF o.id = 0 THEN Append(positions, [id |-> o.n, qty |-> o.qty])
                        ELSE IF new = 0 THEN DeletePosition(o.id)
                        ELSE SetQuantity(o.id, new)
    /\ Goto(r, "trade")
    /\ UNCHANGED <<tPlus, account, bought, reset, log, today, paperUsed>>

\* What an order that ends once it has paid has done.
Entry(o) == [cash |-> CashChange(o),
             shares |-> IF o.pc = "trade" THEN ShareChange(o) ELSE 0,
             disturbed |-> o.disturbed]

\* The trade carries the time the request took before it wrote anything.
RecordTrade(r) ==
    /\ req[r].pc = "trade"
    /\ LET o == req[r]
       IN  /\ bought' = IF o.side = "buy" /\ ~o.old THEN bought + o.qty ELSE bought
           /\ log' = Append(log, Entry(o))
           /\ today' = [today EXCEPT !.sold = IF o.side = "sell" THEN @ + o.qty ELSE @]
    /\ Leave(r)
    /\ UNCHANGED <<tPlus, account, positions, reset, paperUsed>>

\* A Mongo command raises: the request ends where it is, and what it has
\* written stays.
OrderFails(r) ==
    /\ Busy(r)
    /\ Spend("mishaps", MaxMishaps)
    /\ log' = IF req[r].pc \in {"shares", "trade"} THEN Append(log, Entry(req[r])) ELSE log
    /\ today' = [today EXCEPT !.clean = FALSE]
    /\ Leave(r)
    /\ UNCHANGED <<tPlus, account, positions, bought, reset>>

-----------------------------------------------------------------------------
(* reset_account: four collections one after the other, then a new account *)

\* The account goes first, with what the orders did to its balance.  An order in
\* progress may have read it and write it to the next account: then these
\* effects may survive.
StartReset ==
    /\ reset = "idle"
    /\ Spend("mishaps", MaxMishaps)
    /\ reset' = "positions"
    /\ account' = [exists |-> FALSE, cash |-> 0]
    /\ req' = [r \in Requests |-> [req[r] EXCEPT !.disturbed = Busy(r)]]
    /\ log' = [i \in DOMAIN log |-> IF AtRest THEN [log[i] EXCEPT !.cash = 0]
                                    ELSE [log[i] EXCEPT !.disturbed = TRUE]]
    /\ today' = [today EXCEPT !.clean = @ /\ AtRest]
    /\ UNCHANGED <<tPlus, positions, bought>>

ResetPositions ==
    /\ reset = "positions"
    /\ reset' = "trades"
    /\ positions' = <<>>
    /\ log' = [i \in DOMAIN log |-> [log[i] EXCEPT !.shares = 0,
                                        !.disturbed = @ /\ log[i].cash # 0]]
    /\ UNCHANGED <<tPlus, account, bought, req, today, paperUsed>>

ResetTrades ==
    /\ reset = "trades"
    /\ reset' = "create"
    /\ bought' = 0
    /\ today' = [today EXCEPT !.start = 0, !.sold = 0]
    /\ UNCHANGED <<tPlus, account, positions, req, log, paperUsed>>

ResetAccount ==
    /\ reset = "create"
    /\ reset' = "idle"
    /\ CreateAccount
    /\ UNCHANGED <<tPlus, positions, bought, req, log, today, paperUsed>>

\* A Mongo command raises, or the process dies, between two of the four: what
\* is deleted stays deleted and the rest stays, for the next account to find.
ResetFails ==
    /\ reset # "idle"
    /\ reset' = "idle"
    /\ today' = [today EXCEPT !.clean = FALSE]
    /\ UNCHANGED <<tPlus, account, positions, bought, req, log, paperUsed>>

-----------------------------------------------------------------------------
NextDay ==
    /\ Spend("mishaps", MaxMishaps)
    /\ bought' = 0
    /\ req' = [r \in Requests |-> [req[r] EXCEPT !.old = Busy(r)]]
    /\ today' = [start |-> Shares, sold |-> 0,
                 clean |-> AtRest /\ \A i \in DOMAIN log : ~log[i].disturbed]
    /\ UNCHANGED <<tPlus, account, positions, reset, log>>

PaperNext ==
    \/ \E r \in Requests :
        \/ \E side \in {"buy", "sell"}, qty \in Quantities : PlaceOrder(r, side, qty)
        \/ ReadAccount(r) \/ OpenAccount(r) \/ NoPrice(r)
        \/ \E price \in Prices : ReadPosition(r, price)
        \/ Pay(r) \/ ReadHeld(r) \/ ReadTrades(r) \/ PayIn(r)
        \/ WriteShares(r) \/ RecordTrade(r) \/ OrderFails(r)
    \/ ViewAccount
    \/ StartReset \/ ResetPositions \/ ResetTrades \/ ResetAccount \/ ResetFails
    \/ NextDay

PaperSpec == PaperInit /\ [][PaperNext]_paperVars

-----------------------------------------------------------------------------
(* Properties                                                              *)

Places == {"idle", "account", "create", "position", "pay", "held", "trades",
           "payIn", "shares", "trade"}

\* Types of all variables.
PaperTypeOK ==
    /\ tPlus \in BOOLEAN
    /\ account \in [exists: BOOLEAN, cash: Int]
    /\ positions \in Seq([id: Nat, qty: Int])
    /\ bought \in Nat
    /\ req \in [Requests -> [n: Nat, pc: Places, side: {"buy", "sell"}, qty: Nat, price: Nat,
                             cash: Int, id: Nat, held: Int, avail: Int,
                             old: BOOLEAN, disturbed: BOOLEAN]]
    /\ reset \in {"idle", "positions", "trades", "create"}
    /\ log \in Seq([cash: Int, shares: Int, disturbed: BOOLEAN])
    /\ today \in [start: Int, sold: Nat, clean: BOOLEAN]
    /\ paperUsed \in [{"orders", "mishaps"} -> Nat]

\* When nothing is in progress, the balance is the initial cash plus what the
\* orders since the account was opened have moved, and the shares are what the
\* orders since the positions were last deleted have moved.  A failed order
\* counts for what it had written, and a reset that failed after its first
\* command has taken the first and not the second.  Each of the two effects of
\* an order that overlapped another request may be lost, in full and without
\* the other (two buys may overwrite each other's balance and open a position
\* each); without overlap nothing is lost.
OrdersAccountedFor ==
    LET Effects(f, initial, actual) ==
          \E lost \in SUBSET {i \in DOMAIN log : log[i].disturbed} :
             actual = initial + SumFunctionOnSet(f, DOMAIN log \ lost)
    IN  AtRest =>
          /\ account.exists =>
               Effects([i \in DOMAIN log |-> log[i].cash], InitialCash, account.cash)
          /\ Effects([i \in DOMAIN log |-> log[i].shares], 0, Shares)

\* T+1: of an account whose requests have neither overlapped nor failed, no more
\* is sold in a day than was held when it began.
OnlySettledSharesSold == tPlus /\ today.clean => today.sold <= today.start

\* No interleaving overdraws the account by buying: the balance is negative
\* only after a sale whose fees exceeded it (nothing in the code tests that).
CashNeverNegative ==
    account.cash >= 0 \/ \E p \in Prices, q \in Quantities : p * q < Fee

=============================================================================
