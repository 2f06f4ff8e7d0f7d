----------------------------- MODULE MCFigures ------------------------------
(***************************************************************************)
(* The parts of the dashboard that compute what they show, in one run: the *)
(* pay-off panel, the table of executions, the day's profit and loss and   *)
(* the market clock.  They share no state, so a behaviour looks at one of  *)
(* them, chosen at the start, and leaves the others as they began.         *)
(***************************************************************************)
EXTENDS RiskPanel, ExecutionsTable, DayPnl, MarketHours

CONSTANTS
  A1, A2,
  MaxTogether       \* bound on what happens to the day's profit and loss and the clicks there
VARIABLE panel

Option(account, symbol, right, strike, expiry, quantity, und) ==
  [account |-> account, currency |-> "USD", symbol |-> symbol, type |-> "OPT",
   right |-> right, strike |-> strike, expiry |-> expiry, quantity |-> quantity,
   multiplier |-> 10, cost |-> {40}, price |-> {5}, und |-> und, unreal |-> {},
   contract |-> <<symbol, right, strike>>]
Stock(account, currency, symbol, quantity) ==
  [account |-> account, currency |-> currency, symbol |-> symbol, type |-> "STK",
   right |-> "", strike |-> 0, expiry |-> NoDate, quantity |-> quantity,
   multiplier |-> 1, cost |-> {90}, price |-> {100}, und |-> {}, unreal |-> {20},
   contract |-> <<symbol>>]
ThePool ==
  {Option(A1, "SPX", "C", 110, 1, -1, {100}), Option(A2, "SPX", "P", 90, 3, 1, {100}),
   Stock(A2, "USD", "ABC", 2), Option(A2, "XYZ", "C", 50, 1, 1, {})}
OneShort == {Stock(A2, "USD", "ABC", -1)}
NoPricesSaved == {[lens |-> "asset", percents |-> {10}, prices |-> {}, order |-> <<>>]}
TheBooked ==
  {[account |-> A1, key |-> "SPX", expiry |-> 1, contract |-> <<"SPX", "C", 110>>, pnl |-> 0, commission |-> 2],
   [account |-> A1, key |-> "SPX", expiry |-> 1, contract |-> <<"SPX", "P", 80>>, pnl |-> 30, commission |-> 3],
   [account |-> A2, key |-> "ABC", expiry |-> NoDate, contract |-> <<"ABC">>, pnl |-> -7, commission |-> 1]}
TheLevels == {5, -10}
TheSaved ==
  {[lens |-> "asset", percents |-> {10}, prices |-> {}, order |-> <<>>],
   [lens |-> "expiry", percents |-> {5, 10}, prices |-> {[symbol |-> "SPX", price |-> 110]},
    order |-> <<<<"pct", -10>>, <<"SPX", 110>>, <<"pct", 5>>, <<"pct", -10>>>>]}
TheCurrencies == <<"EUR", "USD">>

Execution(id, account, placed, type, symbol, buy, price, time, expiry, commission, pnl) ==
  [id |-> id, account |-> account, order |-> placed, type |-> type, symbol |-> symbol,
   buy |-> buy, price |-> price, quantity |-> 1, multiplier |-> 2, time |-> time,
   expiry |-> expiry, commission |-> {commission}, pnl |-> pnl]
TheSent ==
  {Execution(11, A1, 1, "BAG", "SPX", TRUE, 3, 3, NoExpiryDay, 0, {}),
   Execution(12, A1, 1, "OPT", "SPX", TRUE, 7, 3, 2, 2, {}),
   Execution(13, A1, 1, "OPT", "SPX", FALSE, 4, 3, 1, 1, {5}),
   Execution(14, A2, 1, "OPT", "SPX", FALSE, 0, 2, 1, 0, {9}),
   Execution(25, A2, 2, "STK", "ABC", FALSE, 6, 4, NoExpiryDay, 1, {})}
TheLate == {e \in TheSent : e.id = 12}

TheHoldings == (A1 :> {"ABC", "SPX"}) @@ (A2 :> {"ABC"})
TheEarnings == (A1 :> <<2, -3, 5, 1>>) @@ (A2 :> <<7, 7, -20, 11>>)
TheLegs == ("ABC" :> -9) @@ ("SPX" :> 4)
OneFeed == {{A1, A2}}
TwoFeeds == {{A1}, {A2}}

Init ==
  /\ RiskInit /\ ExecInit /\ PnlInit /\ HoursInit
  /\ panel \in {"risk", "executions", "pnl", "hours"}
  \* An instance is enough where the panel is not the one that moves.
  /\ panel # "risk" => order = <<>>
  /\ panel # "pnl" => onPage = NoAccount /\ \A a \in DeskAccounts : told[a].pnl = {}
Next ==
  /\ UNCHANGED panel
  /\ \/ panel = "risk" /\ RiskNext /\ UNCHANGED <<execVars, pnlVars, hoursVars>>
     \/ panel = "executions" /\ ExecNext /\ UNCHANGED <<riskVars, pnlVars, hoursVars>>
     \/ /\ panel = "pnl" /\ PnlNext /\ news' + pnlUses' <= MaxTogether
        /\ UNCHANGED <<riskVars, execVars, hoursVars>>
     \/ panel = "hours" /\ HoursNext /\ UNCHANGED <<riskVars, execVars, pnlVars>>
Spec == Init /\ [][Next]_<<panel, riskVars, execVars, pnlVars, hoursVars>>
=============================================================================
