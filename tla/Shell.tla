------------------------------- MODULE Shell --------------------------------
(***************************************************************************)
(* The frame of the dashboard (frontend/components/dashboard.tsx): who the *)
(* user is, which view is open, which accounts and which currency the      *)
(* totals are of, and the life of the live socket that the frame opens     *)
(* (connectLive of lib/live.ts) and replaces when the accounts change.     *)
(*                                                                         *)
(* `principal' and `granted' are what the API knows; `me' and `accounts'   *)
(* are the cached copies.  A connector is one call of connectLive: it is   *)
(* [n, of, stage], `of' the accounts it subscribes to; one whose effect    *)
(* was cleaned up is stopped and at most closing.                          *)
(***************************************************************************)
EXTENDS Naturals, FiniteSets

CONSTANTS
  TenantRoles,                     \* of OWNER, ADMIN, TRADER and VIEWER
  AccountIds, AccountCurrencies,   \* with "BASE" among the currencies
  MaxTurns                         \* bound on what changes at the API, the user does and the line does
ASSUME ShellAssumption ==
  "BASE" \in AccountCurrencies /\ MaxTurns \in Nat /\ IsFiniteSet(AccountIds)

VARIABLES principal, granted, me, accounts, requested, currency, connectors, calls, online, turns
shellVars == <<principal, granted, me, accounts, requested, currency, connectors, calls, online, turns>>

NoOne == "no one"
Nobody == [super |-> FALSE, role |-> NoOne]
Principals == [super : BOOLEAN, role : TenantRoles]
IsTenantAdmin(p) == p.super \/ p.role \in {"OWNER", "ADMIN"}

\* NAV and what of it is shown to whom.
MonitorViews == {"RMS", "Overview"}   \* and six more that behave as Overview does
TenantViews == {"Connections", "Members"}
AdminViews == TenantViews \cup {"Tenants"}
Views == MonitorViews \cup AdminViews \cup {"Profile"}
VisibleNav(admin, platform) ==
  {v \in Views : (v \in TenantViews => admin) /\ (v = "Tenants" => platform)}
View ==
  IF (~IsTenantAdmin(me) /\ requested \in AdminViews) \/ (~me.super /\ requested = "Tenants")
  THEN "RMS" ELSE requested

\* The currency of the totals: one of those of the accounts, or all of them.
AllAccounts == "All accounts"
CurrenciesOf(a) == {a[id] : id \in DOMAIN a} \ {"BASE"}
First == CHOOSE c \in CurrenciesOf(accounts) : TRUE
ActiveCurrency ==
  IF currency = AllAccounts \/ currency \in CurrenciesOf(accounts) THEN currency
  ELSE IF CurrenciesOf(accounts) = {} THEN NoOne ELSE First
Aggregating == ActiveCurrency = AllAccounts
Monetary == {id \in DOMAIN accounts : Aggregating \/ accounts[id] = ActiveCurrency}
\* Mutant: two currencies do not count as mixed.
MixedOfMany == Aggregating /\ Cardinality(CurrenciesOf(accounts)) > 2
Mixed == Aggregating /\ Cardinality(CurrenciesOf(accounts)) > 1
CurrencyLabel ==
  IF ~Aggregating THEN ActiveCurrency
  ELSE IF Mixed THEN "MIXED"
  ELSE IF CurrenciesOf(accounts) = {} THEN NoOne ELSE First

Grants == UNION {[s -> AccountCurrencies] : s \in SUBSET AccountIds}
NoAccounts == CHOOSE g \in Grants : DOMAIN g = {}
ShellInit ==
  /\ principal \in Principals /\ granted \in Grants
  /\ me = Nobody /\ accounts = NoAccounts
  /\ requested \in Views /\ currency = NoOne
  /\ connectors = {} /\ calls = 0 /\ online = FALSE /\ turns = 0

-----------------------------------------------------------------------------
\* The API changes its mind; the queries fetch what it says.
Turn == turns < MaxTurns /\ turns' = turns + 1
RoleChanges ==
  /\ Turn /\ principal' \in Principals \ {principal}
  /\ UNCHANGED <<granted, me, accounts, requested, currency, connectors, calls, online>>
GrantsChange ==
  /\ Turn /\ granted' \in Grants \ {granted}
  /\ UNCHANGED <<principal, me, accounts, requested, currency, connectors, calls, online>>
MeFetched ==
  /\ me # principal /\ me' = principal
  /\ UNCHANGED <<principal, granted, accounts, requested, currency, connectors, calls, online, turns>>
AccountsFetched ==
  /\ me # Nobody /\ accounts # granted /\ accounts' = granted
  /\ UNCHANGED <<principal, granted, me, requested, currency, connectors, calls, online, turns>>

ShowView ==
  /\ Turn /\ requested' \in VisibleNav(IsTenantAdmin(me), me.super)
  /\ UNCHANGED <<principal, granted, me, accounts, currency, connectors, calls, online>>
PickCurrency ==
  /\ Turn /\ Cardinality(CurrenciesOf(accounts)) > 1
  /\ View \notin AdminViews \cup {"Profile", "RMS"}
  /\ currency' \in CurrenciesOf(accounts) \cup {AllAccounts}
  /\ UNCHANGED <<principal, granted, me, accounts, requested, connectors, calls, online>>

-----------------------------------------------------------------------------
\* What the live socket is asked for: everything, the accounts, or nothing.
Allowed == IF me.super THEN {"*"} ELSE DOMAIN accounts
Running == {c \in connectors : c.stage # "closing"}
\* The effect runs anew when `allowed' has changed: the cleanup stops the old
\* connector, its timer and its socket, and a new one connects.
Stopped(cs) == {[c EXCEPT !.stage = "closing"] : c \in {d \in cs : d.stage # "waiting"}}
LiveEffect ==
  /\ {c.of : c \in Running} # {Allowed} \ {{}}
  /\ connectors' = Stopped(connectors) \cup
       (IF Allowed = {} THEN {} ELSE {[n |-> calls, of |-> Allowed, stage |-> "opening"]})
  /\ calls' = calls + 1
  /\ UNCHANGED <<principal, granted, me, accounts, requested, currency, online, turns>>

Becomes(c, stage) == connectors' = (connectors \ {c}) \cup {[c EXCEPT !.stage = stage]}
Acknowledged(c) == c.stage = "opening" /\ Becomes(c, "live") /\ online' = TRUE /\ UNCHANGED turns
\* Mutant: a connector that was stopped tries again as well.
OnCloseAlways(c) ==
  /\ online' = FALSE /\ Turn
  /\ c.stage \in {"closing", "opening", "live"} /\ Becomes(c, "waiting")
\* onclose: only a connector that was not stopped tries again.
OnClose(c) ==
  /\ online' = FALSE
  /\ \/ c.stage = "closing" /\ connectors' = connectors \ {c} /\ UNCHANGED turns
     \/ c.stage \in {"opening", "live"} /\ Turn /\ Becomes(c, "waiting")
Retry(c) == c.stage = "waiting" /\ Becomes(c, "opening") /\ UNCHANGED <<online, turns>>
SocketMoves ==
  /\ \E c \in connectors : Acknowledged(c) \/ OnClose(c) \/ Retry(c)
  /\ UNCHANGED <<principal, granted, me, accounts, requested, currency, calls>>

ShellNext ==
  \/ RoleChanges \/ GrantsChange \/ MeFetched \/ AccountsFetched
  \/ ShowView \/ PickCurrency \/ LiveEffect \/ SocketMoves
ShellSpec == ShellInit /\ [][ShellNext]_shellVars

-----------------------------------------------------------------------------
\* The types of the frame's state.
ShellTypeOK ==
  /\ principal \in Principals /\ me \in Principals \cup {Nobody} /\ {granted, accounts} \subseteq Grants
  /\ requested \in Views /\ online \in BOOLEAN /\ calls \in Nat
  /\ \A c \in connectors : c.stage \in {"opening", "live", "waiting", "closing"}

\* A total that is not marked as mixed is of one currency, the one it is
\* labelled with, also after the accounts of the chosen currency are gone
\* (an account reported in BASE belongs to any).
FigureIsOneCurrency ==
  ~Mixed => \A id \in Monetary : accounts[id] \in {CurrencyLabel, "BASE"}

\* However often the accounts change and the line goes, one socket at most is
\* open or about to be: no event is applied twice, and no connector outlives
\* its effect.  LIVE is shown only of a socket that is acknowledged, or until
\* the one that is replaced has closed.
OneSocket ==
  /\ Cardinality(Running) <= 1
  /\ online => \E c \in connectors : c.stage \in {"live", "closing"}
=============================================================================
