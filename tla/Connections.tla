---------------------------- MODULE Connections -----------------------------
(***************************************************************************)
(* The broker connections of a tenant as an administrator works on them:   *)
(* frontend/components/connections.tsx over the registry of the API.       *)
(*                                                                         *)
(* `registry' has a row [status, login] per connection there may be (NEW,  *)
(* then one of Statuses, then REMOVED; login: the credentials are saved or *)
(* the brokerage is linked), `list' the query that shows it and `gaveWay'  *)
(* says that its error took the place of the cards.  A card is [busy, form,*)
(* box, link], busy the number of its command (0: none).  `flight' holds   *)
(* the commands without an answer.                                         *)
(***************************************************************************)
EXTENDS QueryCache, FiniteSets

CONSTANTS
  Gateways, SnapTrades,    \* the connections there may be, by provider
  Registered,              \* those there are when the panel is opened
  MaxIssued, MaxTroubles   \* bounds; a trouble is a failed fetch, a lost answer or another's change
ASSUME ConnectionsAssumption ==
  Registered \subseteq Gateways \cup SnapTrades /\ {MaxIssued, MaxTroubles} \subseteq Nat

VARIABLES registry, list, gaveWay, adding, cards, flight, issued, troubles,
          unread,   \* something changed that the list was not asked for after
          upset     \* cards that were busy made way for an error
connectionVars == <<registry, list, gaveWay, adding, cards, flight, issued,
                    troubles, unread, upset>>

Ids == Gateways \cup SnapTrades
Statuses == {"DRAFT", "ENABLED", "DISABLED"}
NewCard == [busy |-> 0, form |-> FALSE, box |-> FALSE, link |-> FALSE]
Mounted(q, error) == IF q.loaded /\ ~error THEN {id \in Ids : q.data[id].status \in Statuses} ELSE {}
Present == Mounted(list, gaveWay)

ConnectionsInit ==
  /\ registry = [id \in Ids |-> [status |-> IF id \in Registered THEN "DRAFT" ELSE "NEW", login |-> FALSE]]
  /\ list = NewQuery /\ gaveWay = FALSE /\ adding = FALSE
  /\ cards = [id \in Ids |-> NewCard] /\ flight = {} /\ issued = 0
  /\ troubles = 0 /\ unread = FALSE /\ upset = FALSE

\* The cards after a step: one whose row is gone is unmounted, with its state.
Cards(new) == cards' = [id \in Ids |-> IF id \in Mounted(list', gaveWay') THEN new[id] ELSE NewCard]
Untouched == UNCHANGED <<registry, list, gaveWay, issued, troubles, unread, upset>>
\* The first answer is not stopped, and may have been read before.
AskAnew(missed) ==
  list' = Invalidated(list) /\ unread' = (missed /\ ~list.loaded /\ list.fetch = "answered")

-----------------------------------------------------------------------------
\* The buttons of the panel and of a card.
ToggleAdding ==
  /\ ~gaveWay /\ adding' = ~adding
  /\ UNCHANGED <<cards, flight>> /\ Untouched
ToggleForm(id) ==
  /\ id \in Gateways \cap Present /\ Cards([cards EXCEPT ![id].form = ~@])
OpenBox(id) ==
  /\ id \in Present /\ cards[id].busy = 0 /\ ~cards[id].box /\ Cards([cards EXCEPT ![id].box = TRUE])
KeepIt(id) ==
  /\ id \in Present /\ cards[id].box /\ Cards([cards EXCEPT ![id].box = FALSE])
Press ==
  /\ Untouched /\ UNCHANGED <<adding, flight>>
  /\ \E id \in Ids : ToggleForm(id) \/ OpenBox(id) \/ KeepIt(id)

\* run(): the card is busy until the answer.
Offered(id) ==
  LET row == list.data[id] IN
  {IF row.status = "ENABLED" THEN "disable" ELSE "enable"}
  \cup (IF id \in Gateways THEN {"start", "reconnect"} ELSE {"link", "check"})
  \cup (IF cards[id].form THEN {"save"} ELSE {})
  \cup (IF cards[id].box THEN {"remove"} ELSE {})
Issue(what, id) ==
  /\ issued < MaxIssued /\ issued' = issued + 1
  /\ flight' = flight \cup {[n |-> issued + 1, what |-> what, id |-> id, at |-> "sent"]}
  /\ UNCHANGED <<registry, list, gaveWay, adding, troubles, unread, upset>>
Command ==
  \E id \in Present :
    /\ cards[id].busy = 0 /\ \E what \in Offered(id) : Issue(what, id)
    /\ Cards([cards EXCEPT ![id].busy = issued + 1])
Create ==
  /\ adding /\ ~gaveWay /\ ~\E c \in flight : c.what = "create"
  /\ \E id \in Ids : Issue("create", id)
  /\ UNCHANGED cards

-----------------------------------------------------------------------------
\* The API carries a command out, or refuses it; it does not know a
\* connection that is removed.
Outcome(c) ==
  LET row == registry[c.id] IN
  CASE c.what = "create"  -> [status |-> "DRAFT", login |-> FALSE]
    [] c.what = "enable"  -> [row EXCEPT !.status = "ENABLED"]
    [] c.what = "disable" -> [row EXCEPT !.status = "DISABLED"]
    [] c.what = "save"    -> [row EXCEPT !.login = TRUE]
    [] c.what = "check"   -> [row EXCEPT !.login = TRUE]
    [] c.what = "remove"  -> [row EXCEPT !.status = "REMOVED"]
    [] OTHER              -> row
Known(c) == IF c.what = "create" THEN registry[c.id].status = "NEW" ELSE registry[c.id].status \in Statuses
Pass(c, at) == flight' = (flight \ {c}) \cup {[c EXCEPT !.at = at]}
CarryOut ==
  /\ \E c \in flight :
       /\ c.at = "sent"
       /\ \/ /\ Known(c) /\ registry' = [registry EXCEPT ![c.id] = Outcome(c)] /\ Pass(c, "done")
          \/ /\ UNCHANGED registry /\ Pass(c, "refused")
  /\ UNCHANGED <<list, gaveWay, adding, cards, issued, troubles, unread, upset>>

\* The answer: a success asks for the list anew and may leave a link or
\* close the form; a refusal, or an answer that is lost, only says so.
Finish(c, new) ==
  [id \in Ids |-> IF id = c.id /\ cards[id].busy = c.n THEN new ELSE cards[id]]
Acknowledge ==
  /\ \E c \in flight :
       /\ c.at = "done" /\ flight' = flight \ {c}
       /\ adding' = (adding /\ c.what # "create")
       /\ AskAnew(TRUE) /\ UNCHANGED gaveWay
       /\ LET card == cards[c.id] IN
          Cards(Finish(c, [card EXCEPT !.busy = 0, !.form = (@ /\ c.what # "save"),
                                       !.link = (@ \/ c.what = "link")]))
  /\ UNCHANGED <<registry, issued, troubles, upset>>
Complain ==
  /\ \E c \in flight :
       /\ c.at \in {"done", "refused"} /\ flight' = flight \ {c}
       /\ unread' = (unread \/ c.at = "done") /\ UNCHANGED <<list, gaveWay>>
       /\ c.at = "done" => troubles < MaxTroubles
       /\ troubles' = IF c.at = "done" THEN troubles + 1 ELSE troubles
       /\ Cards(Finish(c, [cards[c.id] EXCEPT !.busy = 0]))
  /\ UNCHANGED <<registry, adding, issued, upset>>

\* Another administrator removes a connection, or changes its status.
ChangedElsewhere ==
  /\ troubles < MaxTroubles /\ troubles' = troubles + 1
  /\ \E id \in Ids, status \in {"DISABLED", "REMOVED"} :
       /\ registry[id].status \in Statuses \ {status}
       /\ registry' = [registry EXCEPT ![id].status = status]
  /\ unread' = (unread \/ list.fetch # "asked")
  /\ UNCHANGED <<list, gaveWay, adding, cards, flight, issued, upset>>
-----------------------------------------------------------------------------
\* The query of the list: read, answered, failed; asked anew when the live
\* socket is acknowledged.
ListRead ==
  /\ list.fetch = "asked" /\ list' = AnsweredWith(list, registry)
  /\ UNCHANGED <<gaveWay, cards, troubles, unread, upset>>
ListArrives ==
  /\ list.fetch = "answered" /\ list' = Arrived(list) /\ gaveWay' = FALSE /\ Cards(cards)
  /\ UNCHANGED <<troubles, unread, upset>>
ListFails ==
  /\ ~NotFetching(list) /\ troubles < MaxTroubles /\ troubles' = troubles + 1
  /\ list' = Failed(list) /\ gaveWay' = (gaveWay \/ NotFetching(list')) /\ Cards(cards)
  /\ unread' = (unread /\ list'.fetch # "asked") /\ upset' = (upset \/ (gaveWay' /\ flight # {}))
Resubscribed ==
  /\ AskAnew(unread) /\ UNCHANGED <<gaveWay, cards, troubles, upset>>
ListMoves ==
  /\ ListRead \/ ListArrives \/ ListFails \/ Resubscribed
  /\ UNCHANGED <<registry, adding, flight, issued>>

ConnectionsNext ==
  \/ ToggleAdding \/ Press \/ Command \/ Create
  \/ CarryOut \/ Acknowledge \/ Complain \/ ChangedElsewhere \/ ListMoves
ConnectionsSpec == ConnectionsInit /\ [][ConnectionsNext]_connectionVars

-----------------------------------------------------------------------------
\* The types of the panel's state.
ConnectionsTypeOK ==
  /\ registry \in [Ids -> [status : Statuses \cup {"NEW", "REMOVED"}, login : BOOLEAN]]
  /\ list.fetch \in {"idle", "asked", "answered"} /\ {gaveWay, adding, unread, upset} \subseteq BOOLEAN
  /\ cards \in [Ids -> [busy : 0..MaxIssued, form : BOOLEAN, box : BOOLEAN, link : BOOLEAN]]

\* The list follows its commands: with every command answered and no answer
\* on its way, the cards are the registry, whichever of the commands, their
\* answers and the older answers to the list came first (refresh, 57-62).
ListFollows ==
  NotFetching(list) /\ list.loaded /\ ~gaveWay /\ ~unread /\ (\A c \in flight : c.at = "sent")
    => list.data = registry

\* A connection has one command under way, however its card comes and goes:
\* only an error in place of the cards forgets that they are busy.
OneCommandPerConnection ==
  ~upset => \A c, d \in flight : c.id = d.id /\ c.what # "create" /\ d.what # "create" => c = d
=============================================================================
