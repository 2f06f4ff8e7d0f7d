----------------------------- MODULE LiveCache ------------------------------
(***************************************************************************)
(* The rows on the screen: the queries of frontend/components/             *)
(* dashboard.tsx, the events that frontend/lib/live.ts applies to them,    *)
(* and the live socket of lib/live.ts and backend/app/main.py.             *)
(*                                                                         *)
(* The server keeps `stage', how far each contract and each order has come *)
(* (0: there is none), and `log', the stream of events; `cursor' is how    *)
(* much of it has passed the socket, which delivers in order.  The browser *)
(* keeps a query for the rows of a kind (the positions or the orders: they *)
(* do not touch each other, so a behaviour follows one) and one for the    *)
(* accounts, which say how many rows there are.  A row is [id, perm,       *)
(* stage].  `behind' holds the lists whose last answer was read before     *)
(* something the browser has been told since, or failed to come.           *)
(***************************************************************************)
EXTENDS QueryCache, Sequences, SequencesExt

CONSTANTS
  Contracts, Orders,
  MaxChanges, MaxFaults   \* bounds; a dead line is a fault, a failed fetch, a lost event
ASSUME LiveAssumption == IsFiniteSet(Contracts) /\ IsFiniteSet(Orders)

VARIABLES kind, stage, log, cursor, socket, connected, query, behind, faults
liveVars == <<kind, stage, log, cursor, socket, connected, query, behind, faults>>
Server == <<kind, stage, log>>

Lists == {"rows", "accounts"}
Items == IF kind = "positions" THEN Contracts ELSE Orders

\* An order is first known by its client's number, then by IBKR's, and is
\* gone once its status is terminal.
Terminal == 3
Row(id, n) == [id |-> id, perm |-> kind = "orders" /\ n > 1, stage |-> n]
Gone(row) == row.stage = 0 \/ (kind = "orders" /\ row.stage = Terminal)
OpenRows == {row \in {Row(id, stage[id]) : id \in Items} : ~Gone(row)}

\* What the API answers.
Stored(list) == IF list = "rows" THEN SetToSeq(OpenRows) ELSE <<Cardinality(OpenRows)>>

LiveInit ==
  /\ kind \in {"positions", "orders"}
  /\ stage = [id \in Items |-> 0] /\ log = <<>> /\ cursor = 0
  /\ socket = "closed" /\ connected = FALSE
  /\ query = [list \in Lists |-> NewQuery]
  /\ behind = {} /\ faults = 0

-----------------------------------------------------------------------------
\* The broker session changes a row and publishes the event, or publishes
\* the orders it found open, some of which may have moved without an event.
Publish(event) ==
  /\ Len(log) < MaxChanges /\ log' = Append(log, event)
  /\ UNCHANGED <<cursor, socket, connected, query, behind>>
Change(id, n) ==
  /\ stage' = [stage EXCEPT ![id] = n] /\ UNCHANGED kind
  /\ Publish([rows |-> <<Row(id, n)>>, all |-> FALSE]) /\ UNCHANGED faults
PositionChanges ==
  kind = "positions" /\ \E c \in Contracts : Change(c, IF stage[c] = 1 THEN 2 ELSE 1)
PositionCloses == kind = "positions" /\ \E c \in Contracts : stage[c] # 0 /\ Change(c, 0)
OrderMoves ==
  kind = "orders" /\ \E o \in Orders : stage[o] < Terminal /\ Change(o, stage[o] + 1)
OrdersReconciled ==
  /\ kind = "orders" /\ UNCHANGED kind
  /\ stage' \in [Orders -> 0..Terminal] /\ \A o \in Orders : stage'[o] >= stage[o]
  /\ \/ stage' = stage /\ UNCHANGED faults
     \/ stage' # stage /\ faults < MaxFaults /\ faults' = faults + 1
  /\ Publish([rows |-> Stored("rows")', all |-> TRUE])

\* The API accepts a socket at the end of the stream.  An event that passes
\* before the browser has subscribed is sent to nobody.
Accept ==
  /\ socket = "closed" /\ socket' = "accepted" /\ cursor' = Len(log)
  /\ UNCHANGED <<Server, connected, query, behind, faults>>
Skip ==
  /\ socket = "accepted" /\ cursor < Len(log) /\ cursor' = cursor + 1
  /\ UNCHANGED <<Server, socket, connected, query, behind, faults>>
Subscribe ==
  /\ socket = "accepted" /\ socket' = "subscribed"
  /\ UNCHANGED <<Server, cursor, connected, query, behind, faults>>

\* The line goes dead; what was on it is lost.  The browser notices when no
\* pong has come for 40 seconds, or at once when the socket is closed.
LineDies ==
  /\ faults < MaxFaults /\ faults' = faults + 1
  /\ socket \notin {"closed", "dead"} /\ socket' = "dead"
  /\ UNCHANGED <<Server, cursor, connected, query, behind>>
Closed ==
  /\ socket = "dead" /\ socket' = "closed" /\ connected' = FALSE
  /\ UNCHANGED <<Server, cursor, query, behind, faults>>

-----------------------------------------------------------------------------
\* applyEvent() on one list of rows.
Same(row, data) ==
  \/ row.id = data.id /\ row.perm = data.perm
  \/ row.id = data.id /\ data.perm /\ ~row.perm
Applied(rows, data) ==
  LET at == {i \in DOMAIN rows : Same(rows[i], data)}
      index == CHOOSE i \in at : \A j \in at : i <= j
      others == IF at = {} THEN rows ELSE RemoveAt(rows, index)
  IN IF Gone(data) THEN others
     ELSE IF kind = "orders" THEN <<data>> \o others
     ELSE IF at = {} THEN Append(rows, data) ELSE [rows EXCEPT ![index] = data]

\* Told of something newer while an older answer is on its way; a new fetch
\* of a list mends it.
Behind(lists) ==
  {l \in behind \cup {k \in lists : query[k].fetch = "answered"} : query'[l].fetch # "asked"}

\* A list that has not arrived is left alone; the accounts are fetched again
\* when the number of rows may have changed.
HandleEvent ==
  LET event == log[cursor + 1]
      old == query["rows"]
      new == IF ~old.loaded THEN old
             ELSE Updated(old, IF event.all THEN event.rows ELSE Applied(old.data, event.rows[1]))
      counts == ~old.loaded \/ Len(new.data) # Len(old.data)
      \* The rows had been read after the event, the accounts perhaps before.
      known == ~counts /\ (event.all \/ event.rows[1].stage = 1 \/ Gone(event.rows[1]))
      \* An event from before IBKR's number was known, after a row that has
      \* it: the order is on the screen twice, and one row outlives it.
      twice == old.loaded /\ \E i, j \in DOMAIN new.data : i # j /\ new.data[i].id = new.data[j].id
  IN /\ socket \in {"subscribed", "live"} /\ cursor < Len(log) /\ cursor' = cursor + 1
     /\ query' = [query EXCEPT !["rows"] = new,
                    !["accounts"] = IF counts THEN Invalidated(@) ELSE @]
     /\ behind' = Behind(IF counts THEN Lists ELSE {"rows"})
                    \cup (IF known THEN {"accounts"} ELSE {}) \cup (IF twice THEN {"rows"} ELSE {})
     /\ UNCHANGED <<Server, socket, connected, faults>>
\* Mutant: nothing is fetched again.
HandleSubscribedOnly ==
  /\ socket = "subscribed" /\ socket' = "live" /\ connected' = TRUE
  /\ UNCHANGED <<Server, cursor, query, behind, faults>>
HandleSubscribed ==
  /\ socket = "subscribed" /\ socket' = "live" /\ connected' = TRUE
  /\ query' = [list \in Lists |-> Invalidated(query[list])]
  /\ behind' = Behind(Lists)
  /\ UNCHANGED <<Server, cursor, faults>>

\* The API reads its state, the answer arrives, or the fetch fails.
Fetch(list, q) ==
  /\ query' = [query EXCEPT ![list] = q]
  /\ UNCHANGED <<Server, cursor, socket, connected>>
Read ==
  \E l \in Lists :
    /\ query[l].fetch = "asked" /\ Fetch(l, AnsweredWith(query[l], Stored(l)))
    /\ UNCHANGED <<behind, faults>>
Arrive ==
  \E l \in Lists :
    /\ query[l].fetch = "answered" /\ Fetch(l, Arrived(query[l])) /\ UNCHANGED <<behind, faults>>
Fail ==
  \E l \in Lists :
    /\ ~NotFetching(query[l]) /\ faults < MaxFaults /\ faults' = faults + 1
    /\ Fetch(l, Failed(query[l]))
    /\ behind' = IF query'[l].fetch = "asked" THEN behind \ {l} ELSE behind \cup {l}

LiveNext ==
  \/ PositionChanges \/ PositionCloses \/ OrderMoves \/ OrdersReconciled
  \/ Accept \/ Skip \/ Subscribe \/ LineDies \/ Closed
  \/ HandleEvent \/ HandleSubscribed \/ Read \/ Arrive \/ Fail
LiveSpec == LiveInit /\ [][LiveNext]_liveVars

-----------------------------------------------------------------------------
Shown == query["rows"].data
AtRest ==
  /\ socket = "live" /\ cursor = Len(log)
  /\ \A list \in Lists : NotFetching(query[list]) /\ query[list].loaded

\* The types of the cache and of the socket.
LiveTypeOK ==
  /\ socket \in {"closed", "accepted", "subscribed", "live", "dead"}
  /\ cursor \in 0..Len(log) /\ connected \in BOOLEAN /\ behind \subseteq Lists
  /\ \A list \in Lists : query[list].fetch \in {"idle", "asked", "answered"}

\* No contract is on the screen twice, however events, answers and sockets
\* follow on each other (the identity of live.ts 87-94), and gaps are
\* recovered: once the acknowledgement of a subscription has been handled and
\* nothing is on its way, the rows and the counts are those of the server,
\* whatever was missed while the socket was down, unless an answer was
\* overtaken or a fetch failed twice (live.ts 131-138, 175-183).
OneRowPerContract ==
  kind = "positions" /\ query["rows"].loaded =>
    \A i, j \in DOMAIN Shown : Shown[i].id = Shown[j].id => i = j
GapsRecovered ==
  /\ OneRowPerContract
  /\ AtRest /\ "rows" \notin behind => ToSet(Shown) = OpenRows
  /\ AtRest /\ "accounts" \notin behind => query["accounts"].data = Stored("accounts")
=============================================================================
