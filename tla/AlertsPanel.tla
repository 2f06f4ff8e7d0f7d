---------------------------- MODULE AlertsPanel -----------------------------
(***************************************************************************)
(* The alert settings of a member: frontend/components/alerts-panel.tsx,   *)
(* /me/alerts of the API behind it and telegram_linker of the worker.      *)
(*                                                                         *)
(* `chat' says that a Telegram chat is linked, `codes' are the link codes  *)
(* that can still be used, `prefs' what each channel wants.  `settings' is *)
(* the query of the panel, `shownCode' the link code on the screen (0 for  *)
(* none), `posts' the calls without an answer.                          *)
(* What the panel cannot make good is recorded: `crossed' says that a save *)
(* was once under way with another save, an unlinking or a fetch, `astray' *)
(* that a link code or an invalidation was lost with the tab.  Another     *)
(* member who takes the chat over is left out.                             *)
(***************************************************************************)
EXTENDS QueryCache, FiniteSets

CONSTANTS Channels,   \* "personal" and, where there is one, "common"
          Triggers, Levels,
          MaxPosts, MaxTabs, MaxRefused   \* bounds
ASSUME AlertsAssumption == "personal" \in Channels /\ {MaxPosts, MaxTabs, MaxRefused} \subseteq Nat

VARIABLES chat, codes, prefs, settings, failing, marked, onTab, shownCode, posts,
          sent, tabs, refused, wanted, crossed, astray
alertVars == <<chat, codes, prefs, settings, failing, marked, onTab, shownCode, posts,
               sent, tabs, refused, wanted, crossed, astray>>

Wishes == [triggers : SUBSET Triggers, levels : SUBSET Levels]
AlertSettings == [linked |-> chat, prefs |-> prefs]
Flipped(set, x) == IF x \in set THEN set \ {x} ELSE set \cup {x}
\* What a member who sees `shown' wants who flips x.
Wanting(set, shown, x) == IF x \in shown THEN set \ {x} ELSE set \cup {x}
Requests(what) == {c \in posts : c.what = what}
Usable == onTab /\ settings.loaded /\ ~failing
Seen == settings.data

AlertsInit ==
  /\ chat \in BOOLEAN /\ codes = {} /\ prefs \in [Channels -> Wishes] /\ wanted = prefs
  /\ settings = NewQuery /\ failing = FALSE /\ marked = FALSE /\ onTab = TRUE
  /\ shownCode = 0 /\ posts = {} /\ sent = 0 /\ tabs = 0 /\ refused = 0
  /\ crossed = FALSE /\ astray = FALSE

ServerSide == <<chat, codes, prefs>>
Cached == <<settings, failing, marked>>
AlertBounds == <<sent, tabs, refused>>
Crosses == crossed' = (crossed \/ \E save \in posts' : save.what = "save" /\
             (~NotFetching(settings') \/ \E c \in posts' \ {save} : c.what # "link"))

-----------------------------------------------------------------------------
\* A request; the buttons are on the screen once the settings are.
Request(what, channel, patch) ==
  /\ Usable /\ sent < MaxPosts /\ sent' = sent + 1
  /\ posts' = posts \cup {[id |-> sent', what |-> what, channel |-> channel, patch |-> patch,
                           done |-> FALSE, orphan |-> FALSE, answer |-> Nothing]}
  /\ UNCHANGED <<ServerSide, Cached, onTab, shownCode, tabs, refused, astray>> /\ Crosses
\* One link at a time is asked for.
ConnectTelegram ==
  /\ Usable /\ ~Seen.linked /\ shownCode = 0 /\ \A c \in Requests("link") : c.orphan
  /\ Request("link", "personal", Nothing) /\ UNCHANGED wanted
Disconnect == Usable /\ Seen.linked /\ Request("unlink", "personal", Nothing) /\ UNCHANGED wanted
\* A patch always carries the triggers that are shown.
Toggle(channel, trigger) ==
  /\ Usable /\ (channel = "personal" => Seen.linked)
  /\ LET now == Seen.prefs[channel]
     IN /\ Request("save", channel, [triggers |-> Flipped(now.triggers, trigger)])
        /\ wanted' = [wanted EXCEPT ![channel].triggers = Wanting(@, now.triggers, trigger)]
AddOrRemove(channel, level) ==
  /\ Usable /\ (channel = "personal" => Seen.linked)
  /\ LET now == Seen.prefs[channel]
     IN /\ Request("save", channel, [triggers |-> now.triggers, levels |-> Flipped(now.levels, level)])
        /\ wanted' = [wanted EXCEPT ![channel].levels = Wanting(@, now.levels, level)]

Patched(wishes, patch) == [f \in DOMAIN wishes |-> IF f \in DOMAIN patch THEN patch[f] ELSE wishes[f]]
\* The API does what it is asked and answers with the settings or the code.
Done(c) ==
  /\ ~c.done
  /\ chat' = (chat /\ c.what # "unlink")
  /\ codes' = IF c.what = "link" THEN codes \cup {c.id} ELSE codes
  /\ prefs' = IF c.what = "save" THEN [prefs EXCEPT ![c.channel] = Patched(@, c.patch)] ELSE prefs
  /\ posts' = (posts \ {c}) \cup {[c EXCEPT !.done = TRUE, !.answer = AlertSettings']}
  /\ UNCHANGED <<Cached, onTab, shownCode, AlertBounds, wanted, crossed, astray>>
\* It refuses, and the switch stays where it was.
CallRefused(c) ==
  /\ ~c.done /\ refused < MaxRefused /\ refused' = refused + 1 /\ posts' = posts \ {c}
  /\ wanted' = IF c.what = "save" THEN prefs ELSE wanted
  /\ UNCHANGED <<ServerSide, Cached, onTab, shownCode, sent, tabs, crossed, astray>>

\* The code that is shown gives way as soon as a chat is.
ShowCode(code) == shownCode' = IF settings'.loaded /\ settings'.data.linked THEN 0 ELSE code
LinkAnswered(c) ==
  /\ c.what = "link" /\ UNCHANGED Cached
  /\ IF c.orphan THEN UNCHANGED shownCode /\ astray' = TRUE ELSE ShowCode(c.id) /\ UNCHANGED astray
\* Mutant: the settings are not asked for again.
UnlinkAnsweredOnly(c) ==
  /\ c.what = "unlink" /\ shownCode' = (IF c.orphan THEN shownCode ELSE 0)
  /\ UNCHANGED <<Cached, astray>>
\* Off the screen a query is only marked, and an answer takes the mark away.
UnlinkAnswered(c) ==
  /\ c.what = "unlink" /\ shownCode' = (IF c.orphan THEN shownCode ELSE 0)
  /\ settings' = (IF onTab THEN Invalidated(settings) ELSE settings) /\ marked' = TRUE
  /\ astray' = (astray \/ (~onTab /\ ~NotFetching(settings))) /\ UNCHANGED failing
SaveAnswered(c) ==
  /\ c.what = "save" /\ settings' = Updated(settings, c.answer) /\ failing' = FALSE
  /\ marked' = FALSE /\ ShowCode(shownCode) /\ UNCHANGED astray
Answered(c) ==
  /\ c.done /\ posts' = posts \ {c} /\ (LinkAnswered(c) \/ UnlinkAnswered(c) \/ SaveAnswered(c))
  /\ UNCHANGED <<ServerSide, onTab, AlertBounds, wanted>> /\ Crosses

-----------------------------------------------------------------------------
\* The member presses Start in Telegram; or fifteen minutes go by.
Starts(code) ==
  /\ code \in codes /\ codes' = codes \ {code} /\ chat' = TRUE
  /\ astray' = (astray \/ shownCode # code)
  /\ UNCHANGED <<prefs, Cached, onTab, shownCode, posts, AlertBounds, wanted, crossed>>
CodeExpires(code) ==
  /\ code \in codes /\ codes' = codes \ {code}
  /\ UNCHANGED <<chat, prefs, Cached, onTab, shownCode, posts, AlertBounds, wanted, crossed, astray>>

FetchSettings == settings' = Fetching(settings) /\ UNCHANGED failing
\* Every three seconds while a code is shown.
Poll ==
  /\ onTab /\ shownCode # 0 /\ NotFetching(settings) /\ FetchSettings
  /\ UNCHANGED <<ServerSide, marked, onTab, shownCode, posts, AlertBounds, wanted, astray>> /\ Crosses
SettingsRead ==
  /\ settings.fetch = "asked" /\ settings' = AnsweredWith(settings, AlertSettings)
  /\ UNCHANGED <<ServerSide, failing, marked, onTab, shownCode, posts, AlertBounds, wanted,
                 crossed, astray>>
SettingsArrive ==
  /\ settings.fetch = "answered" /\ settings' = Arrived(settings)
  /\ failing' = FALSE /\ marked' = FALSE /\ ShowCode(shownCode)
  /\ UNCHANGED <<ServerSide, onTab, posts, AlertBounds, wanted, crossed, astray>>
\* Off the screen a failed fetch is not tried again.
SettingsFail ==
  /\ ~NotFetching(settings) /\ refused < MaxRefused /\ refused' = refused + 1
  /\ settings' = IF onTab THEN Failed(settings) ELSE [settings EXCEPT !.fetch = "idle"]
  /\ failing' = (failing \/ NotFetching(settings'))
  /\ UNCHANGED <<ServerSide, marked, onTab, shownCode, posts, sent, tabs, wanted, crossed, astray>>
Leave ==
  /\ onTab /\ tabs < MaxTabs /\ tabs' = tabs + 1 /\ onTab' = FALSE /\ shownCode' = 0
  /\ posts' = {[c EXCEPT !.orphan = TRUE] : c \in posts} /\ astray' = (astray \/ shownCode # 0)
  /\ UNCHANGED <<ServerSide, Cached, sent, refused, wanted, crossed>>
Return ==
  /\ ~onTab /\ onTab' = TRUE
  /\ IF NotFetching(settings) /\ (marked \/ failing \/ ~settings.loaded) THEN FetchSettings
     ELSE UNCHANGED <<settings, failing>>
  /\ UNCHANGED <<ServerSide, marked, shownCode, posts, AlertBounds, wanted, astray>> /\ Crosses

AlertsNext ==
  \/ ConnectTelegram \/ Disconnect
  \/ \E channel \in Channels : \/ \E trigger \in Triggers : Toggle(channel, trigger)
                               \/ \E level \in Levels : AddOrRemove(channel, level)
  \/ \E c \in posts : Done(c) \/ CallRefused(c) \/ Answered(c)
  \/ \E code \in codes : Starts(code) \/ CodeExpires(code)
  \/ Poll \/ SettingsRead \/ SettingsArrive \/ SettingsFail \/ Leave \/ Return
AlertsSpec == AlertsInit /\ [][AlertsNext]_alertVars

-----------------------------------------------------------------------------
AllAnswered == posts = {} /\ NotFetching(settings)
\* The types of the panel's state; no code is shown beside a linked chat.
AlertsTypeOK ==
  /\ prefs \in [Channels -> Wishes] /\ wanted \in [Channels -> Wishes] /\ codes \subseteq 1..sent
  /\ {chat, failing, marked, onTab, crossed, astray} \subseteq BOOLEAN
  /\ shownCode \in 0..sent /\ (shownCode # 0 => ~Seen.linked) /\ Cardinality(posts) <= sent
  /\ settings.loaded => Seen.linked \in BOOLEAN /\ Seen.prefs \in [Channels -> Wishes]

\* With every request answered and no code on the screen, the panel shows the
\* settings the API holds: an unlinking fetches them again, also when the tab
\* was left before its answer came, a save takes its answer over, and the
\* polling sees a chat that was linked (alerts-panel.tsx 185-206).  And what
\* the API holds is what the member chose: a save carries the triggers that
\* are shown, so that it must never come from settings an earlier save had
\* changed (alerts-panel.tsx 45-64 and 200-204).
SettingsSettle ==
  /\ Usable /\ AllAnswered /\ shownCode = 0 /\ ~crossed /\ ~astray => Seen = AlertSettings
  /\ posts = {} /\ ~crossed => prefs = wanted
=============================================================================
