------------------------------ MODULE MCPanels ------------------------------
(***************************************************************************)
(* The interactive parts of the dashboard in one run.  A behaviour looks   *)
(* at one of them, chosen at the start, and leaves the others as they were *)
(* opened: the states add up instead of multiplying.  They meet where a    *)
(* subscription invalidates every query, which each handles for its own,   *)
(* and where an unlinking refetches the bell's alerts, which is left out.  *)
(***************************************************************************)
EXTENDS GatewayPanel, AccountName, Connections, Shell, LiveCache, AlertBell,
        AlertsPanel

VARIABLE panel
panelVars == <<gatewayVars, nameVars, connectionVars, shellVars, liveVars, bellVars,
               alertVars>>

Init ==
  /\ panel \in {"gateway", "name", "connections", "shell", "live", "bell", "alerts"}
  /\ GatewayInit /\ NameInit /\ ConnectionsInit /\ ShellInit /\ LiveInit /\ BellInit
  /\ AlertsInit
  \* An instance is enough where the panel is not the one that moves.
  /\ panel # "name" => stored = CHOOSE name \in Names : TRUE
  /\ panel # "shell" => principal = CHOOSE p \in Principals : TRUE
  /\ panel # "shell" => granted = NoAccounts /\ requested = "RMS"
  /\ panel # "live" => kind = "positions"
  /\ panel # "bell" => stream = 0 /\ sound
  /\ panel # "alerts" => ~chat /\ prefs = CHOOSE p \in [Channels -> Wishes] : TRUE
Next ==
  /\ UNCHANGED panel
  /\ \/ /\ panel = "gateway" /\ GatewayNext
        /\ UNCHANGED <<nameVars, connectionVars, shellVars, liveVars, bellVars, alertVars>>
     \/ /\ panel = "name" /\ NameNext
        /\ UNCHANGED <<gatewayVars, connectionVars, shellVars, liveVars, bellVars, alertVars>>
     \/ /\ panel = "connections" /\ ConnectionsNext
        /\ UNCHANGED <<gatewayVars, nameVars, shellVars, liveVars, bellVars, alertVars>>
     \/ /\ panel = "shell" /\ ShellNext
        /\ UNCHANGED <<gatewayVars, nameVars, connectionVars, liveVars, bellVars, alertVars>>
     \/ /\ panel = "live" /\ LiveNext
        /\ UNCHANGED <<gatewayVars, nameVars, connectionVars, shellVars, bellVars, alertVars>>
     \/ /\ panel = "bell" /\ BellNext
        /\ UNCHANGED <<gatewayVars, nameVars, connectionVars, shellVars, liveVars, alertVars>>
     \/ /\ panel = "alerts" /\ AlertsNext
        /\ UNCHANGED <<gatewayVars, nameVars, connectionVars, shellVars, liveVars, bellVars>>
Spec == Init /\ [][Next]_<<panel, panelVars>>

\* The types of every panel.
PanelsTypeOK ==
  /\ GatewayTypeOK /\ NameTypeOK /\ ConnectionsTypeOK /\ ShellTypeOK
  /\ LiveTypeOK /\ BellTypeOK /\ AlertsTypeOK

\* What waits for its answer sends no second request, whatever is clicked and
\* however cards and forms come and go: the gateway panel, the name of an
\* account and the cards of the connections (busy, savingRef).
NoSecondRequest == OneCommandAtATime /\ OneSaveAtATime /\ OneCommandPerConnection
=============================================================================
