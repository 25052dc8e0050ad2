---------------------------- MODULE RuntimePanel ----------------------------
(***************************************************************************)
(* The switch for final purchases in the runtime panel                     *)
(* (src/app/runtime-control/runtime-control.component.ts) and the setting  *)
(* of the main process it shows (src/electron/main.ts). A status is asked  *)
(* for every 10 s and after each change; the main process reads the        *)
(* setting and then waits for the health of the workers, so that answers   *)
(* come in any order.                                                      *)
(***************************************************************************)
EXTENDS Naturals

CONSTANTS
  MaxAsks,      \* bound: periodic status requests under way
  MaxChanges    \* bound: changes the user makes

VARIABLES
  allowed,    \* allowFinalPurchase of the main process
  shown,      \* runtimeSystem.allowFinalPurchase of the panel
  asked,      \* how many periodic requests carry each value
  change,     \* how far a change by the user is, with the value its own refresh carries
  changes

panelVars == <<allowed, shown, asked, change, changes>>

Still == [at |-> "no", carries |-> FALSE]

PanelInit ==
  /\ allowed = FALSE /\ shown = FALSE
  /\ asked = [v \in BOOLEAN |-> IF v THEN 0 ELSE 1]
  /\ change = Still /\ changes = 0

TickNever == FALSE /\ UNCHANGED panelVars

Tick ==
  /\ asked[TRUE] + asked[FALSE] < MaxAsks
  /\ asked' = [asked EXCEPT ![allowed] = @ + 1]
  /\ UNCHANGED <<allowed, shown, change, changes>>

Answer(v) ==
  /\ asked[v] > 0 /\ asked' = [asked EXCEPT ![v] = @ - 1]
  /\ shown' = v
  /\ UNCHANGED <<allowed, change, changes>>

\* The button asks for the opposite of what is shown, the same way for the second click.
Click ==
  /\ changes < MaxChanges /\ changes' = changes + 1
  /\ change = Still /\ change' = [Still EXCEPT !.at = "setting"]
  /\ allowed' = ~shown
  /\ UNCHANGED <<shown, asked>>

Confirmed ==
  /\ change.at \in {"setting", "revoking"}
  /\ change' = [at |-> "refreshing", carries |-> allowed]
  /\ UNCHANGED <<allowed, shown, asked, changes>>

\* A worker does not confirm: the permission is withdrawn everywhere.
Unconfirmed ==
  /\ change.at = "setting" /\ change' = [change EXCEPT !.at = "revoking"]
  /\ allowed' = FALSE
  /\ UNCHANGED <<shown, asked, changes>>

Refreshed ==
  /\ change.at = "refreshing" /\ change' = Still
  /\ shown' = change.carries
  /\ UNCHANGED <<allowed, asked, changes>>

PanelNext ==
  \/ Tick \/ Click \/ Confirmed \/ Unconfirmed \/ Refreshed
  \/ \E v \in BOOLEAN : Answer(v)

\* The timer runs while the panel is open, and every request is answered: a worker that
\* does not report its health is left out after 10 s.
PanelFairness ==
  /\ WF_panelVars(Tick) /\ WF_panelVars(Confirmed) /\ WF_panelVars(Refreshed)
  /\ \A v \in BOOLEAN : WF_panelVars(Answer(v))

PanelSpec == PanelInit /\ [][PanelNext]_panelVars
PanelFairSpec == PanelSpec /\ PanelFairness

\* Every variable keeps to its type.
PanelTypeOK ==
  /\ allowed \in BOOLEAN /\ shown \in BOOLEAN /\ asked \in [BOOLEAN -> 0 .. MaxAsks]
  /\ change \in [at : {"no", "setting", "revoking", "refreshing"}, carries : BOOLEAN]
  /\ changes \in 0 .. MaxChanges

\* Once the user leaves the switch alone, the panel comes to show the setting and keeps
\* showing it, whichever answers overtake each other (refreshRuntime's timer).
ShownSettles == <>[](shown = allowed)

\* The panel never shows that purchases are blocked while they are allowed and no change
\* is under way.
BlockedIsBlocked == (change = Still /\ ~shown) => ~allowed
=============================================================================
