------------------------- MODULE CheckoutPreparation -------------------------
(***************************************************************************)
(* The rounds in which both checkout executors prepare an open checkout:   *)
(* they fill in address and card and go on from page to page until they    *)
(* take the checkout for ready; then it waits for the permission to order. *)
(* The order itself is the subject of FinalPurchase, how a form is filled  *)
(* of FormFill.                                                            *)
(***************************************************************************)
VARIABLES
  kind,      \* the executor: "gate" or "shopify"
  at,        \* the step it is in
  listed,    \* it is in the executor's map of active runs
  aborted, late,
  session,   \* its payment: the profile's card, a card without data, or another method
  profileReady, paid,
  report,    \* checkoutPreparation as published
  allow,     \* allowFinalPurchase of the executor
  told,      \* the same as last published with the task
  again,     \* the checkout was ready before
  \* the page
  page, closed,
  still,     \* it has not changed since the round began
  looked,    \* the round's look at the form gave a result
  paidBefore \* the card was filled in on a page of this checkout

payVars == <<session, profileReady, paid, report>>
pageVars == <<page, closed, still, looked, paidBefore>>
runVars == <<kind, listed, aborted>>
toldVars == <<allow, told, again>>
prepareVars == <<runVars, at, late, payVars, toldVars, pageVars>>

Pages == [need : {"none", "open", "filled"}, card : {"none", "open", "filled"}, final : BOOLEAN]
NewPages == {p \in Pages : p.need # "filled" /\ p.card # "filled"}
NoReport == [profile |-> FALSE, payment |-> FALSE, ready |-> FALSE]
Unread == [need |-> "none", card |-> "none", final |-> FALSE]

Preparing == {"profile", "payment", "control", "advance", "rest"}

PrepareInit ==
  /\ kind \in {"gate", "shopify"}
  /\ at = "idle" /\ listed = FALSE /\ aborted = FALSE /\ late = FALSE
  /\ session = "shell" /\ profileReady = FALSE /\ paid = FALSE /\ report = NoReport
  /\ allow = FALSE /\ told = FALSE /\ again = FALSE
  /\ page = Unread /\ closed = FALSE /\ still = FALSE /\ looked = FALSE /\ paidBefore = FALSE

Goto(s) == at' = s /\ UNCHANGED kind

----------------------------------------------------------------------------
(* A run begins and ends.                                                   *)

\* Card data come from the profile's vault or not at all.
PaymentSession(chosen, stored) ==
  IF chosen \in {"none", "card"} THEN IF stored THEN "card" ELSE "shell" ELSE chosen

Start(chosen, stored) ==
  /\ at = "idle" /\ Goto("opening")
  /\ listed' = (kind = "gate") /\ aborted' = FALSE /\ closed' = FALSE
  /\ session' = PaymentSession(chosen, stored)
  /\ UNCHANGED <<late, profileReady, paid, report, toldVars, page, still, looked, paidBefore>>

Ends ==
  /\ Goto("idle") /\ listed' = FALSE /\ late' = FALSE /\ again' = FALSE
  /\ profileReady' = FALSE /\ paid' = FALSE
  /\ page' = Unread /\ still' = FALSE /\ looked' = FALSE /\ paidBefore' = FALSE
  /\ UNCHANGED <<aborted, session, report, allow, told, closed>>

\* The checkout does not open; a click of the early-gate executor throws; the
\* confirmation of a submitted order came or did not.
Finishes ==
  /\ at \in {"opening", "confirming"} \cup (IF kind = "gate" THEN {"finding"} ELSE {})
  /\ Ends

\* A Shopify run is listed once its checkout is open, and loses its page before that.
Cancel ==
  /\ at # "idle" /\ ~closed
  /\ aborted' = listed /\ listed' = FALSE /\ closed' = TRUE
  /\ UNCHANGED <<kind, at, late, payVars, toldVars, page, still, looked, paidBefore>>

Clock ==
  /\ at \in Preparing /\ ~late /\ late' = TRUE
  /\ UNCHANGED <<runVars, at, payVars, toldVars, pageVars>>

----------------------------------------------------------------------------
(* The checkout page is open.                                               *)

\* A round of preparation begins with what is known of the address: the Shopify run was
\* opened with a complete one.
BeginRounds ==
  /\ late' = FALSE /\ profileReady' = (kind = "shopify") /\ paid' = FALSE
  /\ Goto("profile")

Opened ==
  /\ at = "opening" /\ ~closed /\ listed' = TRUE
  /\ page' \in IF kind = "shopify" THEN {[p EXCEPT !.need = "filled"] : p \in NewPages}
                                   ELSE NewPages
  /\ report' = IF kind = "gate" THEN NoReport ELSE report
  /\ BeginRounds
  /\ UNCHANGED <<aborted, session, toldVars, closed, still, looked, paidBefore>>

\* What the shop does to it by itself.
PageChanges ==
  /\ at \in Preparing \cup {"ready", "finding"} /\ ~closed
  /\ page' \in NewPages \ {page} /\ still' = FALSE
  /\ UNCHANGED <<runVars, at, late, payVars, toldVars, closed, looked, paidBefore>>

----------------------------------------------------------------------------
(* A round.                                                                 *)

\* Slip: the deadline is not looked at.
MayPrepareLate == ~aborted

MayPrepare == ~aborted /\ ~late

\* An aborted run reports success, a late one throws.
GiveUp == at = "profile" /\ ~MayPrepare /\ Ends

\* Once ready the early-gate executor stays so, whatever a later page asks for.
AfterForm(result) ==
  IF kind = "gate" THEN profileReady \/ result = "all"
  ELSE IF result \in {"all", "some"} THEN result = "all" ELSE profileReady

\* Filling the form: all required fields, some, none to be seen, or an error.
FillForm(result) ==
  /\ at = "profile" /\ MayPrepare
  /\ result = "none" => page.need = "none"
  /\ result \in {"all", "some"} => page.need # "none" /\ ~closed
  /\ page' = IF result = "all" THEN [page EXCEPT !.need = "filled"] ELSE page
  /\ profileReady' = AfterForm(result)
  /\ still' = TRUE /\ looked' = (result # "error")
  /\ Goto("payment")
  /\ UNCHANGED <<listed, aborted, late, session, paid, report, toldVars, closed, paidBefore>>

\* Slip: what was filled in on an earlier page counts.
PaymentKept(filled) == filled \/ paidBefore

\* Only a card whose three fields were filled in this round is ready; any other method
\* waits for its user.
PaymentReady(filled) == session = "card" /\ filled

FillPayment(filled) ==
  /\ at = "payment"
  /\ filled => session = "card" /\ page.card # "none" /\ ~closed
  /\ page' = IF filled THEN [page EXCEPT !.card = "filled"] ELSE page
  /\ paid' = PaymentReady(filled) /\ paidBefore' = (paidBefore \/ filled)
  /\ Goto("control")
  /\ UNCHANGED <<listed, aborted, late, session, profileReady, report, toldVars, closed, still,
                 looked>>

Published(ready) == [profile |-> profileReady, payment |-> paid, ready |-> ready]

ControlVisible == page.final /\ ~closed

\* The final control, if it is seen, makes a prepared checkout ready.
Review(seen) ==
  /\ at = "control"
  /\ seen => ControlVisible
  /\ LET ready == profileReady /\ paid /\ seen IN
     /\ report' = Published(ready)
     /\ Goto(IF ready THEN "ready" ELSE "advance")
     /\ told' = IF ready /\ ~again /\ ~aborted THEN allow ELSE told
  /\ UNCHANGED <<listed, aborted, late, session, profileReady, paid, allow, again, pageVars>>

Advance ==
  /\ at = "advance"
  /\ \/ ~closed /\ Goto("profile") /\ page' \in NewPages /\ still' = FALSE
     \/ Goto("rest") /\ UNCHANGED <<page, still>>
  /\ UNCHANGED <<listed, aborted, late, payVars, toldVars, closed, looked, paidBefore>>

Rested ==
  /\ at = "rest" /\ Goto("profile")
  /\ UNCHANGED <<listed, aborted, late, payVars, toldVars, pageVars>>

----------------------------------------------------------------------------
(* The checkout is ready and waits for the permission.                      *)

\* It is published for a checkout that is ready, and while one opens that may still have
\* the flow stage of the run before.
SetFinalPurchaseAllowed(b) ==
  /\ allow' = b
  /\ told' \in IF ~listed THEN {told}
              ELSE IF at \in {"ready", "finding", "confirming"} THEN {b}
              ELSE IF at = "opening" THEN {told, b} ELSE {told}
  /\ UNCHANGED <<runVars, at, late, payVars, again, pageVars>>

Tell == told' = allow

Submit ==
  /\ at = "ready" /\ allow /\ ~aborted /\ Goto("finding")
  /\ UNCHANGED <<listed, aborted, late, payVars, toldVars, pageVars>>

Submitted ==
  /\ at = "finding" /\ allow /\ ControlVisible
  /\ Goto("confirming") /\ Tell
  /\ UNCHANGED <<listed, aborted, late, payVars, allow, again, pageVars>>

\* No control, no permission any more, or the click failed.  The Shopify executor prepares
\* again when it does not see the control.
NotSubmitted ==
  /\ at = "finding" /\ Tell
  /\ \/ /\ kind = "shopify" => ControlVisible
        /\ Goto("ready") /\ UNCHANGED <<late, profileReady, paid, again>>
     \/ kind = "shopify" /\ BeginRounds /\ again' = TRUE
  /\ UNCHANGED <<listed, aborted, session, report, allow, pageVars>>

StopsWaiting == at = "ready" /\ aborted /\ Ends

----------------------------------------------------------------------------
PrepareNext ==
  \/ \E chosen \in {"none", "card", "other"}, stored \in BOOLEAN : Start(chosen, stored)
  \/ Finishes \/ Cancel \/ Clock \/ GiveUp \/ Opened \/ PageChanges
  \/ \E result \in {"all", "some", "none", "error"} : FillForm(result)
  \/ \E b \in BOOLEAN : FillPayment(b) \/ Review(b) \/ SetFinalPurchaseAllowed(b)
  \/ Advance \/ Rested \/ Submit \/ Submitted \/ NotSubmitted \/ StopsWaiting

PrepareSpec == PrepareInit /\ [][PrepareNext]_prepareVars

\* What a run waits for on the page ends, if only by its timeout, and so do its pauses;
\* deadlines pass.
PrepareFairness ==
  /\ WF_prepareVars(Clock)
  /\ WF_prepareVars(GiveUp \/ \E result \in {"all", "some", "none", "error"} : FillForm(result))
  /\ WF_prepareVars(\E b \in BOOLEAN : FillPayment(b) \/ Review(b)) /\ WF_prepareVars(Advance \/ Rested)

PrepareFairSpec == PrepareSpec /\ PrepareFairness

----------------------------------------------------------------------------
\* Every variable keeps to its type.
PrepareTypeOK ==
  /\ kind \in {"gate", "shopify"} /\ at \in Preparing \cup {"idle", "opening", "ready", "finding",
                                                        "confirming"}
  /\ {listed, aborted, late, profileReady, paid, allow, told, again, closed, still,
    looked, paidBefore}
       \subseteq BOOLEAN
  /\ session \in {"card", "shell", "other"}
  /\ report \in [profile : BOOLEAN, payment : BOOLEAN, ready : BOOLEAN] /\ page \in Pages

\* A checkout reported as ready has the profile's card in its fields and a final control,
\* and, in the Shopify executor, no required field of the page is open, provided the page
\* has not changed since the round began and its form could be read.
ReadyMeansPrepared ==
  at = "ready" /\ report.ready /\ still =>
    /\ session = "card" /\ page.card = "filled" /\ page.final
    /\ kind = "shopify" /\ looked => page.need # "open"

\* Preparation ends: with a checkout that waits for the permission, or with the run
\* (prepareCheckoutUntilReady, prepareUntilPurchaseReady).
PreparationEnds == at \in Preparing ~> at \notin Preparing

\* No required field of a checkout reported as ready is open, whichever executor prepared it.
GatePageIsComplete ==
  at = "ready" /\ report.ready /\ still /\ looked => page.need # "open"

\* An order is submitted only from a page the card was filled in on.
SubmitsPreparedPage == [][Submitted => page.card = "filled"]_prepareVars

\* A last page with the final control and without card fields is ready when the card was
\* filled in on the page before.
ReviewPageIsReady ==
  ~(at = "advance" /\ still /\ page.final /\ page.card = "none" /\ profileReady /\ paidBefore)

\* While a checkout waits, the task shows the permission it waits with.
ShownPermissionIsCurrent == at = "ready" /\ ~aborted => told = allow
=============================================================================
