----------------------------- MODULE MCCheckout -----------------------------
(***************************************************************************)
(* The way to an open order, from the search to the prepared checkout,     *)
(* checked in one run: the two parts share no state, and a behaviour       *)
(* follows one of them.                                                    *)
(***************************************************************************)
EXTENDS CheckoutPreparation, EarlyGateSearch

VARIABLE part

\* The user narrows the search, or widens it again.
MCRanked == [w \in Words |-> IF w = "wide" THEN <<"box", "pack">> ELSE <<"pack">>]

\* The part left alone has one initial state, in which none of its steps is due.
Init ==
  /\ part \in {"search", "prepare"} /\ SearchInit /\ PrepareInit
  /\ part = "search" => kind = "gate"
  /\ part = "prepare" => shown = "wide" /\ stock = {}

Next ==
  /\ UNCHANGED part
  /\ \/ part = "search" /\ SearchNext /\ UNCHANGED prepareVars
     \/ part = "prepare" /\ PrepareNext /\ UNCHANGED earlyGateVars

vars == <<part, earlyGateVars, prepareVars>>

Spec == Init /\ [][Next]_vars
FairSpec == Spec /\ PrepareFairness
=============================================================================
