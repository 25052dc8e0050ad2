------------------------------- MODULE MCPage -------------------------------
(***************************************************************************)
(* Two things a run does on a shop's page, waiting in a queue and filling  *)
(* a form, checked in one run: they share no state, and a behaviour        *)
(* follows one of them.                                                    *)
(*                                                                         *)
(* The form: an e-mail field by its input type, the city of the shipping   *)
(* address by its autocomplete tokens, the city of the billing address by  *)
(* its words inside a form of both, a phone the profile has no number for, *)
(* and a field whose words mean nothing, but whose name does.  A third     *)
(* profile has KI AutoFill switched off.                                   *)
(***************************************************************************)
EXTENDS QueueWait, FormFill

VARIABLE part

MCFields == {"mail", "shipCity", "billCity", "phone", "note"}
MCRendered == <<"note", "billCity", "mail", "phone">>
MCShown == {"billCity", "mail", "phone"}

Plain == [auto |-> "unknown", type |-> "unknown", words |-> "unknown", named |-> {},
          autoContexts |-> {}, directContexts |-> {}, nearContexts |-> {}]
MCMeta == [f \in MCFields |->
  CASE f = "mail"     -> [Plain EXCEPT !.type = "email", !.named = {<<"email", 1>>, <<"email", 2>>}]
    [] f = "shipCity" -> [Plain EXCEPT !.auto = "city", !.autoContexts = {"shipping"},
                                       !.named = {<<"city", 1>>}]
    [] f = "billCity" -> [Plain EXCEPT !.words = "city", !.nearContexts = {"billing"},
                                       !.directContexts = {"shipping", "billing"}]
    [] f = "phone"    -> [Plain EXCEPT !.words = "phone"]
    [] OTHER          -> [Plain EXCEPT !.named = {<<"address1", 1>>}]]
Kept(kept, on) == [contact |-> {"email"}, addresses |-> [a \in kept |-> {"city", "address1"}],
                   kiAutofill |-> on]
MCProfiles == {Kept({"default", "shipping", "billing"}, TRUE), Kept({"default"}, TRUE),
               Kept({"default"}, FALSE)}

\* The part left alone has one initial state.
Init ==
  /\ part \in {"wait", "form"} /\ WaitInit /\ FormInit
  /\ part = "wait" => ~same /\ profile = Kept({"default"}, TRUE)
  /\ part = "form" => shop = "open" /\ kind = "checkout"

Next ==
  /\ UNCHANGED part
  /\ \/ part = "wait" /\ WaitNext /\ UNCHANGED formVars
     \/ part = "form" /\ FormNext /\ UNCHANGED waitVars

vars == <<part, waitVars, formVars>>

Spec == Init /\ [][Next]_vars
FairSpec == Spec /\ (part = "wait" => WaitFairness)
=============================================================================
