------------------------------ MODULE FormFill ------------------------------
(***************************************************************************)
(* The filling of a checkout form: SemanticCheckoutPreparer.prepare and    *)
(* ShopifyTaskExecutor.fillCheckoutProfile, which share one loop.  A pass  *)
(* lists the form controls of the page, resolves what each asks for        *)
(* (FieldSemanticResolver), and fills them in the order of confidence      *)
(* (SemanticFieldAutofill); fields that fallback selectors know follow, and *)
(* are all there is if the profile has KI AutoFill switched off.  A pass   *)
(* ends by reading back what was filled.  Each step waits for the page,    *)
(* and the page goes on meanwhile: it inserts controls, shows and hides    *)
(* them, and resets what was typed.  Recognised controls are addressed by  *)
(* their position in the list of the pass, the others by a selector.       *)
(***************************************************************************)
EXTENDS Naturals, Sequences, FiniteSets, SequencesExt

CONSTANTS
  Fields,      \* the form controls the page may have
  Meta,        \* what the markup of a control says: the intents that its autocomplete
               \* tokens, type and words stand for, its contexts, and in "named" the
               \* fallback selectors it matches, <<intent, place in the list>>
  Profiles,    \* profiles [contact, addresses, kiAutofill]: the intents they have
               \* values for, and whether controls may be recognised by their markup
  Rendered,    \* the controls of the page as first rendered, in order
  Shown,       \* those of them visible from the start
  HasSame,     \* the page has a "same as shipping" control
  MaxAttempts, \* bound of the loop: 6 and 12 in the code
  MaxChanges   \* bound on what the page does by itself

\* The page is made of the controls it may have.
ASSUME FormAssumption ==
  Rendered \in Seq(Fields) /\ Shown \subseteq {Rendered[n]: n \in DOMAIN Rendered}

VARIABLES
  profile,  \* the profile of the run
  dom,      \* the controls in document order
  visible,  \* the controls that can be seen and used
  text,     \* what each control holds
  same,     \* the "same as shipping" control is set
  pc,       \* where the loop stands
  billing,  \* the billing mode of the plan
  attempt,  \* passes begun
  todo,     \* controls (or fallback selectors) this pass has still to look at
  trying,   \* the intent whose fallback selectors are being tried
  job,      \* the control being written
  unread,   \* completed targets an evaluation has still to read back
  seen,     \* targets met on the page (seenTargets)
  done,     \* where each completed target was seen to hold its value
  verdict,  \* requiredTargetsSatisfied of the run
  changes,  \* changes of the page so far
  calm,     \* 0: no pass began since the last change, 1: one began, 2: it has ended
  stirred,  \* a pass failed to list the controls, or one appeared during it
  wiped     \* values the page took back since the evaluation began

formVars == <<profile, dom, visible, text, same, pc, billing, attempt, todo, trying, job, unread,
              seen, done, verdict, changes, calm, stirred, wiped>>
pageVars == <<profile, dom, visible, text, changes, stirred>>
passVars == <<attempt, todo, trying>>
readVars == <<unread, wiped>>

Contexts == {"shipping", "billing"}
Empty == <<"none", "none">>
Nowhere == [by |-> "none", n |-> 0, intent |-> "none"]
Nth(i) == [by |-> "nth", n |-> i, intent |-> "none"]
Named(i, k) == [by |-> "name", n |-> k, intent |-> i]
NoJob == [at |-> Nowhere, target |-> Empty, tries |-> 0, step |-> "idle"]
RequiredIntents == {"email", "firstName", "lastName", "address1", "city", "postalCode"}

----------------------------------------------------------------------------
(* What a control asks for.  The markup names an intent by its autocomplete
   tokens, its input type or its words, in that order; a bare "Name" is not
   guessed at.  A context counts only if one source names exactly one.      *)
FirstKnown(s) == LET known == SelectSeq(s, LAMBDA x: x # "unknown")
                 IN IF known = <<>> THEN "unknown" ELSE Head(known)
IntentOf(f) == FirstKnown(<<Meta[f].auto, Meta[f].type, Meta[f].words>>)
OnlyOne(names) == IF Cardinality(names) = 1 THEN CHOOSE c \in names: TRUE ELSE "unknown"
ContextOf(f) == FirstKnown(<<OnlyOne(Meta[f].autoContexts), OnlyOne(Meta[f].directContexts),
                             OnlyOne(Meta[f].nearContexts)>>)
TargetOf(f) == <<ContextOf(f), IntentOf(f)>>
Confidence(f) == CASE Meta[f].auto # "unknown"  -> 100
                   [] Meta[f].type # "unknown"  -> 99
                   [] Meta[f].words # "unknown" -> 96
                   [] OTHER                     -> 0

(* The value of the profile for a target, named by where it comes from.     *)
HasValue(address, intent) ==
  /\ address \in DOMAIN profile.addresses
  /\ \/ intent \in profile.addresses[address]
     \/ intent = "address1" /\ {"street", "houseNumber"} \intersect profile.addresses[address] # {}
FromAddress(address, intent) == IF HasValue(address, intent) THEN <<address, intent>> ELSE Empty
ShippingAddress == IF "shipping" \in DOMAIN profile.addresses THEN "shipping" ELSE "default"
BillingValue(mode, intent) ==
  CASE "billing" \in DOMAIN profile.addresses -> FromAddress("billing", intent)
    [] "billing" \notin DOMAIN profile.addresses /\ mode = "separate" ->
         IF HasValue(ShippingAddress, intent) THEN <<ShippingAddress, intent>>
         ELSE FromAddress("default", intent)
    [] OTHER -> Empty
ValueFor(mode, target) ==
  CASE target[2] \in profile.contact -> <<"contact", target[2]>>
    [] target[2] \notin profile.contact /\ target[1] = "unknown"  ->
         FromAddress("default", target[2])
    [] target[2] \notin profile.contact /\ target[1] = "shipping" ->
         FromAddress(ShippingAddress, target[2])
    [] OTHER -> BillingValue(mode, target[2])
Desired(target) == ValueFor(billing, target)

----------------------------------------------------------------------------
(* A locator is evaluated anew whenever it is used.                         *)
Matching(loc) ==
  {i \in DOMAIN dom: \/ loc.by = "nth" /\ i = loc.n
                     \/ loc.by = "name" /\ <<loc.intent, loc.n>> \in Meta[dom[i]].named}
Points(loc) == Matching(loc) # {}
At(loc) == dom[CHOOSE i \in Matching(loc): \A j \in Matching(loc): i <= j]
Reads(loc, value) == Points(loc) /\ text[At(loc)] = value
Interactive(loc) == Points(loc) /\ At(loc) \in visible

(* isCompleted reads the control again and forgets a target that lost its value. *)
HoldsAsRemembered(target) == target \in DOMAIN done /\ Desired(target) # Empty
Holds(target) == target \in DOMAIN done /\ Reads(done[target], Desired(target))
Forgotten(targets) == [t \in DOMAIN done \ targets |-> done[t]]
Remembered(target, loc) == [t \in DOMAIN done \union {target} |-> IF t = target THEN loc ELSE done[t]]

(* What an evaluation finds filled is what it has read back and not forgotten. *)
Required(targets) == {t \in targets: t[2] \in RequiredIntents}
Filled(target) == Desired(target) # Empty /\ target \in DOMAIN done
CompleteAll == Required(seen) # {} /\ \A t \in seen: Filled(t)
Complete == Required(seen) # {} /\ \A t \in Required(seen): Filled(t)

FormInit ==
  /\ profile \in Profiles /\ dom = Rendered /\ visible = Shown
  /\ text = [f \in Fields |-> Empty]
  /\ same \in IF HasSame THEN BOOLEAN ELSE {FALSE}
  /\ pc = "plan" /\ billing = "none" /\ attempt = 0 /\ todo = <<>> /\ job = NoJob
  /\ trying = "none" /\ unread = {} /\ seen = {} /\ done = <<>> /\ verdict = "open"
  /\ changes = 0 /\ calm = 0 /\ stirred = FALSE /\ wiped = {}

(* The plan: an explicit billing address is used; otherwise the control for
   "same as shipping" is clicked, and used if it is then selected.          *)
Plan ==
  /\ pc = "plan" /\ pc' = "collect"
  /\ \/ /\ "billing" \in DOMAIN profile.addresses
        /\ billing' = "explicit" /\ UNCHANGED same
     \/ /\ "billing" \notin DOMAIN profile.addresses
        /\ IF HasSame /\ ~same THEN same' \in BOOLEAN ELSE UNCHANGED same
        /\ billing' = IF same' THEN "same" ELSE "separate"
  /\ UNCHANGED <<pageVars, passVars, readVars, job, seen, done, verdict, calm>>

(* A pass: the controls of the page, ranked by confidence (a stable sort),
   each with its position in the list; those without an intent are passed
   over.  A page that navigates fails the listing, and the pass goes on
   without it.  With KI AutoFill off nothing is listed.  InOrder(S, rank) has
   the one sequence of S by rank.                                           *)
InOrder(S, rank) == {order \in Bijection(1..Cardinality(S), S):
                       \A j, k \in 1..Cardinality(S): j < k => rank[order[j]] < rank[order[k]]}
Recognised == {n \in DOMAIN dom: IntentOf(dom[n]) # "unknown"}
Rank == [n \in DOMAIN dom |-> (100 - Confidence(dom[n])) * (Len(dom) + 1) + n]
ItemsByRank(order) == [k \in DOMAIN order |-> [at |-> Nth(k), target |-> TargetOf(dom[order[k]])]]
Items(order) == [k \in DOMAIN order |-> [at |-> Nth(order[k]), target |-> TargetOf(dom[order[k]])]]
Changed == changes < MaxChanges /\ changes' = changes + 1 /\ calm' = 0
PassBegins == calm' = (IF calm = 0 THEN 1 ELSE calm) /\ UNCHANGED <<changes, stirred>>
Collect ==
  /\ pc = "collect"
  /\ attempt' = attempt + 1 /\ pc' = "semantic"
  /\ \/ /\ profile.kiAutofill
        /\ \E order \in InOrder(Recognised, Rank): todo' = Items(order)
        /\ PassBegins
     \/ /\ profile.kiAutofill /\ Changed
        /\ todo' = <<>> /\ stirred' = TRUE
     \/ /\ ~profile.kiAutofill
        /\ todo' = <<>> /\ PassBegins
  /\ UNCHANGED <<profile, dom, visible, text, same, billing, trying, job, seen, done, verdict,
                 readVars>>

(* fillLocator and selectLocator up to the write: controls that cannot be
   used are left alone, a target that already holds its value is not touched.
   All reads come before the write and only the last one counts for it.      *)
Begin(item) ==
  job' = [at |-> item.at, target |-> item.target, tries |-> 0, step |-> "write"]
Consider(item, holds) ==
  \/ ~Interactive(item.at) /\ UNCHANGED <<seen, done, job>>
  \/ /\ Interactive(item.at) /\ seen' = seen \union {item.target}
     /\ \/ (Desired(item.target) = Empty \/ holds) /\ UNCHANGED <<done, job>>
        \/ /\ Desired(item.target) # Empty /\ ~holds
           /\ Reads(item.at, Desired(item.target))
           /\ done' = Remembered(item.target, item.at) /\ UNCHANGED job
        \/ /\ Desired(item.target) # Empty /\ ~holds
           /\ ~Reads(item.at, Desired(item.target))
           /\ done' = Forgotten({item.target}) /\ Begin(item)
LookSemantic ==
  /\ pc = "semantic" /\ job = NoJob /\ todo # <<>>
  /\ Consider(Head(todo), Holds(Head(todo).target))
  /\ todo' = Tail(todo)
  /\ UNCHANGED <<pageVars, readVars, same, pc, billing, attempt, trying, verdict, calm>>

(* The fallbacks, for intents no control was met for: the selectors of an
   intent are tried until one is filled; those no control matches are left out. *)
KnownNames == <<"email", "firstName", "lastName", "address1", "address2", "city", "postalCode",
                "phone", "countryCode">>
Selectors == 1..4
Fallbacks == {p \in (DOMAIN KnownNames) \X Selectors:
                \E f \in Fields: <<KnownNames[p[1]], p[2]>> \in Meta[f].named}
FallbackOrders == InOrder(Fallbacks, [p \in Fallbacks |-> 5 * p[1] + p[2]])
NamedItem(p) == [at |-> Named(KnownNames[p[1]], p[2]), target |-> <<"unknown", KnownNames[p[1]]>>]
BeginNames ==
  /\ pc = "semantic" /\ job = NoJob /\ todo = <<>>
  /\ pc' = "named"
  /\ \E order \in FallbackOrders: todo' = [k \in DOMAIN order |-> NamedItem(order[k])]
  /\ trying' = "none"
  /\ UNCHANGED <<pageVars, readVars, same, billing, attempt, job, seen, done, verdict, calm>>
IsFirst(loc) == \A p \in Fallbacks: KnownNames[p[1]] = loc.intent => loc.n <= p[2]
Unrecognised(intent) == intent \notin {t[2]: t \in seen}
IsTried(item) == IF IsFirst(item.at)
                 THEN Unrecognised(item.target[2]) /\ Desired(item.target) # Empty
                 ELSE trying = item.target[2]
LookNamed ==
  /\ pc = "named" /\ job = NoJob /\ todo # <<>>
  /\ LET item == Head(todo)
     IN \/ /\ IsTried(item)
           /\ Consider(item, Holds(item.target))
           /\ trying' = IF Interactive(item.at) /\ job' = NoJob THEN "none" ELSE item.target[2]
        \/ /\ ~IsTried(item)
           /\ trying' = "none"
           /\ UNCHANGED <<seen, done, job>>
  /\ todo' = Tail(todo)
  /\ UNCHANGED <<pageVars, readVars, same, pc, billing, attempt, verdict, calm>>

(* InteractionEngine.runFormAction: two attempts, each waits for the control
   to be ready, acts, and waits for the value to be read back.              *)
Failed(j) == IF j.tries = 0 THEN [j EXCEPT !.tries = 1, !.step = "write"] ELSE NoJob
Write ==
  /\ job.step = "write"
  /\ \/ /\ Interactive(job.at)
        /\ text' = [text EXCEPT ![At(job.at)] = Desired(job.target)]
        /\ job' = [job EXCEPT !.step = "verify"]
     \/ ~Interactive(job.at) /\ job' = Failed(job) /\ UNCHANGED text
  /\ UNCHANGED <<profile, dom, visible, same, pc, billing, passVars, readVars, seen, done, verdict,
                 changes, calm, stirred>>
Verify ==
  /\ job.step = "verify"
  /\ \/ /\ Reads(job.at, Desired(job.target))
        /\ done' = Remembered(job.target, job.at) /\ job' = NoJob /\ trying' = "none"
     \/ /\ ~Reads(job.at, Desired(job.target))
        /\ job' = Failed(job) /\ UNCHANGED <<done, trying>>
  /\ UNCHANGED <<pageVars, readVars, same, pc, billing, attempt, todo, seen, verdict, calm>>

(* The evaluation after a pass, and once more after the loop (result): each
   completed target is read back in a step of its own; one without a value or
   a control is missing without a read.                                     *)
BeginEvaluation == unread' = seen \intersect DOMAIN done /\ wiped' = {}
Evaluate ==
  /\ pc = "named" /\ job = NoJob /\ todo = <<>>
  /\ pc' = "judge"
  /\ BeginEvaluation
  /\ UNCHANGED <<pageVars, passVars, same, billing, job, seen, done, verdict, calm>>
ReadBack(target) ==
  /\ pc \in {"judge", "final"} /\ target \in unread
  /\ unread' = unread \ {target}
  /\ done' = IF Holds(target) THEN done ELSE Forgotten({target})
  /\ UNCHANGED <<pageVars, passVars, same, pc, billing, job, seen, verdict, calm, wiped>>
Judge ==
  /\ pc = "judge" /\ unread = {}
  /\ calm' = IF calm = 1 THEN 2 ELSE calm
  /\ \/ /\ Complete \/ attempt = MaxAttempts
        /\ pc' = "final" /\ BeginEvaluation
     \/ /\ ~Complete /\ attempt # MaxAttempts
        /\ pc' = "collect" /\ unread' = {} /\ wiped' = {}
  /\ UNCHANGED <<pageVars, passVars, same, billing, job, seen, done, verdict>>
Conclude ==
  /\ pc = "final" /\ unread = {}
  /\ pc' = "end"
  /\ verdict' = IF Complete THEN "satisfied" ELSE "failed"
  /\ UNCHANGED <<pageVars, passVars, readVars, same, billing, job, seen, done, calm>>

(* What the page does by itself.                                            *)
InPass == pc \in {"semantic", "named"}
Insert ==
  /\ pc # "end" /\ Changed
  /\ \E f \in Fields \ {dom[i]: i \in DOMAIN dom}, k \in 1..Len(dom) + 1:
       dom' = InsertAt(dom, k, f) /\ visible' = visible \union {f}
  /\ stirred' = (stirred \/ InPass)
  /\ UNCHANGED <<profile, text, same, pc, billing, passVars, readVars, job, seen, done, verdict>>
Toggle ==
  /\ pc # "end" /\ Changed
  /\ \E f \in {dom[i]: i \in DOMAIN dom}:
       /\ visible' = (visible \ {f}) \union ({f} \ visible)
       /\ stirred' = (stirred \/ (InPass /\ f \notin visible))
  /\ UNCHANGED <<profile, dom, text, same, pc, billing, passVars, readVars, job, seen, done, verdict>>
Reset ==
  /\ pc # "end" /\ Changed
  /\ \E f \in {g \in Fields: text[g] # Empty}:
       /\ text' = [text EXCEPT ![f] = Empty]
       /\ wiped' = IF pc \in {"judge", "final"} THEN wiped \union {text[f]} ELSE wiped
  /\ UNCHANGED <<profile, dom, visible, same, pc, billing, passVars, unread, job, seen, done, verdict,
                 stirred>>

FormNext == \/ Plan \/ Collect \/ LookSemantic \/ BeginNames \/ LookNamed \/ Write \/ Verify
        \/ Evaluate \/ (\E t \in unread: ReadBack(t)) \/ Judge \/ Conclude \/ Insert \/ Toggle \/ Reset
FormSpec == FormInit /\ [][FormNext]_formVars

----------------------------------------------------------------------------
Value == {Empty} \union ({"contact", "default", "shipping", "billing"} \X STRING)
(* Every variable keeps to its type, and only targets that were met are done. *)
FormTypeOK ==
  /\ profile \in Profiles /\ dom \in Seq(Fields) /\ visible \subseteq Fields /\ same \in BOOLEAN
  /\ pc \in {"plan", "collect", "semantic", "named", "judge", "final", "end"}
  /\ billing \in {"none", "same", "separate", "explicit"}
  /\ attempt \in 0..MaxAttempts /\ calm \in 0..2 /\ changes \in 0..MaxChanges
  /\ DOMAIN done \subseteq seen /\ unread \subseteq DOMAIN done
  /\ verdict \in {"open", "satisfied", "failed"}
  /\ \A f \in Fields: text[f] \in Value

(* Unless a pass could not list the controls, or the page put one among those
   of a running pass, a control only ever holds the profile's value for what
   its own markup asks for, or for what a fallback selector takes it for while
   it is not recognised as that; with KI AutoFill off, for what a selector
   takes it for only (FieldSemanticResolver, SemanticFieldAutofill, the
   fallback fields of the preparer).                                        *)
MeantFor(f) == IF profile.kiAutofill THEN IntentOf(f) ELSE "unknown"
OwnValue(f) ==
  \/ text[f] = Empty
  \/ MeantFor(f) # "unknown" /\ text[f] = Desired(TargetOf(f))
  \/ \E s \in Meta[f].named: MeantFor(f) # s[1] /\ text[f] = Desired(<<"unknown", s[1]>>)
OwnValuesOnly == ~stirred => \A f \in Fields: OwnValue(f)
(* On a page that stood still for a whole pass and the evaluations after it, a
   run whose values all went where they were meant to fails only if no required
   control was met, or one that was met has no value in the profile or is not to
   be seen any more as what it was met for: hidden, or known by a selector alone,
   which is not tried again; or if a control is taken for two things, so that one
   value may have taken the place of the other.  With KI AutoFill off every
   control is known by a selector alone: only on a page that never moved is a
   failure certain to mean that no required control was met
   (SemanticFieldAutofill.result, hasObservedIntent).                       *)
TakenFor(f) == ({MeantFor(f)} \ {"unknown"}) \union {s[1]: s \in Meta[f].named}
Contradictory(f) == \E a, b \in TakenFor(f): a # b
Explained(t) == \/ Desired(t) = Empty
                \/ \A f \in visible: MeantFor(f) = "unknown" \/ TargetOf(f) # t
FailureHasCause ==
  verdict = "failed" /\ calm = 2 /\ ~stirred =>
    \/ \E n \in DOMAIN dom: Contradictory(dom[n])
    \/ Required(seen) = {}
    \/ (profile.kiAutofill \/ changes > 0) /\ \E t \in Required(seen): Explained(t)
(* What the comment in the loop of the fallback fields says ("try the next
   selector/attempt") and the code does not do: a control only a selector knows
   counts as met since it was first looked at (hasObservedIntent), so a failed
   write, or one the page took back, is not repeated by a later attempt.    *)
FallbackIsRepeated ==
  verdict = "failed" /\ calm = 2 =>
    \A t \in Required(seen), k \in Selectors:
      Interactive(Named(t[2], k)) /\ Desired(t) # Empty /\ (\A f \in visible: MeantFor(f) # t[2])
        => \E f \in Fields: text[f] = Desired(t)
(* When a run is reported satisfied, each required target it met has a value, and
   the value is on the page, or the page has taken it back while the last evaluation
   was reading the targets one after the other: result() reads none of them twice,
   and what was lost before it began is not reported (isCompleted).         *)
SatisfiedMeansFilled ==
  [][verdict' = "satisfied" /\ verdict # "satisfied" =>
       \A t \in Required(seen): /\ Desired(t) # Empty
                                /\ \/ \E f \in Fields: text[f] = Desired(t)
                                   \/ Desired(t) \in wiped]_formVars
(* What one would like to hold, and does not: a satisfied form is a filled one. *)
SatisfiedIsStillFilled ==
  [][verdict' = "satisfied" /\ verdict # "satisfied" =>
       \A t \in Required(seen): \E f \in Fields: text[f] = Desired(t)]_formVars
(* The profile's addresses are not mixed: a control for the shipping address
   never holds a value of another address the profile keeps apart.          *)
ShippingKeepsItsAddress ==
  \A f \in Fields: ContextOf(f) = "shipping" /\ text[f] # Empty /\ text[f][1] # "contact"
     => text[f][1] = ShippingAddress
=============================================================================
