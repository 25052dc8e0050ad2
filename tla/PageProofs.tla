------------------------------ MODULE PageProofs ------------------------------
(***************************************************************************)
(* Theorems about what a run does on a shop's page, for any length of the  *)
(* hour and of a signal's life, any number of queues and runs, any form,   *)
(* profiles and number of passes: what the end of a wait means             *)
(* (QueueWait), what the controls of a form hold, and why a run that could *)
(* not fill it failed (FormFill).                                          *)
(***************************************************************************)
EXTENDS MCPage, FiniteSetTheorems, WellFoundedInduction, TLAPS

-------------------------------------------------------------------------------
(***************************************************************************)
(* QueueWait: releases and the hour.                                       *)
(***************************************************************************)

Signal == [says : {"nothing", "queue", "released"}, age : Nat]

WaitShapes ==
  /\ shop \in {"open", "queue"}
  /\ bodies \subseteq {"queue", "released"} /\ net \in Signal /\ polled \in Signal
  /\ clear \in Nat /\ age \in Nat /\ waited \in Nat

\* A queue is noticed: by this run, or by an earlier one that did not come to an end.
Noticed == stage = "loop" \/ Seeded

(* As long as the shop has let nobody in, and nothing an earlier release has *)
(* left tells of one, every reading that sees the queue's page sees a queue; *)
(* a page that shows nothing is read once and not twice in a row.            *)
EvidenceInv ==
  /\ Noticed /\ ~through => shop = "queue"
  /\ Noticed /\ ~through /\ ~stale => ~ReleaseHeard
  /\ stage = "loop" /\ clear # 0 => ~blank
  /\ stage = "loop" /\ ~closed /\ ~through /\ ~stale => clear <= 1
  /\ outcome = "released" => stage = "ended"
  /\ ReleaseMeansAdmitted

(* The hour of this run is the hour since the queue was first noticed.       *)
WindowInv ==
  /\ Noticed /\ age <= MaxWait => waited = age
  /\ WindowSpansRuns

WaitInv == WaitShapes /\ EvidenceInv /\ WindowInv

LEMMA InitWait == WaitInit => WaitInv
<1> SUFFICES ASSUME WaitInit PROVE WaitInv
  OBVIOUS
<1>1. WaitShapes
  BY DEF WaitInit, WaitShapes, Signal, Silent
<1>2. EvidenceInv /\ WindowInv
  BY DEF WaitInit, EvidenceInv, WindowInv, Noticed, Seeded, ReleaseMeansAdmitted, WindowSpansRuns
<1> QED
  BY <1>1, <1>2 DEF WaitInv

\* Signals.
LEMMA HeardFacts ==
  /\ Silent \in Signal /\ Silent.says = "nothing"
  /\ \A s \in {"nothing", "queue", "released"} : Heard(s) \in Signal /\ Heard(s).says = s
  /\ \A n, top \in Nat : Older(n, top) \in Nat /\ Older(n, top) >= n
                         /\ (n < top => Older(n, top) = n + 1)
  /\ \A s \in Signal : [s EXCEPT !.age = Older(@, Fresh + 1)] \in Signal
                       /\ [s EXCEPT !.age = Older(@, Fresh + 1)].says = s.says
<1>1. Fresh + 1 \in Nat
  BY WaitAssumption
<1>2. \A n, top \in Nat : Older(n, top) \in Nat /\ Older(n, top) >= n
                         /\ (n < top => Older(n, top) = n + 1)
  BY DEF Older
<1> QED
  BY <1>1, <1>2 DEF Silent, Heard, Signal

\* Without a word of a release a reading sees the queue, unless the page is blank.
LEMMA QueueIsSeen ==
  ASSUME WaitShapes, ~closed, ~ReleaseHeard, shop = "queue", ~blank
  PROVE  Active
  BY DEF WaitShapes, ReleaseHeard, Active, Recent, Signal

LEMMA StepWaitShapes == WaitShapes /\ [WaitNext]_waitVars => WaitShapes'
<1> SUFFICES ASSUME WaitShapes, [WaitNext]_waitVars PROVE WaitShapes'
  OBVIOUS
<1> USE HeardFacts DEF WaitShapes, outside
<1>1. CASE UNCHANGED waitVars
  BY <1>1 DEF waitVars, signals, wait
<1>2. CASE QueueStarts \/ QueueEnds \/ Blank
  BY <1>2 DEF QueueStarts, QueueEnds, Blank, signals, wait
<1>3. CASE ResponseSeen \/ PollerTells \/ PollerDies
  BY <1>3 DEF ResponseSeen, PollerTells, PollerDies, wait
<1>4. ASSUME NEW b \in {"queue", "released"}, BodyRead(b) PROVE WaitShapes'
  BY <1>4 DEF BodyRead, wait
<1>5. CASE Tick
  <2>1. MaxWait + 1 \in Nat /\ MaxWait + 2 \in Nat
    BY WaitAssumption
  <2> QED
    BY <1>5, <2>1 DEF Tick
<1>6. CASE Start
  BY <1>6 DEF Start
<1>7. CASE Navigated \/ LookAgain \/ Cancel \/ Crash \/ TimesOut
  BY <1>7 DEF Navigated, LookAgain, Cancel, Crash, TimesOut, signals, wait
<1>8. CASE FirstReading
  BY <1>8 DEF FirstReading, StartedAt, signals
<1>9. CASE Poll
  BY <1>9 DEF Poll, Cleared, signals
<1> QED
  BY <1>1, <1>2, <1>3, <1>4, <1>5, <1>6, <1>7, <1>8, <1>9 DEF WaitNext

LEMMA StepEvidence ==
  ASSUME WaitShapes, EvidenceInv, [WaitNext]_waitVars
  PROVE  EvidenceInv'
<1> USE DEF EvidenceInv, ReleaseMeansAdmitted
<1>1. CASE UNCHANGED waitVars
  BY <1>1 DEF waitVars, outside, signals, wait, run, noticed, Noticed, Seeded, ReleaseHeard
<1>2. CASE QueueStarts \/ QueueEnds \/ Blank
  BY <1>2 DEF QueueStarts, QueueEnds, Blank, signals, wait, run, noticed, Noticed, Seeded,
              ReleaseHeard
<1>3. CASE ResponseSeen \/ PollerTells \/ PollerDies
  <2>1. UNCHANGED <<shop, blank, stage, clear, status, outcome, closed, through, stale>>
    BY <1>3 DEF ResponseSeen, PollerTells, PollerDies, outside, wait, run, noticed
  <2>2. shop = "queue" /\ ~ReleaseHeard => ~ReleaseHeard'
    BY <1>3, HeardFacts DEF ResponseSeen, PollerTells, PollerDies, ReleaseHeard
  <2> QED
    BY <2>1, <2>2 DEF Noticed, Seeded
<1>4. ASSUME NEW b \in {"queue", "released"}, BodyRead(b) PROVE EvidenceInv'
  <2>1. UNCHANGED <<shop, blank, stage, clear, status, outcome, closed, through, stale>>
    BY <1>4 DEF BodyRead, outside, wait, run, noticed
  <2>2. ~ReleaseHeard => ~ReleaseHeard'
    BY <1>4, HeardFacts DEF BodyRead, ReleaseHeard
  <2> QED
    BY <2>1, <2>2 DEF Noticed, Seeded
<1>5. CASE Tick
  <2>1. UNCHANGED <<shop, blank, stage, clear, status, outcome, closed, through, stale>>
    BY <1>5 DEF Tick, outside, run, noticed
  <2>2. ~ReleaseHeard => ~ReleaseHeard'
    BY <1>5, HeardFacts DEF Tick, ReleaseHeard, WaitShapes
  <2> QED
    BY <2>1, <2>2 DEF Noticed, Seeded
<1>6. CASE Start
  <2>1. ~ReleaseHeard'
    BY <1>6, HeardFacts DEF Start, ReleaseHeard
  <2> QED
    BY <1>6, <2>1 DEF Start, outside, noticed, Noticed, Seeded
<1>7. CASE Navigated \/ LookAgain \/ Cancel \/ Crash
  BY <1>7 DEF Navigated, LookAgain, Cancel, Crash, outside, signals, wait, run, noticed, Noticed,
              Seeded, ReleaseHeard, Listening
<1>8. CASE TimesOut
  BY <1>8 DEF TimesOut, outside, signals, noticed, Noticed, Seeded, ReleaseHeard
<1>9. CASE FirstReading
  <2>0. UNCHANGED <<shop, bodies, net, polled, status, closed>> /\ stage = "first"
    BY <1>9 DEF FirstReading, signals
  <2>1. CASE Active \/ Seeded
    <3>1. /\ stage' = "loop" /\ clear' = 0 /\ blank' = FALSE /\ outcome' = outcome
          /\ through' = ((Seeded /\ through) \/ shop = "open")
          /\ stale' = (IF Seeded THEN stale ELSE ReleaseHeard)
      BY <1>9, <2>1 DEF FirstReading
    <3>2. ~through' => shop = "queue"
      BY <3>1, <2>0 DEF Noticed, WaitShapes
    <3>3. ~through' /\ ~stale' => ~ReleaseHeard
      BY <3>1, <2>0 DEF Noticed, WaitShapes
    <3> QED
      BY <2>0, <3>1, <3>2, <3>3 DEF Noticed, ReleaseHeard
  <2>2. CASE ~(Active \/ Seeded)
    BY <1>9, <2>0, <2>2 DEF FirstReading, NotQueued, noticed, Noticed, Seeded, ReleaseHeard
  <2> QED
    BY <2>1, <2>2
<1>10. CASE Poll
  <2>0. /\ UNCHANGED <<shop, bodies, net, polled, closed, through, stale>>
        /\ stage = "loop" /\ blank' = FALSE
        /\ clear' = IF Active THEN 0 ELSE clear + 1
    BY <1>10 DEF Poll, Cleared, signals, noticed
  <2>1. ~closed /\ ~through /\ ~stale => clear' <= 1
    BY <2>0, QueueIsSeen DEF Noticed, WaitShapes
  <2>2. CASE clear' >= ReleaseConfirmations
    <3>1. stage' = "ended" /\ status' = "released" /\ outcome' = "released"
      BY <1>10, <2>2 DEF Poll
    <3>2. ~(clear' <= 1)
      BY <2>0, <2>2 DEF ReleaseConfirmations, WaitShapes
    <3> QED
      BY <2>0, <2>1, <3>1, <3>2 DEF Noticed, Seeded
  <2>3. CASE ~(clear' >= ReleaseConfirmations)
    <3>1. UNCHANGED <<stage, outcome>>
      BY <1>10, <2>3 DEF Poll
    <3> QED
      BY <2>0, <2>1, <3>1 DEF Noticed, Seeded, ReleaseHeard
  <2> QED
    BY <2>2, <2>3
<1> QED
  BY <1>1, <1>2, <1>3, <1>4, <1>5, <1>6, <1>7, <1>8, <1>9, <1>10 DEF WaitNext

LEMMA StepWindow ==
  ASSUME WaitShapes, WindowInv, [WaitNext]_waitVars
  PROVE  WindowInv'
<1> USE DEF WindowInv, WindowSpansRuns
<1>1. CASE UNCHANGED waitVars
  BY <1>1 DEF waitVars, wait, run, Noticed, Seeded
<1>2. CASE QueueStarts \/ QueueEnds \/ Blank \/ ResponseSeen \/ PollerTells \/ PollerDies
           \/ Navigated \/ Cancel \/ \E b \in {"queue", "released"} : BodyRead(b)
  BY <1>2 DEF QueueStarts, QueueEnds, Blank, ResponseSeen, PollerTells, PollerDies, BodyRead,
              Navigated, Cancel, wait, run, Noticed, Seeded
<1>3. CASE Tick
  <2>1. /\ UNCHANGED <<stage, status>> /\ slept'
        /\ age' = Older(age, MaxWait + 1) /\ waited' = Older(waited, MaxWait + 2)
    BY <1>3 DEF Tick, run
  <2>2. age' <= MaxWait => age <= MaxWait /\ age' = age + 1 /\ (waited = age => waited' = age + 1)
    BY <2>1, WaitAssumption DEF WaitShapes, Older
  <2> QED
    BY <2>1, <2>2 DEF Noticed, Seeded
<1>4. CASE Start \/ LookAgain \/ Crash \/ TimesOut
  BY <1>4 DEF Start, LookAgain, Crash, TimesOut, Noticed, Seeded
<1>5. CASE FirstReading
  BY <1>5 DEF FirstReading, NotQueued, StartedAt, Noticed, Seeded
<1>6. CASE Poll
  BY <1>6, WaitAssumption DEF Poll, Noticed, Seeded, WaitShapes
<1> QED
  BY <1>1, <1>2, <1>3, <1>4, <1>5, <1>6 DEF WaitNext

(* Both readings of the history need that nothing happens to a noticed queue *)
(* unseen: a run that ends without an answer leaves the status it has told,  *)
(* and the next one takes up the wait from there.                            *)
THEOREM WaitHolds == WaitSpec => []WaitInv
<1>1. WaitInv /\ [WaitNext]_waitVars => WaitInv'
  BY StepWaitShapes, StepEvidence, StepWindow DEF WaitInv
<1> QED
  BY InitWait, <1>1, PTL DEF WaitSpec

(* A noticed queue is reported as left only if the shop has let its visitors *)
(* in since, or on the word of an answer from before; single readings        *)
(* between two pages that see nothing do not suffice (queue-waiter.ts,       *)
(* RELEASE_CONFIRMATIONS).                                                   *)
THEOREM ReleaseIsTrue == WaitSpec => []ReleaseMeansAdmitted
<1>1. WaitInv => ReleaseMeansAdmitted
  BY DEF WaitInv, EvidenceInv
<1> QED
  BY WaitHolds, <1>1, PTL

(* No poll is made after the hour that began when the queue was first seen,  *)
(* however often the task is run again meanwhile (queue-waiter.ts,           *)
(* startedAt of the seeded status).                                          *)
THEOREM HourIsOne == WaitSpec => []WindowSpansRuns
<1>1. WaitInv => WindowSpansRuns
  BY DEF WaitInv, WindowInv
<1> QED
  BY WaitHolds, <1>1, PTL

-------------------------------------------------------------------------------
(***************************************************************************)
(* FormFill: what the controls hold.                                       *)
(***************************************************************************)

Names == {KnownNames[k] : k \in DOMAIN KnownNames}
Targets == {TargetOf(f) : f \in Fields} \union {<<"unknown", name>> : name \in Names}
Locators == [by : {"nth"}, n : Nat, intent : {"none"}] \union
            [by : {"name"}, n : Selectors, intent : Names]
Item == [at : Locators, target : Targets]
Job == [at : Locators, target : Targets, tries : {0, 1}, step : {"write", "verify"}]

FormShapes ==
  /\ dom \in Seq(Fields) /\ visible \subseteq Fields /\ stirred \in BOOLEAN /\ changes \in Nat
  /\ text = [f \in Fields |-> text[f]]
  /\ todo \in Seq(Item)
  /\ job = NoJob \/ (job \in Job /\ pc \in {"semantic", "named"})
  /\ pc = "plan" => \A f \in Fields : text[f] = Empty

\* The controls a run recognises: none if the profile has KI AutoFill switched off.
Known == {n \in DOMAIN dom : MeantFor(dom[n]) # "unknown"}

\* No visible control is recognised as it, so that its selectors may be tried.
Free(intent) == \A n \in Known : dom[n] \in visible => MeantFor(dom[n]) # intent

\* An item of a pass goes with the control it leads to: by its place, or by a selector.
Fits(item) ==
  \/ /\ item.at.by = "nth" /\ item.at.n \in Known
     /\ item.target = TargetOf(dom[item.at.n])
  \/ item.at.by = "name" /\ item.target = <<"unknown", item.at.intent>>

(* While the page puts no control among those of a pass: what the markup of  *)
(* a visible control says was met, or is still to be looked at, when the     *)
(* selectors are tried; so a selector leads to no control that is recognised *)
(* as what the selector is for.                                              *)
PassInv ==
  /\ \A f \in Fields : OwnValue(f)
  /\ pc = "semantic" => \A k \in DOMAIN todo : Fits(todo[k]) /\ todo[k].at.by = "nth"
  /\ pc = "named" => \A k \in DOMAIN todo : Fits(todo[k]) /\ todo[k].at.by = "name"
  /\ pc = "semantic" =>
       \A n \in Known : dom[n] \in visible =>
         TargetOf(dom[n]) \in seen \/ \E k \in DOMAIN todo : todo[k].at = Nth(n)
  /\ pc = "named" =>
       \A n \in Known : dom[n] \in visible => TargetOf(dom[n]) \in seen
  /\ pc = "named" /\ trying # "none" =>
       Free(trying) /\ Desired(<<"unknown", trying>>) # Empty
  /\ job # NoJob =>
       /\ Fits(job)
       /\ job.at.by = "name" /\ Points(job.at) => MeantFor(At(job.at)) # job.at.intent

FormInv == FormShapes /\ (~stirred => PassInv)

(* What a locator leads to.                                                *)

\* Natural numbers that satisfy something have a least one that does.
LEMMA LeastNatural ==
  ASSUME NEW S \in SUBSET Nat, S # {}
  PROVE  \E m \in S : \A n \in S : m <= n
<1> DEFINE Segments == {0 .. n : n \in S}
<1>1. Segments \subseteq FiniteSubsetsOf(Nat) /\ Segments # {}
  <2>1. \A n \in S : 0 .. n \in SUBSET Nat /\ IsFiniteSet(0 .. n)
    BY FS_Interval
  <2> QED
    BY <2>1 DEF FiniteSubsetsOf
<1>2. PICK T \in Segments : \A U \in Segments : <<U, T>> \notin StrictSubsetOrdering(Nat)
  BY <1>1, WFMin, FS_StrictSubsetOrderingWellFounded
<1>3. PICK m \in S : T = 0 .. m
  BY <1>2
<1>4. ASSUME NEW n \in S PROVE m <= n
  <2>1. CASE n < m
    <3>1. 0 .. n \subseteq 0 .. m /\ m \notin 0 .. n /\ m \in 0 .. m
      BY <2>1
    <3>2. <<0 .. n, 0 .. m>> \in StrictSubsetOrdering(Nat)
      BY <3>1 DEF StrictSubsetOrdering
    <3> QED
      BY <1>2, <1>3, <3>2
  <2> QED
    BY <2>1
<1> QED
  BY <1>4

\* A locator leads to the first control that matches.
LEMMA AtFacts ==
  ASSUME dom \in Seq(Fields), NEW loc, Points(loc)
  PROVE  /\ At(loc) \in Fields
         /\ loc.by = "nth" => loc.n \in DOMAIN dom /\ At(loc) = dom[loc.n]
         /\ loc.by = "name" => /\ <<loc.intent, loc.n>> \in Meta[At(loc)].named
                               /\ \E n \in DOMAIN dom : At(loc) = dom[n]
<1>1. Matching(loc) \subseteq DOMAIN dom /\ Matching(loc) # {} /\ DOMAIN dom = 1..Len(dom)
  BY DEF Matching, Points
<1>2. PICK m \in Matching(loc) : \A j \in Matching(loc) : m <= j
  <2>1. Matching(loc) \in SUBSET Nat
    BY <1>1
  <2> QED
    BY <1>1, <2>1, LeastNatural
<1> DEFINE i == CHOOSE i \in Matching(loc) : \A j \in Matching(loc) : i <= j
<1>3. i \in Matching(loc)
  BY <1>2
<1>4. At(loc) = dom[i] /\ i \in DOMAIN dom /\ dom[i] \in Fields
  BY <1>1, <1>3 DEF At
<1>5. loc.by = "nth" => loc.n \in DOMAIN dom /\ i = loc.n
  BY <1>3 DEF Matching
<1>6. loc.by = "name" => <<loc.intent, loc.n>> \in Meta[dom[i]].named
  BY <1>3 DEF Matching
<1> HIDE DEF i
<1> QED
  BY <1>4, <1>5, <1>6

\* A set in order: a sequence of its members that has them all.
LEMMA InOrderFacts ==
  ASSUME NEW S, IsFiniteSet(S), NEW rank, NEW order \in InOrder(S, rank)
  PROVE  /\ order \in Seq(S) /\ order \in [1..Len(order) -> S]
         /\ \A x \in S : \E k \in 1..Len(order) : order[k] = x
<1>1. Cardinality(S) \in Nat
  BY FS_CardinalityType
<1>2. /\ order \in [1..Cardinality(S) -> S]
      /\ \A x \in S : \E k \in 1..Cardinality(S) : order[k] = x
  BY DEF InOrder, Bijection, Injection, Surjection
<1>3. order \in Seq(S) /\ Len(order) = Cardinality(S)
  BY <1>1, <1>2
<1> QED
  BY <1>2, <1>3

LEMMA InitForm == FormInit => FormInv
<1> SUFFICES ASSUME FormInit PROVE FormInv
  OBVIOUS
<1>1. FormShapes
  <2>1. dom \in Seq(Fields) /\ visible \subseteq Fields /\ todo \in Seq(Item)
    <3>1. \A n \in DOMAIN Rendered : Rendered[n] \in Fields
      BY FormAssumption
    <3> QED
      BY <3>1, FormAssumption DEF FormInit
  <2>2. text = [f \in Fields |-> text[f]] /\ \A f \in Fields : text[f] = Empty
    BY DEF FormInit
  <2> QED
    BY <2>1, <2>2 DEF FormInit, FormShapes
<1>2. PassInv
  BY DEF FormInit, PassInv, OwnValue
<1> QED
  BY <1>1, <1>2 DEF FormInv

\* A job is not the absence of one, and a failed attempt leaves a job for the same control.
LEMMA JobFacts ==
  /\ NoJob \notin Job /\ NoJob.step = "idle"
  /\ \A j \in Job :
       /\ j.step # "idle" /\ j.at \in Locators /\ j.target \in Targets
       /\ [j EXCEPT !.step = "verify"] \in Job
       /\ [j EXCEPT !.step = "verify"].at = j.at /\ [j EXCEPT !.step = "verify"].target = j.target
       /\ Failed(j) # NoJob => Failed(j) \in Job /\ Failed(j).at = j.at /\ Failed(j).target = j.target
<1>1. NoJob \notin Job /\ NoJob.step = "idle"
  BY DEF NoJob, Job
<1>2. ASSUME NEW j \in Job
      PROVE  /\ j.step # "idle" /\ j.at \in Locators /\ j.target \in Targets
             /\ [j EXCEPT !.step = "verify"] \in Job
             /\ [j EXCEPT !.step = "verify"].at = j.at
             /\ [j EXCEPT !.step = "verify"].target = j.target
  BY DEF Job
<1>3. ASSUME NEW j \in Job, j.tries = 0
      PROVE  /\ Failed(j) \in Job
             /\ Failed(j).at = j.at /\ Failed(j).target = j.target
  <2>1. Failed(j) = [j EXCEPT !.tries = 1, !.step = "write"]
    BY <1>3 DEF Failed
  <2> QED
    BY <2>1 DEF Job
<1>4. ASSUME NEW j \in Job, j.tries # 0 PROVE Failed(j) = NoJob
  BY <1>4 DEF Failed
<1> QED
  BY <1>1, <1>2, <1>3, <1>4

\* What a run recognises.
LEMMA KnownFacts ==
  /\ Known \subseteq Recognised /\ Recognised \subseteq DOMAIN dom
  /\ profile.kiAutofill => Known = Recognised
  /\ ~profile.kiAutofill => Known = {}
  /\ \A n \in Known : profile.kiAutofill /\ MeantFor(dom[n]) = TargetOf(dom[n])[2]
  BY DEF Known, Recognised, MeantFor, TargetOf

LEMMA PlaceFits ==
  ASSUME dom \in Seq(Fields), NEW n \in Known,
         NEW item, item = [at |-> Nth(n), target |-> TargetOf(dom[n])]
  PROVE  item \in Item /\ Fits(item) /\ item.at = Nth(n) /\ item.at.by = "nth"
<1>2. n \in Nat /\ dom[n] \in Fields
  BY DEF Known
<1>1. Nth(n) \in Locators /\ Nth(n).by = "nth" /\ Nth(n).n = n
  BY <1>2 DEF Nth, Locators
<1>3. TargetOf(dom[n]) \in Targets
  BY <1>2 DEF Targets
<1>4. item.at = Nth(n) /\ item.target = TargetOf(dom[n])
  OBVIOUS
<1> QED
  BY <1>1, <1>3, <1>4 DEF Item, Fits

\* The items of a pass: one for each control that is recognised, and the selectors.
LEMMA ItemsFacts ==
  ASSUME dom \in Seq(Fields), profile.kiAutofill, NEW order \in InOrder(Recognised, Rank)
  PROVE  /\ Items(order) \in Seq(Item)
         /\ \A k \in DOMAIN Items(order) : Fits(Items(order)[k]) /\ Items(order)[k].at.by = "nth"
         /\ \A n \in Known : \E k \in DOMAIN Items(order) : Items(order)[k].at = Nth(n)
<1>1. IsFiniteSet(Recognised) /\ Recognised \subseteq 1..Len(dom)
  <2>1. Recognised \in SUBSET (1..Len(dom)) /\ Len(dom) \in Int
    BY DEF Recognised
  <2>2. IsFiniteSet(1..Len(dom))
    BY <2>1, FS_Interval
  <2> QED
    BY <2>1, <2>2, FS_Subset
<1>2. /\ order \in Seq(Recognised) /\ order \in [1..Len(order) -> Recognised]
      /\ \A n \in Recognised : \E k \in 1..Len(order) : order[k] = n
  BY <1>1, InOrderFacts
<1>3. Len(order) \in Nat /\ DOMAIN order = 1..Len(order) /\ DOMAIN Items(order) = 1..Len(order)
  BY <1>2 DEF Items
<1>4. ASSUME NEW k \in 1..Len(order)
      PROVE  /\ Items(order)[k] = [at |-> Nth(order[k]), target |-> TargetOf(dom[order[k]])]
             /\ order[k] \in Known
  <2>1. order[k] \in Recognised /\ k \in DOMAIN order
    BY <1>2, <1>3
  <2> QED
    BY <2>1, KnownFacts DEF Items
<1>5. ASSUME NEW k \in 1..Len(order)
      PROVE  /\ Items(order)[k] \in Item /\ Fits(Items(order)[k])
             /\ Items(order)[k].at = Nth(order[k]) /\ Items(order)[k].at.by = "nth"
  BY <1>4, PlaceFits
<1>6. Items(order) \in Seq(Item)
  <2>1. Items(order) \in [1..Len(order) -> Item]
    BY <1>3, <1>5 DEF Items
  <2> QED
    BY <1>3, <2>1
<1> QED
  <2>1. ASSUME NEW n \in Known PROVE \E k \in DOMAIN Items(order) : Items(order)[k].at = Nth(n)
    <3>1. PICK k \in 1..Len(order) : order[k] = n
      BY <1>2, KnownFacts
    <3> QED
      BY <1>3, <1>5, <3>1
  <2> QED
    BY <1>3, <1>5, <1>6, <2>1

LEMMA NamesFacts ==
  ASSUME NEW order \in FallbackOrders,
         NEW items, items = [k \in DOMAIN order |-> NamedItem(order[k])]
  PROVE  /\ items \in Seq(Item)
         /\ \A k \in DOMAIN items : Fits(items[k]) /\ items[k].at.by = "name"
<1>1. Fallbacks \subseteq (1..9) \X Selectors /\ DOMAIN KnownNames = 1..9
  BY DEF Fallbacks, KnownNames
<1>2. IsFiniteSet(Fallbacks)
  <2>1. IsFiniteSet(1..9)
    BY FS_Interval, 1 \in Int, 9 \in Int
  <2>2. IsFiniteSet(Selectors)
    BY FS_Interval, 1 \in Int, 4 \in Int DEF Selectors
  <2>3. IsFiniteSet((1..9) \X Selectors)
    BY <2>1, <2>2, FS_Product
  <2> QED
    BY <1>1, <2>3, FS_Subset
<1>3. order \in Seq(Fallbacks) /\ order \in [1..Len(order) -> Fallbacks]
  BY <1>2, InOrderFacts DEF FallbackOrders
<1>4. ASSUME NEW k \in 1..Len(order)
      PROVE  /\ items[k] \in Item /\ Fits(items[k]) /\ items[k].at.by = "name"
  <2>1. PICK p \in (1..9) \X Selectors : p = order[k]
    BY <1>1, <1>3
  <2>2. KnownNames[p[1]] \in Names /\ p[2] \in Selectors /\ items[k] = NamedItem(p)
    BY <1>1, <1>3, <2>1 DEF Names
  <2> QED
    BY <2>2 DEF NamedItem, Named, Item, Locators, Targets, Fits
<1>5. items \in [1..Len(order) -> Item]
  BY <1>3, <1>4
<1> QED
  BY <1>3, <1>4, <1>5

\* What looking at an item does.
LEMMA ConsiderFacts ==
  ASSUME NEW item \in Item, NEW holds, job = NoJob, Consider(item, holds)
  PROVE  /\ seen' = IF Interactive(item.at) THEN seen \union {item.target} ELSE seen
         /\ \/ job' = NoJob
            \/ job' \in Job /\ job'.at = item.at /\ job'.target = item.target
                 /\ Interactive(item.at)
  BY DEF Consider, Begin, Item, Job

LEMMA StepFormShapes == FormShapes /\ [FormNext]_formVars => FormShapes'
<1> SUFFICES ASSUME FormShapes, [FormNext]_formVars PROVE FormShapes'
  OBVIOUS
<1> USE DEF FormShapes
<1>1. CASE UNCHANGED formVars
  BY <1>1 DEF formVars
<1>2. CASE Plan
  BY <1>2 DEF Plan, pageVars, passVars
<1>3. CASE Collect
  <2>1. ASSUME profile.kiAutofill, NEW order \in InOrder(Recognised, Rank)
        PROVE  Items(order) \in Seq(Item)
    BY <2>1, ItemsFacts
  <2>2. \/ todo' = <<>>
        \/ profile.kiAutofill /\ \E order \in InOrder(Recognised, Rank) : todo' = Items(order)
    BY <1>3 DEF Collect
  <2>3. <<>> \in Seq(Item)
    OBVIOUS
  <2>4. todo' \in Seq(Item)
    BY <2>1, <2>2, <2>3, Zenon
  <2>5. (stirred' = TRUE \/ stirred' = stirred) /\ (changes' = changes \/ changes' = changes + 1)
    BY <1>3 DEF Collect, PassBegins, Changed
  <2>6. stirred' \in BOOLEAN /\ changes' \in Nat /\ pc' = "semantic"
    <3>1. stirred' \in BOOLEAN
      BY <2>5, Zenon
    <3> QED
      BY <1>3, <2>5, <3>1 DEF Collect
  <2>7. UNCHANGED <<dom, visible, text>> /\ job' = NoJob
    BY <1>3 DEF Collect
  <2> QED
    BY <2>4, <2>6, <2>7
<1>4. CASE LookSemantic \/ LookNamed
  <2>1. todo # <<>> /\ Head(todo) \in Item /\ Tail(todo) \in Seq(Item)
    BY <1>4 DEF LookSemantic, LookNamed
  <2>2. job' = NoJob \/ job' \in Job
    BY <1>4, <2>1, ConsiderFacts DEF LookSemantic, LookNamed
  <2> QED
    BY <1>4, <2>1, <2>2 DEF LookSemantic, LookNamed, pageVars
<1>5. CASE BeginNames
  <2>1. todo' \in Seq(Item)
    BY <1>5, NamesFacts DEF BeginNames
  <2> QED
    BY <1>5, <2>1 DEF BeginNames, pageVars
<1>6. CASE Write
  <2>1. job \in Job
    BY <1>6, JobFacts DEF Write
  <2>2. job' = NoJob \/ job' \in Job
    BY <1>6, <2>1, JobFacts DEF Write
  <2>3. text' = [f \in Fields |-> text'[f]]
    BY <1>6 DEF Write
  <2> QED
    BY <1>6, <2>1, <2>2, <2>3, JobFacts DEF Write, passVars
<1>7. CASE Verify
  <2>1. job \in Job
    BY <1>7, JobFacts DEF Verify
  <2> QED
    BY <1>7, <2>1, JobFacts DEF Verify, pageVars
<1>8. CASE Evaluate \/ (\E t \in unread : ReadBack(t)) \/ Judge \/ Conclude
  <2>1. job' = NoJob /\ job = NoJob /\ pc' # "plan"
    BY <1>8, JobFacts DEF Evaluate, ReadBack, Judge, Conclude
  <2> QED
    BY <1>8, <2>1 DEF Evaluate, ReadBack, Judge, Conclude, pageVars, passVars
<1>9. CASE Insert
  <2>1. dom' \in Seq(Fields) /\ visible' \subseteq Fields
    BY <1>9 DEF Insert, InsertAt
  <2> QED
    BY <1>9, <2>1 DEF Insert, Changed, passVars
<1>10. CASE Toggle
  BY <1>10 DEF Toggle, Changed, passVars
<1>11. CASE Reset
  <2>1. text' = [g \in Fields |-> text'[g]] /\ (pc = "plan" => text' = text)
    BY <1>11 DEF Reset
  <2> QED
    BY <1>11, <2>1 DEF Reset, Changed, passVars
<1> QED
  BY <1>1, <1>2, <1>3, <1>4, <1>5, <1>6, <1>7, <1>8, <1>9, <1>10, <1>11 DEF FormNext

\* What a control is for does not change while it is there, nor does its value in the profile.
LEMMA OwnValueKept ==
  ASSUME UNCHANGED <<profile, billing>>, NEW f \in Fields, OwnValue(f),
         text'[f] = text[f] \/ text'[f] = Empty
  PROVE  OwnValue(f)'
<1>1. \A t : Desired(t)' = Desired(t)
  BY DEF Desired, ValueFor, FromAddress, HasValue, ShippingAddress, BillingValue
<1>2. TargetOf(f)' = TargetOf(f) /\ MeantFor(f)' = MeantFor(f)
  BY DEF TargetOf, MeantFor, IntentOf, ContextOf
<1>3. text'[f] = Empty => OwnValue(f)'
  BY DEF OwnValue
<1>4. CASE text'[f] = text[f]
  BY <1>1, <1>2, <1>4 DEF OwnValue
<1> QED
  BY <1>3, <1>4

\* As long as the controls stay where they are, so does what a locator leads to.
LEMMA PlacesKept ==
  ASSUME UNCHANGED <<dom, profile>>
  PROVE  /\ \A item : Fits(item)' <=> Fits(item)
         /\ \A loc : (Points(loc)' <=> Points(loc)) /\ At(loc)' = At(loc)
         /\ \A f : TargetOf(f)' = TargetOf(f) /\ MeantFor(f)' = MeantFor(f)
         /\ Known' = Known
  BY DEF Fits, Points, At, Matching, TargetOf, MeantFor, IntentOf, ContextOf, Known

\* What is free stays so while no control is put or shown.
LEMMA FreeKept ==
  ASSUME UNCHANGED <<dom, profile>>, visible' \subseteq visible, NEW intent, Free(intent)
  PROVE  Free(intent)'
  BY PlacesKept DEF Free, Known, MeantFor, IntentOf

LEMMA LookFacts ==
  ASSUME FormShapes, todo # <<>>, NEW n, n \in DOMAIN dom,
         NEW k \in DOMAIN todo, todo[k].at = Nth(n)
  PROVE  \/ Head(todo).at = Nth(n)
         \/ \E i \in DOMAIN Tail(todo) : Tail(todo)[i].at = Nth(n)
<1>1. todo \in Seq(Item) /\ Head(todo) = todo[1] /\ k \in 1..Len(todo)
  BY DEF FormShapes
<1>2. CASE k = 1
  BY <1>1, <1>2
<1>3. CASE k # 1
  <2>1. k - 1 \in 1..Len(Tail(todo)) /\ Tail(todo)[k - 1] = todo[k]
    BY <1>1, <1>3
  <2> QED
    BY <1>1, <2>1
<1> QED
  BY <1>2, <1>3

\* The items left are items there were.
LEMMA TailFacts ==
  ASSUME todo \in Seq(Item), todo # <<>>
  PROVE  /\ Head(todo) \in Item /\ 1 \in DOMAIN todo /\ Head(todo) = todo[1]
         /\ \A i \in DOMAIN Tail(todo) : \E k \in DOMAIN todo : Tail(todo)[i] = todo[k]
<1>1. \A i \in DOMAIN Tail(todo) : i + 1 \in DOMAIN todo /\ Tail(todo)[i] = todo[i + 1]
  OBVIOUS
<1> QED
  BY <1>1

\* As do the selectors being tried.
LEMMA TryingKept ==
  ASSUME UNCHANGED <<dom, profile, billing, trying>>, visible' \subseteq visible, Free(trying),
         Desired(<<"unknown", trying>>) # Empty
  PROVE  Free(trying)' /\ Desired(<<"unknown", trying>>)' # Empty
  BY DEF Free, Known, MeantFor, IntentOf, Desired, ValueFor, FromAddress, HasValue,
         ShippingAddress, BillingValue

LEMMA LookSemanticKeeps ==
  ASSUME FormShapes, PassInv, LookSemantic
  PROVE  PassInv'
<1>1. /\ pc = "semantic" /\ pc' = "semantic" /\ job = NoJob /\ todo # <<>> /\ todo \in Seq(Item)
      /\ UNCHANGED <<profile, dom, visible, text, billing>> /\ todo' = Tail(todo)
  BY DEF LookSemantic, pageVars, FormShapes
<1> DEFINE item == Head(todo)
<1>2. item \in Item /\ Fits(item) /\ item.at.by = "nth"
  BY <1>1, TailFacts DEF PassInv
<1>3. /\ seen \subseteq seen' /\ (Interactive(item.at) => item.target \in seen')
      /\ \/ job' = NoJob
         \/ job' \in Job /\ job'.at = item.at /\ job'.target = item.target /\ Interactive(item.at)
  BY <1>1, <1>2, ConsiderFacts DEF LookSemantic
<1>4. \A f \in Fields : OwnValue(f)'
  BY <1>1, OwnValueKept DEF PassInv
<1>5. \A k \in DOMAIN todo' : Fits(todo'[k]) /\ todo'[k].at.by = "nth"
  BY <1>1, TailFacts DEF PassInv
<1>6. ASSUME NEW n \in Known', dom'[n] \in visible'
      PROVE  TargetOf(dom[n]) \in seen' \/ \E k \in DOMAIN todo' : todo'[k].at = Nth(n)
  <2>1. n \in Known /\ n \in DOMAIN dom /\ dom[n] \in visible
    BY <1>1, <1>6, PlacesKept DEF Known
  <2>2. CASE TargetOf(dom[n]) \in seen
    BY <1>3, <2>2
  <2>3. ASSUME NEW k \in DOMAIN todo, todo[k].at = Nth(n)
        PROVE  TargetOf(dom[n]) \in seen' \/ \E i \in DOMAIN todo' : todo'[i].at = Nth(n)
    <3>1. CASE item.at = Nth(n)
      <4>1. item.at.n = n /\ item.target = TargetOf(dom[n])
        BY <1>2, <3>1 DEF Fits, Nth
      <4>2. Points(item.at)
        BY <1>2, <2>1, <4>1 DEF Points, Matching
      <4>3. At(item.at) = dom[n]
        BY <1>2, <4>1, <4>2, AtFacts DEF FormShapes
      <4> QED
        BY <1>3, <2>1, <4>1, <4>2, <4>3 DEF Interactive
    <3> QED
      BY <1>1, <2>1, <2>3, <3>1, LookFacts
  <2> QED
    BY <1>1, <2>1, <2>2, <2>3 DEF PassInv
<1>7. job' # NoJob => Fits(job') /\ job'.at.by = "nth"
  BY <1>2, <1>3 DEF Fits
<1> HIDE DEF item
<1> QED
  BY <1>1, <1>4, <1>5, <1>6, <1>7, PlacesKept DEF PassInv, Fits

\* A selector is tried only while no visible control is recognised as what it is for.
LEMMA TriedIsFree ==
  ASSUME PassInv, pc = "named", NEW item, Fits(item), item.at.by = "name",
         item.at.intent \in Names, IsTried(item)
  PROVE  Free(item.at.intent) /\ Desired(item.target) # Empty
<1>1. item.target = <<"unknown", item.at.intent>> /\ item.at.intent # "none"
  BY DEF Fits, Names, KnownNames
<1>2. CASE IsFirst(item.at)
  <2>1. Unrecognised(item.at.intent) /\ Desired(item.target) # Empty
    BY <1>1, <1>2 DEF IsTried
  <2>2. ASSUME NEW n \in Known, dom[n] \in visible, MeantFor(dom[n]) = item.at.intent
        PROVE  FALSE
    <3>1. TargetOf(dom[n]) \in seen /\ TargetOf(dom[n])[2] = item.at.intent
      BY <2>2, KnownFacts DEF PassInv
    <3> QED
      BY <2>1, <3>1 DEF Unrecognised
  <2> QED
    BY <2>1, <2>2 DEF Free
<1>3. CASE ~IsFirst(item.at)
  BY <1>1, <1>3 DEF IsTried, PassInv
<1> QED
  BY <1>2, <1>3

LEMMA LookNamedKeeps ==
  ASSUME FormShapes, PassInv, LookNamed
  PROVE  PassInv'
<1>1. /\ pc = "named" /\ pc' = "named" /\ job = NoJob /\ todo # <<>> /\ todo \in Seq(Item)
      /\ UNCHANGED <<profile, dom, visible, text, billing>> /\ todo' = Tail(todo)
  BY DEF LookNamed, pageVars, FormShapes
<1>0. PICK item : item = Head(todo)
  OBVIOUS
<1>2. item \in Item /\ Fits(item) /\ item.at.by = "name"
  BY <1>0, <1>1, TailFacts DEF PassInv
<1>8. item.at.intent \in Names /\ item.target = <<"unknown", item.at.intent>>
  BY <1>2 DEF Item, Locators, Fits
<1>3. /\ seen \subseteq seen'
      /\ \/ job' = NoJob
         \/ /\ job' \in Job /\ job'.at = item.at /\ job'.target = item.target
            /\ Interactive(item.at) /\ IsTried(item)
      /\ trying' = "none" \/ (trying' = item.at.intent /\ IsTried(item))
  <2>1. CASE IsTried(item) /\ Consider(item, Holds(item.target))
    BY <1>0, <1>1, <1>2, <1>8, <2>1, ConsiderFacts DEF LookNamed
  <2>2. CASE UNCHANGED <<seen, job>> /\ trying' = "none"
    BY <1>1, <2>2
  <2> QED
    BY <1>0, <2>1, <2>2 DEF LookNamed
<1>4. \A f \in Fields : OwnValue(f)'
  BY <1>1, OwnValueKept DEF PassInv
<1>5. \A k \in DOMAIN todo' : Fits(todo'[k]) /\ todo'[k].at.by = "name"
  BY <1>1, TailFacts DEF PassInv
<1>6. ASSUME NEW n \in Known', dom'[n] \in visible'
      PROVE  TargetOf(dom[n]) \in seen'
  BY <1>1, <1>3, <1>6, PlacesKept DEF PassInv
<1>7. ASSUME job' # NoJob
      PROVE  Fits(job') /\ job'.at.by = "name" /\ MeantFor(At(job'.at)) # job'.at.intent
  <2>1. /\ job'.at = item.at /\ job'.target = item.target /\ Interactive(item.at)
        /\ IsTried(item)
    BY <1>3, <1>7
  <2>2. Free(item.at.intent) /\ item.at.intent # "unknown"
    BY <1>1, <1>2, <1>8, <2>1, TriedIsFree DEF Names, KnownNames
  <2>3. PICK n \in DOMAIN dom : At(item.at) = dom[n]
    BY <1>2, <2>1, AtFacts DEF FormShapes, Interactive
  <2>4. MeantFor(dom[n]) # item.at.intent
    BY <2>1, <2>2, <2>3 DEF Free, Known, Interactive
  <2> QED
    BY <1>2, <2>1, <2>3, <2>4 DEF Fits
<1>9. trying' # "none" => Free(trying)' /\ (Desired(<<"unknown", trying>>) # Empty)'
  <2>1. ASSUME trying' # "none"
        PROVE  /\ trying' = item.at.intent /\ Free(item.at.intent)'
               /\ Desired(<<"unknown", item.at.intent>>)' # Empty
    <3>1. trying' = item.at.intent /\ Free(item.at.intent) /\ Desired(item.target) # Empty
      BY <1>1, <1>2, <1>3, <1>8, <2>1, TriedIsFree
    <3>2. Free(item.at.intent)'
      BY <1>1, <3>1, FreeKept
    <3>3. Desired(<<"unknown", item.at.intent>>)' = Desired(<<"unknown", item.at.intent>>)
      BY <1>1 DEF Desired, ValueFor, FromAddress, HasValue, ShippingAddress, BillingValue
    <3> QED
      BY <1>8, <3>1, <3>2, <3>3
  <2>2. ASSUME trying' # "none" PROVE Free(trying)'
    BY <2>1, <2>2 DEF Free, Known, MeantFor, IntentOf
  <2>3. ASSUME trying' # "none" PROVE Desired(<<"unknown", trying>>)' # Empty
    BY <2>1, <2>3 DEF Desired, ValueFor, FromAddress, HasValue, ShippingAddress, BillingValue
  <2> QED
    BY <2>2, <2>3
<1> QED
  BY <1>1, <1>4, <1>5, <1>6, <1>7, <1>9, PlacesKept DEF PassInv, Fits

LEMMA WriteKeeps ==
  ASSUME FormShapes, PassInv, Write
  PROVE  PassInv'
<1>1. /\ job \in Job /\ job # NoJob
      /\ UNCHANGED <<profile, dom, visible, billing, pc, todo, seen>>
  BY JobFacts DEF Write, FormShapes, passVars
<1>2. \A f \in Fields : OwnValue(f)'
  <2>1. CASE UNCHANGED text
    BY <1>1, <2>1, OwnValueKept DEF PassInv
  <2>2. CASE Interactive(job.at) /\ text' = [text EXCEPT ![At(job.at)] = Desired(job.target)]
    <3>1. At(job.at) \in Fields /\ Points(job.at)
      BY <2>2, AtFacts DEF FormShapes, Interactive
    <3>2. ASSUME NEW f \in Fields, f # At(job.at) PROVE OwnValue(f)'
      <4>1. text'[f] = text[f]
        BY <2>2, <3>2 DEF FormShapes
      <4> QED
        BY <1>1, <4>1, OwnValueKept DEF PassInv
    <3>3. text'[At(job.at)] = Desired(job.target)
      BY <2>2, <3>1 DEF FormShapes
    <3>4. Fits(job) /\ (job.at.by = "name" => MeantFor(At(job.at)) # job.at.intent)
      BY <1>1, <3>1 DEF PassInv
    <3>5. \A t : Desired(t)' = Desired(t)
      BY <1>1 DEF Desired, ValueFor, FromAddress, HasValue, ShippingAddress, BillingValue
    <3>6. PICK g : g = At(job.at)
      OBVIOUS
    <3>7. \/ MeantFor(g) # "unknown" /\ text'[g] = Desired(TargetOf(g))
          \/ \E s \in Meta[g].named : MeantFor(g) # s[1] /\ text'[g] = Desired(<<"unknown", s[1]>>)
      <4>1. CASE job.at.by = "nth"
        BY <3>1, <3>3, <3>4, <3>6, <4>1, AtFacts DEF Fits, FormShapes, Known
      <4>2. CASE job.at.by = "name"
        <5>1. PICK s : s = <<job.at.intent, job.at.n>>
          OBVIOUS
        <5>2. s \in Meta[g].named /\ MeantFor(g) # s[1]
          BY <3>1, <3>4, <3>6, <4>2, <5>1, AtFacts DEF FormShapes
        <5>3. text'[g] = Desired(<<"unknown", s[1]>>)
          BY <3>3, <3>4, <3>6, <4>2, <5>1 DEF Fits
        <5> QED
          BY <5>2, <5>3
      <4> QED
        BY <3>4, <4>1, <4>2 DEF Fits
    <3>8. MeantFor(g)' = MeantFor(g) /\ TargetOf(g)' = TargetOf(g)
      BY <1>1 DEF MeantFor, TargetOf, IntentOf, ContextOf
    <3>9. OwnValue(g)'
      BY <3>5, <3>7, <3>8 DEF OwnValue
    <3> QED
      BY <3>2, <3>6, <3>9
  <2> QED
    BY <2>1, <2>2 DEF Write
<1>3. \/ job' = NoJob
      \/ job' # NoJob /\ job'.at = job.at /\ job'.target = job.target
  BY <1>1, JobFacts DEF Write
<1>4. (pc = "named" /\ trying # "none" => Free(trying) /\ Desired(<<"unknown", trying>>) # Empty)'
  <2>1. UNCHANGED trying
    BY DEF Write, passVars
  <2> QED
    BY <1>1, <2>1, TryingKept DEF PassInv
<1> QED
  BY <1>1, <1>2, <1>3, <1>4, PlacesKept DEF PassInv, Fits

\* What stirred a page stays on the record.
LEMMA StirredKept ==
  ASSUME [FormNext]_formVars, stirred PROVE stirred'
<1>1. CASE Collect \/ Insert \/ Toggle
  BY <1>1 DEF Collect, PassBegins, Insert, Toggle
<1>2. CASE Plan \/ LookSemantic \/ BeginNames \/ LookNamed \/ Verify \/ Evaluate
           \/ (\E t \in unread : ReadBack(t)) \/ Judge \/ Conclude
  <2>1. UNCHANGED pageVars
    BY <1>2 DEF Plan, LookSemantic, BeginNames, LookNamed, Verify, Evaluate, ReadBack, Judge,
                Conclude
  <2> QED
    BY <2>1 DEF pageVars
<1>3. CASE Write \/ Reset \/ UNCHANGED formVars
  BY <1>3 DEF Write, Reset, formVars
<1> QED
  BY <1>1, <1>2, <1>3 DEF FormNext

LEMMA StepPass ==
  ASSUME FormShapes, ~stirred => PassInv, [FormNext]_formVars, ~stirred'
  PROVE  PassInv'
<1>0. ~stirred /\ PassInv
  BY StirredKept
<1>1. CASE UNCHANGED formVars
  <2>1. \A f \in Fields : OwnValue(f)'
    BY <1>0, <1>1, OwnValueKept DEF PassInv, formVars
  <2>2. UNCHANGED <<profile, dom, visible, billing, pc, todo, trying, job, seen>>
    BY <1>1 DEF formVars
  <2> QED
    BY <1>0, <2>1, <2>2, PlacesKept, TryingKept DEF PassInv, Fits
<1>2. CASE Plan
  <2>1. \A f \in Fields : text'[f] = Empty
    BY <1>2 DEF Plan, pageVars, FormShapes
  <2>2. pc' = "collect" /\ job' = NoJob
    BY <1>2 DEF Plan, FormShapes
  <2> QED
    BY <2>1, <2>2 DEF PassInv, OwnValue
<1>3. CASE Collect
  <2>1. \A f \in Fields : OwnValue(f)'
    BY <1>0, <1>3, OwnValueKept DEF PassInv, Collect
  <2>2. pc' = "semantic" /\ job' = NoJob /\ UNCHANGED <<profile, dom, visible, seen>>
    BY <1>3 DEF Collect, FormShapes
  <2>3. \/ profile.kiAutofill /\ \E order \in InOrder(Recognised, Rank) : todo' = Items(order)
        \/ ~profile.kiAutofill /\ todo' = <<>>
    BY <1>3 DEF Collect
  <2>4. /\ \A k \in DOMAIN todo' : Fits(todo'[k]) /\ todo'[k].at.by = "nth"
        /\ \A n \in Known : \E k \in DOMAIN todo' : todo'[k].at = Nth(n)
    BY <2>3, ItemsFacts, KnownFacts DEF FormShapes
  <2> QED
    BY <2>1, <2>2, <2>4, PlacesKept DEF PassInv, Fits
<1>4. CASE LookSemantic
  BY <1>0, <1>4, LookSemanticKeeps
<1>5. CASE BeginNames
  <2>1. \A f \in Fields : OwnValue(f)'
    BY <1>0, <1>5, OwnValueKept DEF PassInv, BeginNames, pageVars
  <2>2. /\ pc = "semantic" /\ todo = <<>> /\ pc' = "named" /\ job' = NoJob
        /\ trying' = "none" /\ UNCHANGED <<profile, dom, visible, seen>>
    BY <1>5 DEF BeginNames, pageVars
  <2>3. PICK order \in FallbackOrders : todo' = [k \in DOMAIN order |-> NamedItem(order[k])]
    BY <1>5 DEF BeginNames
  <2>4. \A k \in DOMAIN todo' : Fits(todo'[k]) /\ todo'[k].at.by = "name"
    BY <2>3, NamesFacts
  <2> QED
    BY <1>0, <2>1, <2>2, <2>4, PlacesKept DEF PassInv, Fits
<1>6. CASE LookNamed
  BY <1>0, <1>6, LookNamedKeeps
<1>7. CASE Write
  BY <1>0, <1>7, WriteKeeps
<1>8. CASE Verify
  <2>1. \A f \in Fields : OwnValue(f)'
    BY <1>0, <1>8, OwnValueKept DEF PassInv, Verify, pageVars
  <2>2. UNCHANGED <<profile, billing, pc, dom, visible, seen, todo>> /\ job \in Job /\ job # NoJob
    BY <1>8, JobFacts DEF Verify, pageVars, FormShapes
  <2>3. \/ job' = NoJob
        \/ job' # NoJob /\ job'.at = job.at /\ job'.target = job.target
    BY <1>8, <2>2, JobFacts DEF Verify
  <2>4. (pc = "named" /\ trying # "none" => Free(trying) /\ Desired(<<"unknown", trying>>) # Empty)'
    <3>1. trying' = "none" \/ UNCHANGED trying
      BY <1>8 DEF Verify
    <3> QED
      BY <1>0, <2>2, <3>1, TryingKept DEF PassInv
  <2> QED
    BY <1>0, <2>1, <2>2, <2>3, <2>4, PlacesKept DEF PassInv, Fits
<1>9. CASE Evaluate \/ (\E t \in unread : ReadBack(t)) \/ Judge \/ Conclude
  <2>1. \A f \in Fields : OwnValue(f)'
    BY <1>0, <1>9, OwnValueKept DEF PassInv, Evaluate, ReadBack, Judge, Conclude, pageVars
  <2>2. pc' \in {"collect", "judge", "final", "end"} /\ job' = NoJob
    BY <1>9, JobFacts DEF Evaluate, ReadBack, Judge, Conclude, FormShapes, Job
  <2> QED
    BY <2>1, <2>2 DEF PassInv
<1>10. CASE Insert
  <2>1. \A f \in Fields : OwnValue(f)'
    BY <1>0, <1>10, OwnValueKept DEF PassInv, Insert
  <2>2. pc \notin {"semantic", "named"} /\ pc' = pc /\ job' = NoJob
    BY <1>10 DEF Insert, InPass, FormShapes
  <2> QED
    BY <2>1, <2>2 DEF PassInv
<1>11. CASE Toggle
  <2>1. \A f \in Fields : OwnValue(f)'
    BY <1>0, <1>11, OwnValueKept DEF PassInv, Toggle
  <2>2. UNCHANGED <<profile, billing, pc, dom, seen, todo, trying, job>>
    BY <1>11 DEF Toggle, passVars
  <2>3. pc \in {"semantic", "named"} => visible' \subseteq visible
    BY <1>11 DEF Toggle, InPass
  <2>4. pc \in {"semantic", "named"} \/ job = NoJob
    BY DEF FormShapes
  <2>5. (pc = "named" /\ trying # "none" => Free(trying) /\ Desired(<<"unknown", trying>>) # Empty)'
    BY <1>0, <2>2, <2>3, TryingKept DEF PassInv
  <2> QED
    BY <1>0, <2>1, <2>2, <2>3, <2>4, <2>5, PlacesKept DEF PassInv, Fits
<1>12. CASE Reset
  <2>1. \A f \in Fields : text'[f] = text[f] \/ text'[f] = Empty
    BY <1>12 DEF Reset, FormShapes
  <2>2. \A f \in Fields : OwnValue(f)'
    BY <1>0, <1>12, <2>1, OwnValueKept DEF PassInv, Reset
  <2>3. UNCHANGED <<profile, billing, pc, dom, visible, seen, todo, trying, job>>
    BY <1>12 DEF Reset, passVars
  <2>4. (pc = "named" /\ trying # "none" => Free(trying) /\ Desired(<<"unknown", trying>>) # Empty)'
    BY <1>0, <2>3, TryingKept DEF PassInv
  <2> QED
    BY <1>0, <2>2, <2>3, <2>4, PlacesKept DEF PassInv, Fits
<1> QED
  BY <1>1, <1>2, <1>3, <1>4, <1>5, <1>6, <1>7, <1>8, <1>9, <1>10, <1>11, <1>12 DEF FormNext

(* A pass leaves each control with a value of its own only because what the  *)
(* first look has met is remembered when selectors are tried, which takes    *)
(* that nothing was put among the controls in between; with KI AutoFill off  *)
(* there is no first look, and a control's own value is any its selectors    *)
(* are for.                                                                  *)
THEOREM FormHolds == FormSpec => []FormInv
<1>1. FormInv /\ [FormNext]_formVars => FormInv'
  BY StepFormShapes, StepPass DEF FormInv
<1> QED
  BY InitForm, <1>1, PTL DEF FormSpec

(* Without a change among the controls of a running pass no control holds    *)
(* what another one asks for, neither after a page that grew between two     *)
(* passes nor by way of a selector (SemanticFieldAutofill.fillSemantic, the  *)
(* fallback fields of SemanticCheckoutPreparer.prepare).                     *)
THEOREM OwnValues == FormSpec => []OwnValuesOnly
<1>1. FormInv => OwnValuesOnly
  BY DEF FormInv, PassInv, OwnValuesOnly
<1> QED
  BY FormHolds, <1>1, PTL

(* What an evaluation has read back and not forgotten is on the page, or the *)
(* page has taken it back since the evaluation began.                        *)
ReadInv ==
  pc \in {"judge", "final"} =>
    \A t \in (seen \intersect DOMAIN done) \ unread :
      (\E f \in Fields : text[f] = Desired(t)) \/ Desired(t) \in wiped

LEMMA StepRead ==
  ASSUME FormShapes, ReadInv, [FormNext]_formVars
  PROVE  ReadInv'
<1>0. ASSUME NEW t, UNCHANGED <<profile, billing>> PROVE Desired(t)' = Desired(t)
  BY <1>0 DEF Desired, ValueFor, FromAddress, HasValue, ShippingAddress, BillingValue
<1>1. CASE Evaluate \/ Judge
  BY <1>1 DEF Evaluate, Judge, BeginEvaluation, ReadInv
<1>2. ASSUME NEW target \in unread, ReadBack(target) PROVE ReadInv'
  <2>1. /\ pc \in {"judge", "final"} /\ unread' = unread \ {target}
        /\ done' = IF Holds(target) THEN done ELSE Forgotten({target})
        /\ UNCHANGED <<profile, billing, dom, text, seen, wiped>>
    BY <1>2 DEF ReadBack, pageVars
  <2>2. DOMAIN done' \subseteq DOMAIN done
    BY <2>1 DEF Forgotten
  <2>3. ASSUME NEW t \in (seen' \intersect DOMAIN done') \ unread'
        PROVE  (\E f \in Fields : text[f] = Desired(t)) \/ Desired(t) \in wiped
    <3>1. CASE t # target
      BY <2>1, <2>2, <2>3, <3>1 DEF ReadInv
    <3>2. CASE t = target
      <4>1. Holds(t)
        BY <2>1, <2>3, <3>2 DEF Forgotten
      <4>2. At(done[t]) \in Fields /\ text[At(done[t])] = Desired(t)
        BY <4>1, AtFacts DEF Holds, Reads, FormShapes
      <4> QED
        BY <4>2
    <3> QED
      BY <3>1, <3>2
  <2> QED
    BY <1>0, <2>1, <2>3 DEF ReadInv
<1>3. CASE Reset
  <2>1. UNCHANGED <<profile, billing, pc, seen, done, unread>>
    BY <1>3 DEF Reset
  <2>2. PICK g \in Fields :
          /\ text' = [text EXCEPT ![g] = Empty]
          /\ wiped' = IF pc \in {"judge", "final"} THEN wiped \union {text[g]} ELSE wiped
    BY <1>3 DEF Reset
  <2>3. \A f \in Fields : f # g => text'[f] = text[f]
    BY <2>2 DEF FormShapes
  <2>4. ASSUME pc \in {"judge", "final"}, NEW t \in (seen \intersect DOMAIN done) \ unread
        PROVE  (\E f \in Fields : text'[f] = Desired(t)) \/ Desired(t) \in wiped'
    <3>1. CASE Desired(t) \in wiped
      BY <2>2, <2>4, <3>1
    <3>2. ASSUME NEW f \in Fields, text[f] = Desired(t)
          PROVE  text'[f] = Desired(t) \/ Desired(t) \in wiped'
      BY <2>2, <2>3, <2>4, <3>2
    <3> QED
      BY <2>4, <3>1, <3>2 DEF ReadInv
  <2> QED
    BY <1>0, <2>1, <2>4 DEF ReadInv
<1>4. CASE Insert \/ Toggle \/ UNCHANGED formVars
  <2>1. UNCHANGED <<profile, billing, pc, text, seen, done, unread, wiped>>
    BY <1>4 DEF Insert, Toggle, readVars, formVars
  <2> QED
    BY <1>0, <2>1 DEF ReadInv
<1>5. CASE Write \/ Verify
  <2>1. pc' \in {"semantic", "named"}
    BY <1>5, JobFacts DEF Write, Verify, FormShapes
  <2> QED
    BY <2>1 DEF ReadInv
<1>6. CASE Plan \/ Collect \/ LookSemantic \/ BeginNames \/ LookNamed \/ Conclude
  <2>1. pc' \notin {"judge", "final"}
    BY <1>6 DEF Plan, Collect, LookSemantic, BeginNames, LookNamed, Conclude
  <2> QED
    BY <2>1 DEF ReadInv
<1> QED
  BY <1>1, <1>2, <1>3, <1>4, <1>5, <1>6 DEF FormNext

(* A run says it is satisfied only when each required target it met has a    *)
(* value that is in a control of the page, or that the page has taken back   *)
(* while the last evaluation was reading the targets one after the other     *)
(* (SemanticFieldAutofill.result, isCompleted,                               *)
(* evaluateSemanticCheckoutCompletion).                                      *)
THEOREM SatisfiedIsFilled == FormSpec => SatisfiedMeansFilled
<1>1. ASSUME ReadInv, [FormNext]_formVars
      PROVE  [verdict' = "satisfied" /\ verdict # "satisfied" =>
                \A t \in Required(seen) : /\ Desired(t) # Empty
                                          /\ \/ \E f \in Fields : text[f] = Desired(t)
                                             \/ Desired(t) \in wiped]_formVars
  <2> SUFFICES ASSUME verdict' = "satisfied", verdict # "satisfied", NEW t \in Required(seen)
               PROVE  /\ Desired(t) # Empty
                      /\ (\E f \in Fields : text[f] = Desired(t)) \/ Desired(t) \in wiped
    OBVIOUS
  <2>1. Conclude
    BY <1>1 DEF FormNext, formVars, pageVars, Plan, Collect, LookSemantic, BeginNames, LookNamed,
                Write, Verify, Evaluate, ReadBack, Judge, Insert, Toggle, Reset
  <2>2. Filled(t) /\ t \in seen /\ pc = "final" /\ unread = {}
    BY <2>1 DEF Conclude, Complete, Required
  <2> QED
    BY <1>1, <2>2 DEF ReadInv, Filled
<1>2. FormInit => ReadInv
  BY DEF FormInit, ReadInv
<1>3. FormShapes /\ ReadInv /\ [FormNext]_formVars => ReadInv'
  BY StepRead
<1>4. FormInv => FormShapes
  BY DEF FormInv
<1>5. FormSpec => []ReadInv
  BY FormHolds, <1>2, <1>3, <1>4, PTL DEF FormSpec
<1> QED
  BY <1>1, <1>5, PTL DEF FormSpec, SatisfiedMeansFilled

-------------------------------------------------------------------------------
(***************************************************************************)
(* FormFill: why a run fails.                                              *)
(***************************************************************************)

\* No control of the page is taken for two things.
Uncontradicted == \A n \in DOMAIN dom : ~Contradictory(dom[n])

\* The value a control is given, if it is given one.
ValueOf(f) ==
  IF MeantFor(f) # "unknown" THEN Desired(TargetOf(f))
  ELSE Desired(<<"unknown", CHOOSE i \in {s[1] : s \in Meta[f].named} : TRUE>>)

\* A visible control that is recognised, and that the profile has a value for.
Fillable == {n \in Known : dom[n] \in visible /\ Desired(TargetOf(dom[n])) # Empty}

\* Its target has its value, or is about to get it.
Settled(t) == Holds(t) \/ (job # NoJob /\ job.target = t)

(* Controls are there before they are seen; a run that concluded is over;    *)
(* without a change the first pass is begun before anything is looked at.    *)
OrderInv ==
  /\ visible \subseteq {dom[n] : n \in DOMAIN dom}
  /\ pc = "plan" => calm = 0
  /\ changes = 0 /\ calm = 0 => pc \in {"plan", "collect"} /\ seen = {}
  /\ verdict # "open" => pc = "end"

(* A control is only ever given the one value, so that what holds its value  *)
(* is not overwritten with another while the page stands still.              *)
GivenInv == \A f \in Fields : text[f] \in {Empty, ValueOf(f)}

(* In a pass over a page that stands still, what has been looked at is       *)
(* settled, and stays so; if the page has stood still from the start, and    *)
(* controls are known by selectors alone, all that was met is.               *)
SettledInv ==
  /\ job # NoJob => /\ Interactive(job.at) /\ Desired(job.target) # Empty
                    /\ job.step = "verify" => Reads(job.at, Desired(job.target))
  /\ pc = "semantic" =>
       \A n \in Fillable : Settled(TargetOf(dom[n])) \/ \E k \in DOMAIN todo : todo[k].at = Nth(n)
  /\ pc \in {"named", "judge", "final"} => \A n \in Fillable : Settled(TargetOf(dom[n]))
  /\ ~profile.kiAutofill /\ changes = 0 => \A t \in seen : Desired(t) # Empty /\ Settled(t)

StillInv ==
  /\ OrderInv
  /\ ~stirred /\ Uncontradicted => GivenInv /\ (calm # 0 => SettledInv)

\* What the profile has for a target is a matter of the plan.
LEMMA DesiredKept ==
  ASSUME UNCHANGED <<profile, billing>> PROVE \A t : Desired(t)' = Desired(t)
  BY DEF Desired, ValueFor, FromAddress, HasValue, ShippingAddress, BillingValue

\* While the page and the plan stay as they are, so does what can be filled.
LEMMA FillableKept ==
  ASSUME UNCHANGED <<profile, billing, dom, visible>>
  PROVE  Fillable' = Fillable /\ \A loc : Interactive(loc)' <=> Interactive(loc)
<1>1. \A t : Desired(t)' = Desired(t)
  BY DesiredKept
<1>2. /\ \A f : TargetOf(f)' = TargetOf(f) /\ MeantFor(f)' = MeantFor(f)
      /\ Known' = Known
      /\ \A loc : (Points(loc)' <=> Points(loc)) /\ At(loc)' = At(loc)
  BY PlacesKept
<1>3. \A n \in Known : dom'[n] = dom[n]
  OBVIOUS
<1>4. Fillable' = {n \in Known' : dom'[n] \in visible' /\ (Desired(TargetOf(dom[n])) # Empty)'}
  BY <1>3 DEF Fillable
<1> QED
  BY <1>1, <1>2, <1>4 DEF Fillable, Interactive

\* What is remembered of the other targets stays, and what a target is remembered by is it.
LEMMA MemoryFacts ==
  /\ \A t, loc : t \in DOMAIN Remembered(t, loc) /\ Remembered(t, loc)[t] = loc
  /\ \A t, loc, u : u \in DOMAIN done /\ u # t =>
       u \in DOMAIN Remembered(t, loc) /\ Remembered(t, loc)[u] = done[u]
  /\ \A S, u : u \in DOMAIN done /\ u \notin S =>
       u \in DOMAIN Forgotten(S) /\ Forgotten(S)[u] = done[u]
  BY DEF Remembered, Forgotten

\* A target has its value if its value is where it is remembered.
LEMMA HeldAt ==
  ASSUME UNCHANGED <<profile, billing, dom, text>>,
         NEW t, NEW loc, t \in DOMAIN done', done'[t] = loc, Reads(loc, Desired(t))
  PROVE  Holds(t)'
<1>1. Desired(t)' = Desired(t)
  BY DesiredKept
<1>2. (Points(loc)' <=> Points(loc)) /\ At(loc)' = At(loc)
  BY PlacesKept
<1>3. Reads(loc, Desired(t))'
  BY <1>1, <1>2 DEF Reads
<1> QED
  BY <1>3 DEF Holds

LEMMA HoldsHere ==
  ASSUME UNCHANGED <<profile, billing, dom, text>>,
         NEW t, NEW loc, Reads(loc, Desired(t)), done' = Remembered(t, loc)
  PROVE  Holds(t)'
  BY HeldAt, MemoryFacts

LEMMA HoldsKept ==
  ASSUME UNCHANGED <<profile, billing, dom, text>>,
         NEW t, Holds(t), t \in DOMAIN done', done'[t] = done[t]
  PROVE  Holds(t)'
<1>1. PICK loc : loc = done[t]
  OBVIOUS
<1>2. Reads(loc, Desired(t))
  BY <1>1 DEF Holds
<1> QED
  BY <1>1, <1>2, HeldAt

\* Looking at an item settles it if it can be, and unsettles nothing.
LEMMA ConsiderSettles ==
  ASSUME UNCHANGED <<profile, billing, dom, text>>, NEW item \in Item, job = NoJob,
         Consider(item, Holds(item.target))
  PROVE  /\ \A t : Holds(t) => Settled(t)'
         /\ Interactive(item.at) /\ Desired(item.target) # Empty => Settled(item.target)'
         /\ seen' \subseteq seen \union (IF Interactive(item.at) THEN {item.target} ELSE {})
         /\ job' # NoJob => /\ job'.at = item.at /\ job'.target = item.target
                            /\ job'.step = "write"
                            /\ Interactive(item.at) /\ Desired(item.target) # Empty
<1> DEFINE T == item.target
<1>0. seen' \subseteq seen \union (IF Interactive(item.at) THEN {item.target} ELSE {})
  BY DEF Consider
<1>1. CASE UNCHANGED <<done, job>> /\ (Interactive(item.at) => Desired(T) = Empty \/ Holds(T))
  <2>1. \A t : Holds(t) => Holds(t)'
    BY <1>1, HoldsKept DEF Holds
  <2> QED
    BY <1>1, <1>0, <2>1 DEF Settled
<1>2. CASE /\ Interactive(item.at) /\ Desired(T) # Empty /\ ~Holds(T)
           /\ Reads(item.at, Desired(T)) /\ done' = Remembered(T, item.at) /\ UNCHANGED job
  <2>1. Holds(T)'
    BY <1>2, HoldsHere
  <2>2. \A t : t # T /\ Holds(t) => Holds(t)'
    BY <1>2, HoldsKept, MemoryFacts DEF Holds
  <2> QED
    BY <1>2, <1>0, <2>1, <2>2 DEF Settled
<1>3. CASE /\ Interactive(item.at) /\ Desired(T) # Empty /\ ~Holds(T)
           /\ done' = Forgotten({T}) /\ Begin(item)
  <2>1. job' = [at |-> item.at, target |-> T, tries |-> 0, step |-> "write"]
    BY <1>3 DEF Begin
  <2>2. job' # NoJob
    BY <2>1 DEF NoJob
  <2>3. \A t : t # T /\ Holds(t) => Holds(t)'
    BY <1>3, HoldsKept, MemoryFacts DEF Holds
  <2> QED
    BY <1>3, <1>0, <2>1, <2>2, <2>3 DEF Settled
<1>4. \/ UNCHANGED <<done, job>> /\ (Interactive(item.at) => Desired(T) = Empty \/ Holds(T))
      \/ /\ Interactive(item.at) /\ Desired(T) # Empty /\ ~Holds(T)
         /\ Reads(item.at, Desired(T)) /\ done' = Remembered(T, item.at) /\ UNCHANGED job
      \/ /\ Interactive(item.at) /\ Desired(T) # Empty /\ ~Holds(T)
         /\ done' = Forgotten({T}) /\ Begin(item)
  BY DEF Consider
<1> QED
  BY <1>1, <1>2, <1>3, <1>4

\* So is what a control can be given.
LEMMA ValueKept ==
  ASSUME UNCHANGED <<profile, billing>> PROVE \A f : ValueOf(f)' = ValueOf(f)
<1>1. \A t : Desired(t)' = Desired(t)
  BY DesiredKept
<1>2. \A f : TargetOf(f)' = TargetOf(f) /\ MeantFor(f)' = MeantFor(f)
  BY DEF TargetOf, MeantFor, IntentOf, ContextOf
<1> QED
  BY <1>1, <1>2 DEF ValueOf

\* The page keeps its controls when it gets another.
LEMMA InsertFacts ==
  ASSUME dom \in Seq(Fields), NEW f \in Fields, NEW k \in 1..Len(dom) + 1
  PROVE  {InsertAt(dom, k, f)[n] : n \in DOMAIN InsertAt(dom, k, f)} =
           {dom[n] : n \in DOMAIN dom} \union {f}
<1> DEFINE new == InsertAt(dom, k, f)
           head == SubSeq(dom, 1, k - 1)
           tail == SubSeq(dom, k, Len(dom))
<1>0. /\ Len(dom) \in Nat /\ k \in Nat /\ k >= 1 /\ k <= Len(dom) + 1
  OBVIOUS
<1>8. /\ head \in Seq(Fields) /\ Len(head) = k - 1
      /\ \A n \in 1..k - 1 : head[n] = dom[n]
  BY <1>0
<1>9. /\ tail \in Seq(Fields) /\ Len(tail) = Len(dom) - k + 1
      /\ \A n \in 1..Len(dom) - k + 1 : tail[n] = dom[k + n - 1]
  BY <1>0
<1>10. new = (head \o <<f>>) \o tail
  BY DEF InsertAt
<1> HIDE DEF head, tail, new
<1>11. /\ head \o <<f>> \in Seq(Fields) /\ Len(head \o <<f>>) = k
       /\ \A n \in 1..k - 1 : (head \o <<f>>)[n] = dom[n]
       /\ (head \o <<f>>)[k] = f
  BY <1>0, <1>8
<1> DEFINE most == head \o <<f>>
<1>12. /\ most \in Seq(Fields) /\ Len(most) = k
       /\ \A n \in 1..k - 1 : most[n] = dom[n]
       /\ most[k] = f
  BY <1>11
<1>13. new = most \o tail
  BY <1>10
<1> HIDE DEF most
<1>14. /\ new \in Seq(Fields) /\ Len(new) = Len(most) + Len(tail)
       /\ \A n \in 1..Len(most) : new[n] = most[n]
       /\ \A n \in 1..Len(tail) : new[Len(most) + n] = tail[n]
  BY <1>0, <1>9, <1>12, <1>13
<1>1. /\ new \in Seq(Fields) /\ Len(new) = Len(dom) + 1 /\ Len(dom) \in Nat
      /\ \A n \in 1..Len(new) :
           new[n] = IF n < k THEN dom[n] ELSE IF n = k THEN f ELSE dom[n - 1]
  <2>1. Len(new) = Len(dom) + 1
    BY <1>0, <1>9, <1>12, <1>14
  <2>2. ASSUME NEW n \in 1..Len(new)
        PROVE  new[n] = IF n < k THEN dom[n] ELSE IF n = k THEN f ELSE dom[n - 1]
    <3>1. CASE n <= k
      BY <1>0, <1>12, <1>14, <3>1
    <3>2. CASE n > k
      <4>1. n - k \in 1..Len(tail) /\ Len(most) + (n - k) = n /\ k + (n - k) - 1 = n - 1
        BY <1>0, <1>9, <1>12, <2>1, <3>2
      <4>2. new[Len(most) + (n - k)] = tail[n - k]
        BY <1>14, <4>1
      <4>3. tail[n - k] = dom[k + (n - k) - 1]
        BY <1>9, <4>1
      <4>4. new[n] = dom[n - 1] /\ n # k /\ ~(n < k)
        BY <1>0, <3>2, <4>1, <4>2, <4>3
      <4> QED
        BY <4>4
    <3> QED
      BY <1>0, <3>1, <3>2
  <2> QED
    BY <1>0, <1>14, <2>1, <2>2
<1>2. DOMAIN new = 1..Len(dom) + 1 /\ DOMAIN dom = 1..Len(dom)
  BY <1>1
<1>3. ASSUME NEW n \in DOMAIN new
      PROVE  new[n] \in {dom[m] : m \in DOMAIN dom} \union {f}
  <2>1. CASE n < k
    <3>1. n \in DOMAIN dom /\ new[n] = dom[n]
      BY <1>0, <1>1, <1>2, <2>1
    <3> QED
      BY <3>1
  <2>2. CASE n = k
    BY <1>0, <1>1, <1>2, <2>2
  <2>3. CASE n > k
    <3>1. n - 1 \in DOMAIN dom /\ new[n] = dom[n - 1]
      BY <1>0, <1>1, <1>2, <2>3
    <3> QED
      BY <3>1
  <2> QED
    BY <1>0, <1>2, <2>1, <2>2, <2>3
<1>4. ASSUME NEW m \in DOMAIN dom PROVE \E n \in DOMAIN new : new[n] = dom[m]
  <2>1. CASE m < k
    BY <1>1, <1>2, <2>1
  <2>2. CASE ~(m < k)
    <3>1. m + 1 \in DOMAIN new /\ new[m + 1] = dom[m]
      BY <1>1, <1>2, <2>2
    <3> QED
      BY <3>1
  <2> QED
    BY <2>1, <2>2
<1>5. k \in DOMAIN new /\ new[k] = f
  BY <1>1, <1>2
<1>7. {new[n] : n \in DOMAIN new} = {dom[n] : n \in DOMAIN dom} \union {f}
  BY <1>3, <1>4, <1>5
<1> QED
  BY <1>7 DEF new

(* Controls are there before they are seen.                                  *)
LEMMA StepOrder ==
  ASSUME FormShapes, OrderInv, [FormNext]_formVars
  PROVE  OrderInv'
<1> USE DEF OrderInv
<1>1. CASE Insert
  <2>1. PICK f \in Fields, k \in 1..Len(dom) + 1 :
          dom' = InsertAt(dom, k, f) /\ visible' = visible \union {f}
    BY <1>1 DEF Insert
  <2>2. {dom'[n] : n \in DOMAIN dom'} = {dom[n] : n \in DOMAIN dom} \union {f}
    <3>1. dom \in Seq(Fields)
      BY DEF FormShapes
    <3>2. {InsertAt(dom, k, f)[n] : n \in DOMAIN InsertAt(dom, k, f)} =
            {dom[n] : n \in DOMAIN dom} \union {f}
      BY <3>1, InsertFacts
    <3> QED
      BY <2>1, <3>2
  <2>3. visible' \subseteq {dom'[n] : n \in DOMAIN dom'}
    BY <2>1, <2>2
  <2>4. changes' # 0
    BY <1>1 DEF Insert, Changed, FormShapes
  <2> QED
    BY <1>1, <2>3, <2>4 DEF Insert, Changed
<1>2. CASE Toggle \/ Reset
  <2>1. changes' # 0 /\ calm' = 0 /\ UNCHANGED <<dom, pc, verdict>>
    BY <1>2 DEF Toggle, Reset, Changed, FormShapes
  <2>2. visible' \subseteq {dom[n] : n \in DOMAIN dom}
    BY <1>2 DEF Toggle, Reset
  <2> QED
    BY <2>1, <2>2
<1>3. CASE Collect
  <2>1. changes' # 0 \/ calm' # 0
    BY <1>3 DEF Collect, PassBegins, Changed, FormShapes
  <2> QED
    BY <1>3, <2>1 DEF Collect
<1>4. CASE Write \/ Verify
  <2>1. pc \in {"semantic", "named"}
    BY <1>4, JobFacts DEF Write, Verify, FormShapes
  <2> QED
    BY <1>4, <2>1 DEF Write, Verify, pageVars, passVars
<1>5. CASE Judge
  <2>1. calm' = 0 => calm = 0
    BY <1>5 DEF Judge
  <2> QED
    BY <1>5, <2>1 DEF Judge, pageVars
<1>6. CASE UNCHANGED formVars
  BY <1>6 DEF formVars
<1>7. CASE Plan \/ LookSemantic \/ BeginNames \/ LookNamed \/ Evaluate
           \/ (\E t \in unread : ReadBack(t)) \/ Conclude
  <2>1. UNCHANGED <<dom, visible, changes, calm>>
    BY <1>7 DEF Plan, LookSemantic, BeginNames, LookNamed, Evaluate, ReadBack, Conclude, pageVars
  <2> QED
    BY <1>7, <2>1 DEF Plan, LookSemantic, BeginNames, LookNamed, Evaluate, ReadBack, Conclude
<1> QED
  BY <1>1, <1>2, <1>3, <1>4, <1>5, <1>6, <1>7 DEF FormNext

\* The page loses no control.
LEMMA ContradictionKept ==
  ASSUME FormShapes, [FormNext]_formVars, Uncontradicted'
  PROVE  Uncontradicted
<1>1. CASE Insert
  <2>1. PICK f \in Fields, k \in 1..Len(dom) + 1 : dom' = InsertAt(dom, k, f)
    BY <1>1 DEF Insert
  <2>2. {dom'[n] : n \in DOMAIN dom'} = {dom[n] : n \in DOMAIN dom} \union {f}
    <3>1. dom \in Seq(Fields)
      BY DEF FormShapes
    <3>2. {InsertAt(dom, k, f)[n] : n \in DOMAIN InsertAt(dom, k, f)} =
            {dom[n] : n \in DOMAIN dom} \union {f}
      BY <3>1, InsertFacts
    <3> QED
      BY <2>1, <3>2
  <2>4. UNCHANGED profile
    BY <1>1 DEF Insert
  <2>3. ASSUME NEW n \in DOMAIN dom PROVE ~Contradictory(dom[n])
    <3>1. PICK m \in DOMAIN dom' : dom'[m] = dom[n]
      BY <2>2
    <3> QED
      BY <2>4, <3>1 DEF Uncontradicted, Contradictory, TakenFor, MeantFor, IntentOf
  <2> QED
    BY <2>3 DEF Uncontradicted
<1>2. CASE UNCHANGED <<dom, profile>>
  BY <1>2 DEF Uncontradicted, Contradictory, TakenFor, MeantFor, IntentOf
<1> QED
  BY <1>1, <1>2
     DEF FormNext, Plan, Collect, LookSemantic, BeginNames, LookNamed, Write, Verify, Evaluate,
         ReadBack, Judge, Conclude, Toggle, Reset, pageVars, formVars

\* A write gives a control its value.
LEMMA WriteGives ==
  ASSUME FormShapes, PassInv, GivenInv, Uncontradicted, Write
  PROVE  \A f \in Fields : text'[f] \in {Empty, ValueOf(f)}
<1>1. job \in Job /\ job # NoJob
  BY JobFacts DEF Write, FormShapes
<1>2. CASE UNCHANGED text
  BY <1>2 DEF GivenInv
<1>3. CASE Interactive(job.at) /\ text' = [text EXCEPT ![At(job.at)] = Desired(job.target)]
  <2>1. Points(job.at) /\ At(job.at) \in Fields /\ \E n \in DOMAIN dom : At(job.at) = dom[n]
    BY <1>1, <1>3, AtFacts DEF FormShapes, Interactive, Job, Locators
  <2>2. text'[At(job.at)] = Desired(job.target)
    BY <1>3, <2>1 DEF FormShapes
  <2>3. Desired(job.target) = ValueOf(At(job.at))
    <3>1. CASE job.at.by = "nth"
      <4>1. At(job.at) = dom[job.at.n] /\ job.at.n \in Known /\ job.target = TargetOf(At(job.at))
        BY <1>1, <2>1, <3>1, AtFacts DEF FormShapes, PassInv, Fits
      <4> QED
        BY <4>1 DEF ValueOf, Known
    <3>2. CASE job.at.by = "name"
      <4>1. PICK g, i, k : g = At(job.at) /\ i = job.at.intent /\ k = job.at.n
        OBVIOUS
      <4>2. <<i, k>> \in Meta[g].named /\ i # "unknown"
        BY <1>1, <2>1, <3>2, <4>1, AtFacts
           DEF FormShapes, Job, Locators, Names, KnownNames
      <4>3. job.target = <<"unknown", i>> /\ MeantFor(g) # i
        BY <1>1, <2>1, <3>2, <4>1 DEF PassInv, Fits
      <4>4. \A a, b \in TakenFor(g) : a = b
        BY <2>1, <4>1 DEF Uncontradicted, Contradictory
      <4>5. i \in {s[1] : s \in Meta[g].named}
        <5>1. <<i, k>>[1] = i
          OBVIOUS
        <5> QED
          BY <4>2, <5>1
      <4>6. MeantFor(g) = "unknown"
        BY <4>3, <4>4, <4>5 DEF TakenFor
      <4>7. PICK c : c = CHOOSE j \in {s[1] : s \in Meta[g].named} : TRUE
        OBVIOUS
      <4>8. c \in {s[1] : s \in Meta[g].named}
        BY <4>5, <4>7
      <4>9. c = i
        BY <4>4, <4>5, <4>8 DEF TakenFor
      <4> QED
        BY <4>1, <4>3, <4>6, <4>7, <4>9 DEF ValueOf
    <3> QED
      BY <1>1, <3>1, <3>2 DEF PassInv, Fits
  <2>4. \A f \in Fields : f # At(job.at) => text'[f] = text[f]
    BY <1>3 DEF FormShapes
  <2> QED
    BY <2>2, <2>3, <2>4 DEF GivenInv
<1> QED
  BY <1>2, <1>3 DEF Write

LEMMA StepGiven ==
  ASSUME FormShapes, PassInv, GivenInv, Uncontradicted, [FormNext]_formVars
  PROVE  GivenInv'
<1>1. ASSUME UNCHANGED <<profile, billing>>,
             \A f \in Fields : text'[f] \in {Empty, text[f], ValueOf(f)}
      PROVE  GivenInv'
  <2>1. ASSUME NEW f \in Fields PROVE text'[f] \in {Empty, ValueOf(f)'}
    BY <1>1, ValueKept DEF GivenInv
  <2> QED
    BY <2>1 DEF GivenInv
<1>2. CASE Plan
  <2>1. \A f \in Fields : text'[f] = Empty
    BY <1>2 DEF Plan, pageVars, FormShapes
  <2> QED
    BY <2>1 DEF GivenInv
<1>3. CASE Write
  BY <1>1, <1>3, WriteGives DEF Write
<1>4. CASE Reset
  <2>1. \A f \in Fields : text'[f] \in {Empty, text[f]}
    BY <1>4 DEF Reset, FormShapes
  <2> QED
    BY <1>1, <1>4, <2>1 DEF Reset
<1>5. CASE UNCHANGED <<profile, billing, text>>
  BY <1>1, <1>5
<1> QED
  BY <1>2, <1>3, <1>4, <1>5
     DEF FormNext, Collect, LookSemantic, BeginNames, LookNamed, Verify, Evaluate, ReadBack, Judge,
         Conclude, Insert, Toggle, pageVars, formVars

LEMMA SettledKept ==
  ASSUME UNCHANGED <<profile, billing, dom, text, done, job>>, NEW t, Settled(t)
  PROVE  Settled(t)'
<1>1. Holds(t) => Holds(t)'
  BY HoldsKept DEF Holds
<1> QED
  BY <1>1 DEF Settled

LEMMA LookSemanticSettles ==
  ASSUME FormShapes, PassInv, SettledInv, LookSemantic
  PROVE  SettledInv'
<1>1. /\ pc = "semantic" /\ pc' = "semantic" /\ job = NoJob /\ todo # <<>> /\ todo \in Seq(Item)
      /\ UNCHANGED <<profile, dom, visible, text, billing>> /\ todo' = Tail(todo)
  BY DEF LookSemantic, pageVars, FormShapes
<1>0. PICK item : item = Head(todo)
  OBVIOUS
<1>2. item \in Item /\ Fits(item) /\ item.at.by = "nth"
  BY <1>0, <1>1, TailFacts DEF PassInv
<1>3. /\ \A t : Holds(t) => Settled(t)'
      /\ Interactive(item.at) /\ Desired(item.target) # Empty => Settled(item.target)'
      /\ job' # NoJob => /\ job'.at = item.at /\ job'.target = item.target
                         /\ job'.step = "write"
                         /\ Interactive(item.at) /\ Desired(item.target) # Empty
  BY <1>0, <1>1, <1>2, ConsiderSettles DEF LookSemantic
<1>4. Fillable' = Fillable /\ \A loc : Interactive(loc)' <=> Interactive(loc)
  BY <1>1, FillableKept
<1>5. \A t : Desired(t)' = Desired(t)
  BY <1>1, DesiredKept
<1>6. ASSUME NEW n \in Fillable
      PROVE  Settled(TargetOf(dom[n]))' \/ \E k \in DOMAIN todo' : todo'[k].at = Nth(n)
  <2>1. n \in DOMAIN dom /\ dom[n] \in visible /\ Desired(TargetOf(dom[n])) # Empty
    BY DEF Fillable, Known
  <2>2. PICK t : t = TargetOf(dom[n]) /\ t = TargetOf(dom[n])'
    BY <1>1 DEF TargetOf, IntentOf, ContextOf
  <2>3. CASE Settled(TargetOf(dom[n]))
    <3>1. Holds(t)
      BY <1>1, <2>2, <2>3 DEF Settled
    <3> QED
      BY <1>3, <2>2, <3>1
  <2>4. ASSUME NEW k \in DOMAIN todo, todo[k].at = Nth(n)
        PROVE  Settled(TargetOf(dom[n]))' \/ \E i \in DOMAIN todo' : todo'[i].at = Nth(n)
    <3>1. CASE item.at = Nth(n)
      <4>1. item.at.n = n /\ item.target = TargetOf(dom[n])
        BY <1>2, <3>1 DEF Fits, Nth
      <4>2. Points(item.at)
        BY <1>2, <2>1, <4>1 DEF Points, Matching
      <4>3. At(item.at) = dom[n]
        BY <1>2, <4>1, <4>2, AtFacts DEF FormShapes
      <4>4. Interactive(item.at) /\ Desired(item.target) # Empty
        BY <2>1, <4>1, <4>2, <4>3 DEF Interactive
      <4>5. Settled(item.target)'
        BY <1>3, <4>4
      <4> QED
        BY <2>2, <4>1, <4>5
    <3> QED
      BY <1>0, <1>1, <2>1, <2>4, <3>1, LookFacts
  <2> QED
    BY <1>1, <2>3, <2>4 DEF SettledInv
<1>7. job' # NoJob => /\ Interactive(job'.at) /\ job'.step = "write"
                      /\ \E t : t = job'.target /\ Desired(t) # Empty
  BY <1>3
<1>8. job' # NoJob => /\ Interactive(job.at)' /\ (Desired(job.target) # Empty)'
                      /\ job'.step # "verify"
  BY <1>1, <1>7 DEF Interactive, Points, At, Matching, Desired, ValueFor, FromAddress, HasValue,
                    ShippingAddress, BillingValue
<1>9. profile.kiAutofill
  BY <1>2, KnownFacts DEF Fits
<1> QED
  BY <1>1, <1>4, <1>6, <1>8, <1>9 DEF SettledInv

LEMMA LookNamedSettles ==
  ASSUME FormShapes, PassInv, SettledInv, LookNamed
  PROVE  SettledInv'
<1>1. /\ pc = "named" /\ pc' = "named" /\ job = NoJob /\ todo # <<>> /\ todo \in Seq(Item)
      /\ UNCHANGED <<profile, dom, visible, text, billing, changes>>
  BY DEF LookNamed, pageVars, FormShapes
<1>0. PICK item : item = Head(todo)
  OBVIOUS
<1>2. /\ item \in Item /\ Fits(item) /\ item.at.by = "name"
      /\ item.at.intent \in Names
  BY <1>0, <1>1, TailFacts DEF PassInv, Item, Locators
<1>3. /\ \A t : Holds(t) => Settled(t)'
      /\ \A t \in seen' \ seen : Desired(t) # Empty /\ Settled(t)'
      /\ job' # NoJob => /\ job'.at = item.at /\ job'.target = item.target
                         /\ job'.step = "write"
                         /\ Interactive(item.at) /\ Desired(item.target) # Empty
  <2>1. CASE Consider(item, Holds(item.target)) /\ IsTried(item)
    <3>1. Desired(item.target) # Empty
      BY <1>1, <1>2, <2>1, TriedIsFree
    <3> QED
      BY <1>1, <1>2, <2>1, <3>1, ConsiderSettles
  <2>2. CASE UNCHANGED <<seen, done, job>>
    <3>1. \A t : Settled(t) => Settled(t)'
      BY <1>1, <2>2, SettledKept
    <3> QED
      BY <1>1, <2>2, <3>1 DEF Settled
  <2> QED
    BY <1>0, <2>1, <2>2 DEF LookNamed
<1>4. Fillable' = Fillable
  BY <1>1, FillableKept
<1>5. ASSUME NEW n \in Fillable PROVE Settled(TargetOf(dom[n]))'
  <2>1. PICK t : t = TargetOf(dom[n]) /\ t = TargetOf(dom[n])'
    BY <1>1 DEF TargetOf, IntentOf, ContextOf
  <2>2. Holds(t)
    BY <1>1, <2>1 DEF SettledInv, Settled
  <2> QED
    BY <1>3, <2>1, <2>2
<1>6. job' # NoJob => /\ Interactive(job'.at) /\ job'.step = "write"
                      /\ \E t : t = job'.target /\ Desired(t) # Empty
  BY <1>3
<1>7. ASSUME ~profile.kiAutofill, changes = 0, NEW t \in seen'
      PROVE  Desired(t)' # Empty /\ Settled(t)'
  <2>1. Desired(t)' = Desired(t)
    BY <1>1, DesiredKept
  <2>2. CASE t \in seen
    <3>1. Desired(t) # Empty /\ Holds(t)
      BY <1>1, <1>7, <2>2 DEF SettledInv, Settled
    <3> QED
      BY <1>3, <2>1, <3>1
  <2>3. CASE t \notin seen
    BY <1>3, <2>1, <2>3
  <2> QED
    BY <2>2, <2>3
<1>8. job' # NoJob => /\ Interactive(job.at)' /\ (Desired(job.target) # Empty)'
                      /\ job'.step # "verify"
  BY <1>1, <1>6 DEF Interactive, Points, At, Matching, Desired, ValueFor, FromAddress, HasValue,
                    ShippingAddress, BillingValue
<1> QED
  BY <1>1, <1>4, <1>5, <1>8, <1>7 DEF SettledInv

\* A write takes nothing from a target that has its value: a control has one value.
LEMMA WriteSettles ==
  ASSUME FormShapes, PassInv, GivenInv, GivenInv', SettledInv, Write
  PROVE  SettledInv'
<1>1. /\ job \in Job /\ job # NoJob /\ pc \in {"semantic", "named"}
      /\ UNCHANGED <<profile, dom, visible, billing, pc, todo, done, seen, changes>>
  BY JobFacts DEF Write, passVars, FormShapes
<1>2. /\ Interactive(job.at) /\ Desired(job.target) # Empty
      /\ text' = [text EXCEPT ![At(job.at)] = Desired(job.target)]
      /\ job' = [job EXCEPT !.step = "verify"]
  BY <1>1 DEF SettledInv, Write
<1>3. job' # NoJob /\ job'.at = job.at /\ job'.target = job.target
  BY <1>1, <1>2, JobFacts
<1>4. PICK g, j, l : g = At(job.at) /\ j = job.target /\ l = job.at
  OBVIOUS
<1>5. g \in Fields /\ text'[g] = Desired(j) /\ \A f \in Fields : f # g => text'[f] = text[f]
  BY <1>1, <1>2, <1>4, AtFacts DEF FormShapes, Interactive
<1>6. /\ \A t : Desired(t)' = Desired(t)
      /\ \A f : ValueOf(f)' = ValueOf(f)
      /\ Fillable' = Fillable /\ \A loc : Interactive(loc)' <=> Interactive(loc)
      /\ \A loc : (Points(loc)' <=> Points(loc)) /\ At(loc)' = At(loc)
  BY <1>1, DesiredKept, ValueKept, FillableKept, PlacesKept
<1>7. Reads(l, Desired(j))' /\ Interactive(l)' /\ (Desired(j) # Empty)'
  BY <1>2, <1>4, <1>5, <1>6 DEF Reads, Interactive
<1>8. /\ Interactive(job.at)' /\ (Desired(job.target) # Empty)'
      /\ Reads(job.at, Desired(job.target))'
  <2>1. job'.at = l /\ job'.target = j
    BY <1>3, <1>4
  <2>2. Interactive(job.at)'
    BY <1>7, <2>1 DEF Interactive, Points, At, Matching
  <2>3. Desired(job.target)' = Desired(j)'
    BY <2>1 DEF Desired, ValueFor, FromAddress, HasValue, ShippingAddress, BillingValue
  <2>4. Points(job.at)' /\ text'[At(job.at)'] = Desired(j)'
    BY <1>7, <2>1 DEF Reads, Points, At, Matching
  <2> QED
    BY <1>7, <2>2, <2>3, <2>4 DEF Reads
<1>9. ASSUME NEW t, Settled(t), Desired(t) # Empty PROVE Settled(t)'
  <2>1. CASE job.target = t
    BY <1>3, <2>1 DEF Settled
  <2>2. CASE Holds(t)
    <3>1. PICK loc : t \in DOMAIN done /\ loc = done[t] /\ Reads(loc, Desired(t))
      BY <2>2 DEF Holds
    <3>2. At(loc) \in Fields /\ text[At(loc)] = Desired(t) /\ Points(loc)
      BY <3>1, AtFacts DEF Reads, FormShapes
    <3>3. text'[At(loc)] = Desired(t)
      <4>1. CASE At(loc) # g
        BY <1>5, <3>2, <4>1
      <4>2. CASE At(loc) = g
        <5>1. text[g] = ValueOf(g) /\ text'[g] = ValueOf(g)
          BY <1>2, <1>4, <1>5, <1>6, <1>9, <3>2, <4>2 DEF GivenInv
        <5> QED
          BY <3>2, <4>2, <5>1
      <4> QED
        BY <4>1, <4>2
    <3>4. Reads(loc, Desired(t))'
      BY <1>6, <3>2, <3>3 DEF Reads
    <3> QED
      BY <1>1, <3>1, <3>4 DEF Settled, Holds
  <2> QED
    BY <1>9, <2>1, <2>2 DEF Settled
<1>10. ASSUME NEW n \in Fillable, Settled(TargetOf(dom[n])) PROVE Settled(TargetOf(dom[n]))'
  <2>1. PICK t : t = TargetOf(dom[n]) /\ t = TargetOf(dom[n])'
    BY <1>1 DEF TargetOf, IntentOf, ContextOf
  <2>2. Settled(t) /\ Desired(t) # Empty
    BY <1>10, <2>1 DEF Fillable
  <2> QED
    BY <1>9, <2>1, <2>2
<1>11. ASSUME ~profile.kiAutofill, changes = 0, NEW t \in seen
       PROVE  Desired(t)' # Empty /\ Settled(t)'
  BY <1>6, <1>9, <1>11 DEF SettledInv
<1> QED
  BY <1>1, <1>6, <1>8, <1>10, <1>11 DEF SettledInv

LEMMA VerifySettles ==
  ASSUME FormShapes, SettledInv, Verify
  PROVE  SettledInv'
<1>1. /\ job \in Job /\ job # NoJob /\ pc \in {"semantic", "named"}
      /\ UNCHANGED <<profile, dom, visible, text, billing, pc, todo, seen, changes>>
  BY JobFacts DEF Verify, pageVars, FormShapes
<1>2. PICK j, l : j = job.target /\ l = job.at
  OBVIOUS
<1>3. Reads(l, Desired(j)) /\ done' = Remembered(j, l) /\ job' = NoJob
  BY <1>1, <1>2 DEF SettledInv, Verify
<1>4. ASSUME NEW t, Settled(t) PROVE Settled(t)'
  <2>1. CASE t = j
    BY <1>1, <1>3, <2>1, HoldsHere DEF Settled
  <2>2. CASE t # j
    <3>1. Holds(t) /\ t \in DOMAIN done' /\ done'[t] = done[t]
      BY <1>2, <1>3, <1>4, <2>2, MemoryFacts DEF Settled, Holds
    <3> QED
      BY <1>1, <3>1, HoldsKept DEF Settled
  <2> QED
    BY <2>1, <2>2
<1>5. ASSUME NEW n \in Fillable, Settled(TargetOf(dom[n])) PROVE Settled(TargetOf(dom[n]))'
  <2>1. PICK t : t = TargetOf(dom[n]) /\ t = TargetOf(dom[n])'
    BY <1>1 DEF TargetOf, IntentOf, ContextOf
  <2> QED
    BY <1>4, <1>5, <2>1
<1>6. Fillable' = Fillable
  BY <1>1, FillableKept
<1>7. ASSUME ~profile.kiAutofill, changes = 0, NEW t \in seen
      PROVE  Desired(t)' # Empty /\ Settled(t)'
  BY <1>1, <1>4, <1>7, DesiredKept DEF SettledInv
<1> QED
  BY <1>1, <1>3, <1>5, <1>6, <1>7 DEF SettledInv

\* Steps that leave the page as it is, and forget nothing that holds its value, unsettle nothing.
LEMMA RestSettles ==
  ASSUME FormShapes, SettledInv, job = NoJob, job' = NoJob,
         UNCHANGED <<profile, dom, visible, text, billing, seen, changes>>,
         \A t : Holds(t) => t \in DOMAIN done' /\ done'[t] = done[t],
         pc' # "semantic",
         pc' \in {"named", "judge", "final"} =>
           \/ pc \in {"named", "judge", "final"}
           \/ pc = "semantic" /\ todo = <<>>
  PROVE  SettledInv'
<1>1. ASSUME NEW t, Settled(t) PROVE Settled(t)'
  BY <1>1, HoldsKept DEF Settled
<1>2. ASSUME NEW n \in Fillable, Settled(TargetOf(dom[n])) PROVE Settled(TargetOf(dom[n]))'
  <2>1. PICK t : t = TargetOf(dom[n]) /\ t = TargetOf(dom[n])'
    BY DEF TargetOf, IntentOf, ContextOf
  <2> QED
    BY <1>1, <1>2, <2>1
<1>3. Fillable' = Fillable
  BY FillableKept
<1>4. pc' \in {"named", "judge", "final"} => \A n \in Fillable : Settled(TargetOf(dom[n]))
  BY DEF SettledInv
<1>5. ASSUME ~profile.kiAutofill, changes = 0, NEW t \in seen
      PROVE  Desired(t)' # Empty /\ Settled(t)'
  BY <1>1, <1>5, DesiredKept DEF SettledInv
<1> QED
  BY <1>2, <1>3, <1>4, <1>5 DEF SettledInv

LEMMA CollectSettles ==
  ASSUME FormShapes, OrderInv, calm # 0 => SettledInv, Collect, ~stirred', calm' # 0
  PROVE  SettledInv'
<1>1. /\ pc = "collect" /\ pc' = "semantic" /\ job = NoJob /\ job' = NoJob
      /\ UNCHANGED <<profile, billing, dom, visible, text, seen, done>>
  BY DEF Collect, FormShapes
<1>2. /\ UNCHANGED changes
      /\ \/ profile.kiAutofill /\ \E order \in InOrder(Recognised, Rank) : todo' = Items(order)
         \/ ~profile.kiAutofill
  BY DEF Collect, PassBegins, Changed
<1>3. \A n \in Known : \E k \in DOMAIN todo' : todo'[k].at = Nth(n)
  BY <1>2, ItemsFacts, KnownFacts DEF FormShapes
<1>4. Fillable' = Fillable /\ Fillable \subseteq Known
  BY <1>1, FillableKept DEF Fillable
<1>5. ASSUME ~profile.kiAutofill, changes = 0, NEW t \in seen
      PROVE  Desired(t)' # Empty /\ Settled(t)'
  <2>1. SettledInv
    BY <1>5 DEF OrderInv
  <2>2. Desired(t) # Empty /\ Settled(t)
    BY <1>5, <2>1 DEF SettledInv
  <2> QED
    BY <1>1, <2>2, SettledKept, DesiredKept
<1> QED
  BY <1>1, <1>2, <1>3, <1>4, <1>5 DEF SettledInv

LEMMA StepSettled ==
  ASSUME FormShapes, PassInv, OrderInv, GivenInv, GivenInv', calm # 0 => SettledInv,
         [FormNext]_formVars, ~stirred', calm' # 0
  PROVE  SettledInv'
<1>1. CASE Collect
  BY <1>1, CollectSettles
<1>2. CASE Evaluate \/ BeginNames \/ Conclude
  <2>1. /\ UNCHANGED <<profile, dom, visible, text, billing, seen, done, changes, calm, job>>
        /\ pc' # "semantic"
        /\ pc' \in {"named", "judge", "final"} => pc = "named" \/ (pc = "semantic" /\ todo = <<>>)
    BY <1>2 DEF Evaluate, BeginNames, Conclude, pageVars
  <2>2. job = NoJob
    BY <1>2 DEF Evaluate, BeginNames, Conclude, FormShapes
  <2> QED
    BY <2>1, <2>2, RestSettles DEF Holds
<1>3. CASE Judge
  <2>1. /\ UNCHANGED <<profile, dom, visible, text, billing, seen, done, changes, job>>
        /\ pc = "judge" /\ pc' # "semantic" /\ calm # 0
    BY <1>3 DEF Judge, pageVars
  <2>2. job = NoJob
    BY <2>1 DEF FormShapes
  <2> QED
    BY <2>1, <2>2, RestSettles DEF Holds
<1>4. ASSUME NEW target \in unread, ReadBack(target) PROVE SettledInv'
  <2>1. /\ UNCHANGED <<profile, dom, visible, text, billing, seen, changes, job, pc, calm>>
        /\ pc \in {"judge", "final"}
        /\ done' = IF Holds(target) THEN done ELSE Forgotten({target})
    BY <1>4 DEF ReadBack, pageVars
  <2>2. job = NoJob
    BY <2>1 DEF FormShapes
  <2>3. ASSUME NEW t, Holds(t) PROVE t \in DOMAIN done' /\ done'[t] = done[t]
    BY <2>1, <2>3, MemoryFacts DEF Holds
  <2> QED
    BY <2>1, <2>2, <2>3, RestSettles
<1>5. CASE Plan \/ Insert \/ Toggle \/ Reset
  BY <1>5 DEF Plan, Insert, Toggle, Reset, Changed, OrderInv
<1>6. CASE LookSemantic
  BY <1>6, LookSemanticSettles DEF LookSemantic
<1>7. CASE LookNamed
  BY <1>7, LookNamedSettles DEF LookNamed
<1>8. CASE Write
  BY <1>8, WriteSettles DEF Write
<1>9. CASE Verify
  BY <1>9, VerifySettles DEF Verify
<1>10. CASE UNCHANGED formVars
  <2>1. UNCHANGED <<profile, billing, dom, visible, text, done, job, calm, seen, changes, pc, todo>>
        /\ SettledInv
    BY <1>10 DEF formVars
  <2>2. Fillable' = Fillable /\ \A loc : Interactive(loc)' <=> Interactive(loc)
    BY <2>1, FillableKept
  <2>3. ASSUME NEW t, Settled(t) PROVE Settled(t)'
    BY <2>1, <2>3, SettledKept
  <2>4. ASSUME NEW n \in Fillable, Settled(TargetOf(dom[n])) PROVE Settled(TargetOf(dom[n]))'
    <3>1. PICK t : t = TargetOf(dom[n]) /\ t = TargetOf(dom[n])'
      BY <2>1 DEF TargetOf, IntentOf, ContextOf
    <3> QED
      BY <2>3, <2>4, <3>1
  <2>5. job' # NoJob => /\ Interactive(job.at)' /\ (Desired(job.target) # Empty)'
                        /\ job'.step = "verify" => Reads(job.at, Desired(job.target))'
    BY <2>1 DEF SettledInv, Interactive, Reads, Points, At, Matching, Desired, ValueFor, FromAddress,
                HasValue, ShippingAddress, BillingValue
  <2>6. ASSUME ~profile.kiAutofill, changes = 0, NEW t \in seen
        PROVE  Desired(t)' # Empty /\ Settled(t)'
    BY <2>1, <2>3, <2>6, DesiredKept DEF SettledInv
  <2> QED
    BY <2>1, <2>2, <2>4, <2>5, <2>6 DEF SettledInv
<1> QED
  BY <1>1, <1>2, <1>3, <1>4, <1>5, <1>6, <1>7, <1>8, <1>9, <1>10 DEF FormNext

LEMMA InitStill == FormInit => StillInv
<1> SUFFICES ASSUME FormInit PROVE StillInv
  OBVIOUS
<1>1. OrderInv
  BY FormAssumption DEF FormInit, OrderInv
<1>2. GivenInv /\ calm = 0
  BY DEF FormInit, GivenInv
<1> QED
  BY <1>1, <1>2 DEF StillInv

LEMMA StepStill ==
  ASSUME FormInv, StillInv, [FormNext]_formVars
  PROVE  StillInv'
<1>1. OrderInv'
  BY StepOrder DEF FormInv, StillInv
<1>2. ASSUME ~stirred', Uncontradicted' PROVE GivenInv' /\ (calm' # 0 => SettledInv')
  <2>1. ~stirred
    BY <1>2, StirredKept
  <2>2. Uncontradicted
    BY <1>2, ContradictionKept DEF FormInv
  <2>3. FormShapes /\ PassInv /\ OrderInv /\ GivenInv /\ (calm # 0 => SettledInv)
    BY <2>1, <2>2 DEF FormInv, StillInv
  <2>4. GivenInv'
    BY <2>2, <2>3, StepGiven
  <2> QED
    BY <1>2, <2>3, <2>4, StepSettled
<1> QED
  BY <1>1, <1>2 DEF StillInv

(* A run whose last pass met a page that stood still has filled all it can   *)
(* fill: what is left is for the reasons the property names.                 *)
LEMMA StepCause ==
  ASSUME FormInv, StillInv, FailureHasCause, [FormNext]_formVars
  PROVE  FailureHasCause'
<1>1. CASE UNCHANGED formVars
  <2>1. UNCHANGED <<profile, dom, visible, billing, seen, calm, stirred, changes, verdict>>
    BY <1>1 DEF formVars
  <2>2. \A t : Explained(t)' <=> Explained(t)
    BY <2>1 DEF Explained, MeantFor, IntentOf, TargetOf, ContextOf, Desired, ValueFor, FromAddress,
                HasValue, ShippingAddress, BillingValue
  <2>3. \A f : Contradictory(f)' <=> Contradictory(f)
    BY <2>1 DEF Contradictory, TakenFor, MeantFor, IntentOf
  <2>4. Required(seen)' = Required(seen)
    BY <2>1 DEF Required
  <2> QED
    BY <2>1, <2>2, <2>3, <2>4 DEF FailureHasCause
<1>2. CASE Conclude
  <2>1. /\ pc = "final" /\ verdict' = (IF Complete THEN "satisfied" ELSE "failed")
        /\ UNCHANGED <<profile, dom, visible, text, billing, seen, calm, stirred, changes>>
    BY <1>2 DEF Conclude, pageVars
  <2>2. ASSUME verdict' = "failed", calm = 2, ~stirred, Uncontradicted, Required(seen) # {}
        PROVE  (profile.kiAutofill \/ changes > 0) /\ \E t \in Required(seen) : Explained(t)
    <3>1. PICK t \in Required(seen) : ~Filled(t)
      BY <2>1, <2>2 DEF Complete
    <3>2. SettledInv /\ OrderInv /\ job = NoJob /\ t \in seen /\ changes \in Nat
      BY <2>1, <2>2, <3>1 DEF StillInv, FormInv, FormShapes, Required
    <3>3. Desired(t) = Empty \/ ~Holds(t)
      BY <3>1 DEF Filled, Holds
    <3>4. profile.kiAutofill \/ changes > 0
      BY <3>2, <3>3 DEF SettledInv, Settled
    <3>5. ASSUME Desired(t) # Empty, NEW f \in visible, MeantFor(f) # "unknown", TargetOf(f) = t
          PROVE  FALSE
      <4>1. PICK n \in DOMAIN dom : f = dom[n]
        BY <3>2 DEF OrderInv
      <4>2. n \in Fillable
        BY <3>5, <4>1 DEF Fillable, Known
      <4>3. Settled(t)
        BY <2>1, <3>2, <3>5, <4>1, <4>2 DEF SettledInv
      <4> QED
        BY <3>2, <3>3, <3>5, <4>3 DEF Settled
    <3>6. Explained(t)
      BY <3>5 DEF Explained
    <3> QED
      BY <3>4, <3>6
  <2>3. \A t : Explained(t)' <=> Explained(t)
    BY <2>1 DEF Explained, MeantFor, IntentOf, TargetOf, ContextOf, Desired, ValueFor, FromAddress,
                HasValue, ShippingAddress, BillingValue
  <2>4. (\A n \in DOMAIN dom : ~Contradictory(dom[n]))' => Uncontradicted
    BY ContradictionKept DEF FormInv, Uncontradicted
  <2>5. Required(seen)' = Required(seen)
    BY <2>1 DEF Required
  <2> QED
    BY <2>1, <2>2, <2>3, <2>4, <2>5 DEF FailureHasCause
<1>3. CASE UNCHANGED verdict /\ verdict # "failed"
  BY <1>3 DEF FailureHasCause
<1>4. CASE verdict = "failed"
  <2>1. pc = "end" /\ job = NoJob
    BY <1>4 DEF StillInv, OrderInv, FormInv, FormShapes
  <2> QED
    BY <1>1, <2>1, JobFacts DEF FormNext, Plan, Collect, LookSemantic, BeginNames, LookNamed,
                Write, Verify, Evaluate, ReadBack, Judge, Conclude, Insert, Toggle, Reset
<1> QED
  BY <1>1, <1>2, <1>3, <1>4 DEF FormNext, Plan, Collect, LookSemantic, BeginNames, LookNamed,
                Write, Verify, Evaluate, ReadBack, Judge, Insert, Toggle, Reset

(* A form is filled as far as it goes: on a page that stood still for a      *)
(* whole pass and the evaluations after it, and among whose controls nothing *)
(* was put in the middle of a pass, a required control that was met and can  *)
(* still be used as what its markup says, with a value in the profile, is no *)
(* reason for a failure; unless a control is taken for two things.  One pass *)
(* is enough because a control is only ever given one value, so that filling *)
(* one takes nothing from another; the reads of the evaluation find what the *)
(* pass has left.  A control known by a selector alone is not looked at      *)
(* again once it was met, so with KI AutoFill off the page must not have     *)
(* moved at all (SemanticFieldAutofill.fillSemantic, hasObservedIntent, the  *)
(* loop of SemanticCheckoutPreparer.prepare).                                *)
THEOREM FailureIsExplained == FormSpec => []FailureHasCause
<1>1. FormInit => FailureHasCause
  BY DEF FormInit, FailureHasCause
<1>2. FormInv /\ StillInv /\ FailureHasCause /\ [FormNext]_formVars
        => StillInv' /\ FailureHasCause'
  BY StepStill, StepCause
<1> QED
  BY FormHolds, InitStill, <1>1, <1>2, PTL DEF FormSpec

-------------------------------------------------------------------------------
(* The run in a shop, waiting or filling a form, has what its parts have.    *)
THEOREM PageHolds ==
  Spec => /\ [](ReleaseMeansAdmitted /\ WindowSpansRuns /\ OwnValuesOnly /\ FailureHasCause)
          /\ SatisfiedMeansFilled
<1>1. Init => WaitInit /\ FormInit
  BY DEF Init
<1>2. [Next]_vars => [WaitNext]_waitVars /\ [FormNext]_formVars
  BY DEF Next, vars
<1>3. Spec => WaitSpec /\ FormSpec
  BY <1>1, <1>2, PTL DEF Spec, WaitSpec, FormSpec
<1> QED
  BY <1>3, ReleaseIsTrue, HourIsOne, OwnValues, FailureIsExplained, SatisfiedIsFilled, PTL

=============================================================================
