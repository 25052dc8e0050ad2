------------------------ MODULE MonitorCheckoutProofs ------------------------
(***************************************************************************)
(* Theorems about MonitorCheckout, for any items, any number of retries    *)
(* and of changes in the shop: one checkout task for a monitor, and no     *)
(* browser that nobody has told to close once its run is over.             *)
(***************************************************************************)
EXTENDS MonitorCheckout, TLAPS

(* What the coordinator remembers of the monitor, and the task it created,   *)
(* come and stay together; the user and the orchestrator change the state    *)
(* of that task, its session and its attempts only.                          *)
Child == [state : {"QUEUED", "RUNNING", "RETRYING", "SUCCESS", "FAILED"},
          session : {"none", Preferred}, retries : Nat, paid : SUBSET {"card", Preferred}]

CheckoutInv ==
  /\ session \in {"none", Preferred} /\ triggered \in BOOLEAN
  /\ children \in Seq(Child)
  /\ Len(children) = IF triggered THEN 1 ELSE 0

\* The steps of the monitor and of the shop create nothing.
LEMMA SameCheckout ==
  ASSUME CheckoutInv, UNCHANGED <<children, triggered>>, session' \in {session, "none", Preferred}
  PROVE  CheckoutInv'
  BY DEF CheckoutInv

\* A step of the checkout task leaves it the only one.
LEMMA ChildStep ==
  ASSUME CheckoutInv, NEW c \in 1 .. Len(children),
         ChildBegins(c) \/ ChildSucceeds(c) \/ ChildFails(c)
  PROVE  CheckoutInv'
<1> USE DEF CheckoutInv
<1>1. UNCHANGED <<session, triggered>>
  BY DEF ChildBegins, ChildSucceeds, ChildFails
<1>2. children[c] \in Child
  OBVIOUS
<1>3. PICK k \in Child : children' = [children EXCEPT ![c] = k]
  <2>1. CASE ChildBegins(c)
    <3> DEFINE k == [children[c] EXCEPT !.state = "RUNNING",
                                        !.paid = @ \cup {Method(children[c].session)}]
    <3>1. k \in Child
      BY <1>2 DEF Child, Method
    <3>2. children' = [children EXCEPT ![c] = k]
      BY <2>1, <1>2 DEF ChildBegins, Child
    <3> QED
      BY <3>1, <3>2
  <2>2. CASE ChildSucceeds(c)
    <3> DEFINE k == [children[c] EXCEPT !.state = "SUCCESS", !.session = "none"]
    <3>1. k \in Child
      BY <1>2 DEF Child
    <3>2. children' = [children EXCEPT ![c] = k]
      BY <2>2, <1>2 DEF ChildSucceeds, Child
    <3> QED
      BY <3>1, <3>2
  <2>3. CASE ChildFails(c) /\ MayRetry(children[c].retries)
    <3> DEFINE k == [children[c] EXCEPT !.state = "RETRYING", !.session = "none",
                                        !.retries = @ + 1]
    <3>1. k \in Child
      <4>1. children[c].retries + 1 \in Nat
        BY <1>2 DEF Child
      <4> QED
        BY <1>2, <4>1 DEF Child
    <3>2. children' = [children EXCEPT ![c] = k]
      BY <2>3, <1>2 DEF ChildFails, Child
    <3> QED
      BY <3>1, <3>2
  <2>4. CASE ChildFails(c) /\ ~MayRetry(children[c].retries)
    <3> DEFINE k == [children[c] EXCEPT !.state = "FAILED", !.session = "none"]
    <3>1. k \in Child
      BY <1>2 DEF Child
    <3>2. children' = [children EXCEPT ![c] = k]
      BY <2>4, <1>2 DEF ChildFails, Child
    <3> QED
      BY <3>1, <3>2
  <2> QED
    BY <2>1, <2>2, <2>3, <2>4
<1> QED
  BY <1>1, <1>3

\* handleProductEvent creates a task only if none was noted, and notes it.
LEMMA HandleStep == ASSUME CheckoutInv, Handle PROVE CheckoutInv'
<1> USE DEF CheckoutInv
<1>1. CASE MayTrigger
  <2>1. NewChild \in Child
    BY DEF NewChild, Child
  <2>2. /\ triggered' = TRUE /\ children' = Append(children, NewChild)
        /\ session' \in {session, "none"}
    BY <1>1 DEF Handle, MayTrigger, checkout
  <2> QED
    BY <1>1, <2>1, <2>2 DEF MayTrigger
<1>2. CASE ~MayTrigger
  <2>1. UNCHANGED checkout
    BY <1>2 DEF Handle
  <2> QED
    BY <2>1, SameCheckout DEF checkout
<1> QED
  BY <1>1, <1>2

(* A note of the coordinator stands for exactly one checkout task.           *)
THEOREM CheckoutHolds == Spec => []CheckoutInv
<1>1. Init => CheckoutInv
  <2> SUFFICES ASSUME Init PROVE CheckoutInv
    OBVIOUS
  <2>1. ~triggered /\ triggered \in BOOLEAN
    BY DEF Init
  <2>2. children \in Seq(Child) /\ Len(children) = 0 /\ session = "none"
    BY DEF Init
  <2> QED
    BY <2>1, <2>2 DEF CheckoutInv
<1>2. ASSUME CheckoutInv, Next PROVE CheckoutInv'
  <2>1. ASSUME NEW i \in Items, Changes(i) \/ Observe(i) \/ RecordFails(i) PROVE CheckoutInv'
    BY <1>2, <2>1, SameCheckout DEF Changes, Observe, RecordFails, checkout
  <2>2. CASE UserStarts \/ BrowserOpened \/ OpenFails \/ BeginRun \/ RetryFires \/ Pauses \/ Resumes
    BY <1>2, <2>2, SameCheckout
       DEF UserStarts, ProfileSession, BrowserOpened, OpenFails, BeginRun, RetryFires, Pauses, Resumes,
           checkout
  <2>3. CASE UserStops \/ VisibleClosed
    BY <1>2, <2>3, SameCheckout DEF UserStops, VisibleClosed, checkout
  <2>4. CASE SearchAnswers \/ SearchFails \/ RenderAnswers \/ RenderFails \/ CycleEnds \/ NextCycle
             \/ FallbackClosed \/ FallbackDies
    BY <1>2, <2>4, SameCheckout
       DEF SearchAnswers, SearchFails, RenderAnswers, RenderFails, CycleEnds, NextCycle,
           FallbackClosed, FallbackDies, checkout
  <2>5. CASE RunReturns
    BY <1>2, <2>5, SameCheckout DEF RunReturns
  <2> QED
    BY <1>2, <2>1, <2>2, <2>3, <2>4, <2>5, HandleStep, ChildStep DEF Next
<1>3. CheckoutInv /\ UNCHANGED vars => CheckoutInv'
  BY SameCheckout DEF vars, checkout
<1> QED
  BY <1>1, <1>2, <1>3, PTL DEF Spec

(* However many offers are seen before the monitor has stopped, and whoever  *)
(* stops, pauses or restarts it meanwhile, it gets one checkout task         *)
(* (auto-checkout-coordinator.ts, handleProductEvent).                       *)
THEOREM OneCheckout == Spec => []OneCheckoutPerParent
<1>1. CheckoutInv => OneCheckoutPerParent
  BY DEF CheckoutInv, OneCheckoutPerParent
<1> QED
  BY CheckoutHolds, <1>1, PTL

(* A run may have a browser open while it looks, and waits for one to end    *)
(* while it ends.                                                            *)
LEMMA RunStep ==
  ASSUME NoBrowserLeftBehind,
         SearchAnswers \/ SearchFails \/ RenderAnswers \/ RenderFails \/ CycleEnds \/ NextCycle
         \/ RunReturns \/ BeginRun \/ FallbackClosed \/ FallbackDies
  PROVE  NoBrowserLeftBehind'
<1> USE DEF NoBrowserLeftBehind
<1>1. CASE SearchAnswers \/ SearchFails
  BY <1>1 DEF SearchAnswers, SearchFails, EndLoop, Consider, OpenFallback
<1>2. CASE RenderAnswers \/ RenderFails
  BY <1>2 DEF RenderAnswers, RenderFails, EndLoop, Consider
<1>3. CASE CycleEnds \/ NextCycle \/ RunReturns
  BY <1>3 DEF CycleEnds, NextCycle, RunReturns, EndLoop
<1>4. CASE BeginRun \/ FallbackClosed \/ FallbackDies
  BY <1>4 DEF BeginRun, FallbackClosed, FallbackDies, browsers, run
<1> QED
  BY <1>1, <1>2, <1>3, <1>4

(* The commands forget the session wherever the run is; the run finds it     *)
(* gone.                                                                     *)
LEMMA CommandStep ==
  ASSUME NoBrowserLeftBehind, Pauses \/ UserStops \/ VisibleClosed \/ Handle
  PROVE  NoBrowserLeftBehind'
<1>1. AbortRun \/ UNCHANGED <<stage, fallback>>
  <2>1. CASE Pauses \/ UserStops
    BY <2>1 DEF Pauses, UserStops, FinishStop, CancelParent, run
  <2>2. CASE VisibleClosed \/ Handle
    BY <2>2 DEF VisibleClosed, Handle, FinishStop, CancelParent, run, browsers
  <2> QED
    BY <2>1, <2>2
<1>2. stage' = stage /\ (fallback' = fallback \/ fallback' = "none")
  BY <1>1 DEF AbortRun, ForgetSession
<1> QED
  BY <1>2 DEF NoBrowserLeftBehind

(* Whichever way a run ends, by an answer, an error, an abort, a failed      *)
(* record, or a cancel from outside, it leaves no browser behind that nobody *)
(* has told to close, and it returns only when the browser it has taken away *)
(* itself has ended (commerce-monitor-service.ts, execute and cancelTask).   *)
THEOREM FallbackEnds == Spec => []NoBrowserLeftBehind
<1>1. Init => NoBrowserLeftBehind
  BY DEF Init, NoBrowserLeftBehind
<1>2. ASSUME NoBrowserLeftBehind, Next PROVE NoBrowserLeftBehind'
  <2> USE DEF NoBrowserLeftBehind
  <2>1. ASSUME NEW i \in Items, Changes(i) \/ Observe(i) \/ RecordFails(i)
        PROVE  NoBrowserLeftBehind'
    BY <1>2, <2>1 DEF Changes, Observe, RecordFails, EndLoop, browsers, run
  <2>2. CASE UserStarts \/ BrowserOpened \/ OpenFails \/ RetryFires \/ Resumes
    BY <1>2, <2>2 DEF UserStarts, BrowserOpened, OpenFails, RetryFires, Resumes, browsers, run
  <2>3. ASSUME NEW c \in 1 .. Len(children), ChildBegins(c) \/ ChildSucceeds(c) \/ ChildFails(c)
        PROVE  NoBrowserLeftBehind'
    BY <1>2, <2>3 DEF ChildBegins, ChildSucceeds, ChildFails, browsers, run
  <2> QED
    BY <1>2, <2>1, <2>2, <2>3, RunStep, CommandStep DEF Next
<1>3. NoBrowserLeftBehind /\ UNCHANGED vars => NoBrowserLeftBehind'
  BY DEF vars, browsers, run, NoBrowserLeftBehind
<1> QED
  BY <1>1, <1>2, <1>3, PTL DEF Spec
=============================================================================
