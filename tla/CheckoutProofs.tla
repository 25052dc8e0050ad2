---------------------------- MODULE CheckoutProofs ----------------------------
(***************************************************************************)
(* Theorems about the way to an open order, for any products, words and    *)
(* bounds: which keywords a search uses (EarlyGateSearch), and that what   *)
(* the user is told of an open order is true of the page, in every round   *)
(* and in both executors (CheckoutPreparation).                            *)
(***************************************************************************)
EXTENDS MCCheckout, SequenceTheorems, TLAPS

-------------------------------------------------------------------------------
(***************************************************************************)
(* EarlyGateSearch: the keywords of a search.                              *)
(***************************************************************************)

(* The words the desktop process will show once it has handled what is on    *)
(* its way from the worker.                                                  *)
LastWords ==
  IF back # <<>> THEN back[Len(back)].words
  ELSE IF due # <<>> THEN due[Len(due)] ELSE shown

(* They are the run's. The configuration a run begins with is the only one   *)
(* that is not followed by an answer, and no answer is pending before it.    *)
KeywordsInv ==
  /\ {shown, words} \subseteq Words
  /\ wanted \in Seq(Words) /\ back \in Seq(Message) /\ due \in Seq(Words)
  /\ LastWords = words
  /\ back # <<>> /\ back[Len(back)].type = "config" => Len(back) = 1 /\ due = <<>>

LEMMA SameKeywords ==
  ASSUME KeywordsInv, UNCHANGED <<shown, words, back, due>>, wanted' \in Seq(Words)
  PROVE  KeywordsInv'
  BY DEF KeywordsInv, LastWords

\* A change: the configuration, then the answer.
LEMMA UpdateStep == ASSUME KeywordsInv, Update PROVE KeywordsInv'
<1> DEFINE w == Head(wanted)
<1>1. w \in Words /\ wanted' \in Seq(Words)
  BY DEF KeywordsInv, Update
<1>2. CASE active
  <2>1. /\ words' = w /\ back' = back \o <<Config(w), Answer(w)>>
        /\ UNCHANGED <<shown, due>>
    BY <1>2 DEF Update, Publish
  <2>2. <<Config(w), Answer(w)>> \in Seq(Message) /\ Len(<<Config(w), Answer(w)>>) = 2
    BY <1>1 DEF Config, Answer, Message
  <2>3. /\ back' \in Seq(Message) /\ Len(back') = Len(back) + 2
        /\ back'[Len(back) + 2] = Answer(w)
    BY <2>1, <2>2, ConcatProperties DEF KeywordsInv
  <2>4. back' # <<>> /\ Answer(w).words = w /\ Answer(w).type # "config"
    BY <2>3 DEF Answer, KeywordsInv
  <2> QED
    BY <1>1, <2>1, <2>3, <2>4 DEF KeywordsInv, LastWords
<1>3. CASE ~active
  BY <1>1, <1>3, SameKeywords DEF Update
<1> QED
  BY <1>2, <1>3

\* The head of a sequence is its last element, or the last element stays.
LEMMA TailKeepsLast ==
  ASSUME NEW S, NEW s \in Seq(S), s # <<>>
  PROVE  /\ Head(s) \in S /\ Tail(s) \in Seq(S) /\ Len(s) \in Nat \ {0}
         /\ Tail(s) = <<>> => Len(s) = 1 /\ Head(s) = s[Len(s)]
         /\ Tail(s) # <<>> => Tail(s)[Len(Tail(s))] = s[Len(s)]
<1>1. /\ Head(s) \in S /\ Head(s) = s[1] /\ Tail(s) \in Seq(S)
      /\ Len(s) \in Nat \ {0} /\ Len(Tail(s)) = Len(s) - 1
  BY EmptySeq, HeadTailProperties
<1>2. \A i \in 1 .. Len(Tail(s)) : Tail(s)[i] = s[i + 1]
  BY <1>1, HeadTailProperties
<1>3. Tail(s) # <<>> <=> Len(Tail(s)) # 0
  BY <1>1, EmptySeq
<1> QED
  BY <1>1, <1>2, <1>3

\* A configuration is shown; an answer waits for its handler.
LEMMA ReceiveStep == ASSUME KeywordsInv, Receive PROVE KeywordsInv'
<1> DEFINE m == Head(back)
<1>1. /\ back # <<>> /\ back' = Tail(back) /\ UNCHANGED <<words, wanted>>
      /\ m.type = "config" => shown' = m.words /\ due' = due
      /\ m.type # "config" => due' = Append(due, m.words) /\ shown' = shown
  BY DEF Receive
<1>2. m \in Message /\ m.words \in Words /\ m.type \in {"config", "answer"}
  <2>1. m \in Message /\ Tail(back) \in Seq(Message)
    BY <1>1, TailKeepsLast DEF KeywordsInv
  <2> QED
    BY <2>1 DEF Message
<1>3. /\ back' \in Seq(Message) /\ due' \in Seq(Words) /\ shown' \in Words
  <2>1. back' \in Seq(Message)
    BY <1>1, HeadTailProperties DEF KeywordsInv
  <2>2. due' \in Seq(Words) /\ shown' \in Words
    <3>1. shown \in Words /\ due \in Seq(Words)
      BY DEF KeywordsInv
    <3>2. Append(due, m.words) \in Seq(Words)
      BY <1>2, <3>1, AppendProperties
    <3> QED
      BY <1>1, <1>2, <3>1, <3>2
  <2> QED
    BY <2>1, <2>2
<1>4. CASE back' = <<>>
  <2>1. m = back[Len(back)] /\ words = m.words
    BY <1>1, <1>4, TailKeepsLast DEF KeywordsInv, LastWords
  <2>2. CASE m.type = "config"
    BY <1>1, <1>3, <1>4, <2>1, <2>2 DEF KeywordsInv, LastWords
  <2>3. CASE m.type # "config"
    <3>1. due' # <<>> /\ due'[Len(due')] = m.words
      BY <1>1, <1>2, <2>3 DEF KeywordsInv
    <3> QED
      BY <1>1, <1>3, <1>4, <2>1, <3>1 DEF KeywordsInv, LastWords
  <2> QED
    BY <2>2, <2>3
<1>5. CASE back' # <<>>
  <2>1. back'[Len(back')] = back[Len(back)] /\ Len(back) # 1
    BY <1>1, <1>5, TailKeepsLast, EmptySeq, HeadTailProperties DEF KeywordsInv
  <2> QED
    BY <1>1, <1>3, <1>5, <2>1 DEF KeywordsInv, LastWords
<1> QED
  BY <1>4, <1>5

\* The handler of an answer shows its words, which later answers replace.
LEMMA HandlerStep == ASSUME KeywordsInv, HandlerEnds PROVE KeywordsInv'
<1>1. /\ due # <<>> /\ due' = Tail(due) /\ shown' = Head(due)
      /\ UNCHANGED <<words, wanted, back>>
  BY DEF HandlerEnds
<1>2. due' \in Seq(Words) /\ shown' \in Words
  BY <1>1, TailKeepsLast DEF KeywordsInv
<1>3. due' = <<>> => shown' = due[Len(due)]
  BY <1>1, TailKeepsLast DEF KeywordsInv
<1>4. due' # <<>> => due'[Len(due')] = due[Len(due)]
  BY <1>1, TailKeepsLast DEF KeywordsInv
<1> QED
  BY <1>1, <1>2, <1>3, <1>4 DEF KeywordsInv, LastWords

\* A run begins with the words that are shown, when nothing is on its way.
LEMMA StartStep == ASSUME KeywordsInv, StartSearch PROVE KeywordsInv'
<1>1. /\ words' = shown /\ back' = <<Config(shown)>>
      /\ UNCHANGED <<shown, wanted, due>> /\ due = <<>>
  BY DEF StartSearch, Quiet
<1>2. /\ back' \in Seq(Message) /\ back' # <<>> /\ Len(back') = 1
      /\ back'[1].words = shown
  BY <1>1 DEF Config, Message, KeywordsInv
<1> QED
  BY <1>1, <1>2 DEF KeywordsInv, LastWords

(* What the worker has sent, and the handlers still have to do, ends with    *)
(* the words of the run: requests and messages keep their order, and each    *)
(* change is sent before it is answered.                                     *)
THEOREM KeywordsHold == SearchSpec => []KeywordsInv
<1>1. SearchInit => KeywordsInv
  BY DEF SearchInit, KeywordsInv, LastWords
<1>2. ASSUME KeywordsInv, SearchNext PROVE KeywordsInv'
  <2>1. ASSUME NEW w \in Words, UpdateDiscoveryKeywords(w) PROVE KeywordsInv'
    <3>1. wanted' \in Seq(Words)
      BY <1>2, <2>1 DEF UpdateDiscoveryKeywords, KeywordsInv
    <3> QED
      BY <1>2, <2>1, <3>1, SameKeywords DEF UpdateDiscoveryKeywords
  <2>2. CASE Throws \/ GiveUpSearch \/ CancelSearch \/ SearchClock \/ StockChanges
    <3>1. UNCHANGED <<deskVars, words>>
      BY <2>2 DEF Throws, GiveUpSearch, SearchEnds, Go, CancelSearch, SearchClock, StockChanges
    <3> QED
      BY <1>2, <3>1, SameKeywords DEF deskVars, KeywordsInv
  <2>3. CASE Discover \/ ListingRead \/ Visit \/ NothingFound \/ AddToCart \/ OpenCheckout
    <3>1. UNCHANGED <<deskVars, words>>
      BY <2>3 DEF Discover, ListingRead, Visit, NothingFound, AddToCart, OpenCheckout, Go
    <3> QED
      BY <1>2, <3>1, SameKeywords DEF deskVars, KeywordsInv
  <2> QED
    BY <1>2, <2>1, <2>2, <2>3, UpdateStep, ReceiveStep, HandlerStep, StartStep DEF SearchNext
<1>3. KeywordsInv /\ UNCHANGED earlyGateVars => KeywordsInv'
  BY SameKeywords DEF earlyGateVars, deskVars, KeywordsInv
<1> QED
  BY <1>1, <1>2, <1>3, PTL DEF SearchSpec

(* When no change is under way the run searches with the words the task      *)
(* shows, whatever changes, refusals, cancels and runs came before           *)
(* (updateDiscoveryKeywords, publishKeywords).                               *)
THEOREM SearchUsesShown == SearchSpec => []KeywordsAgree
<1>1. KeywordsInv => KeywordsAgree
  BY DEF KeywordsInv, LastWords, KeywordsAgree, Quiet
<1> QED
  BY KeywordsHold, <1>1, PTL

-------------------------------------------------------------------------------
(***************************************************************************)
(* CheckoutPreparation: the rounds of the executors.                       *)
(***************************************************************************)

(* What the steps of a round leave for the next: the address is in order    *)
(* once the form was filled in, the card once it was, and both still are    *)
(* when the checkout waits or looks for the final control.                  *)
AddressInOrder == kind = "shopify" /\ looked => page.need # "open"
CardInOrder == session = "card" /\ page.card = "filled"

RoundInv ==
  still =>
    /\ at \in {"payment", "control"} /\ profileReady => AddressInOrder
    /\ at = "control" /\ paid => CardInOrder
    /\ at \in {"ready", "finding"} => AddressInOrder /\ CardInOrder /\ page.final

PrepInv == page \in Pages /\ RoundInv

LEMMA InitPrep == PrepareInit => PrepInv
  BY DEF PrepareInit, PrepInv, RoundInv, Unread, Pages

(* The page stays a page.                                                    *)
LEMMA StepPage == page \in Pages /\ [PrepareNext]_prepareVars => page' \in Pages
<1> SUFFICES ASSUME page \in Pages, [PrepareNext]_prepareVars PROVE page' \in Pages
  OBVIOUS
<1>1. NewPages \subseteq Pages /\ Unread \in Pages
  BY DEF NewPages, Pages, Unread
<1>2. \A p \in Pages : [p EXCEPT !.need = "filled"] \in Pages /\ [p EXCEPT !.card = "filled"] \in Pages
  BY DEF Pages
<1>3. CASE Finishes \/ GiveUp \/ StopsWaiting
  BY <1>1, <1>3 DEF Finishes, GiveUp, StopsWaiting, Ends
<1>4. CASE Opened \/ PageChanges \/ Advance
  BY <1>1, <1>2, <1>4 DEF Opened, PageChanges, Advance
<1>5. CASE \E result \in {"all", "some", "none", "error"} : FillForm(result)
  BY <1>2, <1>5 DEF FillForm
<1>6. CASE \E b \in BOOLEAN : FillPayment(b)
  BY <1>2, <1>6 DEF FillPayment
<1>7. CASE UNCHANGED page
  BY <1>7
<1>8. CASE \/ UNCHANGED prepareVars \/ Cancel \/ Clock \/ Rested \/ Submit \/ Submitted \/ NotSubmitted
           \/ \E chosen \in {"none", "card", "other"}, stored \in BOOLEAN : Start(chosen, stored)
           \/ \E b \in BOOLEAN : Review(b) \/ SetFinalPurchaseAllowed(b)
  <2>1. UNCHANGED page
    BY <1>8 DEF prepareVars, pageVars, Start, Cancel, Clock, Rested, Submit, Submitted, NotSubmitted,
       Review, SetFinalPurchaseAllowed
  <2> QED
    BY <2>1, <1>7
<1> QED
  BY <1>3, <1>4, <1>5, <1>6, <1>8 DEF PrepareNext

(* The rounds keep their invariant.                                          *)
LEMMA StepRound == page \in Pages /\ RoundInv /\ [PrepareNext]_prepareVars => RoundInv'
<1> SUFFICES ASSUME page \in Pages, RoundInv, [PrepareNext]_prepareVars PROVE RoundInv'
  OBVIOUS
<1> USE DEF RoundInv, AddressInOrder, CardInOrder, Goto, Pages
<1>1. CASE UNCHANGED prepareVars
  BY <1>1 DEF prepareVars, runVars, payVars, toldVars, pageVars
<1>2. CASE \E chosen \in {"none", "card", "other"}, stored \in BOOLEAN : Start(chosen, stored)
  BY <1>2 DEF Start, toldVars
<1>3. CASE Finishes \/ GiveUp \/ StopsWaiting
  BY <1>3 DEF Finishes, GiveUp, StopsWaiting, Ends
<1>4. CASE Cancel \/ Clock
  BY <1>4 DEF Cancel, Clock, payVars, toldVars, runVars, pageVars
<1>5. CASE Opened
  BY <1>5 DEF Opened, BeginRounds, toldVars
<1>6. CASE PageChanges
  BY <1>6 DEF PageChanges
<1>7. ASSUME NEW result \in {"all", "some", "none", "error"}, FillForm(result) PROVE RoundInv'
  <2>1. at' = "payment" /\ kind' = kind
    BY <1>7 DEF FillForm
  <2>2. kind' = "shopify" /\ looked' /\ profileReady' => page'.need # "open"
    BY <1>7 DEF FillForm, AfterForm
  <2> QED
    BY <2>1, <2>2
<1>8. ASSUME NEW b \in BOOLEAN, FillPayment(b) PROVE RoundInv'
  BY <1>8 DEF FillPayment, PaymentReady
<1>9. ASSUME NEW b \in BOOLEAN, Review(b) PROVE RoundInv'
  BY <1>9 DEF Review, ControlVisible, pageVars
<1>10. ASSUME NEW b \in BOOLEAN, SetFinalPurchaseAllowed(b) PROVE RoundInv'
  BY <1>10 DEF SetFinalPurchaseAllowed, runVars, payVars, pageVars
<1>11. CASE Advance \/ Rested
  BY <1>11 DEF Advance, Rested, payVars, toldVars, pageVars
<1>12. CASE Submit \/ Submitted
  BY <1>12 DEF Submit, Submitted, Tell, payVars, toldVars, pageVars
<1>13. CASE NotSubmitted
  BY <1>13 DEF NotSubmitted, Tell, BeginRounds, pageVars
<1> QED
  BY <1>1, <1>2, <1>3, <1>4, <1>5, <1>6, <1>7, <1>8, <1>9, <1>10, <1>11, <1>12, <1>13
     DEF PrepareNext

(* The inductive invariant holds in every state: a run that takes its        *)
(* checkout for ready has gone through a round that filled in the card, saw  *)
(* the final control and, in the Shopify executor, left no field open.       *)
THEOREM RoundsHold == PrepareSpec => []PrepInv
<1>1. PrepInv /\ [PrepareNext]_prepareVars => PrepInv'
  BY StepPage, StepRound DEF PrepInv
<1> QED
  BY InitPrep, <1>1, PTL DEF PrepareSpec

(* The user is told that the order is ready only when it is prepared: the    *)
(* card is in the fields of the page that shows the final control, and the   *)
(* Shopify executor has left no required field of it open                    *)
(* (prepareUntilPurchaseReady, prepareCheckoutUntilReady).                   *)
THEOREM ReadyIsPrepared == PrepareSpec => []ReadyMeansPrepared
<1>1. PrepInv => ReadyMeansPrepared
  BY DEF PrepInv, RoundInv, ReadyMeansPrepared, AddressInOrder, CardInOrder
<1> QED
  BY RoundsHold, <1>1, PTL

-------------------------------------------------------------------------------
(* Both parts of a way to an order, one after the other.                     *)
THEOREM CheckoutHolds ==
  Spec => [](KeywordsAgree /\ ReadyMeansPrepared)
<1>1. Init => SearchInit /\ PrepareInit
  BY DEF Init
<1>2. [Next]_vars => [SearchNext]_earlyGateVars /\ [PrepareNext]_prepareVars
  BY DEF Next, vars
<1>3. Spec => SearchSpec /\ PrepareSpec
  BY <1>1, <1>2, PTL DEF Spec, SearchSpec, PrepareSpec
<1> QED
  BY <1>3, SearchUsesShown, ReadyIsPrepared, PTL
=============================================================================
