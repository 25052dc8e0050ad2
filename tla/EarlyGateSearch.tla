--------------------------- MODULE EarlyGateSearch ---------------------------
(***************************************************************************)
(* The search of an early-gate task for its product after the queue, with  *)
(* keywords the user changes while it runs, up to the open checkout        *)
(* (EarlyGateBrowserTaskExecutor, PokemonCenterReleaseJourney).            *)
(*                                                                         *)
(* The desktop process sends changes to the worker.  The worker sends the  *)
(* task's configuration after each change, then the answer; requests and   *)
(* messages keep their order.                                              *)
(***************************************************************************)
EXTENDS Naturals, Sequences

CONSTANTS
  Products,
  Words,     \* lists of keywords
  Ranked,    \* of each list the products that match it, best first
  MaxAsks,   \* bound: changes under way
  MaxRuns,   \* bound: runs of the task
  MaxPieces, \* bound: pieces of a product that are counted
  None

VARIABLES
  \* the desktop process
  runs,      \* runs begun
  shown,     \* the task's keywords
  wanted,    \* changes on their way to the worker
  back,      \* configurations and answers on their way from it
  due,       \* answers whose handlers have yet to go on
  \* the run
  step,        \* the step it is in
  active,    \* it is in the executor's map of active runs
  stopped, overdue,
  words,     \* keywords of the run
  candidates,\* what the search under way looks for: products that match, not yet visited
  \* the shop
  product,      \* the product whose page is shown
  stock,     \* products in stock
  cart       \* how often each product is in the visitor's cart

deskVars == <<shown, wanted, back, due>>
searchVars == <<candidates, product>>
shopVars == <<stock, cart>>
earlyGateVars == <<runs, deskVars, step, active, stopped, overdue, words, searchVars, shopVars>>

Searching == {"discover", "listing", "visiting", "interval"}
Config(w) == [type |-> "config", words |-> w]
Answer(w) == [type |-> "answer", words |-> w]

SearchInit ==
  /\ runs = 0 /\ shown \in Words /\ wanted = <<>> /\ back = <<>> /\ due = <<>>
  /\ step = "idle" /\ active = FALSE /\ stopped = FALSE /\ overdue = FALSE
  /\ words = shown
  /\ candidates = <<>> /\ product = None
  /\ stock \in SUBSET Products /\ cart = [x \in Products |-> 0]

----------------------------------------------------------------------------
(* Changes of the keywords.                                                 *)

Answers == SelectSeq(back, LAMBDA m : m.type = "answer")
UnderWay == Len(wanted) + Len(Answers) + Len(due)

\* The desktop process hears of a found product a little later.
UpdateDiscoveryKeywords(w) ==
  /\ step \in Searching \cup {"adding"} /\ UnderWay < MaxAsks
  /\ wanted' = Append(wanted, w)
  /\ UNCHANGED <<runs, shown, back, due, step, active, stopped, overdue, words, searchVars,
                 shopVars>>

\* Slip: the answer is put together before the change.
PublishTooEarly(w) == <<Config(w), Answer(words)>>

\* publishKeywords, then the answer.
Publish(w) == <<Config(w), Answer(w)>>

\* A run that is not listed refuses.
Update ==
  /\ wanted # <<>> /\ wanted' = Tail(wanted)
  /\ IF active THEN words' = Head(wanted) /\ back' = back \o Publish(Head(wanted))
               ELSE UNCHANGED <<words, back>>
  /\ UNCHANGED <<runs, shown, due, step, active, stopped, overdue, searchVars, shopVars>>

\* The handler of an answer goes on once the messages that came with it are read.
Receive ==
  /\ back # <<>> /\ back' = Tail(back)
  /\ LET m == Head(back) IN
     IF m.type = "config" THEN shown' = m.words /\ UNCHANGED due
                          ELSE due' = Append(due, m.words) /\ UNCHANGED shown
  /\ UNCHANGED <<runs, wanted, step, active, stopped, overdue, words, searchVars, shopVars>>

HandlerEnds ==
  /\ due # <<>> /\ due' = Tail(due) /\ shown' = Head(due)
  /\ UNCHANGED <<runs, wanted, back, step, active, stopped, overdue, words, searchVars,
                 shopVars>>

----------------------------------------------------------------------------
(* A run begins and ends.                                                   *)

Quiet == wanted = <<>> /\ back = <<>> /\ due = <<>>

\* Its request comes after those that were sent before, and the result of the run before
\* it after all of that run's messages.
StartSearch ==
  /\ step = "idle" /\ runs < MaxRuns /\ Quiet
  /\ runs' = runs + 1 /\ step' = "discover" /\ active' = TRUE /\ stopped' = FALSE /\ overdue' = FALSE
  /\ words' = shown /\ back' = <<Config(shown)>>
  /\ UNCHANGED <<shown, wanted, due, searchVars, shopVars>>

Go(s) == step' = s /\ UNCHANGED <<runs, deskVars, stopped, words>>

SearchEnds ==
  /\ Go("idle") /\ active' = FALSE /\ overdue' = FALSE
  /\ candidates' = <<>> /\ product' = None
  /\ UNCHANGED shopVars

\* A page does not load, the product has gone, or there is no guest checkout; later, the
\* checkout fails.
Throws == step \in {"listing", "visiting", "adding", "cart", "opened"} /\ SearchEnds

CancelSearch ==
  /\ active /\ active' = FALSE /\ stopped' = TRUE
  /\ UNCHANGED <<runs, deskVars, step, overdue, words, searchVars, shopVars>>

SearchClock ==
  /\ step \in Searching /\ ~overdue /\ overdue' = TRUE
  /\ UNCHANGED <<runs, deskVars, step, active, stopped, words, searchVars, shopVars>>

\* It makes no difference before the next time it is looked at.
StockChanges ==
  /\ step \in {"listing", "visiting", "adding"}
  /\ stock' \in SUBSET Products \ {stock}
  /\ UNCHANGED <<runs, deskVars, step, active, stopped, overdue, words, searchVars, cart>>

----------------------------------------------------------------------------
(* The search, one category page and its products at a time.                *)

MaySearch == ~stopped /\ ~overdue

Discover ==
  /\ step = "discover" /\ MaySearch
  /\ Go("listing") /\ candidates' = Ranked[words]
  /\ UNCHANGED <<active, overdue, product, shopVars>>

GiveUpSearch == step = "discover" /\ ~MaySearch /\ SearchEnds

ListingRead ==
  /\ step = "listing" /\ ~stopped
  /\ Go("visiting")
  /\ candidates' = SelectSeq(candidates, LAMBDA x : x \in stock)
  /\ UNCHANGED <<active, overdue, product, shopVars>>

\* The page of a candidate says whether it can be bought.
Visit ==
  /\ step = "visiting" /\ ~stopped /\ candidates # <<>>
  /\ product' = Head(candidates) /\ candidates' = Tail(candidates)
  /\ Go(IF product' \in stock THEN "adding" ELSE "visiting")
  /\ UNCHANGED <<active, overdue, shopVars>>

NothingFound ==
  /\ \/ step = "visiting" /\ candidates = <<>> /\ Go("interval")
     \/ step = "interval" /\ Go("discover")
  /\ UNCHANGED <<active, overdue, searchVars, shopVars>>

\* What is in the cart from an earlier run is not looked at.
AddToCart ==
  /\ step = "adding" /\ ~stopped /\ product \in stock
  /\ cart' = [cart EXCEPT ![product] = IF @ < MaxPieces THEN @ + 1 ELSE @]
  /\ Go("cart")
  /\ UNCHANGED <<active, overdue, searchVars, stock>>

\* From here on CheckoutPreparation tells what happens.
OpenCheckout ==
  /\ step = "cart" /\ ~stopped /\ Go("opened")
  /\ UNCHANGED <<active, overdue, searchVars, shopVars>>

----------------------------------------------------------------------------
SearchNext ==
  \/ \E w \in Words : UpdateDiscoveryKeywords(w)
  \/ Update \/ Receive \/ HandlerEnds
  \/ StartSearch \/ Throws \/ CancelSearch \/ SearchClock \/ StockChanges
  \/ Discover \/ GiveUpSearch \/ ListingRead \/ Visit \/ NothingFound \/ AddToCart \/ OpenCheckout

SearchSpec == SearchInit /\ [][SearchNext]_earlyGateVars

----------------------------------------------------------------------------
Message == [type : {"config", "answer"}, words : Words]

\* Every variable keeps to its type.
SearchTypeOK ==
  /\ runs \in 0 .. MaxRuns /\ {shown, words} \subseteq Words
  /\ wanted \in Seq(Words) /\ back \in Seq(Message) /\ due \in Seq(Words)
  /\ step \in Searching \cup {"idle", "adding", "cart", "opened"}
  /\ {active, stopped, overdue} \subseteq BOOLEAN
  /\ candidates \in Seq(Products) /\ product \in Products \cup {None}
  /\ stock \subseteq Products /\ cart \in [Products -> 0 .. MaxPieces]

\* When no change is under way the run searches with the keywords the task shows, whatever
\* changes, refusals and runs came before (updateDiscoveryKeywords, publishKeywords).
KeywordsAgree == Quiet /\ step \in Searching /\ active => words = shown

\* A product that is put in the cart matches the keywords the user was told are in effect.
FoundMatchesKeywords ==
  [][AddToCart /\ Quiet => \E i \in DOMAIN Ranked[shown] : Ranked[shown][i] = product]_earlyGateVars

\* A checkout is opened with one piece in the cart.
CartHoldsOnePiece ==
  step = "opened" => \A x, y \in Products : cart[x] + cart[y] <= IF x = y THEN 2 ELSE 1
=============================================================================
