-------------------------- MODULE FinalPurchaseProofs --------------------------
(***************************************************************************)
(* Theorems about FinalPurchase, for any tasks, settings of the bounds and *)
(* kinds of executor.                                                      *)
(*                                                                         *)
(* The permission of the worker is right while somebody relies on it:      *)
(* that needs no more than the order of the requests.  That a run relies   *)
(* on it needs in addition that a run belongs to a call (RunsBelong), and  *)
(* so that an execute request is read at most once.  At most one order     *)
(* needs that a call belongs to a task that is shown as running or has     *)
(* been interrupted.                                                       *)
(***************************************************************************)
EXTENDS FinalPurchase, TLAPS

-------------------------------------------------------------------------------
(* Sequences.                                                              *)

\* What the worker has yet to read after one more request.
LEMMA AppendFacts ==
  ASSUME NEW S, NEW s \in Seq(S), NEW m \in S
  PROVE  /\ Append(s, m) \in Seq(S)
         /\ Len(Append(s, m)) = Len(s) + 1
         /\ \A i \in 1 .. Len(s) : Append(s, m)[i] = s[i]
         /\ Append(s, m)[Len(s) + 1] = m
  OBVIOUS

\* What the worker has yet to read after it has read a request.
LEMMA TailFacts ==
  ASSUME NEW S, NEW s \in Seq(S), s # <<>>
  PROVE  /\ Tail(s) \in Seq(S)
         /\ Len(s) >= 1 /\ Len(s) \in Nat
         /\ Len(Tail(s)) = Len(s) - 1
         /\ \A i \in 1 .. (Len(s) - 1) : Tail(s)[i] = s[i + 1]
         /\ Head(s) = s[1] /\ Head(s) \in S
  OBVIOUS

\* What a fresh worker has to read.
LEMMA SingletonFacts ==
  ASSUME NEW m PROVE \A i \in DOMAIN <<m>> : <<m>>[i] = m
  OBVIOUS

-------------------------------------------------------------------------------
(* Types.                                                                  *)

\* The requests are messages.
LEMMA MessageTypes ==
  /\ \A b \in BOOLEAN, t \in Tasks \cup {Setting} : Permit(b, t) \in Message
  /\ \A t \in Tasks : Execute(t) \in Message /\ Cancel(t) \in Message
  BY DEF Permit, Execute, Cancel, Message

\* A request leaves the channel a sequence of messages.
LEMMA SendTypes ==
  ASSUME TypeOK, NEW m \in Message, Send(m)
  PROVE  inbox' \in Seq(Message)
  BY AppendFacts DEF TypeOK, Send

\* The commands of the desktop process keep the types.
LEMMA CommandTypes ==
  ASSUME TypeOK, NEW t \in Tasks,
         Start(t) \/ SendExecute(t) \/ Command(t) \/ RetryDue(t)
  PROVE  TypeOK'
<1>1. CASE Start(t)
  <2>1. inbox' \in Seq(Message)
    BY <1>1, SendTypes, MessageTypes DEF Start, TypeOK
  <2>2. QED
    BY <1>1, <2>1 DEF Start, TypeOK, Status, Call, settingVars, runVars
<1>2. CASE SendExecute(t)
  <2>1. inbox' \in Seq(Message)
    BY <1>2, SendTypes, MessageTypes DEF SendExecute, TypeOK
  <2>2. QED
    BY <1>2, <2>1 DEF SendExecute, TypeOK, Call, settingVars, runVars
<1>3. SendCancel(t) => inbox' \in Seq(Message)
  BY SendTypes, MessageTypes DEF SendCancel, TypeOK
<1>4. CASE PauseTask(t)
  <2>1. inbox' \in Seq(Message)
    BY <1>3, <1>4 DEF PauseTask
  <2>2. QED
    BY <1>4, <2>1 DEF PauseTask, TypeOK, Status, settingVars, runVars
<1>5. CASE CancelTask(t)
  <2>1. inbox' \in Seq(Message)
    BY <1>3, <1>5 DEF CancelTask
  <2>2. QED
    BY <1>5, <2>1 DEF CancelTask, TypeOK, Status, settingVars, runVars
<1>6. CASE ResumeTask(t)
  BY <1>6 DEF ResumeTask, TypeOK, Status, settingVars, runVars
<1>7. CASE RetryDue(t)
  BY <1>7 DEF RetryDue, TypeOK, Status, settingVars, runVars
<1>8. QED
  BY <1>1, <1>2, <1>4, <1>5, <1>6, <1>7 DEF Command

\* Changing the setting keeps the types.
LEMMA SettingTypes ==
  ASSUME TypeOK, (\E b \in BOOLEAN : SetFinalPurchaseAllowed(b)) \/ SettingAcknowledged
  PROVE  TypeOK'
<1>1. ASSUME NEW b \in BOOLEAN, SetFinalPurchaseAllowed(b) PROVE TypeOK'
  <2>1. inbox' \in Seq(Message)
    BY <1>1, SendTypes, MessageTypes DEF SetFinalPurchaseAllowed
  <2>2. QED
    BY <1>1, <2>1 DEF SetFinalPurchaseAllowed, TypeOK, taskVars, runVars
<1>2. CASE SettingAcknowledged
  BY <1>2 DEF SettingAcknowledged, TypeOK, taskVars, runVars
<1>3. QED
  BY <1>1, <1>2

\* Booking results keeps the types; a retry is charged only while the budget lasts.
LEMMA BookTypes ==
  ASSUME TypeOK, NEW back \in SUBSET Tasks, NEW failed, Book(back, failed)
  PROVE  /\ status' \in [Tasks -> Status]
         /\ retries' \in [Tasks -> 0 .. MaxRetries]
         /\ marked' \subseteq Tasks
         /\ call' \in [Tasks -> Call]
<1> DEFINE counted == {t \in back : ~Interrupted(t)}
           again == {t \in counted \cap failed : MayRetry(t)}
<1>1. /\ status' = [t \in Tasks |-> IF t \in again THEN "retrying"
                                   ELSE IF t \in counted THEN "over" ELSE status[t]]
      /\ retries' = [t \in Tasks |-> IF t \in again THEN retries[t] + 1 ELSE retries[t]]
      /\ marked' = marked \ back
      /\ call' = [t \in Tasks |-> IF t \in back THEN "none" ELSE call[t]]
  BY DEF Book
<1>2. \A t \in again : retries[t] < MaxRetries
  BY DEF MayRetry
<1> HIDE DEF counted, again
<1>3. status' \in [Tasks -> Status]
  BY <1>1 DEF TypeOK, Status
<1>4. retries' \in [Tasks -> 0 .. MaxRetries]
  BY <1>1, <1>2, PurchaseAssumption DEF TypeOK
<1>5. QED
  BY <1>1, <1>3, <1>4 DEF TypeOK, Call

\* Results keep the types.
LEMMA ResultTypes ==
  ASSUME TypeOK, (\E t \in Tasks : Deliver(t)) \/ WorkerDies
  PROVE  TypeOK'
<1>1. ASSUME NEW t \in Tasks, Deliver(t) PROVE TypeOK'
  <2>1. /\ status' \in [Tasks -> Status] /\ retries' \in [Tasks -> 0 .. MaxRetries]
        /\ marked' \subseteq Tasks /\ call' \in [Tasks -> Call]
    BY <1>1, BookTypes DEF Deliver
  <2>2. /\ blocked' \in [Tasks -> BOOLEAN] /\ phase' \in [Tasks -> Phase]
        /\ tries' \in [Tasks -> Nat] /\ aborted' \in [Tasks -> BOOLEAN]
        /\ released' \in [Tasks -> BOOLEAN]
    BY <1>1 DEF Deliver, TypeOK, Phase
  <2>3. QED
    BY <1>1, <2>1, <2>2 DEF Deliver, TypeOK, settingVars
<1>2. CASE WorkerDies
  <2>1. /\ status' \in [Tasks -> Status] /\ retries' \in [Tasks -> 0 .. MaxRetries]
        /\ marked' \subseteq Tasks /\ call' \in [Tasks -> Call]
    <3>1. PICK failed \in SUBSET Tasks : Book(failed, failed)
      BY <1>2 DEF WorkerDies
    <3>2. QED
      BY <3>1, BookTypes
  <2>2. PICK told : blocked' = [t \in Tasks |-> blocked[t] \/ t \in told]
    BY <1>2 DEF WorkerDies
  <2>3. blocked' \in [Tasks -> BOOLEAN]
    BY <2>2, Zenon
  <2>4. inbox' \in Seq(Message)
    <3>1. Permit(FALSE, Setting) \in Message
      BY MessageTypes
    <3>2. inbox' = IF unacked THEN <<Permit(FALSE, Setting)>> ELSE <<>>
      BY <1>2 DEF WorkerDies
    <3>3. \A m \in Message : <<m>> \in Seq(Message) /\ <<>> \in Seq(Message)
      OBVIOUS
    <3>4. QED
      BY <3>1, <3>2, <3>3
  <2>5. /\ phase' \in [Tasks -> Phase] /\ tries' \in [Tasks -> Nat]
        /\ aborted' \in [Tasks -> BOOLEAN] /\ released' \in [Tasks -> BOOLEAN]
    BY <1>2 DEF WorkerDies, Phase
  <2>6. allow' \in BOOLEAN /\ unacked' \in BOOLEAN /\ permission' \in BOOLEAN
    BY <1>2 DEF WorkerDies, TypeOK
  <2>7. QED
    BY <1>2, <2>1, <2>3, <2>4, <2>5, <2>6 DEF WorkerDies, TypeOK
<1>3. QED
  BY <1>1, <1>2

\* The worker keeps the types.
LEMMA WorkerTypes ==
  ASSUME TypeOK,
         Read \/ \E t \in Tasks : MonitorEnds(t) \/ Checkout(t)
  PROVE  TypeOK'
<1>1. CASE Read
  <2>1. inbox' \in Seq(Message) /\ Head(inbox) \in Message
    BY <1>1, TailFacts DEF Read, TypeOK
  <2>2. CASE ReadPermission
    BY <1>1, <2>1, <2>2
    DEF Read, ReadPermission, TypeOK, Message, taskVars, settingVars, runVars
  <2>3. CASE ReadExecute
    BY <1>1, <2>1, <2>3
    DEF Read, ReadExecute, TypeOK, Message, Phase, taskVars, settingVars
  <2>4. CASE ReadCancel
    <3>1. aborted' \in [Tasks -> BOOLEAN]
      BY <2>1, <2>4 DEF ReadCancel, TypeOK
    <3>2. phase' \in [Tasks -> Phase]
      BY <2>1, <2>4 DEF ReadCancel, TypeOK, Phase
    <3>3. QED
      BY <1>1, <2>1, <2>4, <3>1, <3>2
      DEF Read, ReadCancel, TypeOK, taskVars, settingVars
  <2>5. QED
    BY <1>1, <2>2, <2>3, <2>4 DEF Read
<1>2. ASSUME NEW t \in Tasks, MonitorEnds(t) PROVE TypeOK'
  BY <1>2 DEF MonitorEnds, TypeOK, Goto, RunStep, Phase, Result, taskVars, settingVars
<1>3. ASSUME NEW t \in Tasks, Checkout(t) PROVE TypeOK'
  <2>1. /\ status' \in [Tasks -> Status] /\ call' \in [Tasks -> Call]
        /\ marked' \subseteq Tasks /\ retries' \in [Tasks -> 0 .. MaxRetries]
        /\ blocked' \in [Tasks -> BOOLEAN] /\ allow' \in BOOLEAN /\ unacked' \in BOOLEAN
        /\ inbox' \in Seq(Message) /\ permission' \in BOOLEAN
    <3>1. RunStep
      BY <1>3 DEF Checkout, Advance, Throws, Stops, Submit, GuardPasses, GuardRefuses,
                  ClickDispatched, ClickAttemptFails, ClickGivenUp, Look, Unconfirmed
    <3>2. QED
      BY <3>1 DEF RunStep, TypeOK, taskVars, settingVars
  <2>2. phase' \in [Tasks -> Phase]
    BY <1>3 DEF Checkout, Advance, Throws, Stops, Submit, GuardPasses, GuardRefuses,
                ClickDispatched, ClickAttemptFails, ClickGivenUp, Look, Unconfirmed,
                Goto, NotSubmitted, Thrown, TypeOK, Phase, Result
  <2>3. /\ tries' \in [Tasks -> Nat] /\ aborted' \in [Tasks -> BOOLEAN]
        /\ released' \in [Tasks -> BOOLEAN]
    <3>1. UNCHANGED <<aborted, released>>
      BY <1>3 DEF Checkout, Advance, Throws, Stops, Submit, GuardPasses, GuardRefuses,
                  ClickDispatched, ClickAttemptFails, ClickGivenUp, Look, Unconfirmed
    <3>2. \/ tries' = tries
          \/ tries' = [tries EXCEPT ![t] = 0]
          \/ tries' = [tries EXCEPT ![t] = @ + 1]
      BY <1>3 DEF Checkout, Advance, Throws, Stops, Submit, GuardPasses, GuardRefuses,
                  ClickDispatched, ClickAttemptFails, ClickGivenUp, Look, Unconfirmed
    <3>3. tries' \in [Tasks -> Nat]
      <4>1. tries \in [Tasks -> Nat]
        BY DEF TypeOK
      <4>2. QED
        BY <3>2, <4>1
    <3>4. aborted' \in [Tasks -> BOOLEAN] /\ released' \in [Tasks -> BOOLEAN]
      BY <3>1 DEF TypeOK
    <3>5. QED
      BY <3>3, <3>4
  <2>4. orders' \in [Tasks -> 0 .. MaxOrders]
    BY <1>3, PurchaseAssumption
    DEF Checkout, Advance, Throws, Stops, Submit, GuardPasses, GuardRefuses,
        ClickDispatched, ClickAttemptFails, ClickGivenUp, Look, Unconfirmed, Ordered, TypeOK
  <2>5. QED
    BY <2>1, <2>2, <2>3, <2>4 DEF TypeOK
<1>4. QED
  BY <1>1, <1>2, <1>3

\* The initial state is typed.
LEMMA InitTypes == ASSUME Init PROVE TypeOK
<1>1. inbox \in Seq(Message)
  BY DEF Init
<1>2. /\ retries \in [Tasks -> 0 .. MaxRetries] /\ orders \in [Tasks -> 0 .. MaxOrders]
      /\ tries \in [Tasks -> Nat]
  BY PurchaseAssumption DEF Init
<1>3. /\ status \in [Tasks -> Status] /\ call \in [Tasks -> Call]
      /\ phase \in [Tasks -> Phase]
  BY DEF Init, Status, Call, Phase
<1>4. /\ blocked \in [Tasks -> BOOLEAN] /\ aborted \in [Tasks -> BOOLEAN]
      /\ released \in [Tasks -> BOOLEAN]
  BY DEF Init
<1>5. QED
  BY <1>1, <1>2, <1>3, <1>4 DEF Init, TypeOK

\* Every step keeps the types.
LEMMA TypesKept == ASSUME TypeOK, [Next]_vars PROVE TypeOK'
<1>1. CASE Next
  BY <1>1, CommandTypes, SettingTypes, ResultTypes, WorkerTypes DEF Next
<1>2. CASE UNCHANGED vars
  BY <1>2 DEF vars, TypeOK
<1>3. QED
  BY <1>1, <1>2

\* Every variable keeps its type; the retries never exceed the maximum.
THEOREM Typed == Spec => []TypeOK
<1>1. Init => TypeOK
  BY InitTypes
<1>2. TypeOK /\ [Next]_vars => TypeOK'
  BY TypesKept
<1>3. QED
  BY <1>1, <1>2, PTL DEF Spec

-------------------------------------------------------------------------------
(* The permission.                                                         *)

\* While any execute call is there, the worker was told the present word.
Told == \A t \in Tasks : call[t] # "none" => LastWordIs(allow)

\* A permission request is the last word on it, whatever is on its way.
LEMMA WordSent ==
  ASSUME TypeOK, NEW b \in BOOLEAN, NEW t \in Tasks \cup {Setting}, Send(Permit(b, t))
  PROVE  LastWordIs(b)'
<1> DEFINE m == Permit(b, t)
<1>1. m \in Message /\ m.type = "permission" /\ m.allowed = b
  BY MessageTypes DEF Permit
<1>2. inbox' = Append(inbox, m) /\ inbox \in Seq(Message)
  BY DEF Send, TypeOK
<1> HIDE DEF m
<1>3. /\ inbox' \in Seq(Message) /\ Len(inbox') = Len(inbox) + 1
      /\ inbox'[Len(inbox) + 1] = m
  BY <1>1, <1>2, AppendFacts
<1>4. DOMAIN inbox' = 1 .. Len(inbox') /\ Len(inbox) \in Nat
  BY <1>2, <1>3
<1>5. QED
  BY <1>1, <1>3, <1>4 DEF LastWordIs

\* Other requests leave the last word as it is.
LEMMA WordKept ==
  ASSUME TypeOK, NEW b \in BOOLEAN, LastWordIs(b), UNCHANGED permission,
         NEW m \in Message, Send(m), m.type # "permission"
  PROVE  LastWordIs(b)'
<1>1. inbox' = Append(inbox, m) /\ inbox \in Seq(Message)
  BY DEF Send, TypeOK
<1>2. /\ inbox' \in Seq(Message) /\ Len(inbox') = Len(inbox) + 1
      /\ inbox'[Len(inbox) + 1] = m
      /\ \A i \in 1 .. Len(inbox) : inbox'[i] = inbox[i]
  BY <1>1, AppendFacts
<1>3. /\ DOMAIN inbox' = 1 .. (Len(inbox) + 1) /\ DOMAIN inbox = 1 .. Len(inbox)
      /\ Len(inbox) \in Nat
  BY <1>1, <1>2
<1>4. CASE permission = b /\ \A i \in DOMAIN inbox : inbox[i].type # "permission"
  <2>1. \A i \in DOMAIN inbox' : inbox'[i].type # "permission"
    BY <1>2, <1>3, <1>4
  <2>2. QED
    BY <1>4, <2>1 DEF LastWordIs
<1>5. ASSUME NEW i \in DOMAIN inbox,
             inbox[i].type = "permission" /\ inbox[i].allowed = b,
             \A j \in DOMAIN inbox : j > i => inbox[j].type # "permission"
      PROVE  LastWordIs(b)'
  <2>1. i \in DOMAIN inbox' /\ inbox'[i] = inbox[i]
    BY <1>2, <1>3
  <2>2. \A j \in DOMAIN inbox' : j > i => inbox'[j].type # "permission"
    BY <1>2, <1>3, <1>5
  <2>3. QED
    BY <1>5, <2>1, <2>2 DEF LastWordIs
<1>6. QED
  BY <1>4, <1>5 DEF LastWordIs

\* Reading a request leaves it, too: it is carried out if it is a permission.
LEMMA WordRead ==
  ASSUME TypeOK, NEW b \in BOOLEAN, LastWordIs(b), Read
  PROVE  LastWordIs(b)'
<1>1. inbox \in Seq(Message) /\ inbox # <<>> /\ inbox' = Tail(inbox)
  BY DEF TypeOK, Read
<1>2. /\ inbox' \in Seq(Message)
      /\ Len(inbox) >= 1 /\ Len(inbox) \in Nat /\ Len(inbox') = Len(inbox) - 1
      /\ \A i \in 1 .. (Len(inbox) - 1) : inbox'[i] = inbox[i + 1]
      /\ Head(inbox) = inbox[1]
  BY <1>1, TailFacts
<1>3. DOMAIN inbox' = 1 .. (Len(inbox) - 1) /\ DOMAIN inbox = 1 .. Len(inbox)
  BY <1>1, <1>2
<1>4. permission' = IF inbox[1].type = "permission" THEN inbox[1].allowed ELSE permission
  BY <1>2 DEF Read, ReadPermission, ReadExecute, ReadCancel
<1>5. CASE permission = b /\ \A i \in DOMAIN inbox : inbox[i].type # "permission"
  <2>1. \A i \in DOMAIN inbox' : inbox'[i].type # "permission"
    BY <1>2, <1>3, <1>5
  <2>2. permission' = b
    BY <1>2, <1>3, <1>4, <1>5
  <2>3. QED
    BY <2>1, <2>2 DEF LastWordIs
<1>6. ASSUME NEW i \in DOMAIN inbox,
             inbox[i].type = "permission" /\ inbox[i].allowed = b,
             \A j \in DOMAIN inbox : j > i => inbox[j].type # "permission"
      PROVE  LastWordIs(b)'
  <2>1. CASE i = 1
    <3>1. permission' = b
      BY <1>4, <1>6, <2>1
    <3>2. \A j \in DOMAIN inbox' : inbox'[j].type # "permission"
      BY <1>2, <1>3, <1>6, <2>1
    <3>3. QED
      BY <3>1, <3>2 DEF LastWordIs
  <2>2. CASE i # 1
    <3>1. i - 1 \in DOMAIN inbox' /\ inbox'[i - 1] = inbox[i]
      BY <1>2, <1>3, <2>2
    <3>2. ASSUME NEW j \in DOMAIN inbox', j > i - 1
          PROVE  inbox'[j].type # "permission"
      <4>1. j + 1 \in DOMAIN inbox /\ j + 1 > i
        BY <1>2, <1>3, <3>2
      <4>2. inbox'[j] = inbox[j + 1]
        BY <1>2, <1>3
      <4>3. QED
        BY <1>6, <4>1, <4>2
    <3>3. QED
      BY <1>6, <3>1, <3>2 DEF LastWordIs
  <2>3. QED
    BY <2>1, <2>2
<1>7. QED
  BY <1>5, <1>6 DEF LastWordIs

\* What a run does concerns neither the channel nor the desktop process.
LEMMA RunFrame ==
  ASSUME NEW t \in Tasks, MonitorEnds(t) \/ Checkout(t)
  PROVE  RunStep
  BY DEF MonitorEnds, Checkout, Advance, Throws, Stops, Submit, GuardPasses, GuardRefuses,
         ClickDispatched, ClickAttemptFails, ClickGivenUp, Look, Unconfirmed

\* No step leaves a worker with a word that is out of date.
LEMMA ToldStep ==
  ASSUME TypeOK, Told, [Next]_vars
  PROVE  Told'
<1>1. ASSUME NEW t \in Tasks, Start(t) PROVE Told'
  <2>1. LastWordIs(allow)'
    BY <1>1, WordSent DEF Start, TypeOK, settingVars
  <2>2. QED
    BY <2>1 DEF Told
<1>2. ASSUME NEW t \in Tasks, SendExecute(t) PROVE Told'
  <2>1. call[t] # "none" /\ LastWordIs(allow) /\ allow' = allow /\ permission' = permission
    BY <1>2 DEF SendExecute, Told, settingVars
  <2>2. Execute(t) \in Message /\ Execute(t).type # "permission" /\ Send(Execute(t))
    BY <1>2, MessageTypes DEF SendExecute, Execute
  <2>3. LastWordIs(allow)'
    BY <2>1, <2>2, WordKept DEF TypeOK
  <2>4. QED
    BY <2>3 DEF Told
<1>3. ASSUME NEW t \in Tasks, SendCancel(t), UNCHANGED <<call, allow, permission>>
      PROVE  Told'
  <2>1. CASE UNCHANGED inbox
    BY <1>3, <2>1 DEF Told, LastWordIs
  <2>2. CASE call[t] # "none" /\ Send(Cancel(t))
    <3>1. Cancel(t) \in Message /\ Cancel(t).type # "permission"
      BY MessageTypes DEF Cancel
    <3>2. LastWordIs(allow)'
      BY <1>3, <2>2, <3>1, WordKept DEF Told, TypeOK
    <3>3. QED
      BY <3>2 DEF Told
  <2>3. QED
    BY <1>3, <2>1, <2>2 DEF SendCancel
<1>4. ASSUME NEW t \in Tasks, PauseTask(t) \/ CancelTask(t) PROVE Told'
  BY <1>3, <1>4 DEF PauseTask, CancelTask, settingVars
<1>5. ASSUME UNCHANGED <<inbox, permission, allow>>,
             \A t \in Tasks : call'[t] # "none" => call[t] # "none"
      PROVE  Told'
  BY <1>5 DEF Told, LastWordIs
<1>6. ASSUME NEW t \in Tasks, ResumeTask(t) \/ RetryDue(t) PROVE Told'
  BY <1>5, <1>6 DEF ResumeTask, RetryDue, settingVars
<1>7. ASSUME NEW b \in BOOLEAN, SetFinalPurchaseAllowed(b) PROVE Told'
  <2>1. LastWordIs(b)' /\ allow' = b
    BY <1>7, WordSent DEF SetFinalPurchaseAllowed
  <2>2. QED
    BY <2>1 DEF Told
<1>8. CASE SettingAcknowledged
  BY <1>5, <1>8 DEF SettingAcknowledged, taskVars
<1>9. ASSUME NEW t \in Tasks, Deliver(t) PROVE Told'
  BY <1>5, <1>9 DEF Deliver, Book, settingVars
<1>10. CASE WorkerDies
  <2>1. \A t \in Tasks : call'[t] = "none"
    BY <1>10 DEF WorkerDies, Book
  <2>2. QED
    BY <2>1 DEF Told
<1>11. CASE Read
  BY <1>11, WordRead DEF Told, TypeOK, Read, taskVars, settingVars
<1>12. ASSUME NEW t \in Tasks, MonitorEnds(t) \/ Checkout(t) PROVE Told'
  BY <1>5, <1>12, RunFrame DEF RunStep, taskVars, settingVars
<1>13. CASE UNCHANGED vars
  BY <1>5, <1>13 DEF vars
<1>14. QED
  BY <1>1, <1>2, <1>4, <1>6, <1>7, <1>8, <1>9, <1>10, <1>11, <1>12, <1>13
  DEF Next, Command

\* A worker that executes a task was told the user's present word, or it is on its way.
THEOREM WordReachesRuns == Spec => []PermissionReachesRuns
<1>1. Init => TypeOK /\ Told
  BY InitTypes DEF Init, Told
<1>2. TypeOK /\ Told /\ [Next]_vars => (TypeOK /\ Told)'
  BY TypesKept, ToldStep
<1>3. Told => PermissionReachesRuns
  BY DEF Told, PermissionReachesRuns
<1>4. QED
  BY <1>1, <1>2, <1>3, PTL DEF Spec

\* A run belongs to a call that was sent.
RunsBelong == \A t \in Tasks : phase[t] # "none" => call[t] = "sent"

\* An execute request that is on its way is the only one of its task, which is called
\* and has no run yet.
RequestsBelong ==
  \A t \in Tasks : \A i \in DOMAIN inbox :
    inbox[i] = Execute(t) =>
      /\ call[t] = "sent" /\ phase[t] = "none"
      /\ \A j \in DOMAIN inbox : inbox[j] = Execute(t) => j = i

Belong == RunsBelong /\ RequestsBelong

\* A request that is no execute changes nothing of it, if calls and runs stay.
LEMMA SentBelong ==
  ASSUME TypeOK, Belong, NEW m \in Message, Send(m), m.type # "execute",
         \A t \in Tasks : call[t] = "sent" => call'[t] = "sent", UNCHANGED phase
  PROVE  Belong'
<1>1. inbox' = Append(inbox, m) /\ inbox \in Seq(Message)
  BY DEF Send, TypeOK
<1>2. /\ inbox' \in Seq(Message) /\ Len(inbox') = Len(inbox) + 1
      /\ inbox'[Len(inbox) + 1] = m
      /\ \A i \in 1 .. Len(inbox) : inbox'[i] = inbox[i]
  BY <1>1, AppendFacts
<1>3. /\ DOMAIN inbox' = 1 .. (Len(inbox) + 1) /\ DOMAIN inbox = 1 .. Len(inbox)
      /\ Len(inbox) \in Nat
  BY <1>1, <1>2
<1>4. RunsBelong'
  BY DEF Belong, RunsBelong
<1>5. ASSUME NEW t \in Tasks, NEW i \in DOMAIN inbox', inbox'[i] = Execute(t)
      PROVE  i \in DOMAIN inbox /\ inbox[i] = Execute(t)
  <2>1. Execute(t).type = "execute"
    BY DEF Execute
  <2>2. QED
    BY <1>2, <1>3, <1>5, <2>1
<1>6. RequestsBelong'
  BY <1>5 DEF Belong, RequestsBelong
<1>7. QED
  BY <1>4, <1>6 DEF Belong

\* The same when nothing is sent.
LEMMA QuietBelong ==
  ASSUME Belong, UNCHANGED <<inbox, phase>>,
         \A t \in Tasks : call[t] = "sent" => call'[t] = "sent"
  PROVE  Belong'
  BY DEF Belong, RunsBelong, RequestsBelong

\* An execute request is sent for a call that has neither request nor run.
LEMMA SendExecuteBelong ==
  ASSUME TypeOK, Belong, NEW t \in Tasks, SendExecute(t)
  PROVE  Belong'
<1> DEFINE m == Execute(t)
<1>1. /\ inbox' = Append(inbox, m) /\ inbox \in Seq(Message) /\ m \in Message
      /\ phase' = phase /\ call' = [call EXCEPT ![t] = "sent"] /\ call[t] = "syncing"
      /\ call \in [Tasks -> Call]
  BY MessageTypes DEF SendExecute, Send, TypeOK, runVars
<1>2. m.task = t /\ \A u \in Tasks : Execute(u).task = u
  BY DEF Execute
<1>3. phase[t] = "none" /\ \A i \in DOMAIN inbox : inbox[i] # m
  BY <1>1 DEF Belong, RunsBelong, RequestsBelong
<1> HIDE DEF m
<1>4. /\ inbox' \in Seq(Message) /\ Len(inbox') = Len(inbox) + 1
      /\ inbox'[Len(inbox) + 1] = m
      /\ \A i \in 1 .. Len(inbox) : inbox'[i] = inbox[i]
  BY <1>1, AppendFacts
<1>5. /\ DOMAIN inbox' = 1 .. (Len(inbox) + 1) /\ DOMAIN inbox = 1 .. Len(inbox)
      /\ Len(inbox) \in Nat
  BY <1>1, <1>4
<1>6. RunsBelong'
  BY <1>1 DEF Belong, RunsBelong
<1>7. ASSUME NEW u \in Tasks, NEW i \in DOMAIN inbox', inbox'[i] = Execute(u)
      PROVE  /\ call'[u] = "sent" /\ phase'[u] = "none"
             /\ \A j \in DOMAIN inbox' : inbox'[j] = Execute(u) => j = i
  <2>1. CASE u = t
    <3>1. m = Execute(t)
      BY DEF m
    <3>2. \A j \in DOMAIN inbox' : inbox'[j] = m => j = Len(inbox) + 1
      BY <1>3, <1>4, <1>5
    <3>3. QED
      BY <1>1, <1>3, <1>7, <2>1, <3>1, <3>2
  <2>2. CASE u # t
    <3>1. \A j \in DOMAIN inbox' : inbox'[j] = Execute(u) =>
            j \in DOMAIN inbox /\ inbox[j] = Execute(u)
      BY <1>2, <1>4, <1>5, <2>2
    <3>2. QED
      BY <1>1, <1>7, <2>2, <3>1 DEF Belong, RequestsBelong
  <2>3. QED
    BY <2>1, <2>2
<1>8. RequestsBelong'
  BY <1>7 DEF RequestsBelong
<1>9. QED
  BY <1>6, <1>8 DEF Belong

\* Reading a request: an execute request turns into the run of its task.
LEMMA ReadBelong ==
  ASSUME TypeOK, Belong, Read
  PROVE  Belong'
<1>1. /\ inbox \in Seq(Message) /\ inbox # <<>> /\ inbox' = Tail(inbox)
      /\ call' = call /\ phase \in [Tasks -> Phase]
  BY DEF TypeOK, Read, taskVars
<1>2. /\ inbox' \in Seq(Message)
      /\ Len(inbox) >= 1 /\ Len(inbox) \in Nat /\ Len(inbox') = Len(inbox) - 1
      /\ \A i \in 1 .. (Len(inbox) - 1) : inbox'[i] = inbox[i + 1]
      /\ Head(inbox) = inbox[1] /\ Head(inbox) \in Message
  BY <1>1, TailFacts
<1>3. DOMAIN inbox' = 1 .. (Len(inbox) - 1) /\ DOMAIN inbox = 1 .. Len(inbox)
  BY <1>1, <1>2
<1>4. ASSUME NEW u \in Tasks, NEW i \in DOMAIN inbox', inbox'[i] = Execute(u)
      PROVE  /\ i + 1 \in DOMAIN inbox /\ inbox[i + 1] = Execute(u)
             /\ call[u] = "sent" /\ phase[u] = "none" /\ Head(inbox) # Execute(u)
             /\ \A j \in DOMAIN inbox' : inbox'[j] = Execute(u) => j = i
  <2>1. i + 1 \in DOMAIN inbox /\ inbox[i + 1] = Execute(u)
    BY <1>2, <1>3, <1>4
  <2>2. /\ call[u] = "sent" /\ phase[u] = "none"
        /\ \A j \in DOMAIN inbox : inbox[j] = Execute(u) => j = i + 1
    BY <2>1 DEF Belong, RequestsBelong
  <2>3. 1 \in DOMAIN inbox /\ 1 # i + 1
    BY <1>2, <1>3
  <2>4. \A j \in DOMAIN inbox' : j + 1 \in DOMAIN inbox /\ inbox'[j] = inbox[j + 1]
    BY <1>2, <1>3
  <2>5. \A j \in DOMAIN inbox' : inbox'[j] = Execute(u) => j = i
    <3>1. ASSUME NEW j \in DOMAIN inbox', inbox'[j] = Execute(u) PROVE j = i
      <4>1. j + 1 = i + 1
        BY <2>2, <2>4, <3>1
      <4>2. QED
        BY <1>2, <1>3, <4>1
    <3>2. QED
      BY <3>1
  <2>6. QED
    BY <1>2, <2>1, <2>2, <2>3, <2>5
<1>5. CASE ReadPermission \/ ReadCancel
  <2>1. \A u \in Tasks : phase'[u] # "none" <=> phase[u] # "none"
    BY <1>1, <1>5 DEF ReadPermission, ReadCancel, runVars, EarlyGate
  <2>2. QED
    BY <1>1, <1>4, <2>1 DEF Belong, RunsBelong, RequestsBelong
<1>6. CASE ReadExecute
  <2> DEFINE t == Head(inbox).task
  <2>1. t \in Tasks /\ Head(inbox) = Execute(t)
    BY <1>2, <1>6 DEF ReadExecute, Message, Execute
  <2>2. call[t] = "sent"
    BY <1>2, <1>3, <2>1 DEF Belong, RequestsBelong
  <2>3. \A u \in Tasks \ {t} : phase'[u] = phase[u]
    BY <1>1, <1>6 DEF ReadExecute
  <2> HIDE DEF t
  <2>4. RunsBelong'
    BY <1>1, <2>2, <2>3 DEF Belong, RunsBelong
  <2>5. RequestsBelong'
    BY <1>1, <1>4, <2>1, <2>3 DEF RequestsBelong
  <2>6. QED
    BY <2>4, <2>5 DEF Belong
<1>7. QED
  BY <1>5, <1>6 DEF Read

\* A step of a run starts from a run and does not end it; only its result does.
LEMMA RunContinues ==
  ASSUME TypeOK, NEW t \in Tasks, MonitorEnds(t) \/ Checkout(t)
  PROVE  /\ phase[t] # "none"
         /\ \A u \in Tasks : phase'[u] # "none" <=> phase[u] # "none"
  BY DEF MonitorEnds, Checkout, Advance, Throws, Stops, Submit, GuardPasses, GuardRefuses,
         ClickDispatched, ClickAttemptFails, ClickGivenUp, Look, Unconfirmed,
         LooksAtAbort, Goto, NotSubmitted, Thrown, TypeOK

\* No step separates a run, or a request for one, from its call.
LEMMA BelongStep ==
  ASSUME TypeOK, Belong, [Next]_vars
  PROVE  Belong'
<1>1. ASSUME NEW t \in Tasks, Start(t) PROVE Belong'
  <2>1. Permit(allow, t) \in Message /\ Permit(allow, t).type # "execute"
    BY MessageTypes DEF TypeOK, Permit
  <2>2. QED
    BY <1>1, <2>1, SentBelong DEF Start, TypeOK, runVars
<1>2. ASSUME NEW t \in Tasks, PauseTask(t) \/ CancelTask(t) PROVE Belong'
  <2>1. SendCancel(t) /\ UNCHANGED call /\ UNCHANGED phase
    BY <1>2 DEF PauseTask, CancelTask, runVars
  <2>2. Cancel(t) \in Message /\ Cancel(t).type # "execute"
    BY MessageTypes DEF Cancel
  <2>3. CASE UNCHANGED inbox
    BY <2>1, <2>3, QuietBelong
  <2>4. CASE Send(Cancel(t))
    BY <2>1, <2>2, <2>4, SentBelong
  <2>5. QED
    BY <2>1, <2>3, <2>4 DEF SendCancel
<1>3. ASSUME NEW t \in Tasks, ResumeTask(t) \/ RetryDue(t) PROVE Belong'
  BY <1>3, QuietBelong DEF ResumeTask, RetryDue, runVars
<1>4. ASSUME NEW b \in BOOLEAN, SetFinalPurchaseAllowed(b) PROVE Belong'
  <2>1. Permit(b, Setting) \in Message /\ Permit(b, Setting).type # "execute"
    BY MessageTypes DEF Permit
  <2>2. QED
    BY <1>4, <2>1, SentBelong DEF SetFinalPurchaseAllowed, taskVars, runVars
<1>5. CASE SettingAcknowledged
  BY <1>5, QuietBelong DEF SettingAcknowledged, taskVars, runVars
<1>6. ASSUME NEW t \in Tasks, Deliver(t) PROVE Belong'
  <2>1. /\ phase[t] # "none" /\ phase' = [phase EXCEPT ![t] = "none"]
        /\ call' = [u \in Tasks |-> IF u \in {t} THEN "none" ELSE call[u]]
        /\ inbox' = inbox /\ phase \in [Tasks -> Phase]
    BY <1>6 DEF Deliver, Result, Book, TypeOK
  <2>2. RunsBelong'
    BY <2>1 DEF Belong, RunsBelong
  <2>3. RequestsBelong'
    BY <2>1 DEF Belong, RequestsBelong
  <2>4. QED
    BY <2>2, <2>3 DEF Belong
<1>7. CASE WorkerDies
  <2>1. \A t \in Tasks : phase'[t] = "none"
    BY <1>7 DEF WorkerDies
  <2>2. \A t \in Tasks : \A i \in DOMAIN inbox' : inbox'[i] # Execute(t)
    <3>1. inbox' = <<Permit(FALSE, Setting)>> \/ inbox' = <<>>
      BY <1>7 DEF WorkerDies
    <3>2. \A t \in Tasks : Permit(FALSE, Setting) # Execute(t)
      <4>1. \A t \in Tasks : Execute(t).type = "execute"
        BY DEF Execute
      <4>2. Permit(FALSE, Setting).type = "permission"
        BY DEF Permit
      <4>3. QED
        BY <4>1, <4>2
    <3>3. CASE inbox' = <<>>
      BY <3>3
    <3>4. CASE inbox' = <<Permit(FALSE, Setting)>>
      <4>1. \A i \in DOMAIN inbox' : inbox'[i] = Permit(FALSE, Setting)
        BY <3>4, SingletonFacts, Zenon
      <4>2. QED
        BY <3>2, <4>1
    <3>5. QED
      BY <3>1, <3>3, <3>4
  <2>3. QED
    BY <2>1, <2>2 DEF Belong, RunsBelong, RequestsBelong
<1>8. ASSUME NEW t \in Tasks, MonitorEnds(t) \/ Checkout(t) PROVE Belong'
  <2>1. UNCHANGED call /\ UNCHANGED inbox
    BY <1>8, RunFrame DEF RunStep, taskVars
  <2>2. QED
    BY <1>8, <2>1, RunContinues DEF Belong, RunsBelong, RequestsBelong
<1>9. CASE UNCHANGED vars
  BY <1>9, QuietBelong DEF vars
<1>10. QED
  BY <1>1, <1>2, <1>3, <1>4, <1>5, <1>6, <1>7, <1>8, <1>9, SendExecuteBelong, ReadBelong
  DEF Next, Command

\* Only the guard leads from finding the control to clicking it.
LEMMA ClickingGuarded ==
  ASSUME TypeOK, [Next]_vars, NEW t \in Tasks, phase[t] = "finding", phase'[t] = "clicking"
  PROVE  permission
<1>1. CASE UNCHANGED phase
  BY <1>1
<1>2. (\E u \in Tasks : Start(u) \/ SendExecute(u) \/ Command(u) \/ RetryDue(u))
      \/ (\E b \in BOOLEAN : SetFinalPurchaseAllowed(b)) \/ SettingAcknowledged
      \/ UNCHANGED vars => UNCHANGED phase
  BY DEF Start, SendExecute, Command, PauseTask, CancelTask, ResumeTask, RetryDue,
         SetFinalPurchaseAllowed, SettingAcknowledged, runVars, vars
<1>3. ASSUME NEW u \in Tasks, Deliver(u) PROVE FALSE
  BY <1>3 DEF Deliver, TypeOK
<1>4. CASE WorkerDies
  BY <1>4 DEF WorkerDies
<1>5. CASE Read
  <2>1. ReadPermission => UNCHANGED phase
    BY DEF ReadPermission, runVars
  <2>2. ReadExecute => phase'[t] \in {phase[t], "monitoring", "creating"}
    BY DEF ReadExecute, TypeOK
  <2>3. ReadCancel => phase'[t] \in {phase[t], "closed"}
    BY DEF ReadCancel, TypeOK
  <2>4. QED
    BY <1>5, <2>1, <2>2, <2>3 DEF Read
<1>6. ASSUME NEW u \in Tasks, MonitorEnds(u) PROVE FALSE
  BY <1>6 DEF MonitorEnds, Goto, TypeOK
<1>7. ASSUME NEW u \in Tasks, Checkout(u) PROVE permission
  <2>1. CASE GuardPasses(u)
    BY <2>1 DEF GuardPasses, Guard
  <2>2. CASE ~GuardPasses(u)
    BY <1>7, <2>2
    DEF Checkout, Advance, Throws, Stops, Submit, GuardRefuses, ClickDispatched,
        ClickAttemptFails, ClickGivenUp, Look, Unconfirmed, Goto, NotSubmitted, Thrown, TypeOK
  <2>3. QED
    BY <2>1, <2>2
<1>8. QED
  BY <1>1, <1>2, <1>3, <1>4, <1>5, <1>6, <1>7 DEF Next

\* A submit passes its guard only with the user's permission, or while the worker has
\* yet to read the revocation.
THEOREM GuardedOrders == Spec => OrderNeedsPermission
<1> DEFINE Revoked == \E i \in DOMAIN inbox :
                        inbox[i].type = "permission" /\ ~inbox[i].allowed
           Guarded == \A t \in Tasks : phase[t] = "finding" /\ phase'[t] = "clicking" =>
                                          allow \/ Revoked
           IInv == TypeOK /\ Told /\ Belong
<1>1. ASSUME Init PROVE IInv
  <2>1. Told /\ RunsBelong /\ RequestsBelong
    BY <1>1 DEF Init, Told, RunsBelong, RequestsBelong
  <2>2. QED
    BY <1>1, <2>1, InitTypes DEF Belong
<1>2. IInv /\ [Next]_vars => IInv'
  BY TypesKept, ToldStep, BelongStep
<1>3. ASSUME IInv, [Next]_vars PROVE Guarded
  <2> SUFFICES ASSUME NEW t \in Tasks, phase[t] = "finding", phase'[t] = "clicking", ~allow
               PROVE  Revoked
    OBVIOUS
  <2>1. permission
    BY <1>3, ClickingGuarded
  <2>2. LastWordIs(allow) /\ allow = FALSE
    BY <1>3 DEF Belong, RunsBelong, Told, TypeOK
  <2>3. QED
    BY <2>1, <2>2 DEF LastWordIs
<1>4. QED
  BY <1>1, <1>2, <1>3, PTL DEF Spec, OrderNeedsPermission

-------------------------------------------------------------------------------
(* At most one order.                                                      *)

\* The worker stays alive, clicks report what they did, and nobody resumes a task that
\* is being executed or has ordered.
Orderly == ~WorkerMayDie /\ ClicksReliable /\ CarefulUser

\* What a task is shown as while it is called, and while it is marked as paused.
Shown ==
  \A t \in Tasks : /\ call[t] # "none" => status[t] \in {"running", "held", "over"}
                   /\ status[t] = "running" => call[t] # "none"
                   /\ t \in marked => status[t] = "held" /\ call[t] # "none"

\* A run that has ordered is looking for the confirmation or done with it.
Spent(t) == phase[t] \in {"confirming", "succeeded", "ambiguous"}

\* A task that has ordered is in such a run, or has ended and is not tried again.
OrderedOnce ==
  \A t \in Tasks : /\ orders[t] <= 1
                   /\ orders[t] > 0 => \/ Spent(t)
                                       \/ /\ phase[t] = "none" /\ call[t] = "none"
                                          /\ status[t] \in {"held", "over"}

\* What booking the result of a call does to its task.
LEMMA BookOne ==
  ASSUME TypeOK, NEW t \in Tasks, NEW failed, Book({t}, failed), Shown
  PROVE  /\ call' = [u \in Tasks |-> IF u = t THEN "none" ELSE call[u]]
         /\ marked' = marked \ {t}
         /\ \A u \in Tasks \ {t} : status'[u] = status[u]
         /\ status'[t] \in {"retrying", "over", "held"} \/ status'[t] = status[t]
         /\ call[t] # "none" => status'[t] \in {"retrying", "over", "held"}
         /\ call[t] # "none" /\ (t \notin failed \/ blocked'[t]) =>
              status'[t] \in {"over", "held"}
<1> DEFINE counted == {u \in {t} : ~Interrupted(u)}
           again == {u \in counted \cap failed : MayRetry(u)}
<1>1. /\ status' = [u \in Tasks |-> IF u \in again THEN "retrying"
                                   ELSE IF u \in counted THEN "over" ELSE status[u]]
      /\ marked' = marked \ {t}
      /\ call' = [u \in Tasks |-> IF u \in {t} THEN "none" ELSE call[u]]
  BY DEF Book
<1>2. t \in counted <=> ~Interrupted(t)
  OBVIOUS
<1>3. again \subseteq {t} /\ counted \subseteq {t}
  OBVIOUS
<1>4. t \in again => t \in failed /\ ~blocked'[t]
  BY DEF MayRetry
<1> HIDE DEF counted, again
<1>5. Interrupted(t) => status[t] \in {"held", "over"}
  BY DEF Interrupted, Shown
<1>6. QED
  BY <1>1, <1>2, <1>3, <1>4, <1>5

\* The steps of the desktop process keep what tasks are shown as.
LEMMA ShownStep ==
  ASSUME Orderly, TypeOK, Shown, Belong, [Next]_vars
  PROVE  Shown'
<1>1. ASSUME NEW t \in Tasks, Start(t) PROVE Shown'
  BY <1>1 DEF Start, Shown, TypeOK
<1>2. ASSUME NEW t \in Tasks, SendExecute(t) PROVE Shown'
  BY <1>2 DEF SendExecute, Shown, TypeOK
<1>3. ASSUME NEW t \in Tasks, PauseTask(t) PROVE Shown'
  BY <1>3 DEF PauseTask, Shown, TypeOK
<1>4. ASSUME NEW t \in Tasks, CancelTask(t) PROVE Shown'
  BY <1>4 DEF CancelTask, Shown, TypeOK
<1>5. ASSUME NEW t \in Tasks, ResumeTask(t) PROVE Shown'
  BY <1>5 DEF ResumeTask, Shown, TypeOK, Orderly
<1>6. ASSUME NEW t \in Tasks, RetryDue(t) PROVE Shown'
  BY <1>6 DEF RetryDue, Shown, TypeOK
<1>7. ASSUME NEW t \in Tasks, Deliver(t) PROVE Shown'
  <2>1. PICK failed : Book({t}, failed)
    BY <1>7 DEF Deliver
  <2>2. call[t] = "sent"
    BY <1>7 DEF Deliver, Result, Belong, RunsBelong
  <2>3. /\ \A u \in Tasks \ {t} : status'[u] = status[u] /\ call'[u] = call[u]
        /\ call'[t] = "none" /\ status'[t] # "running" /\ marked' = marked \ {t}
    BY <2>1, <2>2, BookOne
  <2>4. QED
    BY <2>3 DEF Shown
<1>8. ASSUME UNCHANGED <<status, call, marked>> PROVE Shown'
  BY <1>8 DEF Shown
<1>9. CASE (\E b \in BOOLEAN : SetFinalPurchaseAllowed(b)) \/ SettingAcknowledged \/ Read
  BY <1>8, <1>9 DEF SetFinalPurchaseAllowed, SettingAcknowledged, Read, taskVars
<1>10. ASSUME NEW t \in Tasks, MonitorEnds(t) \/ Checkout(t) PROVE Shown'
  BY <1>8, <1>10, RunFrame DEF RunStep, taskVars
<1>11. CASE UNCHANGED vars
  BY <1>8, <1>11 DEF vars
<1>12. ~WorkerDies
  BY DEF WorkerDies, Orderly
<1>13. QED
  BY <1>1, <1>2, <1>3, <1>4, <1>5, <1>6, <1>7, <1>9, <1>10, <1>11, <1>12 DEF Next, Command

\* A step of a run orders only if it has not done so.
LEMMA CheckoutOrders ==
  ASSUME Orderly, TypeOK, OrderedOnce, Belong, NEW t \in Tasks, MonitorEnds(t) \/ Checkout(t)
  PROVE  OrderedOnce'
<1>1. UNCHANGED status /\ UNCHANGED call
  BY RunFrame DEF RunStep, taskVars
<1>2. phase[t] # "none" /\ call[t] = "sent"
  BY RunContinues DEF Belong, RunsBelong
<1>3. \A u \in Tasks \ {t} : phase'[u] = phase[u] /\ orders'[u] = orders[u]
  BY DEF MonitorEnds, Checkout, Advance, Throws, Stops, Submit, GuardPasses, GuardRefuses,
         ClickDispatched, ClickAttemptFails, ClickGivenUp, Look, Unconfirmed,
         Goto, NotSubmitted, Ordered, TypeOK
<1>4. orders'[t] <= 1 /\ (orders'[t] > 0 => Spent(t)')
  <2>1. orders[t] \in Nat /\ orders[t] <= 1 /\ (orders[t] > 0 => Spent(t))
    BY <1>2, PurchaseAssumption DEF OrderedOnce, TypeOK
  <2>2. CASE ClickDispatched(t)
    BY <2>1, <2>2 DEF ClickDispatched, Spent, Goto, Ordered, TypeOK
  <2>3. CASE Look(t)
    BY <2>1, <2>3 DEF Look, Spent, Goto, TypeOK
  <2>4. CASE Unconfirmed(t)
    BY <2>1, <2>4 DEF Unconfirmed, Spent, Goto, TypeOK
  <2>5. CASE ClickAttemptFails(t)
    BY <2>1, <2>5 DEF ClickAttemptFails, Spent, Orderly
  <2>6. ASSUME ~Spent(t), UNCHANGED orders PROVE orders'[t] = 0
    BY <2>1, <2>6
  <2>7. CASE MonitorEnds(t) \/ Advance(t) \/ Throws(t) \/ Stops(t) \/ Submit(t)
             \/ GuardPasses(t) \/ GuardRefuses(t) \/ ClickGivenUp(t)
    <3>1. ~Spent(t) /\ UNCHANGED orders
      BY <2>7 DEF MonitorEnds, Advance, Throws, Stops, Submit, GuardPasses, GuardRefuses,
                  ClickGivenUp, LooksAtAbort, Spent
    <3>2. QED
      BY <2>6, <3>1
  <2>8. QED
    BY <2>2, <2>3, <2>4, <2>5, <2>7 DEF Checkout
<1>5. QED
  BY <1>1, <1>3, <1>4 DEF OrderedOnce, Spent

\* Nor does any other step let a task that has ordered begin again.
LEMMA OrderedOnceStep ==
  ASSUME Orderly, TypeOK, Shown, Belong, OrderedOnce, [Next]_vars
  PROVE  OrderedOnce'
<1>1. ASSUME UNCHANGED <<phase, orders>>,
             \A t \in Tasks : call[t] = "none" /\ orders[t] > 0 =>
               /\ call'[t] = "none"
               /\ status[t] \in {"held", "over"} => status'[t] \in {"held", "over"}
      PROVE  OrderedOnce'
  BY <1>1 DEF OrderedOnce, Spent
<1>2. ASSUME NEW t \in Tasks, Start(t) PROVE OrderedOnce'
  <2>1. orders[t] = 0 \/ Spent(t)
    <3>1. orders[t] \in Nat
      BY PurchaseAssumption DEF TypeOK
    <3>2. status[t] = "waiting"
      BY <1>2 DEF Start
    <3>3. QED
      BY <3>1, <3>2 DEF OrderedOnce
  <2>2. ~Spent(t)
    BY <1>2 DEF Start, Spent, Belong, RunsBelong
  <2>3. UNCHANGED <<phase, orders>>
    BY <1>2 DEF Start, runVars
  <2>4. \A u \in Tasks : u # t => call'[u] = call[u] /\ status'[u] = status[u]
    BY <1>2 DEF Start, TypeOK
  <2>5. QED
    BY <1>1, <2>1, <2>2, <2>3, <2>4
<1>3. ASSUME NEW t \in Tasks, SendExecute(t) PROVE OrderedOnce'
  BY <1>1, <1>3 DEF SendExecute, TypeOK, runVars
<1>4. ASSUME NEW t \in Tasks, PauseTask(t) \/ CancelTask(t) PROVE OrderedOnce'
  BY <1>1, <1>4 DEF PauseTask, CancelTask, TypeOK, runVars
<1>5. ASSUME NEW t \in Tasks, ResumeTask(t) PROVE OrderedOnce'
  BY <1>1, <1>5 DEF ResumeTask, TypeOK, runVars, Orderly
<1>6. ASSUME NEW t \in Tasks, RetryDue(t) PROVE OrderedOnce'
  BY <1>1, <1>6 DEF RetryDue, TypeOK, runVars
<1>7. CASE (\E b \in BOOLEAN : SetFinalPurchaseAllowed(b)) \/ SettingAcknowledged
  BY <1>1, <1>7 DEF SetFinalPurchaseAllowed, SettingAcknowledged, taskVars, runVars
<1>8. ASSUME NEW t \in Tasks, Deliver(t) PROVE OrderedOnce'
  <2> DEFINE failed == IF phase[t] = "succeeded" THEN {} ELSE {t}
  <2>1. /\ phase[t] \in Result /\ Book({t}, failed) /\ UNCHANGED orders
        /\ phase' = [phase EXCEPT ![t] = "none"] /\ phase \in [Tasks -> Phase]
    BY <1>8 DEF Deliver, TypeOK
  <2>2. phase[t] = "ambiguous" => blocked'[t]
    BY <1>8 DEF Deliver, TypeOK
  <2>3. phase[t] = "succeeded" => t \notin failed
    OBVIOUS
  <2> HIDE DEF failed
  <2>4. call[t] = "sent"
    BY <2>1 DEF Result, Belong, RunsBelong
  <2>5. /\ call'[t] = "none"
        /\ \A u \in Tasks \ {t} : call'[u] = call[u] /\ status'[u] = status[u]
        /\ t \notin failed \/ blocked'[t] => status'[t] \in {"over", "held"}
    BY <2>1, <2>4, BookOne
  <2>6. orders[t] > 0 => status'[t] \in {"over", "held"}
    BY <2>1, <2>2, <2>3, <2>4, <2>5 DEF OrderedOnce, Spent, Result
  <2>7. QED
    BY <2>1, <2>5, <2>6 DEF OrderedOnce, Spent
<1>9. CASE Read
  <2>1. UNCHANGED <<status, call, orders>>
    BY <1>9 DEF Read, taskVars
  <2>2. \A t \in Tasks : orders[t] > 0 => phase'[t] = phase[t]
    <3>1. ReadPermission => UNCHANGED phase
      BY DEF ReadPermission, runVars
    <3>2. ReadCancel => \A t \in Tasks : phase'[t] = phase[t] \/ phase[t] = "opening"
      BY DEF ReadCancel, TypeOK
    <3>3. ASSUME ReadExecute, NEW t \in Tasks, orders[t] > 0 PROVE phase'[t] = phase[t]
      <4>1. inbox \in Seq(Message) /\ inbox # <<>>
        BY <1>9 DEF Read, TypeOK
      <4>2. /\ Head(inbox) = inbox[1] /\ Head(inbox) \in Message /\ 1 \in DOMAIN inbox
        BY <4>1, TailFacts
      <4>3. Head(inbox).task = t => Head(inbox) = Execute(t)
        BY <3>3, <4>2 DEF ReadExecute, Message, Execute
      <4>4. Head(inbox).task = t => call[t] = "sent" /\ phase[t] = "none"
        BY <4>2, <4>3 DEF Belong, RequestsBelong
      <4>5. Head(inbox).task # t
        BY <3>3, <4>4 DEF OrderedOnce, Spent
      <4>6. QED
        BY <3>3, <4>5 DEF ReadExecute, TypeOK
    <3>4. \A t \in Tasks : orders[t] > 0 => phase[t] # "opening"
      BY DEF OrderedOnce, Spent
    <3>5. QED
      BY <1>9, <3>1, <3>2, <3>3, <3>4 DEF Read
  <2>3. QED
    BY <2>1, <2>2 DEF OrderedOnce, Spent
<1>10. ASSUME NEW t \in Tasks, MonitorEnds(t) \/ Checkout(t) PROVE OrderedOnce'
  BY <1>10, CheckoutOrders
<1>11. CASE UNCHANGED vars
  BY <1>1, <1>11 DEF vars
<1>12. ~WorkerDies
  BY DEF WorkerDies, Orderly
<1>13. QED
  BY <1>2, <1>3, <1>4, <1>5, <1>6, <1>7, <1>8, <1>9, <1>10, <1>11, <1>12 DEF Next, Command

\* A task orders at most once, whatever is paused, cancelled, retried or revoked, as
\* long as the worker lives, clicks are reported as they happened and nobody resumes a
\* task that is being executed or has ordered.
THEOREM OneOrder == Orderly => (Spec => []AtMostOneOrder)
<1> SUFFICES ASSUME Orderly PROVE Spec => []AtMostOneOrder
  OBVIOUS
<1> DEFINE IInv == TypeOK /\ Belong /\ Shown /\ OrderedOnce
<1>1. ASSUME Init PROVE IInv
  <2>1. RunsBelong /\ RequestsBelong
    BY <1>1 DEF Init, RunsBelong, RequestsBelong
  <2>2. Shown
    BY <1>1 DEF Init, Shown
  <2>3. OrderedOnce
    <3>1. \A t \in Tasks : orders[t] = 0
      BY <1>1 DEF Init
    <3>2. \A t \in Tasks : orders[t] <= 1 /\ ~(orders[t] > 0)
      <4>1. 0 <= 1 /\ ~(0 > 0)
        OBVIOUS
      <4>2. QED
        BY <3>1, <4>1, Zenon
    <3>3. QED
      BY <3>2, Zenon DEF OrderedOnce
  <2>4. QED
    BY <1>1, <2>1, <2>2, <2>3, InitTypes DEF Belong
<1>2. IInv /\ [Next]_vars => IInv'
  BY TypesKept, BelongStep, ShownStep, OrderedOnceStep
<1>3. IInv => AtMostOneOrder
  BY DEF OrderedOnce, AtMostOneOrder
<1>4. QED
  BY <1>1, <1>2, <1>3, PTL DEF Spec
===============================================================================
