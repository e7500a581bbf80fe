-------------------------- MODULE InboundDebounceProofs --------------------------
(***************************************************************************)
(* Proofs about the debouncer, for any number of messages and              *)
(* conversations, with and without crashes, and about the turn's request   *)
(* and its loop of tool calls, for any calls, leads and configuration.     *)
(***************************************************************************)
EXTENDS InboundDebounce, ToolLoop, FiniteSetTheorems, WellFoundedInduction, TLAPS

USE InboundAssumption

\* The initial state satisfies the invariant.
LEMMA InitInboundInvariant == Init => InboundInvariant
<1> SUFFICES ASSUME Init PROVE InboundInvariant
  OBVIOUS
<1> USE DEF Init
<1>1. TypeOK
  BY DEF TypeOK, Stage, Life
<1>2. EarlyIsNew /\ WaitsOnly /\ TakenOnly /\ HandedOrLost /\ AddedIsSomewhere
  BY DEF EarlyIsNew, Early, WaitsOnly, TakenOnly, HandedOrLost, AddedIsSomewhere
<1>3. BatchesAreCalling /\ TimersOfTheirOwn /\ NoneStranded
  BY DEF BatchesAreCalling, TimersOfTheirOwn, NoneStranded
<1> QED
  BY <1>1, <1>2, <1>3 DEF InboundInvariant

\* Every action keeps the types.
LEMMA TypeNext ==
  TypeOK /\ [Next]_vars => TypeOK'
<1> SUFFICES ASSUME TypeOK, [Next]_vars PROVE TypeOK'
  OBVIOUS
<1> USE DEF TypeOK, Stage, Life
<1>1. ASSUME NEW x \in Message, Trigger(x) PROVE TypeOK'
  BY <1>1 DEF Trigger
<1>2. ASSUME NEW x \in Message, Route(x) PROVE TypeOK'
  BY <1>2 DEF Route
<1>3. ASSUME NEW x \in Message, StoreContext(x) PROVE TypeOK'
  BY <1>3 DEF StoreContext
<1>4. ASSUME NEW x \in Message, Add(x) PROVE TypeOK'
  BY <1>4 DEF Add, Stopped, StartsTimer
<1>5. ASSUME NEW x \in Message, Expire(x) PROVE TypeOK'
  BY <1>5 DEF Expire
<1>6. ASSUME NEW x \in Message, Fire(x) PROVE TypeOK'
  BY <1>6 DEF Fire, AfterTaking
<1>7. ASSUME NEW x \in Message, StartTurn(x) PROVE TypeOK'
  BY <1>7 DEF StartTurn
<1>8. ASSUME NEW x \in Message, DropBatch(x) PROVE TypeOK'
  BY <1>8 DEF DropBatch
<1>9. CASE Crash
  <2>0. lost' = lost \cup {m \in Message : Waits(m) \/ Taken(m)}
    BY <1>9 DEF Crash
  <2>1. \A m : m \in lost' => m \in lost \/ (m \in Message /\ (Waits(m) \/ Taken(m)))
    BY <2>0
  <2>2. lost' \subseteq Message
    BY <2>1
  <2> QED
    BY <1>9, <2>2 DEF Crash
<1>10. CASE UNCHANGED vars
  BY <1>10 DEF vars
<1> HIDE DEF TypeOK, Stage, Life
<1> QED
  BY <1>1, <1>2, <1>3, <1>4, <1>5, <1>6, <1>7, <1>8, <1>9, <1>10 DEF Next, Handle, Tick

\* A message leaves its first trace in Add.
LEMMA EarlyNext ==
  TypeOK /\ EarlyIsNew /\ WaitsOnly /\ TakenOnly /\ [Next]_vars => EarlyIsNew'
<1> SUFFICES ASSUME TypeOK, EarlyIsNew, WaitsOnly, TakenOnly, [Next]_vars PROVE EarlyIsNew'
  OBVIOUS
<1> USE DEF TypeOK, EarlyIsNew, Early, WaitsOnly, TakenOnly
<1>1. ASSUME NEW x \in Message, Trigger(x) PROVE EarlyIsNew'
  BY <1>1 DEF Trigger
<1>2. ASSUME NEW x \in Message, Route(x) PROVE EarlyIsNew'
  BY <1>2 DEF Route
<1>3. ASSUME NEW x \in Message, StoreContext(x) PROVE EarlyIsNew'
  BY <1>3 DEF StoreContext
<1>4. ASSUME NEW x \in Message, Add(x) PROVE EarlyIsNew'
  BY <1>4 DEF Add, Stopped, StartsTimer
<1>5. ASSUME NEW x \in Message, Expire(x) PROVE EarlyIsNew'
  BY <1>5 DEF Expire
<1>6. ASSUME NEW x \in Message, Fire(x) PROVE EarlyIsNew'
  BY <1>6 DEF Fire, AfterTaking
<1>7. ASSUME NEW x \in Message, StartTurn(x) PROVE EarlyIsNew'
  BY <1>7 DEF StartTurn
<1>8. ASSUME NEW x \in Message, DropBatch(x) PROVE EarlyIsNew'
  BY <1>8 DEF DropBatch
<1>9. CASE Crash
  <2>0. lost' = lost \cup {m \in Message : Waits(m) \/ Taken(m)}
    BY <1>9 DEF Crash
  <2>1. \A m : m \in lost' => m \in lost \/ (m \in Message /\ (Waits(m) \/ Taken(m)))
    BY <2>0
  <2> QED
    BY <1>9, <2>1 DEF Crash, Waits, Taken
<1>10. CASE UNCHANGED vars
  BY <1>10 DEF vars
<1> HIDE DEF TypeOK, EarlyIsNew, Early, WaitsOnly, TakenOnly
<1> QED
  BY <1>1, <1>2, <1>3, <1>4, <1>5, <1>6, <1>7, <1>8, <1>9, <1>10 DEF Next, Handle, Tick

\* Add is the only way to wait, Fire the only way out.
LEMMA WaitsNext ==
  TypeOK /\ EarlyIsNew /\ WaitsOnly /\ TakenOnly /\ [Next]_vars => WaitsOnly'
<1> SUFFICES ASSUME TypeOK, EarlyIsNew, WaitsOnly, TakenOnly, [Next]_vars PROVE WaitsOnly'
  OBVIOUS
<1> USE DEF TypeOK, EarlyIsNew, Early, WaitsOnly, TakenOnly, Taken
<1>1. ASSUME NEW x \in Message, Trigger(x) PROVE WaitsOnly'
  BY <1>1 DEF Trigger
<1>2. ASSUME NEW x \in Message, Route(x) PROVE WaitsOnly'
  BY <1>2 DEF Route
<1>3. ASSUME NEW x \in Message, StoreContext(x) PROVE WaitsOnly'
  BY <1>3 DEF StoreContext
<1>4. ASSUME NEW x \in Message, Add(x) PROVE WaitsOnly'
  BY <1>4 DEF Add, Stopped, StartsTimer
<1>5. ASSUME NEW x \in Message, Expire(x) PROVE WaitsOnly'
  BY <1>5 DEF Expire
<1>6. ASSUME NEW x \in Message, Fire(x) PROVE WaitsOnly'
  BY <1>6 DEF Fire, AfterTaking
<1>7. ASSUME NEW x \in Message, StartTurn(x) PROVE WaitsOnly'
  BY <1>7 DEF StartTurn
<1>8. ASSUME NEW x \in Message, DropBatch(x) PROVE WaitsOnly'
  BY <1>8 DEF DropBatch
<1>9. CASE Crash
  BY <1>9 DEF Crash, Waits, Taken
<1>10. CASE UNCHANGED vars
  BY <1>10 DEF vars
<1> HIDE DEF TypeOK, EarlyIsNew, Early, WaitsOnly, TakenOnly, Taken
<1> QED
  BY <1>1, <1>2, <1>3, <1>4, <1>5, <1>6, <1>7, <1>8, <1>9, <1>10 DEF Next, Handle, Tick

\* Fire takes what waits, and it waited in one place.
LEMMA TakenNext ==
  TypeOK /\ EarlyIsNew /\ WaitsOnly /\ TakenOnly /\ BatchesAreCalling /\ [Next]_vars => TakenOnly'
<1> SUFFICES ASSUME TypeOK, EarlyIsNew, WaitsOnly, TakenOnly, BatchesAreCalling, [Next]_vars PROVE TakenOnly'
  OBVIOUS
<1> USE DEF TypeOK, EarlyIsNew, Early, WaitsOnly, TakenOnly, Taken, BatchesAreCalling
<1>1. ASSUME NEW x \in Message, Trigger(x) PROVE TakenOnly'
  BY <1>1 DEF Trigger
<1>2. ASSUME NEW x \in Message, Route(x) PROVE TakenOnly'
  BY <1>2 DEF Route
<1>3. ASSUME NEW x \in Message, StoreContext(x) PROVE TakenOnly'
  BY <1>3 DEF StoreContext
<1>4. ASSUME NEW x \in Message, Add(x) PROVE TakenOnly'
  BY <1>4 DEF Add, Stopped, StartsTimer
<1>5. ASSUME NEW x \in Message, Expire(x) PROVE TakenOnly'
  BY <1>5 DEF Expire
<1>6. ASSUME NEW x \in Message, Fire(x) PROVE TakenOnly'
  BY <1>6 DEF Fire, AfterTaking
<1>7. ASSUME NEW x \in Message, StartTurn(x) PROVE TakenOnly'
  BY <1>7 DEF StartTurn
<1>8. ASSUME NEW x \in Message, DropBatch(x) PROVE TakenOnly'
  BY <1>8 DEF DropBatch
<1>9. CASE Crash
  BY <1>9 DEF Crash, Waits, Taken
<1>10. CASE UNCHANGED vars
  BY <1>10 DEF vars
<1> HIDE DEF TypeOK, EarlyIsNew, Early, WaitsOnly, TakenOnly, Taken, BatchesAreCalling
<1> QED
  BY <1>1, <1>2, <1>3, <1>4, <1>5, <1>6, <1>7, <1>8, <1>9, <1>10 DEF Next, Handle, Tick

\* What is handed on or dropped was in a batch.
LEMMA HandedNext ==
  TypeOK /\ EarlyIsNew /\ WaitsOnly /\ TakenOnly /\ HandedOrLost /\ [Next]_vars => HandedOrLost'
<1> SUFFICES ASSUME TypeOK, EarlyIsNew, WaitsOnly, TakenOnly, HandedOrLost, [Next]_vars PROVE HandedOrLost'
  OBVIOUS
<1> USE DEF TypeOK, WaitsOnly, TakenOnly, HandedOrLost
<1>1. ASSUME NEW x \in Message, Trigger(x) PROVE HandedOrLost'
  BY <1>1 DEF Trigger
<1>2. ASSUME NEW x \in Message, Route(x) PROVE HandedOrLost'
  BY <1>2 DEF Route
<1>3. ASSUME NEW x \in Message, StoreContext(x) PROVE HandedOrLost'
  BY <1>3 DEF StoreContext
<1>4. ASSUME NEW x \in Message, Add(x) PROVE HandedOrLost'
  BY <1>4 DEF Add, Stopped, StartsTimer
<1>5. ASSUME NEW x \in Message, Expire(x) PROVE HandedOrLost'
  BY <1>5 DEF Expire
<1>6. ASSUME NEW x \in Message, Fire(x) PROVE HandedOrLost'
  BY <1>6 DEF Fire, AfterTaking
<1>7. ASSUME NEW x \in Message, StartTurn(x) PROVE HandedOrLost'
  BY <1>7 DEF StartTurn
<1>8. ASSUME NEW x \in Message, DropBatch(x) PROVE HandedOrLost'
  BY <1>8 DEF DropBatch
<1>9. CASE Crash
  <2>0. lost' = lost \cup {m \in Message : Waits(m) \/ Taken(m)}
    BY <1>9 DEF Crash
  <2>1. \A m : m \in lost' => m \in lost \/ (m \in Message /\ (Waits(m) \/ Taken(m)))
    BY <2>0
  <2> QED
    BY <1>9, <2>1 DEF Crash, Waits, Taken
<1>10. CASE UNCHANGED vars
  BY <1>10 DEF vars
<1> HIDE DEF TypeOK, WaitsOnly, TakenOnly, HandedOrLost
<1> QED
  BY <1>1, <1>2, <1>3, <1>4, <1>5, <1>6, <1>7, <1>8, <1>9, <1>10 DEF Next, Handle, Tick

\* No added message disappears.
LEMMA SomewhereNext ==
  TypeOK /\ WaitsOnly /\ TakenOnly /\ AddedIsSomewhere /\ BatchesAreCalling /\ [Next]_vars => AddedIsSomewhere'
<1> SUFFICES ASSUME TypeOK, WaitsOnly, TakenOnly, AddedIsSomewhere, BatchesAreCalling, [Next]_vars PROVE AddedIsSomewhere'
  OBVIOUS
<1> USE DEF TypeOK, WaitsOnly, TakenOnly, AddedIsSomewhere, Waits, Taken, BatchesAreCalling
<1>1. ASSUME NEW x \in Message, Trigger(x) PROVE AddedIsSomewhere'
  BY <1>1 DEF Trigger
<1>2. ASSUME NEW x \in Message, Route(x) PROVE AddedIsSomewhere'
  BY <1>2 DEF Route
<1>3. ASSUME NEW x \in Message, StoreContext(x) PROVE AddedIsSomewhere'
  BY <1>3 DEF StoreContext
<1>4. ASSUME NEW x \in Message, Add(x) PROVE AddedIsSomewhere'
  BY <1>4 DEF Add, Stopped, StartsTimer
<1>5. ASSUME NEW x \in Message, Expire(x) PROVE AddedIsSomewhere'
  BY <1>5 DEF Expire
<1>6. ASSUME NEW x \in Message, Fire(x) PROVE AddedIsSomewhere'
  BY <1>6 DEF Fire, AfterTaking
<1>7. ASSUME NEW x \in Message, StartTurn(x) PROVE AddedIsSomewhere'
  BY <1>7 DEF StartTurn
<1>8. ASSUME NEW x \in Message, DropBatch(x) PROVE AddedIsSomewhere'
  BY <1>8 DEF DropBatch
<1>9. CASE Crash
  BY <1>9 DEF Crash, Waits, Taken
<1>10. CASE UNCHANGED vars
  BY <1>10 DEF vars
<1> HIDE DEF TypeOK, WaitsOnly, TakenOnly, AddedIsSomewhere, Waits, Taken, BatchesAreCalling
<1> QED
  BY <1>1, <1>2, <1>3, <1>4, <1>5, <1>6, <1>7, <1>8, <1>9, <1>10 DEF Next, Handle, Tick

\* A batch is the calling timer's.
LEMMA BatchesNext ==
  TypeOK /\ EarlyIsNew /\ BatchesAreCalling /\ TimersOfTheirOwn /\ [Next]_vars => (BatchesAreCalling /\ TimersOfTheirOwn)'
<1> SUFFICES ASSUME TypeOK, EarlyIsNew, BatchesAreCalling, TimersOfTheirOwn, [Next]_vars PROVE (BatchesAreCalling /\ TimersOfTheirOwn)'
  OBVIOUS
<1> USE DEF TypeOK, EarlyIsNew, Early, BatchesAreCalling, TimersOfTheirOwn
<1>1. ASSUME NEW x \in Message, Trigger(x) PROVE (BatchesAreCalling /\ TimersOfTheirOwn)'
  BY <1>1 DEF Trigger
<1>2. ASSUME NEW x \in Message, Route(x) PROVE (BatchesAreCalling /\ TimersOfTheirOwn)'
  BY <1>2 DEF Route
<1>3. ASSUME NEW x \in Message, StoreContext(x) PROVE (BatchesAreCalling /\ TimersOfTheirOwn)'
  BY <1>3 DEF StoreContext
<1>4. ASSUME NEW x \in Message, Add(x) PROVE (BatchesAreCalling /\ TimersOfTheirOwn)'
  BY <1>4 DEF Add, Stopped, StartsTimer
<1>5. ASSUME NEW x \in Message, Expire(x) PROVE (BatchesAreCalling /\ TimersOfTheirOwn)'
  BY <1>5 DEF Expire
<1>6. ASSUME NEW x \in Message, Fire(x) PROVE (BatchesAreCalling /\ TimersOfTheirOwn)'
  BY <1>6 DEF Fire, AfterTaking
<1>7. ASSUME NEW x \in Message, StartTurn(x) PROVE (BatchesAreCalling /\ TimersOfTheirOwn)'
  BY <1>7 DEF StartTurn
<1>8. ASSUME NEW x \in Message, DropBatch(x) PROVE (BatchesAreCalling /\ TimersOfTheirOwn)'
  BY <1>8 DEF DropBatch
<1>9. CASE Crash
  BY <1>9 DEF Crash, Waits, Taken
<1>10. CASE UNCHANGED vars
  BY <1>10 DEF vars
<1> HIDE DEF TypeOK, EarlyIsNew, Early, BatchesAreCalling, TimersOfTheirOwn
<1> QED
  BY <1>1, <1>2, <1>3, <1>4, <1>5, <1>6, <1>7, <1>8, <1>9, <1>10 DEF Next, Handle, Tick

\* Whoever stops or overwrites a timer starts another.
LEMMA StrandedNext ==
  TypeOK /\ EarlyIsNew /\ WaitsOnly /\ TimersOfTheirOwn /\ NoneStranded /\ [Next]_vars => NoneStranded'
<1> SUFFICES ASSUME TypeOK, EarlyIsNew, WaitsOnly, TimersOfTheirOwn, NoneStranded, [Next]_vars PROVE NoneStranded'
  OBVIOUS
<1> USE DEF TypeOK, EarlyIsNew, Early, WaitsOnly, TimersOfTheirOwn, NoneStranded, WillFire
<1>1. ASSUME NEW x \in Message, Trigger(x) PROVE NoneStranded'
  BY <1>1 DEF Trigger
<1>2. ASSUME NEW x \in Message, Route(x) PROVE NoneStranded'
  BY <1>2 DEF Route
<1>3. ASSUME NEW x \in Message, StoreContext(x) PROVE NoneStranded'
  BY <1>3 DEF StoreContext
<1>4. ASSUME NEW x \in Message, Add(x) PROVE NoneStranded'
  BY <1>4 DEF Add, Stopped, StartsTimer
<1>5. ASSUME NEW x \in Message, Expire(x) PROVE NoneStranded'
  BY <1>5 DEF Expire
<1>6. ASSUME NEW x \in Message, Fire(x) PROVE NoneStranded'
  <2>1. ASSUME NEW c \in Conversation, pending'[c] # {} PROVE WillFire(c)'
    <3>1. pending[c] # {} /\ c # ConvOf[x]
      BY <1>6, <2>1 DEF Fire, AfterTaking
    <3>2. PICK k \in Message : ConvOf[k] = c /\ timer[k] \in {"running", "fired"}
      BY <3>1
    <3>3. k # x /\ timer'[k] = timer[k]
      BY <1>6, <3>1, <3>2 DEF Fire
    <3> QED
      BY <3>2, <3>3
  <2> QED
    BY <2>1
<1>7. ASSUME NEW x \in Message, StartTurn(x) PROVE NoneStranded'
  BY <1>7 DEF StartTurn
<1>8. ASSUME NEW x \in Message, DropBatch(x) PROVE NoneStranded'
  BY <1>8 DEF DropBatch
<1>9. CASE Crash
  BY <1>9 DEF Crash, Waits, Taken
<1>10. CASE UNCHANGED vars
  BY <1>10 DEF vars
<1> HIDE DEF TypeOK, EarlyIsNew, Early, WaitsOnly, TimersOfTheirOwn, NoneStranded, WillFire
<1> QED
  BY <1>1, <1>2, <1>3, <1>4, <1>5, <1>6, <1>7, <1>8, <1>9, <1>10 DEF Next, Handle, Tick

\* Every action keeps the invariant.
LEMMA InboundInvariantNext == InboundInvariant /\ [Next]_vars => InboundInvariant'
<1> SUFFICES ASSUME InboundInvariant, [Next]_vars PROVE InboundInvariant'
  OBVIOUS
<1>1. TypeOK /\ EarlyIsNew /\ WaitsOnly /\ TakenOnly /\ HandedOrLost
  BY DEF InboundInvariant
<1>2. AddedIsSomewhere /\ BatchesAreCalling /\ TimersOfTheirOwn /\ NoneStranded
  BY DEF InboundInvariant
<1>3. TypeOK' /\ EarlyIsNew' /\ WaitsOnly' /\ TakenOnly' /\ HandedOrLost'
  BY <1>1, <1>2, TypeNext, EarlyNext, WaitsNext, TakenNext, HandedNext
<1>4. AddedIsSomewhere' /\ BatchesAreCalling' /\ TimersOfTheirOwn' /\ NoneStranded'
  BY <1>1, <1>2, SomewhereNext, BatchesNext, StrandedNext
<1> QED
  BY <1>3, <1>4 DEF InboundInvariant

\* The invariant holds of every behaviour.
THEOREM InboundInvariantHolds == Spec => []InboundInvariant
<1> QED
  BY InitInboundInvariant, InboundInvariantNext, PTL DEF Spec

\* No message is answered in two turns, however timers race with Add.
THEOREM HandedOnceHolds == Spec => []HandedOnce
<1>1. InboundInvariant => HandedOnce
  BY DEF InboundInvariant, HandedOrLost, HandedOnce
<1> QED
  BY <1>1, InboundInvariantHolds, PTL

\* An added message is in exactly one place.
THEOREM OnePlaceHolds == Spec => []OnePlace
<1>1. ASSUME InboundInvariant PROVE OnePlace
  <2>1. TypeOK /\ WaitsOnly /\ TakenOnly /\ HandedOrLost /\ AddedIsSomewhere
    BY <1>1 DEF InboundInvariant
  <2> QED
    BY <2>1 DEF TypeOK, WaitsOnly, TakenOnly, HandedOrLost, AddedIsSomewhere, Waits, Taken, OnePlace
<1> QED
  BY <1>1, InboundInvariantHolds, PTL

\* Waiting messages always have a timer that will take them.
THEOREM NoneStrandedHolds == Spec => []NoneStranded
<1>1. InboundInvariant => NoneStranded
  BY DEF InboundInvariant
<1> QED
  BY <1>1, InboundInvariantHolds, PTL

-----------------------------------------------------------------------------
(***************************************************************************)
(* The loop of tool calls.                                                 *)
(***************************************************************************)
HIDE InboundAssumption
USE ToolAssumption

ToolPhase ==
  {"idle", "prompt", "history", "tools", "provider", "ask", "run", "count", "write", "movement", "answered",
   "fallback", "failed", "ruleNote", "ruleMove", "ruleStub"}
\* Once the prompt, the history and the tools were read.
Prompted == ToolPhase \ {"idle", "prompt", "failed"}
Remembered == Prompted \ {"history"}
Offered == Remembered \ {"tools"}

LeadRow == [column : LeadColumn, score : Nat, notes : Nat]
Text == [stamp : Nat, id : Nat, filled : BOOLEAN, at : Nat]
CallId == Nat \X Nat
MadeCall == [tool : STRING, lead : LeadId, column : LeadColumn, complete : BOOLEAN, id : CallId]
ToolResult == [id : {NoId} \cup CallId, ok : BOOLEAN, shown : SUBSET LeadId]

InLoop == {"run", "count", "write", "movement", "ruleNote", "ruleMove", "ruleStub"}

RowsSoundHere ==
  /\ toolRows \in ToolSets /\ steps \in StepLists /\ aiRow \in ProviderNames \cup {NoConfig}
  /\ clock \in 1..MaxClock /\ resumedAt \in 0..MaxClock
\* Messages are stamped before they are stored, and differ in their ids.
TextsSound ==
  /\ texts \in Seq(Text) /\ Len(texts) <= MaxTexts
  /\ \A i \in DOMAIN texts : texts[i].stamp <= texts[i].at
  /\ \A i, j \in DOMAIN texts : texts[i].id = texts[j].id => i = j
\* What a call may do to a lead of another firm.
Elsewhere == {"trigger_automation", "switch_specialist"}
NotedBy(l, calls) == \E call \in calls : call.lead = l /\ call.tool = "trigger_automation"
LeadsSound ==
  /\ leadRows \in [LeadId -> LeadRow] /\ recorded \subseteq MadeCall
  /\ \A call \in recorded : call.lead \in Home \/ call.tool \in Elsewhere
  /\ \A l \in LeadId \ Home : leadRows[l].score = 0 /\ (leadRows[l].notes # 0 => NotedBy(l, recorded))

TurnTyped ==
  /\ DOMAIN turn = DOMAIN NewTurn
  /\ turn.phase \in ToolPhase /\ turn.round \in 0..MaxIterations /\ turn.resumedAt \in 0..MaxClock
  /\ turn.calls \in Seq(MadeCall) /\ turn.results \in Seq(ToolResult)
  /\ Len(turn.results) <= Len(turn.calls)
\* A result that tells what was done for its call.
Truthful(result, call, done) ==
  /\ result.ok /\ call.tool \in LeadWrites \cup {"switch_specialist"} => call \in done
  /\ ~result.ok /\ call \in done => call.tool = "move_lead"
  /\ call.tool # "get_conversation_history" => result.shown \subseteq Home
\* Each result is its call's, and tells of what was done.
ResultsSound ==
  /\ \A i \in 1..Len(turn.results) :
       turn.results[i].id \in {NoId, turn.calls[i].id} /\ Truthful(turn.results[i], turn.calls[i], recorded)
  /\ turn.phase \notin InLoop \cup {"answered", "fallback"} =>
       /\ Len(turn.results) = Len(turn.calls)
       /\ \A i \in 1..Len(turn.calls) : turn.results[i].id = turn.calls[i].id
\* Calls are numbered, and what was done was done for an earlier call than the
\* current one, unless that is a move whose movement is missing.
Before(call) ==
  \/ call.id[1] < turn.round
  \/ call.id[1] = turn.round /\ call.id[2] <= Len(turn.results)
NumbersSound ==
  /\ \A i \in 1..Len(turn.calls) : turn.calls[i].id = <<turn.round, i>>
  /\ \A call \in recorded : Before(call) \/ (turn.phase = "movement" /\ call = Current)
\* A call between two statements: its lead is the firm's, and a move is saved.
CallSound ==
  /\ turn.phase \in InLoop \ {"run"} => Len(turn.results) < Len(turn.calls)
  /\ turn.phase = "count" => Current.tool \in DataQueries /\ Current.tool # "get_conversation_history"
  /\ turn.phase \in {"ruleNote", "ruleMove", "ruleStub"} => Current.tool = "trigger_automation"
  /\ turn.phase = "write" =>
       /\ Current.lead \in Home /\ Head(turn.read) \in LeadRow
       /\ Current.tool \in LeadWrites \cup {"trigger_automation"}
  /\ turn.phase = "movement" => Current \in recorded /\ Current.tool \in {"move_lead", "trigger_automation"}
\* Every answer with a text, once.
Answers(lines) ==
  /\ {lines[i] : i \in DOMAIN lines} = {k \in DOMAIN CollectedData : CollectedData[k] # ""}
  /\ \A i, j \in DOMAIN lines : lines[i] = lines[j] => i = j
\* Some messages, none from before the AI was resumed, oldest first.
History(messages, since) ==
  /\ messages # <<>> /\ Len(messages) <= Window
  /\ \A i \in DOMAIN messages : messages[i] = Oi \/ messages[i].at > since \/ since = 0
  /\ \A i, j \in DOMAIN messages : i < j => messages[i].stamp <= messages[j].stamp
\* Only tools that the step allows.
Allowed(tools, step) ==
  /\ step # <<>> => \A t \in tools : t \notin Head(step).restricted
  /\ step # <<>> /\ Head(step).forced # {} => tools \subseteq Head(step).forced
LinesSound == Answers(turn.lines)
MessagesSound == History(turn.messages, turn.resumedAt)
ToolsSound == Allowed(turn.tools, turn.step)
RequestSound ==
  /\ turn.phase \in Prompted => LinesSound
  /\ turn.phase \in Remembered => MessagesSound
  /\ turn.phase \in Offered => ToolsSound

ToolInvariant ==
  /\ RowsSoundHere /\ TextsSound /\ LeadsSound
  /\ TurnTyped /\ ResultsSound /\ NumbersSound /\ CallSound /\ RequestSound

-----------------------------------------------------------------------------
(* Sets in order.                                                           *)

LEMMA Joined ==
  ASSUME NEW S, NEW a \in Seq(S), NEW b \in Seq(S), NEW s, s = a \o b
  PROVE  /\ DOMAIN s = 1..(Len(a) + Len(b))
         /\ \A i \in 1..(Len(a) + Len(b)) : s[i] = IF i <= Len(a) THEN a[i] ELSE b[i - Len(a)]
OBVIOUS
LEMMA Rest ==
  ASSUME NEW S, NEW s \in Seq(S), NEW k \in 1..(Len(s) + 1), NEW t, t = SubSeq(s, k, Len(s))
  PROVE  t = [i \in 1..(Len(s) + 1 - k) |-> s[i + k - 1]]
OBVIOUS

\* R orders the members of S.
Orders(R, S) ==
  /\ \A x, y \in S : x # y => <<x, y>> \in R \/ <<y, x>> \in R
  /\ \A x, y, z \in S : <<x, y>> \in R /\ <<y, z>> \in R => <<x, z>> \in R
Greatest(R, S, g) == g \in S /\ \A x \in S : x # g => <<x, g>> \in R
Listing(R, S, s) ==
  /\ s \in [1..Cardinality(S) -> S] /\ \A i, j \in 1..Cardinality(S) : s[i] = s[j] => i = j
  /\ \A i, j \in 1..Cardinality(S) : i < j => <<s[i], s[j]>> \in R

\* s has every member of S, once.
Enumerates(S, s) ==
  /\ Cardinality(S) \in Nat /\ s \in [1..Cardinality(S) -> S]
  /\ \A i, j \in 1..Cardinality(S) : s[i] = s[j] => i = j
  /\ \A x \in S : \E i \in 1..Cardinality(S) : s[i] = x

LEMMA HasGreatest ==
  ASSUME NEW R, NEW S, IsFiniteSet(S), Orders(R, S), S # {}
  PROVE  \E g : Greatest(R, S, g)
<1> DEFINE Bad == {n \in Nat : \E T \in SUBSET S : T # {} /\ Cardinality(T) = n /\ ~\E g : Greatest(R, T, g)}
<1>1. ASSUME Bad # {} PROVE FALSE
  <2>0. Bad \subseteq Nat
    OBVIOUS
  <2>1. PICK n \in Bad : \A m \in Bad : ~(<<m, n>> \in OpToRel(<, Nat))
    BY <1>1, <2>0, WFMin, NatLessThanWellFounded, Zenon
  <2>2. PICK T \in SUBSET S : T # {} /\ Cardinality(T) = n /\ ~\E g : Greatest(R, T, g)
    OBVIOUS
  <2>3. PICK x \in T : TRUE
    BY <2>2
  <2>4. PICK U : U = T \ {x}
    OBVIOUS
  <2>5. IsFiniteSet(T) /\ Cardinality(U) = n - 1 /\ U \in SUBSET S /\ Cardinality(U) \in Nat
    BY <2>2, <2>4, FS_Subset, FS_RemoveElement, FS_CardinalityType
  <2>6. U # {}
    <3>1. SUFFICES ASSUME U = {} PROVE FALSE
      OBVIOUS
    <3>2. Greatest(R, T, x)
      BY <2>3, <2>4, <3>1 DEF Greatest
    <3> QED
      BY <2>2, <3>2
  <2>7. PICK g : Greatest(R, U, g)
    <3>1. <<n - 1, n>> \in OpToRel(<, Nat)
      BY <2>5 DEF OpToRel
    <3>2. n - 1 \notin Bad
      BY <2>1, <3>1
    <3> QED
      BY <2>5, <2>6, <3>2
  <2>8. g \in T /\ g # x /\ \A y \in T : y = x \/ y = g \/ <<y, g>> \in R
    BY <2>4, <2>7 DEF Greatest
  <2>9. <<x, g>> \in R \/ <<g, x>> \in R
    BY <2>2, <2>3, <2>8 DEF Orders
  <2>10. CASE <<x, g>> \in R
    BY <2>2, <2>8, <2>10 DEF Greatest
  <2>11. CASE <<g, x>> \in R
    <3>1. \A y \in T : y # x => <<y, x>> \in R
      BY <2>2, <2>3, <2>8, <2>11 DEF Orders
    <3> QED
      BY <2>2, <2>3, <3>1 DEF Greatest
  <2> QED
    BY <2>9, <2>10, <2>11
<1>2. Cardinality(S) \in Nat
  BY FS_CardinalityType
<1> QED
  BY <1>1, <1>2

LEMMA HasListing ==
  ASSUME NEW R, NEW S, IsFiniteSet(S), Orders(R, S)
  PROVE  \E s : Listing(R, S, s)
<1> DEFINE Bad == {n \in Nat : \E T \in SUBSET S : Cardinality(T) = n /\ ~\E s : Listing(R, T, s)}
<1>1. ASSUME Bad # {} PROVE FALSE
  <2>0. Bad \subseteq Nat
    OBVIOUS
  <2>1. PICK n \in Bad : \A m \in Bad : ~(<<m, n>> \in OpToRel(<, Nat))
    BY <1>1, <2>0, WFMin, NatLessThanWellFounded, Zenon
  <2>2. PICK T \in SUBSET S : Cardinality(T) = n /\ ~\E s : Listing(R, T, s)
    OBVIOUS
  <2>3. IsFiniteSet(T) /\ Orders(R, T)
    BY FS_Subset DEF Orders
  <2>4. T # {}
    <3>1. SUFFICES ASSUME T = {} PROVE FALSE
      OBVIOUS
    <3>2. Cardinality(T) = 0
      BY <3>1, FS_EmptySet
    <3>3. [i \in 1..0 |-> 0] \in [1..0 -> T] /\ 1..0 = {}
      OBVIOUS
    <3>4. Listing(R, T, [i \in 1..0 |-> 0])
      BY <3>2, <3>3 DEF Listing
    <3> QED
      BY <2>2, <3>4
  <2>5. PICK g : Greatest(R, T, g)
    BY <2>3, <2>4, HasGreatest
  <2>6. PICK U : U = T \ {g}
    OBVIOUS
  <2>7. Cardinality(U) = n - 1 /\ U \in SUBSET S /\ Cardinality(U) \in Nat /\ n \in Nat
    <3>1. g \in T
      BY <2>5 DEF Greatest
    <3> QED
      BY <2>2, <2>3, <2>6, <3>1, FS_RemoveElement, FS_Subset, FS_CardinalityType
  <2>8. PICK s : Listing(R, U, s)
    <3>1. <<n - 1, n>> \in OpToRel(<, Nat)
      BY <2>7 DEF OpToRel
    <3>2. n - 1 \notin Bad
      BY <2>1, <3>1
    <3> QED
      BY <2>7, <3>2
  <2>9. /\ s \in [1..(n - 1) -> U] /\ \A i, j \in 1..(n - 1) : s[i] = s[j] => i = j
        /\ \A i, j \in 1..(n - 1) : i < j => <<s[i], s[j]>> \in R
    BY <2>7, <2>8 DEF Listing
  <2>10. PICK t : t = [i \in 1..n |-> IF i = n THEN g ELSE s[i]]
    OBVIOUS
  <2>11. g \in T /\ \A i \in 1..(n - 1) : s[i] \in T /\ s[i] # g /\ <<s[i], g>> \in R
    BY <2>5, <2>6, <2>9 DEF Greatest
  <2>12. /\ t \in [1..n -> T] /\ \A i, j \in 1..n : t[i] = t[j] => i = j
         /\ \A i, j \in 1..n : i < j => <<t[i], t[j]>> \in R
    <3>1. \A i \in 1..n : i # n => i \in 1..(n - 1)
      BY <2>7
    <3>2. t \in [1..n -> T]
      BY <2>10, <2>11, <3>1
    <3>3. ASSUME NEW i \in 1..n, NEW j \in 1..n, t[i] = t[j] PROVE i = j
      BY <2>9, <2>10, <2>11, <3>1, <3>3
    <3>4. ASSUME NEW i \in 1..n, NEW j \in 1..n, i < j PROVE <<t[i], t[j]>> \in R
      <4>1. i # n /\ i \in 1..(n - 1)
        BY <2>7, <3>4
      <4> QED
        BY <2>9, <2>10, <2>11, <3>1, <3>4, <4>1
    <3> QED
      BY <3>2, <3>3, <3>4
  <2>13. Listing(R, T, t)
    BY <2>2, <2>12 DEF Listing
  <2> QED
    BY <2>2, <2>13
<1>2. Cardinality(S) \in Nat
  BY FS_CardinalityType
<1> QED
  BY <1>1, <1>2

\* What InOrder lists: the set, each member once, in the order.
LEMMA InOrderLists ==
  ASSUME NEW R, NEW S, IsFiniteSet(S), Orders(R, S), NEW s, s = InOrder(S, R)
  PROVE  Listing(R, S, s) /\ Enumerates(S, s)
<1>0. PICK n : n = Cardinality(S)
  OBVIOUS
<1>1. n \in Nat
  BY <1>0, FS_CardinalityType
<1>2. SetToSeqs(S) = {f \in [1..n -> S] : \A i, j \in 1..n : i # j => f[i] # f[j]}
  BY <1>0 DEF SetToSeqs
<1>3. PICK t : Listing(R, S, t)
  BY HasListing
<1>4. t \in SetToSeqs(S) /\ DOMAIN t = 1..n
  BY <1>0, <1>2, <1>3 DEF Listing
<1>5. \A i, j \in DOMAIN t : i < j => <<t[i], t[j]>> \in R
  BY <1>0, <1>3, <1>4 DEF Listing
<1>6. s \in SetToSeqs(S) /\ \A i, j \in DOMAIN s : i < j => <<s[i], s[j]>> \in R
  BY <1>4, <1>5, Zenon DEF InOrder
<1>7. s \in [1..n -> S] /\ DOMAIN s = 1..n /\ \A i, j \in 1..n : s[i] = s[j] => i = j
  BY <1>2, <1>6
<1>8. {s[i] : i \in 1..n} = S
  <2>1. IsFiniteSet(1..n) /\ Cardinality(1..n) = n
    BY <1>1, FS_Interval
  <2>2. s \in Injection(1..n, S)
    BY <1>7 DEF Injection, IsInjective
  <2>3. s \in Surjection(1..n, S)
    BY <1>0, <2>1, <2>2, FS_Injection
  <2> QED
    BY <1>7, <2>3 DEF Surjection
<1>9. Listing(R, S, s)
  BY <1>0, <1>6, <1>7 DEF Listing
<1>10. \A x \in S : \E i \in 1..n : s[i] = x
  BY <1>8
<1> QED
  BY <1>0, <1>1, <1>7, <1>9, <1>10 DEF Enumerates

LEMMA AscendingLists ==
  ASSUME NEW S \in SUBSET Nat, IsFiniteSet(S) PROVE Enumerates(S, Ascending(S))
<1>1. PICK R : R = {p \in S \X S : p[1] < p[2]}
  OBVIOUS
<1>2. Orders(R, S)
  <2>1. \A x, y \in S : <<x, y>> \in R <=> x < y
    BY <1>1
  <2>2. \A x \in S : x \in Nat
    OBVIOUS
  <2> QED
    BY <2>1, <2>2 DEF Orders
<1>3. PICK s : s = Ascending(S) /\ s = InOrder(S, R)
  BY <1>1 DEF Ascending
<1> QED
  BY <1>2, <1>3, InOrderLists

\* The answers in the prompt: each one that has a text, once.
LEMMA LinesAreAnswers ==
  ASSUME NEW list, NEW s, s = renderCollectedData(list)
  PROVE  Answers(s)
<1>1. PICK filled : filled = {k \in DOMAIN CollectedData : CollectedData[k] # ""}
  OBVIOUS
<1>2. PICK known : known = {k \in filled : k < Len(list)}
  OBVIOUS
<1>3. PICK rest : rest = filled \ known
  OBVIOUS
<1>4. filled = known \cup rest /\ known \cap rest = {} /\ known \in SUBSET Nat /\ rest \in SUBSET Nat
  BY <1>1, <1>2, <1>3
<1>5. IsFiniteSet(known) /\ IsFiniteSet(rest)
  <2>1. known \in SUBSET DOMAIN CollectedData /\ rest \in SUBSET DOMAIN CollectedData
    BY <1>1, <1>2, <1>3
  <2> QED
    BY <2>1, FS_Subset
<1>6. PICK a, b : a = Ascending(known) /\ b = Ascending(rest)
  OBVIOUS
<1>7. s = a \o b
  BY <1>1, <1>2, <1>3, <1>6 DEF renderCollectedData
<1>8. PICK n \in Nat : a \in [1..n -> known] /\ (\A i, j \in 1..n : a[i] = a[j] => i = j)
                       /\ (\A x \in known : \E i \in 1..n : a[i] = x)
  <2>1. Enumerates(known, a)
    BY <1>4, <1>5, <1>6, AscendingLists
  <2> QED
    BY <2>1 DEF Enumerates
<1>9. PICK m \in Nat : b \in [1..m -> rest] /\ (\A i, j \in 1..m : b[i] = b[j] => i = j)
                       /\ (\A x \in rest : \E i \in 1..m : b[i] = x)
  <2>1. Enumerates(rest, b)
    BY <1>4, <1>5, <1>6, AscendingLists
  <2> QED
    BY <2>1 DEF Enumerates
<1>10. /\ DOMAIN s = 1..(n + m) /\ \A i \in 1..n : s[i] = a[i] /\ s[i] \in known
       /\ \A i \in 1..(n + m) : i > n => i - n \in 1..m /\ s[i] = b[i - n] /\ s[i] \in rest
  <2>1. a \in Seq(Nat) /\ Len(a) = n /\ b \in Seq(Nat) /\ Len(b) = m
    <3>1. a \in [1..n -> Nat] /\ b \in [1..m -> Nat]
      BY <1>4, <1>8, <1>9
    <3> QED
      BY <3>1
  <2>2. DOMAIN s = 1..(n + m) /\ \A i \in 1..(n + m) : s[i] = IF i <= n THEN a[i] ELSE b[i - n]
    <3>1. /\ DOMAIN s = 1..(Len(a) + Len(b))
          /\ \A i \in 1..(Len(a) + Len(b)) : s[i] = IF i <= Len(a) THEN a[i] ELSE b[i - Len(a)]
      BY <1>7, <2>1, Joined, Zenon
    <3> QED
      BY <2>1, <3>1, Zenon
  <2>3. \A i \in 1..n : s[i] = a[i] /\ s[i] \in known
    <3>1. \A i \in 1..n : i \in 1..(n + m) /\ i <= n
      OBVIOUS
    <3> QED
      BY <1>8, <2>2, <3>1
  <2>4. ASSUME NEW i \in 1..(n + m), i > n PROVE i - n \in 1..m /\ s[i] = b[i - n] /\ s[i] \in rest
    <3>1. i - n \in 1..m /\ ~(i <= n)
      BY <2>4
    <3>2. s[i] = b[i - n]
      BY <2>2, <3>1
    <3> QED
      BY <1>9, <3>1, <3>2
  <2> QED
    BY <2>2, <2>3, <2>4
<1>11. \A i, j \in DOMAIN s : s[i] = s[j] => i = j
  <2>1. ASSUME NEW i \in 1..(n + m), NEW j \in 1..(n + m), s[i] = s[j] PROVE i = j
    <3>1. CASE i <= n /\ j <= n
      BY <1>8, <1>10, <2>1, <3>1
    <3>2. CASE i > n /\ j > n
      <4>1. i - n = j - n
        BY <1>9, <1>10, <2>1, <3>2
      <4> QED
        BY <4>1
    <3>3. CASE i <= n /\ j > n
      <4>1. i \in 1..n
        BY <3>3
      <4>2. s[i] \in known /\ s[j] \in rest
        BY <1>10, <3>3, <4>1
      <4> QED
        BY <1>4, <2>1, <4>2
    <3>4. CASE i > n /\ j <= n
      <4>1. j \in 1..n
        BY <3>4
      <4>2. s[j] \in known /\ s[i] \in rest
        BY <1>10, <3>4, <4>1
      <4> QED
        BY <1>4, <2>1, <4>2
    <3> QED
      BY <3>1, <3>2, <3>3, <3>4
  <2> QED
    BY <1>10, <2>1
<1>12. ASSUME NEW x \in filled PROVE \E i \in DOMAIN s : s[i] = x
  <2>1. CASE x \in known
    <3>1. PICK i \in 1..n : a[i] = x
      BY <1>8, <2>1
    <3> QED
      BY <1>10, <3>1
  <2>2. CASE x \in rest
    <3>1. PICK i \in 1..m : b[i] = x
      BY <1>9, <2>2
    <3>2. i + n \in 1..(n + m) /\ i + n > n /\ (i + n) - n = i
      OBVIOUS
    <3>3. s[i + n] = b[(i + n) - n]
      BY <1>10, <3>2
    <3> QED
      BY <1>10, <3>1, <3>2, <3>3
  <2> QED
    BY <1>4, <2>1, <2>2
<1>13. ASSUME NEW i \in DOMAIN s PROVE s[i] \in filled
  <2>1. i \in 1..n \/ i > n
    BY <1>10
  <2> QED
    BY <1>4, <1>10, <2>1
<1>14. {s[i] : i \in DOMAIN s} = filled
  BY <1>12, <1>13
<1> QED
  BY <1>1, <1>11, <1>14 DEF Answers

-----------------------------------------------------------------------------
(* The messages of the request.                                             *)

DifferInId(M) == \A m, o \in M : m.id = o.id => m = o
StampsRise(n, s) == \A i, j \in 1..n : i < j => s[i].stamp <= s[j].stamp
LEMMA OldestLists ==
  ASSUME NEW M \in SUBSET Text, IsFiniteSet(M), DifferInId(M), NEW s, s = OldestFirst(M)
  PROVE  Enumerates(M, s) /\ StampsRise(Cardinality(M), s)
<1>1. PICK R : R = {p \in M \X M : Later(p[2], p[1])}
  OBVIOUS
<1>2. \A m \in M : m.stamp \in Nat /\ m.id \in Nat
  BY DEF Text
<1>3. \A x, y \in M : <<x, y>> \in R <=> y.stamp > x.stamp \/ (y.stamp = x.stamp /\ y.id > x.id)
  BY <1>1 DEF Later
<1>4. Orders(R, M)
  BY <1>2, <1>3 DEF Orders, DifferInId
<1>5. s = InOrder(M, R)
  BY <1>1 DEF OldestFirst
<1>6. Listing(R, M, s) /\ Enumerates(M, s)
  BY <1>4, <1>5, InOrderLists
<1>7. PICK n : n = Cardinality(M)
  OBVIOUS
<1>8. s \in [1..n -> M] /\ \A i, j \in 1..n : i < j => <<s[i], s[j]>> \in R
  BY <1>6, <1>7 DEF Listing
<1>9. ASSUME NEW i \in 1..n, NEW j \in 1..n, i < j PROVE s[i].stamp <= s[j].stamp
  <2>1. PICK x \in M, y \in M : x = s[i] /\ y = s[j]
    BY <1>8
  <2>2. <<x, y>> \in R
    BY <1>8, <1>9, <2>1, Zenon
  <2> QED
    BY <1>2, <1>3, <2>1, <2>2
<1> QED
  BY <1>6, <1>7, <1>9 DEF StampsRise

\* At most Window messages are found, and they are stored ones.
LEMMA FoundAreStored ==
  ASSUME TextsSound, NEW found \in FindHistory
  PROVE  /\ Range(found) \in SUBSET Range(texts) /\ IsFiniteSet(Range(found)) /\ Cardinality(Range(found)) <= Window
<1>0. Range(texts) \in SUBSET Text /\ texts \in Seq(Text)
  BY DEF TextsSound, Range
<1>1. PICK N \in Nat : N = Len(texts) /\ DOMAIN texts = 1..N
  BY <1>0
<1>2. IsFiniteSet(1..N) /\ Cardinality(1..N) = N
  BY FS_Interval
<1>3. texts \in Surjection(1..N, Range(texts)) /\ texts \in Injection(1..N, Range(texts))
  <2>1. texts \in [1..N -> Range(texts)]
    BY <1>0, <1>1 DEF Range
  <2>2. \A y \in Range(texts) : \E x \in 1..N : texts[x] = y
    BY <1>1 DEF Range
  <2>3. \A i, j \in 1..N : texts[i] = texts[j] => i = j
    BY <1>1 DEF TextsSound
  <2> QED
    BY <2>1, <2>2, <2>3 DEF Surjection, Injection, IsInjective
<1>4. IsFiniteSet(Range(texts)) /\ Cardinality(Range(texts)) = N
  BY <1>2, <1>3, FS_Surjection
<1>5. DifferInId(Range(texts))
  BY <1>1 DEF TextsSound, DifferInId, Range
<1>6. PICK ordered : ordered = OldestFirst(Range(texts))
  OBVIOUS
<1>7. ordered \in [1..N -> Range(texts)]
  <2>1. Enumerates(Range(texts), ordered)
    BY <1>0, <1>4, <1>5, <1>6, OldestLists
  <2> QED
    BY <1>4, <2>1 DEF Enumerates
<1>8. CASE found = <<>>
  <2>1. Range(found) = {}
    BY <1>8 DEF Range
  <2> QED
    BY <2>1, FS_EmptySet
<1>9. CASE found # <<>>
  <2>1. PICK limit \in 0..N : limit <= Window /\ found = SubSeq(ordered, N - limit + 1, N)
    <3>1. PICK l : l = (IF N < Window THEN N ELSE Window) /\ found = FindByConversationID(l)
      BY <1>1, <1>9 DEF FindHistory
    <3>2. Len(ordered) = N
      BY <1>7
    <3>3. found = SubSeq(ordered, N - l + 1, N)
      BY <1>6, <3>1, <3>2 DEF FindByConversationID
    <3> QED
      BY <3>1, <3>3
  <2>2. DOMAIN found = 1..limit /\ \A i \in 1..limit : found[i] \in Range(texts)
    <3>1. ordered \in Seq(Range(texts)) /\ Len(ordered) = N
      BY <1>7
    <3>2. /\ DOMAIN found = 1..limit
          /\ \A i \in 1..limit : found[i] = ordered[i + (N - limit)] /\ i + (N - limit) \in 1..N
      BY <2>1, <3>1
    <3> QED
      BY <1>7, <3>2
  <2>3. Range(found) \in SUBSET Range(texts)
    BY <2>2 DEF Range
  <2>4. IsFiniteSet(1..limit) /\ Cardinality(1..limit) = limit
    BY FS_Interval
  <2>5. found \in Surjection(1..limit, Range(found))
    <3>1. found \in [1..limit -> Range(found)]
      <4>1. PICK t : t = ordered
        OBVIOUS
      <4>2. found = [i \in 1..limit |-> found[i]]
        <5>1. ordered \in Seq(Range(texts)) /\ Len(ordered) = N
          BY <1>7
        <5>2. N - limit + 1 \in 1..(N + 1)
          BY <2>1
        <5>3. PICK k \in 1..(N + 1) : k = N - limit + 1
          BY <5>2
        <5>4. found = [i \in 1..(N + 1 - k) |-> ordered[i + k - 1]]
          BY <2>1, <5>1, <5>3, Rest
        <5> QED
          BY <2>2, <5>4
      <4> QED
        BY <2>2, <4>2 DEF Range
    <3> QED
      BY <2>2, <3>1 DEF Surjection, Range
  <2>6. Cardinality(Range(found)) <= limit /\ IsFiniteSet(Range(found))
    BY <2>4, <2>5, FS_Surjection
  <2> QED
    BY <2>1, <2>3, <2>6, FS_CardinalityType
<1> QED
  BY <1>8, <1>9

LEMMA OneMessage ==
  ASSUME NEW o PROVE DOMAIN <<o>> = {1} /\ Len(<<o>>) = 1 /\ <<o>>[1] = o /\ <<o>> # <<>>
OBVIOUS

\* The request's messages: no more than the window, none from before the AI
\* was resumed, oldest first, and a greeting when none is left.
LEMMA KeptMessages ==
  ASSUME TextsSound, turn.resumedAt \in 0..MaxClock, NEW found \in FindHistory,
         NEW kept, kept = OldestFirst({m \in Range(found) : IsAfterResume(m) /\ NewAIMessage(m)}),
         NEW msgs, msgs = IF kept = <<>> THEN <<Oi>> ELSE kept
  PROVE  History(msgs, turn.resumedAt)
<1>1. PICK M : M = {m \in Range(found) : IsAfterResume(m) /\ NewAIMessage(m)}
  OBVIOUS
<1>2. /\ Range(found) \in SUBSET Range(texts) /\ IsFiniteSet(Range(found)) /\ Cardinality(Range(found)) <= Window
      /\ Cardinality(Range(found)) \in Nat
  BY FoundAreStored, FS_CardinalityType
<1>3. M \in SUBSET Range(found) /\ IsFiniteSet(M) /\ Cardinality(M) <= Window
  <2>1. M \in SUBSET Range(found)
    BY <1>1
  <2> QED
    BY <1>2, <2>1, FS_Subset, FS_CardinalityType
<1>4. \A m \in Range(texts) : m \in Text /\ m.stamp <= m.at
  BY DEF TextsSound, Range
<1>5. DifferInId(Range(texts))
  BY DEF TextsSound, DifferInId, Range
<1>6. M \in SUBSET Text /\ DifferInId(M)
  BY <1>2, <1>3, <1>4, <1>5 DEF DifferInId
<1>7. PICK n \in Nat : /\ n = Cardinality(M) /\ kept \in [1..n -> M]
                       /\ \A i, j \in 1..n : i < j => kept[i].stamp <= kept[j].stamp
  <2>1. Enumerates(M, kept) /\ StampsRise(Cardinality(M), kept)
    BY <1>1, <1>3, <1>6, OldestLists
  <2> QED
    BY <2>1 DEF Enumerates, StampsRise
<1>8. CASE kept = <<>>
  <2>1. msgs = <<Oi>>
    BY <1>8, Zenon
  <2>2. PICK o : o = Oi
    OBVIOUS
  <2>3. msgs = <<o>>
    BY <2>1, <2>2, Zenon
  <2>4. DOMAIN msgs = {1} /\ Len(msgs) = 1 /\ msgs[1] = o /\ msgs # <<>>
    BY <2>3, OneMessage, Zenon
  <2>5. 1 <= Window
    OBVIOUS
  <2>6. \A i \in {1} : i = 1 /\ ~(1 < 1)
    OBVIOUS
  <2> QED
    BY <2>2, <2>4, <2>5, <2>6, Zenon DEF History
<1>9. CASE kept # <<>>
  <2>1. msgs = kept /\ Len(msgs) = n /\ DOMAIN msgs = 1..n
    BY <1>7, <1>9
  <2>2. ASSUME NEW i \in 1..n PROVE msgs[i].at > turn.resumedAt \/ turn.resumedAt = 0
    <3>1. PICK m \in M : m = msgs[i]
      BY <1>7, <2>1
    <3>2. m.stamp \in Nat /\ m.at \in Nat /\ m.stamp <= m.at
      BY <1>2, <1>3, <1>4 DEF Text
    <3>3. turn.resumedAt = 0 \/ m.stamp > turn.resumedAt
      BY <1>1 DEF IsAfterResume
    <3> QED
      BY <3>1, <3>2, <3>3
  <2> QED
    BY <1>3, <1>7, <1>9, <2>1, <2>2 DEF History
<1> QED
  BY <1>8, <1>9

-----------------------------------------------------------------------------
(* The steps.                                                               *)

TurnSound == TurnTyped /\ ResultsSound /\ NumbersSound /\ CallSound /\ RequestSound
LEMMA TurnFields ==
  DOMAIN NewTurn = {"phase", "provider", "resumedAt", "lines", "step", "messages", "tools", "round", "calls",
                    "results", "read"}
BY DEF NewTurn

LEMMA InitTool == ToolInit => ToolInvariant
<1> SUFFICES ASSUME ToolInit PROVE ToolInvariant
  OBVIOUS
<1>1. RowsSoundHere
  BY DEF ToolInit, RowsSoundHere
<1>2. TextsSound
  BY DEF ToolInit, TextsSound
<1>3. LeadsSound
  BY DEF ToolInit, LeadsSound, LeadRow
<1>8. recorded = {}
  BY DEF ToolInit
<1>4. turn = NewTurn
  BY DEF ToolInit
<1>5. /\ turn.phase = "idle" /\ turn.round = 0 /\ turn.resumedAt = 0 /\ turn.calls = <<>> /\ turn.results = <<>>
  BY <1>4 DEF NewTurn
<1>6. TurnTyped
  BY <1>4, <1>5 DEF TurnTyped, ToolPhase
<1>7. ResultsSound /\ NumbersSound /\ CallSound /\ RequestSound
  BY <1>5, <1>8 DEF ResultsSound, NumbersSound, CallSound, RequestSound, Prompted, Remembered, Offered, InLoop
<1> QED
  BY <1>1, <1>2, <1>3, <1>6, <1>7 DEF ToolInvariant

\* A turn that does not move stays as it is, whatever is changed around it.
LEMMA TurnStill ==
  ASSUME TurnSound, turn' = turn, recorded' = recorded PROVE TurnSound'
<1>1. TurnTyped'
  BY Zenon DEF TurnSound, TurnTyped
<1>2. ResultsSound'
  BY Zenon DEF TurnSound, ResultsSound
<1>5. NumbersSound'
  BY Zenon DEF TurnSound, NumbersSound, Before, Current
<1>3. CallSound'
  BY Zenon DEF TurnSound, CallSound, Current
<1>4. RequestSound'
  BY Zenon DEF TurnSound, RequestSound, LinesSound, MessagesSound, ToolsSound, Answers, History, Allowed
<1> QED
  BY <1>1, <1>2, <1>3, <1>4, <1>5 DEF TurnSound

LEMMA AroundKeeps ==
  ASSUME ToolInvariant,
         \/ \E names \in ToolSets : SetTools(names)
         \/ \E list \in StepLists : EditSteps(list)
         \/ \E name \in ProviderNames : HandleSaveAIConfig(name)
         \/ \E id \in Nat, filled \in BOOLEAN : StoreText(id, filled)
         \/ Resume \/ Passes
         \/ \E l \in LeadId, c \in LeadColumn : DragLead(l, c)
         \/ UNCHANGED toolVars
  PROVE  ToolInvariant'
<1>1. turn' = turn /\ recorded' = recorded
  BY DEF SetTools, EditSteps, HandleSaveAIConfig, StoreText, Resume, Passes, DragLead, toolVars
<1>0. TurnSound
  BY DEF ToolInvariant, TurnSound
<1>2. TurnSound'
  BY <1>0, <1>1, TurnStill
<1>3. RowsSoundHere'
  <2>1. RowsSoundHere /\ clock \in 0..MaxClock
    BY DEF ToolInvariant, RowsSoundHere
  <2>2. /\ toolRows' \in {toolRows} \cup ToolSets /\ steps' \in {steps} \cup StepLists
        /\ aiRow' \in {aiRow} \cup ProviderNames /\ resumedAt' \in {resumedAt, clock}
        /\ \/ clock' = clock
           \/ clock < MaxClock /\ clock' = clock + 1
    <3>1. CASE \E id \in Nat, filled \in BOOLEAN : StoreText(id, filled)
      BY <3>1 DEF StoreText, config
    <3>2. CASE \E l \in LeadId, c \in LeadColumn : DragLead(l, c)
      BY <3>2 DEF DragLead, config
    <3> QED
      BY <3>1, <3>2 DEF SetTools, EditSteps, HandleSaveAIConfig, Resume, Passes, config, toolVars
  <2> QED
    BY <2>1, <2>2 DEF RowsSoundHere
<1>4. LeadsSound'
  <2>1. CASE leadRows' = leadRows
    BY <1>1, <2>1 DEF ToolInvariant, LeadsSound
  <2>2. CASE \E l \in LeadId, c \in LeadColumn : DragLead(l, c)
    <3>1. PICK l \in LeadId, c \in LeadColumn : leadRows' = [leadRows EXCEPT ![l].column = c]
      BY <2>2 DEF DragLead
    <3>2. leadRows \in [LeadId -> LeadRow] /\ LeadsSound
      BY DEF ToolInvariant, LeadsSound
    <3>3. leadRows' \in [LeadId -> LeadRow]
      BY <3>1, <3>2 DEF LeadRow
    <3>4. \A x \in LeadId : leadRows'[x].notes = leadRows[x].notes /\ leadRows'[x].score = leadRows[x].score
      BY <3>1, <3>2 DEF LeadRow
    <3> QED
      BY <1>1, <3>2, <3>3, <3>4 DEF LeadsSound
  <2> QED
    BY <2>1, <2>2 DEF SetTools, EditSteps, HandleSaveAIConfig, StoreText, Resume, Passes, toolVars
<1>5. TextsSound'
  <2>1. CASE texts' = texts
    BY <2>1 DEF ToolInvariant, TextsSound
  <2>2. CASE \E id \in Nat, filled \in BOOLEAN : StoreText(id, filled)
    <3>1. PICK id \in Nat, filled \in BOOLEAN : StoreText(id, filled)
      BY <2>2
    <3>2. PICK m : m = [stamp |-> (clock \div 2) * 2, id |-> id, filled |-> filled, at |-> clock]
      OBVIOUS
    <3>3. clock \in Nat /\ (clock \div 2) * 2 \in Nat /\ (clock \div 2) * 2 <= clock
      BY DEF ToolInvariant, RowsSoundHere
    <3>4. m \in Text /\ m.stamp <= m.at /\ m.id = id
      BY <3>2, <3>3 DEF Text
    <3>5. PICK t \in Seq(Text), N \in Nat : t = texts /\ N = Len(t) /\ N <= MaxTexts
      BY DEF ToolInvariant, TextsSound
    <3>6. N < MaxTexts /\ texts' = Append(t, m) /\ \A i \in 1..N : t[i].id # id
      BY <3>1, <3>2, <3>5 DEF StoreText
    <3>7. /\ \A i \in 1..N : t[i].stamp <= t[i].at
          /\ \A i, j \in 1..N : t[i].id = t[j].id => i = j
      BY <3>5 DEF ToolInvariant, TextsSound
    <3>8. PICK u : u = Append(t, m)
      OBVIOUS
    <3>9. u \in Seq(Text) /\ Len(u) = N + 1 /\ DOMAIN u = 1..(N + 1) /\ u[N + 1] = m /\ \A i \in 1..N : u[i] = t[i]
      BY <3>4, <3>5, <3>8
    <3>10. \A i \in 1..(N + 1) : i = N + 1 \/ i \in 1..N
      OBVIOUS
    <3>11. \A i \in 1..(N + 1) : u[i].stamp <= u[i].at
      BY <3>4, <3>7, <3>9, <3>10
    <3>12. \A i, j \in 1..(N + 1) : u[i].id = u[j].id => i = j
      BY <3>4, <3>6, <3>7, <3>9, <3>10
    <3>13. texts' = u
      BY <3>6, <3>8
    <3>14. N + 1 <= MaxTexts
      BY <3>5, <3>6
    <3> QED
      BY <3>9, <3>11, <3>12, <3>13, <3>14 DEF TextsSound
  <2> QED
    BY <2>1, <2>2 DEF SetTools, EditSteps, HandleSaveAIConfig, Resume, Passes, DragLead, config, toolVars
<1> QED
  BY <1>2, <1>3, <1>4, <1>5 DEF ToolInvariant, TurnSound

\* What the turn's own steps leave as it is.
Others == RowsSoundHere /\ TextsSound
LEMMA OthersStill ==
  ASSUME ToolInvariant, UNCHANGED toolSources PROVE Others'
BY DEF ToolInvariant, Others, RowsSoundHere, TextsSound, toolSources, config

\* Before the loop there are no calls and no results.
LEMMA BuildKeeps ==
  ASSUME ToolInvariant, BuildStep PROVE ToolInvariant'
<1>1. UNCHANGED <<toolSources, leadRows, recorded>>
  BY DEF BuildStep, Resolve, GetProvider, BuildPrompt, SpecialistGone, ReadHistory, ResolveDefinitions, toolSources
<1>2. Others' /\ LeadsSound'
  BY <1>1, OthersStill DEF ToolInvariant, LeadsSound
<1>3. TurnTyped /\ ResultsSound /\ NumbersSound /\ RequestSound /\ DOMAIN turn = DOMAIN NewTurn
  BY DEF ToolInvariant, TurnTyped
<1>4. /\ turn.phase \in {"idle", "prompt", "history", "tools", "provider"}
      /\ turn'.phase \in {"prompt", "history", "tools", "provider", "ask", "failed"}
      /\ DOMAIN turn' = DOMAIN turn /\ turn'.calls = turn.calls /\ turn'.results = turn.results
      /\ turn'.round = turn.round /\ turn'.resumedAt \in 0..MaxClock
  BY <1>3, TurnFields DEF BuildStep, Resolve, GetProvider, BuildPrompt, SpecialistGone, ReadHistory, ResolveDefinitions,
    TurnTyped, ToolInvariant, RowsSoundHere
<1>5. TurnTyped'
  BY <1>3, <1>4 DEF TurnTyped, ToolPhase
<1>6. ResultsSound'
  BY <1>1, <1>3, <1>4 DEF ResultsSound, InLoop
<1>9. NumbersSound'
  BY <1>1, <1>3, <1>4 DEF NumbersSound, Before
<1>7. CallSound'
  BY <1>4 DEF CallSound, InLoop
<1>8. RequestSound'
  <2>1. CASE Resolve \/ SpecialistGone
    <3>1. turn'.phase \in {"prompt", "failed"}
      BY <1>3, <2>1, TurnFields DEF Resolve, SpecialistGone
    <3> QED
      BY <3>1 DEF RequestSound, Prompted, Remembered, Offered
  <2>2. CASE BuildPrompt
    <3>1. PICK list : turn' = [turn EXCEPT !.phase = "history", !.lines = renderCollectedData(list), !.step = CurrentStep(list)]
      BY <2>2 DEF BuildPrompt
    <3>2. turn'.phase = "history" /\ turn'.lines = renderCollectedData(list)
      BY <1>3, <3>1, TurnFields
    <3>3. PICK lines : lines = renderCollectedData(list)
      OBVIOUS
    <3>4. Answers(lines)
      BY <3>3, LinesAreAnswers
    <3>5. turn'.lines = lines
      BY <3>2, <3>3, Zenon
    <3>6. LinesSound'
      BY <3>4, <3>5, Zenon DEF LinesSound
    <3> QED
      BY <3>2, <3>6 DEF RequestSound, Prompted, Remembered, Offered
  <2>3. CASE ReadHistory
    <3>0. turn.phase = "history" /\ LinesSound
      BY <1>3, <2>3 DEF ReadHistory, RequestSound, Prompted, ToolPhase
    <3>1. PICK found \in FindHistory :
            LET kept == OldestFirst({m \in Range(found) : IsAfterResume(m) /\ NewAIMessage(m)})
            IN turn' = [turn EXCEPT !.phase = "tools", !.messages = IF kept = <<>> THEN <<Oi>> ELSE kept]
      BY <2>3 DEF ReadHistory
    <3>2. PICK kept : kept = OldestFirst({m \in Range(found) : IsAfterResume(m) /\ NewAIMessage(m)})
      OBVIOUS
    <3>3. PICK msgs : msgs = IF kept = <<>> THEN <<Oi>> ELSE kept
      OBVIOUS
    <3>4. turn' = [turn EXCEPT !.phase = "tools", !.messages = msgs]
      BY <3>1, <3>2, <3>3, Zenon
    <3>5. turn'.phase = "tools" /\ turn'.messages = msgs /\ turn'.lines = turn.lines /\ turn'.resumedAt = turn.resumedAt
      BY <1>3, <3>4, TurnFields
    <3>6. History(msgs, turn.resumedAt)
      <4>1. turn.resumedAt \in 0..MaxClock /\ TextsSound
        BY DEF ToolInvariant, TurnTyped
      <4> QED
        BY <3>2, <3>3, <4>1, KeptMessages, Zenon
    <3>7. MessagesSound'
      BY <3>5, <3>6, Zenon DEF MessagesSound
    <3>8. LinesSound'
      BY <3>0, <3>5, Zenon DEF LinesSound
    <3> QED
      BY <3>5, <3>7, <3>8 DEF RequestSound, Prompted, Remembered, Offered
  <2>4. CASE ResolveDefinitions
    <3>0. turn.phase = "tools" /\ LinesSound /\ MessagesSound
      BY <1>3, <2>4 DEF ResolveDefinitions, RequestSound, Remembered, Prompted, ToolPhase
    <3>1. PICK defs : /\ turn' = [turn EXCEPT !.phase = "provider", !.tools = defs]
                      /\ defs = {} \/ defs = ApplyStepConstraints(ResolveForSpecialist, turn.step)
      BY <2>4 DEF ResolveDefinitions
    <3>2. /\ turn'.phase = "provider" /\ turn'.tools = defs /\ turn'.step = turn.step /\ turn'.lines = turn.lines
          /\ turn'.messages = turn.messages /\ turn'.resumedAt = turn.resumedAt
      BY <1>3, <3>1, TurnFields
    <3>3. PICK step : step = turn.step
      OBVIOUS
    <3>4. Allowed(defs, step)
      BY <3>1, <3>3 DEF ApplyStepConstraints, Allowed
    <3>5. ToolsSound'
      BY <3>2, <3>3, <3>4, Zenon DEF ToolsSound
    <3>6. LinesSound' /\ MessagesSound'
      BY <3>0, <3>2, Zenon DEF LinesSound, MessagesSound
    <3> QED
      BY <3>5, <3>6 DEF RequestSound
  <2>5. CASE GetProvider
    <3>0. turn.phase = "provider" /\ LinesSound /\ MessagesSound /\ ToolsSound
      BY <1>3, <2>5 DEF GetProvider, RequestSound, Offered, Remembered, Prompted, ToolPhase
    <3>1. /\ turn'.step = turn.step /\ turn'.lines = turn.lines /\ turn'.tools = turn.tools
          /\ turn'.messages = turn.messages /\ turn'.resumedAt = turn.resumedAt
      BY <1>3, <2>5, TurnFields DEF GetProvider
    <3> QED
      BY <3>0, <3>1, Zenon DEF RequestSound, LinesSound, MessagesSound, ToolsSound
  <2> QED
    BY <2>1, <2>2, <2>3, <2>4, <2>5 DEF BuildStep
<1> QED
  BY <1>2, <1>5, <1>6, <1>7, <1>8, <1>9 DEF ToolInvariant, Others

\* What was read for the request stays.
LEMMA RequestStays ==
  ASSUME RequestSound, turn.phase \in Offered, turn'.lines = turn.lines, turn'.messages = turn.messages,
         turn'.resumedAt = turn.resumedAt, turn'.tools = turn.tools, turn'.step = turn.step
  PROVE  RequestSound'
<1>0. turn.phase \in Remembered /\ turn.phase \in Prompted
  BY DEF Offered, Remembered
<1>1. LinesSound /\ MessagesSound /\ ToolsSound
  BY <1>0, Zenon DEF RequestSound
<1>2. LinesSound'
  <2>1. PICK lines : lines = turn.lines
    OBVIOUS
  <2>2. Answers(lines) /\ turn'.lines = lines
    BY <1>1, <2>1, Zenon DEF LinesSound
  <2> QED
    BY <2>2, Zenon DEF LinesSound
<1>3. MessagesSound'
  <2>1. PICK messages, since : messages = turn.messages /\ since = turn.resumedAt
    OBVIOUS
  <2>2. History(messages, since) /\ turn'.messages = messages /\ turn'.resumedAt = since
    BY <1>1, <2>1, Zenon DEF MessagesSound
  <2> QED
    BY <2>2, Zenon DEF MessagesSound
<1>4. ToolsSound'
  <2>1. PICK tools, step : tools = turn.tools /\ step = turn.step
    OBVIOUS
  <2>2. Allowed(tools, step) /\ turn'.tools = tools /\ turn'.step = step
    BY <1>1, <2>1, Zenon DEF ToolsSound
  <2> QED
    BY <2>2, Zenon DEF ToolsSound
<1> QED
  BY <1>2, <1>3, <1>4 DEF RequestSound

LEMMA ResultIs ==
  ASSUME NEW id \in {NoId} \cup CallId, NEW ok \in BOOLEAN, NEW shown \in SUBSET LeadId,
         NEW r, r = NewToolResult(id, ok, shown)
  PROVE  r \in ToolResult /\ r.id = id /\ r.ok = ok /\ r.shown = shown
BY DEF NewToolResult, ToolResult

LEMMA CurrentIs ==
  ASSUME TurnTyped, NumbersSound, Len(turn.results) < Len(turn.calls)
  PROVE  /\ Current \in MadeCall /\ Current.id \in CallId /\ Current.column \in LeadColumn /\ Current.lead \in LeadId
         /\ Current.id = <<turn.round, Len(turn.results) + 1>>
         /\ turn.phase # "movement" => Current \notin recorded
<1>0. PICK results \in Seq(ToolResult), calls \in Seq(MadeCall) : results = turn.results /\ calls = turn.calls
  BY DEF TurnTyped
<1>1. PICK n \in Nat : n = Len(results) /\ n = Len(turn.results) /\ n + 1 \in 1..Len(calls)
  BY <1>0
<1>2. calls[n + 1] \in MadeCall /\ calls[n + 1] = Current
  BY <1>0, <1>1 DEF Current
<1>3. Current.id = <<turn.round, n + 1>>
  BY <1>0, <1>1, <1>2 DEF NumbersSound
<1>4. turn.round \in Nat
  BY DEF TurnTyped
<1>5. ~Before(Current)
  BY <1>1, <1>3, <1>4 DEF Before
<1> QED
  BY <1>1, <1>2, <1>3, <1>5 DEF MadeCall, NumbersSound

\* A result that tells what was done joins the others.
LEMMA AnswerKeeps ==
  ASSUME TurnSound, NEW r \in ToolResult, Answer(r), turn.phase \in InLoop, Len(turn.results) < Len(turn.calls),
         recorded' \in {recorded, recorded \cup {Current}}, recorded \subseteq MadeCall,
         r.id \in {NoId, Current.id}, Truthful(r, Current, recorded')
  PROVE  TurnSound'
<1>1. /\ TurnTyped /\ ResultsSound /\ NumbersSound /\ RequestSound
      /\ DOMAIN turn = DOMAIN NewTurn
  BY DEF TurnSound, TurnTyped
<1>2. /\ DOMAIN turn' = DOMAIN turn /\ turn'.phase = "run" /\ turn'.results = Append(turn.results, r)
      /\ turn'.calls = turn.calls /\ turn'.round = turn.round /\ turn'.resumedAt = turn.resumedAt
      /\ turn'.lines = turn.lines /\ turn'.messages = turn.messages /\ turn'.tools = turn.tools
      /\ turn'.step = turn.step
  BY <1>1, TurnFields DEF Answer
<1>3. PICK results \in Seq(ToolResult), calls \in Seq(MadeCall) :
        results = turn.results /\ calls = turn.calls
  BY <1>1 DEF TurnTyped
<1>4. PICK n \in Nat : n = Len(results) /\ n < Len(calls)
  BY <1>3
<1>5. PICK u : u = Append(results, r)
  OBVIOUS
<1>6. u \in Seq(ToolResult) /\ Len(u) = n + 1 /\ u[n + 1] = r /\ \A i \in 1..n : u[i] = results[i]
  BY <1>4, <1>5
<1>7. turn'.results = u /\ turn'.calls = calls
  BY <1>2, <1>3, <1>5
<1>8. TurnTyped'
  BY <1>1, <1>2, <1>4, <1>6, <1>7 DEF TurnTyped, ToolPhase
<1>13. PICK k \in Nat : /\ k = turn.round /\ Current = calls[n + 1] /\ Current.id = <<k, n + 1>>
                        /\ \A i \in 1..n : calls[i].id = <<k, i>>
  <2>1. turn.round \in Nat
    BY <1>1 DEF TurnTyped
  <2>2. Current = calls[n + 1] /\ Current.id = <<turn.round, n + 1>>
    BY <1>1, <1>3, <1>4, CurrentIs DEF Current
  <2>3. \A i \in 1..n : calls[i].id = <<turn.round, i>>
    BY <1>1, <1>3, <1>4 DEF NumbersSound
  <2> QED
    BY <2>1, <2>2, <2>3
<1>9. \A i \in 1..(n + 1) : u[i].id \in {NoId, calls[i].id} /\ Truthful(u[i], calls[i], recorded')
  <2>1. SUFFICES ASSUME NEW i \in 1..(n + 1)
                 PROVE  u[i].id \in {NoId, calls[i].id} /\ Truthful(u[i], calls[i], recorded')
    OBVIOUS
  <2>2. CASE i = n + 1
    BY <1>6, <1>13, <2>2
  <2>3. CASE i # n + 1
    <3>1. i \in 1..n /\ u[i] = results[i]
      BY <1>6, <2>3
    <3>2. results[i].id \in {NoId, calls[i].id} /\ Truthful(results[i], calls[i], recorded)
      BY <1>1, <1>3, <1>4, <3>1, Zenon DEF ResultsSound
    <3>3. calls[i] # Current
      <4>1. <<k, i>> # <<k, n + 1>>
        BY <2>3
      <4> QED
        BY <1>13, <3>1, <4>1
    <3>4. calls[i] \in recorded' <=> calls[i] \in recorded
      BY <3>3
    <3> QED
      BY <3>1, <3>2, <3>4, Zenon DEF Truthful
  <2> QED
    BY <2>2, <2>3
<1>10. ResultsSound'
  BY <1>2, <1>6, <1>7, <1>9 DEF ResultsSound, InLoop
<1>14. NumbersSound'
  <2>1. \A i \in 1..Len(turn'.calls) : turn'.calls[i].id = <<turn'.round, i>>
    BY <1>1, <1>2 DEF NumbersSound
  <2>2. ASSUME NEW call \in recorded' PROVE Before(call)'
    <3>1. CASE call = Current
      BY <1>2, <1>6, <1>7, <1>13, <3>1 DEF Before
    <3>2. CASE call # Current
      <4>1. call \in recorded /\ Before(call) /\ call \in MadeCall
        BY <1>1, <3>2 DEF NumbersSound
      <4>2. call.id[1] \in Nat /\ call.id[2] \in Nat
        BY <4>1 DEF MadeCall, CallId
      <4> QED
        BY <1>2, <1>3, <1>4, <1>6, <1>7, <4>1, <4>2 DEF Before
    <3> QED
      BY <3>1, <3>2
  <2> QED
    BY <2>1, <2>2 DEF NumbersSound
<1>11. CallSound'
  BY <1>2 DEF CallSound, InLoop
<1>12. RequestSound'
  BY <1>1, <1>2, RequestStays DEF InLoop, Offered, Remembered, Prompted, ToolPhase
<1> QED
  BY <1>8, <1>10, <1>11, <1>12, <1>14 DEF TurnSound

\* The turn goes on to another statement of the call.
LEMMA GotoKeeps ==
  ASSUME TurnSound, turn.phase \in InLoop \ {"movement"}, Len(turn.results) < Len(turn.calls),
         NEW phase \in InLoop \ {"run"}, NEW rd, turn' = [turn EXCEPT !.phase = phase, !.read = rd],
         recorded' = (IF phase = "movement" THEN recorded \cup {Current} ELSE recorded),
         phase = "count" => Current.tool \in DataQueries /\ Current.tool # "get_conversation_history",
         phase \in {"ruleNote", "ruleMove", "ruleStub"} => Current.tool = "trigger_automation",
         phase = "write" => /\ Current.lead \in Home /\ Head(rd) \in LeadRow
                            /\ Current.tool \in LeadWrites \cup {"trigger_automation"},
         phase = "movement" => Current.tool \in {"move_lead", "trigger_automation"}
  PROVE  TurnSound'
<1>1. /\ TurnTyped /\ ResultsSound /\ NumbersSound /\ RequestSound
      /\ DOMAIN turn = DOMAIN NewTurn
  BY DEF TurnSound, TurnTyped
<1>2. /\ DOMAIN turn' = DOMAIN turn /\ turn'.phase = phase /\ turn'.results = turn.results /\ turn'.read = rd
      /\ turn'.calls = turn.calls /\ turn'.round = turn.round /\ turn'.resumedAt = turn.resumedAt
      /\ turn'.lines = turn.lines /\ turn'.messages = turn.messages /\ turn'.tools = turn.tools
      /\ turn'.step = turn.step
  BY <1>1, TurnFields
<1>3. TurnTyped'
  BY <1>1, <1>2 DEF TurnTyped, ToolPhase, InLoop
<1>7. Current' = Current
  BY <1>2 DEF Current
<1>8. ASSUME NEW i \in 1..Len(turn.results) PROVE turn.calls[i] # Current
  <2>1. PICK n \in Nat : n = Len(turn.results) /\ n < Len(turn.calls)
    BY <1>1 DEF TurnTyped
  <2>4. PICK k : k = turn.round
    OBVIOUS
  <2>5. Current.id = <<k, n + 1>>
    BY <1>1, <2>1, <2>4, CurrentIs
  <2>6. i \in 1..Len(turn.calls)
    BY <1>1, <2>1 DEF TurnTyped
  <2>2. turn.calls[i].id = <<k, i>> /\ Current.id = <<k, n + 1>>
    BY <1>1, <2>4, <2>5, <2>6 DEF NumbersSound
  <2>3. <<k, i>> # <<k, n + 1>>
    BY <2>1
  <2> QED
    BY <2>2, <2>3
<1>4. ResultsSound'
  <2>1. ASSUME NEW i \in 1..Len(turn.results)
        PROVE  Truthful(turn.results[i], turn.calls[i], recorded')
    <3>1. Truthful(turn.results[i], turn.calls[i], recorded) /\ turn.calls[i] # Current
      BY <1>1, <1>8 DEF ResultsSound
    <3>2. turn.calls[i] \in recorded' <=> turn.calls[i] \in recorded
      BY <3>1
    <3> QED
      BY <3>1, <3>2, Zenon DEF Truthful
  <2> QED
    BY <1>1, <1>2, <2>1 DEF ResultsSound
<1>9. NumbersSound'
  BY <1>1, <1>2, <1>7 DEF NumbersSound, Before, InLoop
<1>5. CallSound'
  BY <1>2, <1>7 DEF CallSound, InLoop
<1>6. RequestSound'
  BY <1>1, <1>2, RequestStays DEF InLoop, Offered, Remembered, Prompted, ToolPhase
<1> QED
  BY <1>3, <1>4, <1>5, <1>6, <1>9 DEF TurnSound

\* A lead of the turn's firm is saved, or another one's gets a note from an
\* automation.
LEMMA SaveKeepsLeads ==
  ASSUME LeadsSound, NEW l \in LeadId, NEW row \in LeadRow, leadRows' = [leadRows EXCEPT ![l] = row],
         Current \in MadeCall, Current.lead = l, recorded' = recorded \cup {Current},
         l \in Home \/ (Current.tool = "trigger_automation" /\ row.score = leadRows[l].score)
  PROVE  LeadsSound'
<1>1. /\ leadRows \in [LeadId -> LeadRow] /\ leadRows' \in [LeadId -> LeadRow] /\ leadRows'[l] = row
      /\ \A x \in LeadId : x # l => leadRows'[x] = leadRows[x]
  BY DEF LeadsSound
<1>2. recorded' \subseteq MadeCall /\ \A call \in recorded' : call.lead \in Home \/ call.tool \in Elsewhere
  BY DEF LeadsSound, Elsewhere
<1>3. ASSUME NEW x \in LeadId \ Home
      PROVE  leadRows'[x].score = 0 /\ (leadRows'[x].notes # 0 => NotedBy(x, recorded'))
  <2>1. leadRows[x].score = 0 /\ (leadRows[x].notes # 0 => NotedBy(x, recorded))
    BY DEF LeadsSound
  <2>2. NotedBy(x, recorded) => NotedBy(x, recorded')
    BY DEF NotedBy
  <2>3. CASE x = l
    <3>1. Current \in recorded' /\ Current.lead = x /\ Current.tool = "trigger_automation"
      BY <2>3
    <3>2. NotedBy(x, recorded')
      BY <3>1 DEF NotedBy
    <3> QED
      BY <1>1, <2>1, <2>3, <3>2
  <2>4. CASE x # l
    BY <1>1, <2>1, <2>2, <2>4
  <2> QED
    BY <2>3, <2>4
<1> QED
  BY <1>1, <1>2, <1>3 DEF LeadsSound

LEMMA LoopCallKeeps ==
  ASSUME ToolInvariant,
         \/ ToolNotFound \/ ArgumentMissing \/ ExecuteFails
         \/ SearchLeads \/ GetLeadDetail \/ GetConversationHistory \/ ListProducts \/ GetPipeline \/ CountByColumnID
         \/ MoveToColumn \/ CreateNote \/ UpdateScore \/ TriggerManually \/ SwitchSpecialist
         \/ SaveNote \/ SaveScore \/ SaveMove \/ SaveMovement \/ SaveFails
         \/ RuleNotes \/ RuleMoves \/ RuleStub
  PROVE  TurnSound' /\ LeadsSound' /\ UNCHANGED toolSources
<1>0. TurnSound /\ TurnTyped /\ NumbersSound /\ CallSound /\ LeadsSound
  BY DEF ToolInvariant, TurnSound
<1>1. turn.phase \in InLoop /\ Len(turn.results) < Len(turn.calls)
  BY <1>0 DEF ToolNotFound, ArgumentMissing, ExecuteFails, SearchLeads, GetLeadDetail, GetConversationHistory,
    ListProducts, GetPipeline, CountByColumnID, MoveToColumn, CreateNote, UpdateScore, TriggerManually,
    SwitchSpecialist, SaveNote, SaveScore, SaveMove, SaveMovement, SaveFails, RuleNotes, RuleMoves, RuleStub,
    RuleRuns, Returns, ReadsLead, Executes, Writing, CallWaits, CallSound, InLoop
<1>2. /\ Current \in MadeCall /\ Current.id \in CallId /\ Current.column \in LeadColumn /\ Current.lead \in LeadId
      /\ turn.phase # "movement" => Current \notin recorded
  BY <1>0, <1>1, CurrentIs
<1>11. recorded \subseteq MadeCall
  BY <1>0 DEF LeadsSound
\* The call is answered.
<1>3. ASSUME NEW id \in {NoId, Current.id}, NEW ok \in BOOLEAN, NEW shown \in SUBSET LeadId,
             Answer(NewToolResult(id, ok, shown)), recorded' \in {recorded, recorded \cup {Current}},
             ok /\ Current.tool \in LeadWrites \cup {"switch_specialist"} => Current \in recorded',
             ~ok /\ Current \in recorded' => Current.tool = "move_lead",
             Current.tool # "get_conversation_history" => shown \subseteq Home
      PROVE  TurnSound'
  <2>1. PICK r : r = NewToolResult(id, ok, shown)
    OBVIOUS
  <2>2. id \in {NoId} \cup CallId
    BY <1>2
  <2>3. r \in ToolResult /\ r.id = id /\ r.ok = ok /\ r.shown = shown
    BY <2>1, <2>2, ResultIs
  <2>4. Answer(r)
    BY <1>3, <2>1, Zenon
  <2>5. Truthful(r, Current, recorded')
    BY <1>3, <2>3, Zenon DEF Truthful
  <2> QED
    BY <1>0, <1>1, <1>3, <1>11, <2>3, <2>4, <2>5, AnswerKeeps
\* A failure of anything but a movement is told, and nothing was done, or it
\* is an automation's.
<1>12. {} \in SUBSET LeadId /\ {} \subseteq Home
  OBVIOUS
<1>4. CASE ToolNotFound \/ ArgumentMissing \/ ExecuteFails
  <2>1. UNCHANGED <<toolSources, leadRows, recorded>> /\ turn.phase # "movement"
    BY <1>4 DEF ToolNotFound, ArgumentMissing, ExecuteFails, Executes, CallWaits
  <2>2. PICK id \in {NoId, Current.id} : Answer(NewToolResult(id, FALSE, {}))
    BY <1>4 DEF ToolNotFound, ArgumentMissing, ExecuteFails
  <2>3. recorded' = recorded /\ Current \notin recorded'
    BY <1>2, <2>1
  <2>4. TurnSound'
    BY <1>3, <1>12, <2>2, <2>3
  <2> QED
    BY <1>0, <2>1, <2>4 DEF LeadsSound
<1>13. ASSUME Answer(Failed), UNCHANGED <<toolSources, leadRows, recorded>>,
              turn.phase = "movement" => Current.tool \in {"move_lead", "trigger_automation"}
       PROVE  TurnSound' /\ LeadsSound' /\ UNCHANGED toolSources
  <2>1. PICK ok \in BOOLEAN : ok = (Current.tool = "trigger_automation")
    OBVIOUS
  <2>2. Answer(NewToolResult(NoId, ok, {}))
    BY <1>13, <2>1, Zenon DEF Failed
  <2>3. ok => Current.tool \notin LeadWrites \cup {"switch_specialist"}
    BY <2>1 DEF LeadWrites
  <2>4. recorded' = recorded /\ (~ok /\ Current \in recorded' => Current.tool = "move_lead")
    BY <1>2, <1>13, <2>1
  <2>5. TurnSound'
    BY <1>3, <1>12, <2>2, <2>3, <2>4
  <2> QED
    BY <1>0, <1>13, <2>5 DEF LeadsSound
<1>14. CASE SaveFails
  BY <1>0, <1>13, <1>14 DEF SaveFails, CallSound
<1>5. CASE SearchLeads \/ GetLeadDetail \/ GetConversationHistory \/ ListProducts
  <2>1. UNCHANGED <<toolSources, leadRows, recorded>> /\ Current.tool \in DataQueries
    BY <1>5 DEF SearchLeads, GetLeadDetail, GetConversationHistory, ListProducts, Returns, Executes, DataQueries
  <2>2. PICK shown \in SUBSET LeadId : /\ Answer(NewToolResult(NoId, TRUE, shown))
                                       /\ Current.tool # "get_conversation_history" => shown \subseteq Home
    <3>1. Home \in SUBSET LeadId /\ {Current.lead} \in SUBSET LeadId /\ {Current.lead} \cap Home \in SUBSET LeadId
      BY <1>2
    <3>2. CASE SearchLeads \/ ListProducts
      BY <1>12, <3>1, <3>2 DEF SearchLeads, ListProducts, Returns, FindByTenantAndSearch
    <3>3. CASE GetLeadDetail
      BY <3>1, <3>3 DEF GetLeadDetail, Returns, FindByID
    <3>4. CASE GetConversationHistory
      BY <3>1, <3>4 DEF GetConversationHistory, Returns, Executes
    <3> QED
      BY <1>5, <3>2, <3>3, <3>4
  <2>3. recorded' = recorded /\ TRUE \in BOOLEAN /\ Current.tool \notin LeadWrites \cup {"switch_specialist"}
    BY <2>1 DEF DataQueries, LeadWrites
  <2>4. TurnSound'
    BY <1>3, <2>2, <2>3
  <2> QED
    BY <1>0, <2>1, <2>4 DEF LeadsSound
<1>6. CASE GetPipeline \/ CountByColumnID
  <2>1. /\ UNCHANGED <<toolSources, leadRows, recorded>> /\ turn.phase # "movement"
        /\ Current.tool \in DataQueries /\ Current.tool # "get_conversation_history"
    BY <1>0, <1>6 DEF GetPipeline, CountByColumnID, Executes, CallWaits, DataQueries, CallSound
  <2>7. recorded' = recorded /\ TRUE \in BOOLEAN /\ Current.tool \notin LeadWrites \cup {"switch_specialist"}
    BY <2>1 DEF DataQueries, LeadWrites
  <2>2. \/ Answer(NewToolResult(NoId, TRUE, {}))
        \/ turn' = [turn EXCEPT !.phase = "count"]
        \/ turn.phase = "count" /\ \E counts : turn' = [turn EXCEPT !.read = counts]
    BY <1>6 DEF GetPipeline, CountByColumnID
  <2>3. ASSUME Answer(NewToolResult(NoId, TRUE, {})) PROVE TurnSound'
    BY <1>3, <1>12, <2>3, <2>7
  <2>4. ASSUME turn' = [turn EXCEPT !.phase = "count"] PROVE TurnSound'
    <3>1. turn' = [turn EXCEPT !.phase = "count", !.read = turn.read]
      BY <1>0, <2>4, TurnFields DEF TurnTyped
    <3>2. PICK phase, rd : phase = "count" /\ rd = turn.read
      OBVIOUS
    <3>3. turn' = [turn EXCEPT !.phase = phase, !.read = rd] /\ phase \in InLoop \ {"run"}
      BY <3>1, <3>2 DEF InLoop
    <3> QED
      BY <1>0, <1>1, <2>1, <2>7, <3>2, <3>3, GotoKeeps
  <2>5. ASSUME turn.phase = "count", \E counts : turn' = [turn EXCEPT !.read = counts] PROVE TurnSound'
    <3>1. PICK counts : turn' = [turn EXCEPT !.read = counts]
      BY <2>5
    <3>2. PICK phase : phase = "count"
      OBVIOUS
    <3>3. turn' = [turn EXCEPT !.phase = phase, !.read = counts] /\ phase \in InLoop \ {"run"}
      BY <1>0, <2>5, <3>1, <3>2, TurnFields DEF TurnTyped, InLoop
    <3> QED
      BY <1>0, <1>1, <2>1, <2>7, <3>2, <3>3, GotoKeeps
  <2>6. TurnSound'
    BY <2>2, <2>3, <2>4, <2>5
  <2> QED
    BY <1>0, <2>1, <2>6 DEF LeadsSound
<1>7. CASE MoveToColumn \/ CreateNote \/ UpdateScore \/ RuleMoves
  <2>1. /\ UNCHANGED <<toolSources, leadRows, recorded>> /\ turn.phase # "movement"
        /\ Current.tool \in LeadWrites \cup {"trigger_automation"}
    BY <1>0, <1>7 DEF MoveToColumn, CreateNote, UpdateScore, RuleMoves, ReadsLead, Executes, CallWaits, CallSound,
      LeadWrites
  <2>2. CASE Current.lead \in Home
    <3>1. PICK rd : rd = <<leadRows[Current.lead]>> /\ turn' = [turn EXCEPT !.phase = "write", !.read = rd]
      BY <1>7, <2>2 DEF MoveToColumn, CreateNote, UpdateScore, RuleMoves, ReadsLead
    <3>2. Head(rd) \in LeadRow
      BY <1>0, <2>2, <3>1 DEF LeadsSound
    <3>3. PICK phase : phase = "write"
      OBVIOUS
    <3>4. turn' = [turn EXCEPT !.phase = phase, !.read = rd] /\ phase \in InLoop \ {"run"}
      BY <3>1, <3>3 DEF InLoop
    <3>5. TurnSound'
      BY <1>0, <1>1, <2>1, <2>2, <3>2, <3>3, <3>4, GotoKeeps
    <3> QED
      BY <1>0, <2>1, <3>5 DEF LeadsSound
  <2>3. CASE Current.lead \notin Home
    <3>1. CASE RuleMoves
      BY <1>13, <2>1, <2>3, <3>1 DEF RuleMoves
    <3>2. CASE ~RuleMoves
      <4>1. Answer(NewToolResult(NoId, FALSE, {}))
        BY <1>7, <2>3, <3>2 DEF MoveToColumn, CreateNote, UpdateScore, ReadsLead
      <4>2. recorded' = recorded /\ Current \notin recorded' /\ FALSE \in BOOLEAN
        BY <1>2, <2>1
      <4>3. TurnSound'
        BY <1>3, <1>12, <4>1, <4>2
      <4> QED
        BY <1>0, <2>1, <4>3 DEF LeadsSound
    <3> QED
      BY <3>1, <3>2
  <2> QED
    BY <2>1, <2>2, <2>3
<1>8. CASE TriggerManually \/ RuleStub
  <2>1. /\ UNCHANGED <<toolSources, leadRows, recorded>> /\ turn.phase # "movement"
        /\ Current.tool = "trigger_automation"
    BY <1>0, <1>8 DEF TriggerManually, RuleStub, Executes, CallWaits, CallSound
  <2>2. recorded' = recorded /\ Current \notin recorded' /\ Current.tool \notin LeadWrites \cup {"switch_specialist"}
    BY <1>2, <2>1 DEF LeadWrites
  <2>3. CASE \E ok \in BOOLEAN : Answer(NewToolResult(NoId, ok, {}))
    <3>1. PICK ok \in BOOLEAN : Answer(NewToolResult(NoId, ok, {}))
      BY <2>3
    <3>2. TurnSound'
      BY <1>3, <1>12, <2>2, <3>1
    <3> QED
      BY <1>0, <2>1, <3>2 DEF LeadsSound
  <2>4. CASE \E rule \in RuleRuns : turn' = [turn EXCEPT !.phase = rule]
    <3>1. PICK rule \in RuleRuns : turn' = [turn EXCEPT !.phase = rule]
      BY <2>4
    <3>2. PICK rd : rd = turn.read
      OBVIOUS
    <3>3. turn' = [turn EXCEPT !.phase = rule, !.read = rd]
      BY <1>0, <3>1, <3>2, TurnFields DEF TurnTyped
    <3>4. /\ rule \in InLoop \ {"run"} /\ rule \in {"ruleNote", "ruleMove", "ruleStub"}
          /\ rule # "count" /\ rule # "write" /\ rule # "movement"
      BY DEF RuleRuns, InLoop
    <3>5. TurnSound'
      BY <1>0, <1>1, <2>1, <2>2, <3>3, <3>4, GotoKeeps
    <3> QED
      BY <1>0, <2>1, <3>5 DEF LeadsSound
  <2> QED
    BY <1>8, <2>3, <2>4 DEF TriggerManually, RuleStub
<1>15. CASE SwitchSpecialist
  <2>1. /\ UNCHANGED <<toolSources, leadRows>> /\ Current.tool = "switch_specialist" /\ turn.phase # "movement"
        /\ \/ Answer(NewToolResult(NoId, FALSE, {})) /\ recorded' = recorded
           \/ Answer(NewToolResult(NoId, TRUE, {})) /\ recorded' = recorded \cup {Current}
    BY <1>15 DEF SwitchSpecialist, Executes, CallWaits
  <2>2. TurnSound'
    <3>1. Current \notin recorded
      BY <1>2, <2>1
    <3> QED
      BY <1>3, <1>12, <2>1, <3>1
  <2>3. LeadsSound'
    <3>1. /\ recorded' \subseteq MadeCall
          /\ \A call \in recorded' : call.lead \in Home \/ call.tool \in Elsewhere
      BY <1>0, <1>2, <2>1 DEF LeadsSound, Elsewhere
    <3>2. \A l : NotedBy(l, recorded) => NotedBy(l, recorded')
      BY <2>1 DEF NotedBy
    <3> QED
      BY <1>0, <2>1, <3>1, <3>2 DEF LeadsSound
  <2> QED
    BY <2>1, <2>2, <2>3
<1>9. CASE SaveNote \/ SaveScore \/ SaveMove \/ RuleNotes
  <2>1. /\ recorded' = recorded \cup {Current} /\ UNCHANGED toolSources /\ turn.phase \in {"write", "ruleNote"}
        /\ turn.phase = "ruleNote" => RuleNotes
    BY <1>9 DEF SaveNote, SaveScore, SaveMove, RuleNotes, Done, Writing
  <2>2. PICK l \in LeadId : l = Current.lead
    BY <1>2
  <2>4. PICK row \in LeadRow : row = leadRows[l]
    BY <1>0 DEF LeadsSound
  <2>5. \E new \in LeadRow : /\ leadRows' = [leadRows EXCEPT ![l] = new]
                             /\ l \in Home \/ (Current.tool = "trigger_automation" /\ new.score = row.score)
    <3>1. CASE SaveNote \/ RuleNotes
      <4>1. leadRows' = [leadRows EXCEPT ![l] = [row EXCEPT !.notes = row.notes + 1]]
        BY <1>0, <2>2, <2>4, <3>1 DEF SaveNote, RuleNotes, LeadsSound
      <4>2. [row EXCEPT !.notes = row.notes + 1] \in LeadRow /\ [row EXCEPT !.notes = row.notes + 1].score = row.score
        BY DEF LeadRow
      <4>3. l \in Home \/ Current.tool = "trigger_automation"
        BY <1>0, <2>2, <3>1 DEF SaveNote, RuleNotes, Writing, CallSound
      <4> QED
        BY <4>1, <4>2, <4>3
    <3>4. ASSUME turn.phase = "write" PROVE l \in Home /\ Head(turn.read) \in LeadRow
      BY <1>0, <2>2, <3>4 DEF CallSound
    <3>2. CASE SaveScore
      <4>3. PICK rd \in LeadRow : rd = Head(turn.read) /\ l \in Home
        BY <3>2, <3>4 DEF SaveScore, Writing
      <4>1. leadRows' = [leadRows EXCEPT ![l] = [row EXCEPT !.score = 1, !.column = rd.column]]
        BY <1>0, <2>2, <2>4, <3>2, <4>3 DEF SaveScore, LeadsSound
      <4>2. [row EXCEPT !.score = 1, !.column = rd.column] \in LeadRow
        BY DEF LeadRow
      <4> QED
        BY <4>1, <4>2, <4>3
    <3>3. CASE SaveMove
      <4>4. PICK rd \in LeadRow : rd = Head(turn.read) /\ l \in Home
        BY <3>3, <3>4 DEF SaveMove, Writing
      <4>1. PICK c \in ToColumns : leadRows' = [leadRows EXCEPT ![l] = [row EXCEPT !.column = c, !.score = rd.score]]
        BY <1>0, <2>2, <2>4, <3>3, <4>4 DEF SaveMove, LeadsSound
      <4>2. c \in LeadColumn
        BY <1>2, <4>1 DEF ToColumns
      <4>3. [row EXCEPT !.column = c, !.score = rd.score] \in LeadRow
        BY <4>2 DEF LeadRow
      <4> QED
        BY <4>1, <4>3, <4>4
    <3> QED
      BY <1>9, <3>1, <3>2, <3>3
  <2>6. LeadsSound'
    BY <1>0, <1>2, <2>1, <2>2, <2>4, <2>5, SaveKeepsLeads
  <2>7. TurnSound'
    <3>1. CASE SaveNote \/ SaveScore \/ RuleNotes
      <4>1. Answer(NewToolResult(NoId, TRUE, {})) /\ Current \in recorded'
        BY <2>1, <3>1 DEF SaveNote, SaveScore, RuleNotes
      <4> QED
        BY <1>3, <1>12, <2>1, <4>1
    <3>2. CASE SaveMove
      <4>1. /\ turn' = [turn EXCEPT !.phase = "movement"] /\ turn.phase # "movement"
            /\ Current.tool \in {"move_lead", "trigger_automation"}
        BY <3>2 DEF SaveMove, Writing
      <4>2. PICK phase, rd2 : phase = "movement" /\ rd2 = turn.read
        OBVIOUS
      <4>3. turn' = [turn EXCEPT !.phase = phase, !.read = rd2] /\ phase \in InLoop \ {"run"}
        BY <1>0, <4>1, <4>2, TurnFields DEF TurnTyped, InLoop
      <4> QED
        BY <1>0, <1>1, <2>1, <4>1, <4>2, <4>3, GotoKeeps
    <3> QED
      BY <1>9, <3>1, <3>2
  <2> QED
    BY <2>1, <2>6, <2>7
<1>10. CASE SaveMovement
  <2>1. /\ turn.phase = "movement" /\ Answer(NewToolResult(NoId, TRUE, {}))
        /\ UNCHANGED <<toolSources, leadRows, recorded>>
    BY <1>10 DEF SaveMovement
  <2>2. Current \in recorded' /\ recorded' = recorded
    BY <1>0, <2>1 DEF CallSound
  <2>3. TurnSound'
    BY <1>3, <1>12, <2>1, <2>2
  <2> QED
    BY <1>0, <2>1, <2>3 DEF LeadsSound
<1> QED
  BY <1>4, <1>5, <1>6, <1>7, <1>8, <1>9, <1>10, <1>14, <1>15

LEMMA GenerateKeeps ==
  ASSUME ToolInvariant, GenerateResponse \/ LoopExceeded
  PROVE  TurnSound' /\ UNCHANGED <<toolSources, leadRows, recorded>>
<1>0. TurnTyped /\ ResultsSound /\ NumbersSound /\ RequestSound
  BY DEF ToolInvariant
<1>1. /\ TurnTyped /\ ResultsSound /\ NumbersSound /\ RequestSound /\ DOMAIN turn = DOMAIN NewTurn
      /\ turn.phase = "ask" /\ turn.round \in Nat
  <2>1. turn.phase = "ask"
    BY DEF GenerateResponse, LoopExceeded
  <2>2. DOMAIN turn = DOMAIN NewTurn /\ turn.round \in Nat
    BY <1>0 DEF TurnTyped
  <2> QED
    BY <1>0, <2>1, <2>2
<1>2. UNCHANGED <<toolSources, leadRows, recorded>>
  BY DEF GenerateResponse, LoopExceeded, toolSources
<1>3. CASE turn' = [turn EXCEPT !.phase = "fallback"] \/ turn' = [turn EXCEPT !.phase = "answered"]
  <2>1. /\ DOMAIN turn' = DOMAIN turn /\ turn'.phase \in {"fallback", "answered"} /\ turn'.results = turn.results
        /\ turn'.calls = turn.calls /\ turn'.round = turn.round /\ turn'.resumedAt = turn.resumedAt
        /\ turn'.lines = turn.lines /\ turn'.messages = turn.messages /\ turn'.tools = turn.tools
        /\ turn'.step = turn.step
    BY <1>1, <1>3, TurnFields
  <2>2. TurnTyped'
    BY <1>1, <2>1 DEF TurnTyped, ToolPhase
  <2>3. ResultsSound'
    BY <1>1, <1>2, <2>1 DEF ResultsSound
  <2>6. NumbersSound'
    BY <1>1, <1>2, <2>1 DEF NumbersSound, Before
  <2>4. CallSound'
    BY <2>1 DEF CallSound, InLoop
  <2>5. RequestSound'
    BY <1>1, <2>1, RequestStays DEF Offered, Remembered, Prompted, ToolPhase
  <2> QED
    BY <1>2, <2>2, <2>3, <2>4, <2>5, <2>6 DEF TurnSound
<1>4. CASE \E n \in 1..MaxCalls : \E calls \in [1..n -> ToolCalls] :
             /\ turn.round < MaxIterations
             /\ turn' = [turn EXCEPT !.phase = "run", !.round = @ + 1, !.calls = parseToolCalls(calls), !.results = <<>>]
  <2>1. PICK n \in 1..MaxCalls : \E calls \in [1..n -> ToolCalls] :
          /\ turn.round < MaxIterations
          /\ turn' = [turn EXCEPT !.phase = "run", !.round = @ + 1, !.calls = parseToolCalls(calls), !.results = <<>>]
    BY <1>4
  <2>2. PICK made \in [1..n -> ToolCalls] :
          /\ turn.round < MaxIterations
          /\ turn' = [turn EXCEPT !.phase = "run", !.round = @ + 1, !.calls = parseToolCalls(made), !.results = <<>>]
    BY <2>1
  <2>3. PICK c : c = parseToolCalls(made)
    OBVIOUS
  <2>4. c \in Seq(MadeCall)
    <3>1. PICK k \in Nat : k = turn.round + 1
      BY <1>1
    <3>2. c = [i \in 1..n |-> [tool |-> made[i].tool, lead |-> made[i].lead, column |-> made[i].column,
                               complete |-> made[i].complete, id |-> <<k, i>>]]
      BY <2>3, <3>1 DEF parseToolCalls
    <3>3. \A i \in 1..n : /\ made[i].tool \in STRING /\ made[i].lead \in LeadId /\ made[i].column \in LeadColumn
                          /\ made[i].complete \in BOOLEAN /\ <<k, i>> \in CallId
      BY DEF CallId
    <3>4. c \in [1..n -> MadeCall]
      BY <3>2, <3>3 DEF MadeCall
    <3> QED
      BY <3>4
  <2>5. /\ DOMAIN turn' = DOMAIN turn /\ turn'.phase = "run" /\ turn'.results = <<>>
        /\ turn'.calls = c /\ turn'.round = turn.round + 1 /\ turn'.resumedAt = turn.resumedAt
        /\ turn'.lines = turn.lines /\ turn'.messages = turn.messages /\ turn'.tools = turn.tools
        /\ turn'.step = turn.step
    <3>1. PICK fields : fields = DOMAIN turn
      OBVIOUS
    <3>2. turn' = [turn EXCEPT !.phase = "run", !.round = @ + 1, !.calls = c, !.results = <<>>]
      BY <2>2, <2>3, Zenon
    <3>3. {"phase", "round", "calls", "results", "resumedAt", "lines", "messages", "tools", "step"} \subseteq fields
      BY <1>1, <3>1, TurnFields
    <3> QED
      BY <3>1, <3>2, <3>3
  <2>6. TurnTyped'
    BY <1>1, <2>2, <2>4, <2>5 DEF TurnTyped, ToolPhase
  <2>7. ResultsSound'
    BY <2>5 DEF ResultsSound, InLoop
  <2>10. NumbersSound'
    <3>1. PICK k \in Nat : k = turn.round
      BY <1>1
    <3>2. \A i \in 1..Len(c) : c[i].id = <<k + 1, i>>
      <4>1. c = [i \in 1..n |-> [tool |-> made[i].tool, lead |-> made[i].lead, column |-> made[i].column,
                                 complete |-> made[i].complete, id |-> <<k + 1, i>>]]
        BY <2>3, <3>1 DEF parseToolCalls
      <4> QED
        BY <2>4, <4>1
    <3>3. ASSUME NEW call \in recorded' PROVE Before(call)'
      <4>1. call \in MadeCall /\ Before(call) /\ Len(turn.results) \in Nat
        BY <1>1, <1>2, <3>3 DEF NumbersSound, ToolInvariant, LeadsSound, TurnTyped
      <4>2. call.id[1] \in Nat /\ call.id[2] \in Nat
        BY <4>1 DEF MadeCall, CallId
      <4> QED
        BY <2>5, <3>1, <4>1, <4>2 DEF Before
    <3> QED
      BY <2>5, <3>1, <3>2, <3>3 DEF NumbersSound
  <2>8. CallSound'
    BY <2>5 DEF CallSound, InLoop
  <2>9. RequestSound'
    BY <1>1, <2>5, RequestStays DEF Offered, Remembered, Prompted, ToolPhase
  <2> QED
    BY <1>2, <2>6, <2>7, <2>8, <2>9, <2>10 DEF TurnSound
<1> QED
  BY <1>3, <1>4 DEF GenerateResponse, LoopExceeded

LEMMA InSequence ==
  ASSUME NEW S, NEW s \in Seq(S)
  PROVE  DOMAIN s = 1..Len(s) /\ \A i \in 1..Len(s) : s[i] \in S
OBVIOUS

\* Before the next request every result has its call's id.
LEMMA NextIterationKeeps ==
  ASSUME ToolInvariant, NextIteration
  PROVE  TurnSound' /\ UNCHANGED <<toolSources, leadRows, recorded>>
<1>1. /\ TurnTyped /\ ResultsSound /\ NumbersSound /\ RequestSound /\ DOMAIN turn = DOMAIN NewTurn /\ turn.phase = "run"
      /\ UNCHANGED <<toolSources, leadRows, recorded>>
  BY DEF ToolInvariant, TurnTyped, NextIteration
<1>2. PICK results \in Seq(ToolResult), calls \in Seq(MadeCall) : results = turn.results /\ calls = turn.calls
  BY <1>1 DEF TurnTyped
<1>3. PICK n \in Nat : n = Len(results) /\ n = Len(calls)
  BY <1>2 DEF NextIteration
<1>4. PICK u : u = Backfill(results)
  OBVIOUS
<1>5. u = [i \in 1..n |-> IF results[i].id = NoId THEN [results[i] EXCEPT !.id = calls[i].id] ELSE results[i]]
  <2>1. DOMAIN results = 1..n /\ turn.calls = calls
    BY <1>2, <1>3, InSequence, Zenon
  <2> QED
    BY <1>4, <2>1, Zenon DEF Backfill
<1>6. /\ DOMAIN turn' = DOMAIN turn /\ turn'.phase = "ask" /\ turn'.results = u
      /\ turn'.calls = calls /\ turn'.round = turn.round /\ turn'.resumedAt = turn.resumedAt
      /\ turn'.lines = turn.lines /\ turn'.messages = turn.messages /\ turn'.tools = turn.tools
      /\ turn'.step = turn.step
  BY <1>1, <1>2, <1>4, TurnFields DEF NextIteration
<1>7. ASSUME NEW i \in 1..n
      PROVE  u[i] \in ToolResult /\ u[i].id = calls[i].id /\ u[i].ok = results[i].ok /\ u[i].shown = results[i].shown
  <2>0. results[i] \in ToolResult /\ calls[i] \in MadeCall
    <3>1. /\ \A j \in 1..Len(results) : results[j] \in ToolResult
          /\ \A j \in 1..Len(calls) : calls[j] \in MadeCall
      BY InSequence, Zenon
    <3> QED
      BY <1>3, <3>1, Zenon
  <2>1. PICK r \in ToolResult, c \in MadeCall : r = results[i] /\ c = calls[i]
    BY <2>0, Zenon
  <2>2. r.id \in {NoId, c.id}
    BY <1>1, <1>2, <1>3, <2>1 DEF ResultsSound
  <2>3. u[i] = IF r.id = NoId THEN [r EXCEPT !.id = c.id] ELSE r
    BY <1>5, <2>1
  <2>4. c.id \in CallId
    BY DEF MadeCall
  <2>5. [r EXCEPT !.id = c.id] \in ToolResult /\ [r EXCEPT !.id = c.id].id = c.id
        /\ [r EXCEPT !.id = c.id].ok = r.ok /\ [r EXCEPT !.id = c.id].shown = r.shown
    BY <2>4 DEF ToolResult
  <2> QED
    BY <2>1, <2>2, <2>3, <2>5
<1>8. u \in Seq(ToolResult) /\ Len(u) = n
  <2>1. u \in [1..n -> ToolResult]
    BY <1>5, <1>7
  <2> QED
    BY <2>1
<1>9. TurnTyped'
  BY <1>1, <1>3, <1>6, <1>8 DEF TurnTyped, ToolPhase
<1>10. ResultsSound'
  <2>1. ASSUME NEW i \in 1..n
        PROVE  u[i].id \in {NoId, calls[i].id} /\ Truthful(u[i], calls[i], recorded)
    <3>1. Truthful(results[i], calls[i], recorded)
      BY <1>1, <1>2, <1>3 DEF ResultsSound
    <3>2. u[i].id = calls[i].id /\ u[i].ok = results[i].ok /\ u[i].shown = results[i].shown
      BY <1>7
    <3> QED
      BY <3>1, <3>2, Zenon DEF Truthful
  <2> QED
    BY <1>1, <1>3, <1>6, <1>7, <1>8, <2>1 DEF ResultsSound
<1>13. NumbersSound'
  BY <1>1, <1>2, <1>3, <1>6, <1>8 DEF NumbersSound, Before
<1>11. CallSound'
  BY <1>6 DEF CallSound, InLoop
<1>12. RequestSound'
  BY <1>1, <1>6, RequestStays DEF Offered, Remembered, Prompted, ToolPhase
<1> QED
  BY <1>1, <1>9, <1>10, <1>11, <1>12, <1>13 DEF TurnSound

LEMMA LoopKeeps ==
  ASSUME ToolInvariant, LoopStep PROVE ToolInvariant'
<1>1. TurnSound' /\ LeadsSound' /\ UNCHANGED toolSources
  <2>1. CASE GenerateResponse \/ LoopExceeded \/ NextIteration
    <3>1. TurnSound' /\ UNCHANGED <<toolSources, leadRows, recorded>>
      BY <2>1, GenerateKeeps, NextIterationKeeps
    <3> QED
      BY <3>1 DEF ToolInvariant, LeadsSound
  <2>2. CASE ~(GenerateResponse \/ LoopExceeded \/ NextIteration)
    BY <2>2, LoopCallKeeps DEF LoopStep
  <2> QED
    BY <2>1, <2>2
<1>2. Others'
  BY <1>1, OthersStill
<1> QED
  BY <1>1, <1>2 DEF ToolInvariant, TurnSound, Others

\* The types and parts of the invariant hold throughout.
THEOREM ToolInvariantHolds == ToolSpec => []ToolInvariant
<1>1. ToolInvariant /\ [ToolNext]_toolVars => ToolInvariant'
  BY AroundKeeps, BuildKeeps, LoopKeeps DEF ToolNext
<1> QED
  BY <1>1, InitTool, PTL DEF ToolSpec

\* Whatever the model calls and whatever fails: a tool that tells of success has
\* changed the database, but for automations, whose errors are swallowed, and
\* one that tells of failure has not, but for a move without its movement; and
\* another firm's lead is neither moved nor scored, noted by automations alone
\* and shown by histories alone.
THEOREM ToolsStayTrue == ToolSpec => []ToolsTellTruth
<1>1. ASSUME ToolInvariant PROVE ToolsTellTruth
  <2>1. DOMAIN turn.results = 1..Len(turn.results)
    BY <1>1 DEF ToolInvariant, TurnTyped
  <2>2. \A i \in DOMAIN turn.results : Truthful(turn.results[i], turn.calls[i], recorded)
    BY <1>1, <2>1 DEF ToolInvariant, ResultsSound
  <2>3. LeadsSound
    BY <1>1 DEF ToolInvariant
  <2> QED
    BY <2>2, <2>3, Zenon DEF Truthful, LeadsSound, Elsewhere, NotedBy, ToolsTellTruth
<1> QED
  BY <1>1, ToolInvariantHolds, PTL

\* What is sent to the model holds every answer once, no message from before
\* the AI was resumed, only allowed tools and each call's result with its id.
THEOREM RequestStaysSound == ToolSpec => []RequestIsSound
<1>1. ASSUME ToolInvariant PROVE RequestIsSound
  <2>1. ToolTypeOK
    BY <1>1 DEF ToolTypeOK, ToolInvariant, RowsSoundHere, TextsSound, LeadsSound, TurnTyped, ToolPhase,
      RuleRuns
  <2>2. ASSUME turn.phase = "ask"
        PROVE  /\ LinesSound /\ MessagesSound /\ ToolsSound /\ Len(turn.results) = Len(turn.calls)
               /\ \A i \in 1..Len(turn.calls) : turn.results[i].id = turn.calls[i].id
               /\ DOMAIN turn.calls = 1..Len(turn.calls)
    BY <1>1, <2>2 DEF ToolInvariant, TurnTyped, ResultsSound, RequestSound, Offered, Remembered, Prompted, ToolPhase,
      InLoop
  <2> QED
    BY <2>1, <2>2 DEF RequestIsSound, Asks, LinesSound, MessagesSound, ToolsSound, Answers, History, Allowed
<1> QED
  BY <1>1, ToolInvariantHolds, PTL
=============================================================================
