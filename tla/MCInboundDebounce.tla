-------------------------- MODULE MCInboundDebounce --------------------------
(***************************************************************************)
(* From messages to an answer, on small instances: three messages of one   *)
(* conversation and one of another on their way to a turn, and what a turn *)
(* asks of the model and does for it. part says which.                     *)
(***************************************************************************)
EXTENDS InboundDebounce, ToolLoop, TLC

CONSTANTS
  m1, m2, m3, other, c1, c2, \* messages and conversations
  x1, x2                     \* leads, x1 of the turn's firm

VARIABLE part
mcVars == <<vars, toolVars, part>>

Conv == [m \in Message |-> IF m = other THEN c2 ELSE c1]

\* Every tool on a lead of the firm, those that touch leads on another, one
\* that is gone and one call without its arguments.
Call(t, l, c) == [tool |-> t, lead |-> l, column |-> "won", complete |-> c]
SomeCalls ==
  {Call(t, x1, TRUE) : t \in Registered \cup {"gone"}}
  \cup {Call(t, x2, TRUE) : t \in LeadWrites \cup {"get_lead_detail", "get_conversation_history", "trigger_automation"}} \cup {Call("move_lead", x1, FALSE)}
\* The tools of the second call and the second response.
Again == {"gone", "trigger_automation", "move_lead"}
SomeToolSets == {{}, {"search_leads", "move_lead", "gone"}}
Free == [forced |-> {}, restricted |-> {}]
SomeSteps ==
  {<<>>, <<Free>>,
   <<Free, [Free EXCEPT !.forced = {"search_leads"}]>>, <<Free, [Free EXCEPT !.restricted = {"move_lead"}]>>}
SomeColumns == <<"new", "won">>
Answers == (0 :> "yes") @@ (1 :> "") @@ (2 :> "maybe")

ToolParts == {"loop", "texts", "config"}

MCInit ==
  /\ part \in ToolParts \cup {"inbound"}
  /\ Init /\ ToolInit /\ (part # "config" => toolRows = {} /\ aiRow = NoConfig /\ steps = <<>>)

\* Calls on the way to an answer, or what the request is built from.
ToolPart ==
  /\ \/ BuildStep \/ LoopStep
     \/ part = "loop" /\ turn.phase # "idle" /\ DragLead(x1, "new")
     \/ /\ part = "texts" /\ turn.phase \in {"idle", "prompt", "history"}
        /\ (\E i \in 1..3 : StoreText(i, i < 3)) \/ Resume \/ Passes
     \/ /\ part = "config" /\ turn.phase \in {"idle", "prompt", "history", "tools"}
        /\ \/ \E names \in ToolSets : SetTools(names)
           \/ \E name \in ProviderNames : HandleSaveAIConfig(name)
           \/ \E list \in StepLists : EditSteps(list)
  /\ part # "loop" => turn'.round = 0
  /\ turn'.round # turn.round /\ (Len(turn'.calls) = 2 \/ turn'.round = 2) =>
       \A i \in DOMAIN turn'.calls : turn'.calls[i].tool \in Again

MCNext ==
  \/ part = "inbound" /\ Next /\ UNCHANGED <<toolVars, part>>
  \/ part \in ToolParts /\ ToolPart /\ UNCHANGED <<vars, part>>

\* Goroutines run on, timers expire, and a request to the model times out.
MCFairness ==
  /\ \A m \in Message : WF_vars(part = "inbound" /\ Handle(m)) /\ WF_vars(part = "inbound" /\ Tick(m))
  /\ WF_toolVars(part \in ToolParts /\ ToolPart /\ (BuildStep \/ LoopStep))
MCSpec == MCInit /\ [][MCNext]_mcVars /\ MCFairness
=============================================================================
