------------------------ MODULE ConversationSession ------------------------
(***************************************************************************)
(* Conversational Engine: one conversation, its turns, its handoffs to a   *)
(* human and the relay of the answers of escalated workflows               *)
(* (core/session_manager.py, api/routes_sessions.py).                      *)
(*                                                                         *)
(* A request reads the session and saves its own copy of the status at the *)
(* end; between, it appends messages and handoff events, each in a commit  *)
(* of its own, and the count of consecutive refusals lives in Redis.       *)
(*                                                                         *)
(* Abstracted: texts (a message is its kind), emotion and wording (a turn  *)
(* may ask for a human), personas, memory, telemetry; the status "paused", *)
(* which no code sets; deletion of the session.                            *)
(***************************************************************************)
EXTENDS Naturals, Sequences, FiniteSets, SequencesExt

CONSTANTS
    ChatCalls,      \* requests about the conversation
    MaxRefusals     \* handoff after so many consecutive refusals

ASSUME ChatAssumption == ChatCalls # {} /\ MaxRefusals \in Nat \ {0}

VARIABLES
    routed,         \* settings.workflow_routing.enabled
    session,        \* the status in the session's row
    messages,       \* the messages table, in order
    handoffs,       \* the handoff events: the call whose instance is waited for, or "human"
    refusals,       \* the count in the state store
    instances,      \* workflow instances, by the turn that started them
    chat,           \* the requests
    calm            \* history: no request has died, or run beside another

chatVars == <<routed, session, messages, handoffs, refusals, instances, chat, calm>>

ChatOver == {"idle", "done", "refused", "died"}
Quiet == \A c \in ChatCalls : chat[c].at \in ChatOver

(* A request: where it is, the status it will save, its count of refusals, *)
(* the handoff event it has read.                                          *)
ChatInit ==
    /\ routed \in BOOLEAN
    /\ session = "active"
    /\ messages = <<>>
    /\ handoffs = <<>>
    /\ refusals = 0
    /\ instances = [c \in ChatCalls |-> "none"]
    /\ chat = [c \in ChatCalls |->
                 [at |-> "idle", status |-> "active", refusals |-> 0, event |-> "human"]]
    /\ calm = TRUE

Goes(c, from, to) ==
    /\ chat[c].at = from
    /\ chat' = [chat EXCEPT ![c].at = to]

Says(kind) == messages' = Append(messages, kind)

(* A request is let in by the status that it reads. *)
ReadSession(c, admitted, to) ==
    /\ chat[c].at = "idle"
    /\ chat' = [chat EXCEPT ![c].at = IF session \in admitted THEN to ELSE "refused",
                            ![c].status = session]
    /\ calm' = (calm /\ Quiet)
    /\ UNCHANGED <<routed, session, messages, handoffs, refusals, instances>>

SendMessage(c) == ReadSession(c, {"active"}, "inbound")
Resume(c) == ReadSession(c, IF routed THEN {"handed_off"} ELSE {}, "event")
RequestHandoff(c) == ReadSession(c, {"active"}, "hand off")

(* close_session: the status that it will save is another. *)
CloseSession(c) ==
    /\ chat[c].at = "idle" /\ session # "closed"
    /\ chat' = [chat EXCEPT ![c].at = "save", ![c].status = "closed"]
    /\ calm' = (calm /\ Quiet)
    /\ UNCHANGED <<routed, session, messages, handoffs, refusals, instances>>

Inbound(c) ==
    /\ Goes(c, "inbound", IF routed THEN "route" ELSE "count")
    /\ Says("inbound")
    /\ UNCHANGED <<routed, session, handoffs, refusals, instances, calm>>

(* handle_turn: the refusals so far, ... *)
ReadRefusals(c) ==
    /\ chat[c].at = "count"
    /\ chat' = [chat EXCEPT ![c].at = "reply", ![c].refusals = refusals]
    /\ UNCHANGED <<routed, session, messages, handoffs, refusals, instances, calm>>

(* the reply of the model, or a refusal by topic or guardrail, ...         *)
(* and the decision to hand off: asked for, or one refusal too many.       *)
Reply(c, kind, asked) ==
    LET count == IF kind = "refusal" THEN chat[c].refusals + 1 ELSE 0 IN
    /\ chat[c].at = "reply"
    /\ Says(kind)
    /\ chat' = [chat EXCEPT ![c].refusals = count,
         ![c].at = IF asked \/ count >= MaxRefusals THEN "escalate" ELSE "remember"]
    /\ UNCHANGED <<routed, session, handoffs, refusals, instances, calm>>

(* Bug: the event is not recorded. *)
HandOffUnrecorded(c) ==
    /\ chat[c].at \in {"escalate", "hand off"}
    /\ chat' = [chat EXCEPT ![c].status = "handed_off",
                            ![c].at = IF @ = "hand off" THEN "save" ELSE "remember"]
    /\ UNCHANGED <<routed, session, messages, handoffs, refusals, instances, calm>>

(* _trigger_handoff, of a turn or by request. *)
HandOff(c) ==
    /\ chat[c].at \in {"escalate", "hand off"}
    /\ handoffs' = Append(handoffs, "human")
    /\ chat' = [chat EXCEPT ![c].status = "handed_off",
                            ![c].at = IF @ = "hand off" THEN "save" ELSE "remember"]
    /\ UNCHANGED <<routed, session, messages, refusals, instances, calm>>

(* Bug: the count is not saved. *)
SaveRefusalsNot(c) ==
    /\ Goes(c, "remember", "save")
    /\ UNCHANGED <<routed, session, messages, handoffs, refusals, instances, calm>>

SaveRefusals(c) ==
    /\ Goes(c, "remember", "save")
    /\ refusals' = chat[c].refusals
    /\ UNCHANGED <<routed, session, messages, handoffs, instances, calm>>

(* _handle_turn_via_workflow_engine: the whole workflow is run, and ends   *)
(* or waits for a human; the user is told.                                 *)
RouteTurn(c, ending) ==
    /\ Goes(c, "route", IF ending = "paused" THEN "await" ELSE "save")
    /\ instances' = [instances EXCEPT ![c] = ending]
    /\ Says(CASE ending = "paused" -> "escalation" [] ending = "completed" -> "answer"
              [] OTHER -> "refusal")
    /\ UNCHANGED <<routed, session, handoffs, refusals, calm>>

Escalate(c) ==
    /\ chat[c].at = "await"
    /\ handoffs' = Append(handoffs, c)
    /\ chat' = [chat EXCEPT ![c].at = "save", ![c].status = "handed_off"]
    /\ UNCHANGED <<routed, session, messages, refusals, instances, calm>>

(* Human Oversight's decision lets an instance end. *)
InstanceEnds(c, ending) ==
    /\ instances[c] = "paused"
    /\ instances' = [instances EXCEPT ![c] = ending]
    /\ UNCHANGED <<routed, session, messages, handoffs, refusals, chat, calm>>

(* resume_from_workflow: the latest event, ... *)
ReadEvent(c) ==
    /\ chat[c].at = "event"
    /\ chat' = [chat EXCEPT
         ![c].at = IF handoffs = <<>> \/ Last(handoffs) = "human" THEN "refused" ELSE "poll",
         ![c].event = IF handoffs = <<>> THEN "human" ELSE Last(handoffs)]
    /\ UNCHANGED <<routed, session, messages, handoffs, refusals, instances, calm>>

(* its instance, ... *)
PollInstance(c) ==
    /\ Goes(c, "poll", IF instances[chat[c].event] = "completed" THEN "relay" ELSE "refused")
    /\ UNCHANGED <<routed, session, messages, handoffs, refusals, instances, calm>>

(* Bug: the conversation stays handed off. *)
RelayOnly(c) ==
    /\ chat[c].at = "relay"
    /\ Says("relay")
    /\ chat' = [chat EXCEPT ![c].at = "save"]
    /\ UNCHANGED <<routed, session, handoffs, refusals, instances, calm>>

(* and its answer, if it is there. *)
Relay(c) ==
    /\ chat[c].at = "relay"
    /\ Says("relay")
    /\ chat' = [chat EXCEPT ![c].at = "save", ![c].status = "active"]
    /\ UNCHANGED <<routed, session, handoffs, refusals, instances, calm>>

(* update_session, with the status of the copy. *)
SaveSession(c) ==
    /\ Goes(c, "save", "done")
    /\ session' = chat[c].status
    /\ UNCHANGED <<routed, messages, handoffs, refusals, instances, calm>>

(* A request dies, or a service that it calls does not answer. *)
ChatDies(c) ==
    /\ chat[c].at \notin ChatOver
    /\ chat' = [chat EXCEPT ![c].at = "died"]
    /\ calm' = FALSE
    /\ UNCHANGED <<routed, session, messages, handoffs, refusals, instances>>

(* The state store forgets the count (ttl_seconds). *)
StateExpires ==
    /\ refusals # 0
    /\ refusals' = 0
    /\ calm' = FALSE
    /\ UNCHANGED <<routed, session, messages, handoffs, instances, chat>>

ChatNext ==
    \/ \E c \in ChatCalls :
         \/ SendMessage(c) \/ Resume(c) \/ RequestHandoff(c) \/ CloseSession(c)
         \/ Inbound(c) \/ ReadRefusals(c) \/ HandOff(c) \/ SaveRefusals(c)
         \/ \E kind \in {"answer", "refusal"}, asked \in BOOLEAN : Reply(c, kind, asked)
         \/ \E ending \in {"paused", "completed", "failed"} : RouteTurn(c, ending)
         \/ \E ending \in {"completed", "failed"} : InstanceEnds(c, ending)
         \/ Escalate(c) \/ ReadEvent(c) \/ PollInstance(c) \/ Relay(c)
         \/ SaveSession(c) \/ ChatDies(c)
    \/ StateExpires

ChatSpec == ChatInit /\ [][ChatNext]_chatVars

-----------------------------------------------------------------------------
(* Properties.                                                             *)

(* Whatever requests race or die: a conversation that says it is handed    *)
(* off has the event that says to whom, without which no answer would ever *)
(* be relayed (core/session_manager.py:337-345).                           *)
HandedOffHasEvent == session = "handed_off" => handoffs # <<>>

(* How many messages of a kind there are, and those refusals that no other *)
(* reply has come after.                                                   *)
Said(said, kind) == Cardinality({i \in DOMAIN said : said[i] = kind})
LastRefusals(said) ==
    {i \in DOMAIN said : /\ said[i] = "refusal"
                         /\ \A j \in i..Len(said) : said[j] \in {"refusal", "inbound"}}

(* As long as requests come one after the other: the last of MaxRefusals   *)
(* refusals in a row hands the conversation off, although each turn counts *)
(* by a store of its own (core/handoff.py).                                *)
RefusalsHandOff ==
    calm /\ Quiet /\ ~routed /\ Cardinality(LastRefusals(messages)) >= MaxRefusals =>
      session # "active"

(* As long as requests come one after the other: an active conversation    *)
(* has had the answer to every escalation, one that waits for a workflow   *)
(* has not, and none is relayed twice (core/session_manager.py:321-337).   *)
EscalationsAnswered ==
    LET relays == Said(messages, "relay")
        escalations == Said(messages, "escalation")
    IN  calm => /\ relays <= escalations
                /\ Quiet /\ session = "active" => relays = escalations
                /\ Quiet /\ session = "handed_off" /\ Last(handoffs) # "human" =>
                     relays < escalations

=============================================================================
