------------------------------- MODULE Assistant -------------------------------
(***************************************************************************)
(* A user's conversation with the assistant about an incident, composed with *)
(* the analysis that gives the assistant its context and with the trash,     *)
(* which takes the conversation away with the incident.                      *)
(*                                                                         *)
(* A request stores the question, waits for the model service, and stores     *)
(* the reply.  The requests of the conversation are served beside the others. *)
(***************************************************************************)
EXTENDS Analysis, Sequences

CONSTANTS Askers,       \* the threads that serve the user's questions
          Questions     \* the questions asked at most (a bound of the model)

ASSUME QuestionsAssumption == Questions \in Nat

VARIABLES chat,         \* the roles of the conversation's messages, in order
          ask,          \* where each request is
          calls,        \* history: how many requests the model service was sent
          wiped         \* history: the incident was deleted with the conversation

chatVars == <<chat, ask, calls, wiped>>
assistVars == <<anVars, chatVars>>

AssistInit == /\ AnInit /\ chat = <<>> /\ calls = 0 /\ wiped = FALSE
              /\ ask = [s \in Askers |-> "idle"]

Count(role) == Cardinality({i \in DOMAIN chat : chat[i] = role})
Goes(s, at) == ask' = [ask EXCEPT ![s] = at]

-----------------------------------------------------------------------------
(* POST /incidents/<id>/chat/.                                             *)

\* A question is taken once the analysis has left a result, also while another one runs.
AskQuestion(s) ==
    /\ ask[s] = "idle" /\ Exists /\ Analysed /\ prediction.result # None
    /\ calls < Questions
    /\ Goes(s, "question") /\ UNCHANGED <<anVars, chat, calls, wiped>>

\* A message that is stored; it belongs to the incident.
Store(role) == chat' = IF Exists THEN Append(chat, role) ELSE chat
\* "Persist the user message before calling the LLM".
\* Faulty variant: question and reply are stored together, when the service has answered.
CallService(s) == Goes(s, "asking") /\ calls' = calls + 1
SaveQuestionLater(s) ==
    ask[s] = "question" /\ CallService(s) /\ UNCHANGED <<anVars, chat, wiped>>
SaveQuestion(s) ==
    /\ ask[s] = "question" /\ Store("user")
    /\ IF Exists THEN CallService(s) ELSE Goes(s, "idle") /\ UNCHANGED calls
    /\ UNCHANGED <<anVars, wiped>>
\* An exception is answered with 502, and the question stays without a reply.
ServiceFails(s) == /\ ask[s] = "asking" /\ Goes(s, "idle")
                   /\ UNCHANGED <<anVars, chat, calls, wiped>>
SaveReply(s) == /\ ask[s] = "asking" /\ Store("assistant") /\ Goes(s, "idle")
                /\ UNCHANGED <<anVars, calls, wiped>>
AskerDies(s) == /\ ask[s] # "idle" /\ Goes(s, "idle")
                /\ UNCHANGED <<anVars, chat, calls, wiped>>

AskSteps(s) == SaveQuestion(s) \/ ServiceFails(s) \/ SaveReply(s)

\* A step of the rest of the system; an incident that is deleted takes the chat with it.
AnStep == /\ AnNext /\ UNCHANGED <<ask, calls>>
          /\ IF Exists /\ incident' = None THEN chat' = <<>> /\ wiped' = TRUE
             ELSE UNCHANGED <<chat, wiped>>

AssistNext == AnStep \/ \E s \in Askers : AskQuestion(s) \/ AskSteps(s) \/ AskerDies(s)
AssistSpec == AssistInit /\ [][AssistNext]_assistVars
\* Nothing is asked of the assistant: what must happen happens without it.
AssistFairSpec == AssistSpec /\ AnFairness

-----------------------------------------------------------------------------
(* Properties.                                                             *)

\* "the question is never lost even if the LLM call fails": as long as the incident has
\* not been deleted, every question that the service was sent is in the conversation, and
\* no reply stands there before its question; failures, dying requests, a relaunched
\* analysis and questions asked at the same time included.
QuestionKept ==
    ~wiped => /\ Count("user") >= calls
              /\ \A i \in DOMAIN chat :
                   Cardinality({k \in 1 .. i : chat[k] = "assistant"})
                     <= Cardinality({k \in 1 .. i : chat[k] = "user"})
=============================================================================
