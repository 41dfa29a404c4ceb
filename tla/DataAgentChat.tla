---------------------------- MODULE DataAgentChat -----------------------------
(***************************************************************************)
(* One data agent chat: its questions, the assistant message each of them  *)
(* is given, and the SSE requests that claim a message and run the agent   *)
(* on it.  The rows live in PostgreSQL; an action is one round trip to it, *)
(* or one await on the agent's graph (DataAgentGraph says what that does). *)
(* Any client may stream any message at any time: another tab, a retry, a  *)
(* page left while the server goes on.                                     *)
(***************************************************************************)
EXTENDS Naturals, Sequences, FiniteSets

CONSTANTS
    NULL,               \* no message, no event
    Streams,            \* POST messages/:messageId/stream requests
    MaxMessages,        \* questions asked in the chat, a bound
    MaxClarifications,  \* rounds after which the planner must proceed (3)
    HistoryWindow       \* messages of the conversation the agent reads (10)

ASSUME ChatAssumption ==
    /\ MaxMessages \in Nat
    /\ MaxClarifications \in Nat \ {0}
    /\ HistoryWindow \in Nat
    /\ HistoryWindow > 2 * MaxClarifications
    /\ NULL \notin Nat \cup {"message_complete", "message_error"}

VARIABLES
    chat,           \* the chat's row exists
    answers,        \* the assistant messages, in order; question i is theirs
    stream,         \* where each request stands
    message,        \* the message it streams
    question,       \* the question it answers
    round,          \* the clarification rounds it counted
    event,          \* its last event: NULL, "message_complete", "message_error"
    owners,         \* requests that ever won a claim (history)
    saved,          \* messages whose assumptions became preferences
    outOfTurn,      \* a question was asked before the one before it had been
                    \* dealt with (history)
    abandoned,      \* messages nobody will finish (history)
    spoiled,        \* messages whose answer was taken back (history)
    crashed         \* the process was restarted (history)

request == <<stream, message, question, round, event>>
history == <<owners, outOfTurn, abandoned, spoiled, crashed>>
vars == <<chat, answers, request, saved, history>>

\* A message's status, with 'generating' split by its metadata: {} is "new",
\* {claimed: true} is "claimed".
Statuses == {"new", "claimed", "complete", "clarification_needed", "failed"}

Messages == 1..Len(answers)

\* Between a won claim and the end of the request.
Running == {"reading", "preparing", "loading", "apologising", "invoking",
            "asking", "answering", "capturing", "failing"}

Over == {"done", "dead"}

Init ==
    /\ chat = TRUE
    /\ answers = <<>>
    /\ stream = [s \in Streams |-> "new"]
    /\ message = [s \in Streams |-> NULL]
    /\ question = [s \in Streams |-> NULL]
    /\ round = [s \in Streams |-> 0]
    /\ event = [s \in Streams |-> NULL]
    /\ owners = {}
    /\ saved = {}
    /\ outOfTurn = FALSE
    /\ abandoned = {}
    /\ spoiled = {}
    /\ crashed = FALSE

-----------------------------------------------------------------------------
(* The user *)

\* createMessagePair: both messages in one transaction.
SendMessage ==
    /\ chat
    /\ Len(answers) < MaxMessages
    /\ answers' = Append(answers, "new")
    /\ outOfTurn' = (\/ outOfTurn
                     \/ \E m \in Messages : answers[m] = "new"
                     \/ \E s \in Streams : stream[s] \in Running)
    /\ UNCHANGED <<chat, request, saved, owners, abandoned, spoiled, crashed>>

\* The messages go with the chat; requests under way find no rows.
DeleteChat ==
    /\ chat
    /\ chat' = FALSE
    /\ UNCHANGED <<answers, request, saved, history>>

-----------------------------------------------------------------------------
(* A stream request *)

Goto(s, where) == stream' = [stream EXCEPT ![s] = where]

EndWith(s, e) ==
    /\ Goto(s, "done")
    /\ event' = [event EXCEPT ![s] = e]

\* findChatById throws when there is no such chat.
Arrive(s, m) ==
    /\ stream[s] = "new"
    /\ message' = [message EXCEPT ![s] = m]
    /\ IF chat THEN Goto(s, "claiming") /\ UNCHANGED event
       ELSE EndWith(s, "message_error")
    /\ UNCHANGED <<chat, answers, question, round, saved, history>>

\* Fault: any message that is generating may be claimed.
ClaimGenerating(s) ==
    /\ stream[s] = "claiming"
    /\ chat
    /\ answers[message[s]] \in {"new", "claimed"}
    /\ answers' = [answers EXCEPT ![message[s]] = "claimed"]
    /\ owners' = owners \cup {s}
    /\ Goto(s, "reading")
    /\ UNCHANGED <<chat, message, question, round, event, saved, outOfTurn,
                   abandoned, spoiled, crashed>>

\* claimMessage: one UPDATE ... WHERE generating and unclaimed; a database
\* error counts as a lost claim.
ClaimMessage(s) ==
    /\ stream[s] = "claiming"
    /\ chat
    /\ answers[message[s]] = "new"
    /\ answers' = [answers EXCEPT ![message[s]] = "claimed"]
    /\ owners' = owners \cup {s}
    /\ Goto(s, "reading")
    /\ UNCHANGED <<chat, message, question, round, event, saved, outOfTurn,
                   abandoned, spoiled, crashed>>

ClaimRefused(s) ==
    /\ stream[s] = "claiming"
    /\ EndWith(s, "message_error")
    /\ UNCHANGED <<chat, answers, message, question, round, saved, history>>

\* Fault: the question is looked up by position.
ReadPrevious(s) ==
    /\ stream[s] = "reading"
    /\ chat
    /\ question' = [question EXCEPT ![s] = message[s] - 1]
    /\ Goto(s, "preparing")
    /\ UNCHANGED <<chat, answers, message, round, event, saved, history>>

\* getLastUserMessage: the newest question of the chat, whichever message is
\* being answered.
ReadQuestion(s) ==
    /\ stream[s] = "reading"
    /\ IF chat
       THEN /\ question' = [question EXCEPT ![s] = Len(answers)]
            /\ Goto(s, "preparing")
            /\ UNCHANGED event
       ELSE EndWith(s, "message_error") /\ UNCHANGED question
    /\ UNCHANGED <<chat, answers, message, round, saved, history>>

\* executeAgent reads the chat with its ontology.
LoadChat(s) ==
    /\ stream[s] = "preparing"
    /\ chat
    /\ Goto(s, "loading")
    /\ UNCHANGED <<chat, answers, message, question, round, event, saved, history>>

Abandon(s) ==
    /\ EndWith(s, "message_error")
    /\ abandoned' = abandoned \cup {message[s]}
    /\ UNCHANGED <<chat, answers, message, question, round, saved, owners,
                   outOfTurn, spoiled, crashed>>

\* Settings, ontology, embeddings, vector search, preferences, the LLM's
\* client: what throws before graph.invoke is caught by the controller, which
\* reports it and leaves the message generating.
PrepareThrows(s) ==
    /\ stream[s] \in {"reading", "preparing", "loading"}
    /\ Abandon(s)

\* The ontology has no datasets: an apology is the answer.
NoDatasets(s) ==
    /\ stream[s] = "loading"
    /\ Goto(s, "apologising")
    /\ UNCHANGED <<chat, answers, message, question, round, event, saved, history>>

\* Messages of the history that come after answer i.
RowsAfter(i) ==
    Len(answers) - i
    + Cardinality({j \in i + 1..Len(answers) :
                      answers[j] \in {"complete", "clarification_needed"}})

\* Fault: the history is read without its clarifications.
NoClarification(slack) == 0

\* The clarifications among the last messages.  A question and its answer
\* share their creation time: on the window's edge either may come first.
ClarificationRound(slack) ==
    Cardinality({i \in Messages :
                    /\ answers[i] = "clarification_needed"
                    /\ RowsAfter(i) + slack < HistoryWindow})

LoadHistory(s) ==
    /\ stream[s] = "loading"
    /\ \E slack \in {0, 1} :
         round' = [round EXCEPT ![s] = IF chat THEN ClarificationRound(slack)
                                       ELSE 0]
    /\ Goto(s, "invoking")
    /\ UNCHANGED <<chat, answers, message, question, event, saved, history>>

\* graph.invoke: the planner asks only while it has rounds left; the graph
\* answers, or rejects.
GraphEnds(s) ==
    /\ stream[s] = "invoking"
    /\ \/ round[s] < MaxClarifications /\ Goto(s, "asking")
       \/ Goto(s, "answering")
       \/ Goto(s, "failing")
    /\ UNCHANGED <<chat, answers, message, question, round, event, saved, history>>

\* updateAssistantMessage, whatever the row's status is by now.
Write(s, status) ==
    /\ chat
    /\ answers' = [answers EXCEPT ![message[s]] = status]

\* Fault: no return after the clarification.
AskAndGoOn(s) ==
    /\ stream[s] = "asking"
    /\ Write(s, "clarification_needed")
    /\ event' = [event EXCEPT ![s] = "message_complete"]
    /\ Goto(s, "capturing")
    /\ UNCHANGED <<chat, message, question, round, saved, history>>

AskClarification(s) ==
    /\ stream[s] = "asking"
    /\ Write(s, "clarification_needed")
    /\ EndWith(s, "message_complete")
    /\ UNCHANGED <<chat, message, question, round, saved, history>>

Apologise(s) ==
    /\ stream[s] = "apologising"
    /\ Write(s, "complete")
    /\ EndWith(s, "message_complete")
    /\ UNCHANGED <<chat, message, question, round, saved, history>>

ApologyThrows(s) ==
    /\ stream[s] = "apologising"
    /\ Abandon(s)

Answer(s) ==
    /\ stream[s] = "answering"
    /\ Write(s, "complete")
    /\ event' = [event EXCEPT ![s] = "message_complete"]
    /\ Goto(s, "capturing")
    /\ UNCHANGED <<chat, message, question, round, saved, history>>

Clarifications == {i \in Messages : answers[i] = "clarification_needed"}

\* After an answer the assumptions of the chat's latest clarification become
\* preferences, unless the user's mode is "ask" or "off".
Capture(s) ==
    /\ stream[s] = "capturing"
    /\ \/ UNCHANGED saved
       \/ /\ chat
          /\ \E c \in Clarifications :
               /\ \A d \in Clarifications : d <= c
               /\ saved' = saved \cup {c}
    /\ Goto(s, "done")
    /\ UNCHANGED <<chat, answers, message, question, round, event, history>>

\* Inside the try: the row is gone, or the database fails.
ExecutionThrows(s) ==
    /\ stream[s] \in {"asking", "answering", "capturing"}
    /\ Goto(s, "failing")
    /\ UNCHANGED <<chat, answers, message, question, round, event, saved, history>>

\* Fault: the error is reported to the client only.
ReportOnly(s) ==
    /\ stream[s] = "failing"
    /\ EndWith(s, "message_error")
    /\ UNCHANGED <<chat, answers, message, question, round, saved, history>>

\* The catch overwrites the message, an answer already given included.
MarkFailed(s) ==
    /\ stream[s] = "failing"
    /\ Write(s, "failed")
    /\ spoiled' = IF event[s] = "message_complete"
                  THEN spoiled \cup {message[s]} ELSE spoiled
    /\ EndWith(s, "message_error")
    /\ UNCHANGED <<chat, message, question, round, saved, owners, outOfTurn,
                   abandoned, crashed>>

\* The catch's own write throws, which the controller catches.
MarkFailedThrows(s) ==
    /\ stream[s] = "failing"
    /\ Abandon(s)

-----------------------------------------------------------------------------

\* The process ends; nothing looks for messages left generating afterwards.
Crash ==
    /\ ~crashed
    /\ crashed' = TRUE
    /\ stream' = [s \in Streams |->
                    IF stream[s] \in Over \cup {"new"} THEN stream[s] ELSE "dead"]
    /\ abandoned' = abandoned
         \cup {message[s] : s \in {r \in Streams : stream[r] \in Running}}
    /\ UNCHANGED <<chat, answers, message, question, round, event, saved,
                   owners, outOfTurn, spoiled>>

Finished ==
    /\ \A s \in Streams : stream[s] \in Over \cup {"new"}
    /\ UNCHANGED vars

Step(s) ==
    \/ ClaimMessage(s) \/ ClaimRefused(s) \/ ReadQuestion(s) \/ LoadChat(s)
    \/ PrepareThrows(s) \/ NoDatasets(s) \/ LoadHistory(s) \/ GraphEnds(s)
    \/ AskClarification(s) \/ Apologise(s) \/ ApologyThrows(s) \/ Answer(s)
    \/ Capture(s) \/ ExecutionThrows(s) \/ MarkFailed(s) \/ MarkFailedThrows(s)

Next ==
    \/ SendMessage
    \/ DeleteChat
    \/ \E s \in Streams, m \in Messages : Arrive(s, m)
    \/ \E s \in Streams : Step(s)
    \/ Crash
    \/ Finished

\* A request that has arrived goes on: every await ends, one way or another.
Spec == Init /\ [][Next]_vars /\ \A s \in Streams : WF_vars(Step(s))

-----------------------------------------------------------------------------
(* Properties *)

\* Rows and requests keep the values the schema and the handlers give them.
TypeOK ==
    /\ chat \in BOOLEAN
    /\ answers \in Seq(Statuses)
    /\ stream \in [Streams -> {"new", "claiming"} \cup Running \cup Over]
    /\ message \in [Streams -> Messages \cup {NULL}]
    /\ \A s \in Streams : message[s] = NULL <=> stream[s] = "new"
    /\ question \in [Streams -> Messages \cup {NULL}]
    /\ round \in [Streams -> 0..Len(answers)]
    /\ event \in [Streams -> {NULL, "message_complete", "message_error"}]
    /\ owners \subseteq Streams
    /\ saved \subseteq Messages
    /\ outOfTurn \in BOOLEAN
    /\ abandoned \subseteq Messages
    /\ spoiled \subseteq Messages
    /\ crashed \in BOOLEAN

\* "Atomic claim check prevents duplicate agent execution for same messageId",
\* over retries, several tabs and restarts.
AnsweredOnce ==
    \A s, r \in owners : message[s] = message[r] => s = r

\* What the client was told last and what it finds when it reloads agree: a
\* completed message has its answer, a failed one has none, unless the
\* message was abandoned.
EventAgreesWithRow ==
    \A s \in owners :
        LET status == answers[message[s]]
        IN  chat =>
            /\ event[s] = "message_complete" =>
                 status \in {"complete", "clarification_needed"}
            /\ event[s] = "message_error" =>
                 status = "failed" \/ message[s] \in abandoned

\* A message that was answered keeps its answer; only the failure of the
\* preference capture that follows it takes one back.
AnswersAreKept ==
    [][\A m \in Messages :
         (answers[m] \in {"complete", "clarification_needed"}
            /\ answers'[m] # answers[m])
         => m \in spoiled' /\ answers'[m] = "failed"]_vars

\* As long as every question is answered before the next one, the user
\* is not asked back more often in a row than the planner's limit, although
\* each request counts the rounds anew from a window of the history.
ClarificationsBounded ==
    outOfTurn \/ \A m \in Messages :
        \E k \in m..m + MaxClarifications : k \notin Clarifications

\* As long as questions are answered one by one, as they are asked, assumptions become
\* preferences only after the user went on and a later question was answered.
CapturedAfterFollowUp ==
    \A c \in saved :
        \/ outOfTurn
        \/ \E m \in Messages : m > c /\ answers[m] = "complete"

\* A claimed message gets its final status, unless its request threw before
\* the agent's own error handling began, the write of the failure failed, or
\* the process ended; nothing sweeps such messages up.
MessageSettles ==
    \A m \in 1..MaxMessages :
        LET Claimed == m \in Messages /\ answers[m] = "claimed"
        IN  Claimed ~> (~Claimed \/ ~chat \/ m \in abandoned)

\* What MessageSettles rests on: a message that is claimed is in the hands of
\* a request that has still to write its status.
ClaimedIsAttended ==
    chat => \A m \in Messages : answers[m] = "claimed" =>
        \/ m \in abandoned
        \/ \E s \in owners : message[s] = m
                               /\ stream[s] \in Running \ {"capturing"}

\* data-agent.service.ts on getLastUserMessage: it retrieves the question that
\* triggered an assistant placeholder.
AnswersOwnQuestion ==
    \A s \in Streams : question[s] # NULL => question[s] = message[s]

-----------------------------------------------------------------------------
(* Each message as a piece of claimed work *)

StageOf(m) ==
    IF ~chat THEN "gone"
    ELSE IF m \notin Messages THEN "absent"
    ELSE IF answers[m] = "new" THEN "open"
    ELSE IF answers[m] = "claimed" THEN "claimed"
    ELSE "over"

WorkOf(m) == INSTANCE ClaimedWork
                WITH Workers <- Streams, Withdrawable <- FALSE,
                     stage <- StageOf(m),
                     worker <- {s \in owners : message[s] = m}

\* What ClaimedWork promises, of every message the chat ever holds: one request
\* claims it, and once answered, failed or deleted it is not claimed again.
WorkSpecs ==
    /\ \A m \in 1..MaxMessages : WorkOf(m)!Init
    /\ [][\A m \in 1..MaxMessages : [WorkOf(m)!Next]_(WorkOf(m)!vars)]_vars
=============================================================================
