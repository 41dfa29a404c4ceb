-------------------------- MODULE DataAgentChat_proofs --------------------------
(***************************************************************************)
(* Proofs about data agent chats, for any number of questions, requests    *)
(* and clarification rounds.  A message that was claimed is not new, so    *)
(* its request is the only one that ever writes it (Served); what it was   *)
(* told, what it may overwrite and ClaimedWork follow.  As long as         *)
(* questions are answered one by one, a request that may still ask has an  *)
(* answer among the last messages (RoomToAsk), because the window it       *)
(* counted the rounds in reaches back far enough (WindowReaches).  A       *)
(* message that stays claimed has its request, until it is abandoned       *)
(* (Attended).                                                             *)
(***************************************************************************)
EXTENDS DataAgentChat, SequenceTheorems, FiniteSetTheorems, TLAPS

\* What sending a question records, and what it therefore finds if in turn: no
\* message to claim and no request under way.
LEMMA TurnIsRecorded ==
    SendMessage
    => outOfTurn' = (\/ outOfTurn
                     \/ \E m \in Messages : answers[m] = "new"
                     \/ \E s \in Streams : stream[s] \in Running)
BY Zenon DEF SendMessage

LEMMA AskedInTurn ==
    ASSUME SendMessage, outOfTurn \in BOOLEAN, ~outOfTurn'
    PROVE  /\ ~outOfTurn
           /\ \A m \in Messages : answers[m] # "new"
           /\ \A s \in Streams : stream[s] \notin Running
BY TurnIsRecorded, Zenon

USE DEF request, history

Answered == {"complete", "clarification_needed"}

LEMMA MessagesAreNumbers == TypeOK => Len(answers) \in Nat /\ Messages \subseteq Nat
BY LenProperties DEF TypeOK, Messages

\* What an update of an assistant message does to the chat.
LEMMA WriteAnswers ==
    ASSUME TypeOK, NEW s \in Streams, message[s] \in Messages,
           NEW status \in Statuses, answers' = [answers EXCEPT ![message[s]] = status]
    PROVE  /\ answers' \in Seq(Statuses) /\ Messages' = Messages
           /\ Len(answers') = Len(answers)
           /\ answers'[message[s]] = status
           /\ \A m \in Messages : m # message[s] => answers'[m] = answers[m]
<1>1. answers \in Seq(Statuses) /\ message[s] \in 1..Len(answers)
  BY DEF TypeOK, Messages
<1>2. /\ answers' \in Seq(Statuses) /\ Len(answers') = Len(answers)
      /\ \A m \in 1..Len(answers) :
            answers'[m] = IF m = message[s] THEN status ELSE answers[m]
  BY <1>1, ExceptSeq DEF Messages
<1> QED
  BY <1>1, <1>2 DEF Messages

\* A new question changes none of the messages before it.
LEMMA AppendAnswers ==
    ASSUME TypeOK, answers' = Append(answers, "new")
    PROVE  /\ answers' \in Seq(Statuses) /\ Messages \subseteq Messages'
           /\ Len(answers') = Len(answers) + 1
           /\ \A m \in Messages : answers'[m] = answers[m]
<1>1. answers \in Seq(Statuses) /\ "new" \in Statuses
  BY DEF TypeOK, Statuses
<1>2. /\ answers' \in Seq(Statuses) /\ Len(answers') = Len(answers) + 1
      /\ \A m \in 1..Len(answers) : answers'[m] = answers[m]
  BY <1>1, AppendProperties
<1>3. Len(answers) \in Nat
  BY MessagesAreNumbers
<1> QED
  BY <1>2, <1>3 DEF Messages

\* However the history is cut, no more rounds are counted than there are messages.
LEMMA RoundsBounded ==
    ASSUME TypeOK, NEW slack \in {0, 1}
    PROVE  ClarificationRound(slack) \in 0..Len(answers)
<1> DEFINE Rounds == {i \in Messages : /\ answers[i] = "clarification_needed"
                                       /\ RowsAfter(i) + slack < HistoryWindow}
<1>1. Len(answers) \in Nat
  BY MessagesAreNumbers
<1>2. IsFiniteSet(Messages) /\ Cardinality(Messages) = Len(answers)
  BY <1>1, FS_Interval DEF Messages
<1>3. IsFiniteSet(Rounds) /\ Cardinality(Rounds) <= Cardinality(Messages)
  BY <1>2, FS_Subset
<1>4. Cardinality(Rounds) \in Nat
  BY <1>3, FS_CardinalityType
<1> QED
  BY <1>1, <1>2, <1>3, <1>4 DEF ClarificationRound

LEMMA InitTypes == Init => TypeOK
<1> SUFFICES ASSUME Init PROVE TypeOK
  OBVIOUS
<1>1. answers \in Seq(Statuses) /\ Len(answers) = 0
  BY EmptySeq DEF Init
<1>2. round \in [Streams -> 0..Len(answers)]
  BY <1>1 DEF Init
<1> QED
  BY <1>1, <1>2 DEF Init, TypeOK

LEMMA RequestTypes ==
    ASSUME TypeOK, NEW s \in Streams, Step(s) PROVE TypeOK'
<1>1. stream[s] # "new" /\ message[s] \in Messages
  BY DEF TypeOK, Step, ClaimMessage, ClaimRefused, ReadQuestion, LoadChat, PrepareThrows,
         NoDatasets, LoadHistory, GraphEnds, AskClarification, Apologise,
         ApologyThrows, Answer, Capture, ExecutionThrows, MarkFailed, MarkFailedThrows
<1>2. Len(answers) \in Nat /\ Len(answers) \in Messages
  BY <1>1, MessagesAreNumbers DEF Messages
<1>3. ASSUME NEW status \in Statuses,
             answers' = [answers EXCEPT ![message[s]] = status]
      PROVE  /\ answers' \in Seq(Statuses) /\ Messages' = Messages
             /\ Len(answers') = Len(answers)
  BY <1>1, <1>3, WriteAnswers
<1>4. CASE ClaimMessage(s)
  <2>1. /\ answers' \in Seq(Statuses) /\ Messages' = Messages
        /\ Len(answers') = Len(answers)
    BY <1>3, <1>4 DEF ClaimMessage, Statuses
  <2> QED
    BY <1>4, <2>1 DEF ClaimMessage, Goto, TypeOK, Running
<1>5. CASE ClaimRefused(s)
  BY <1>5 DEF ClaimRefused, EndWith, Goto, TypeOK, Messages, Over
<1>6. CASE ReadQuestion(s)
  BY <1>2, <1>6 DEF ReadQuestion, EndWith, Goto, TypeOK, Messages, Over, Running
<1>7. CASE LoadChat(s) \/ NoDatasets(s) \/ GraphEnds(s) \/ ExecutionThrows(s)
  <2>1. UNCHANGED <<chat, answers, message, question, round, event, saved, history>>
    BY <1>7 DEF LoadChat, NoDatasets, GraphEnds, ExecutionThrows
  <2>2. stream' \in [Streams -> {"new", "claiming"} \cup Running \cup Over]
        /\ stream'[s] # "new" /\ \A r \in Streams : r # s => stream'[r] = stream[r]
    BY <1>7 DEF LoadChat, NoDatasets, GraphEnds, ExecutionThrows, Goto, TypeOK, Running
  <2> QED
    BY <1>1, <2>1, <2>2 DEF TypeOK, Messages
<1>8. CASE PrepareThrows(s) \/ ApologyThrows(s) \/ MarkFailedThrows(s)
  BY <1>1, <1>8
  DEF PrepareThrows, ApologyThrows, MarkFailedThrows, Abandon, EndWith, Goto, TypeOK,
      Messages, Over
<1>9. CASE LoadHistory(s)
  <2>1. round' \in [Streams -> 0..Len(answers)]
    BY <1>2, <1>9, RoundsBounded DEF LoadHistory, TypeOK
  <2> QED
    BY <1>9, <2>1 DEF LoadHistory, Goto, TypeOK, Messages, Running
<1>10. CASE AskClarification(s) \/ Apologise(s)
  <2>1. /\ answers' \in Seq(Statuses) /\ Messages' = Messages
        /\ Len(answers') = Len(answers)
    BY <1>3, <1>10 DEF AskClarification, Apologise, Write, Statuses
  <2> QED
    BY <1>10, <2>1 DEF AskClarification, Apologise, EndWith, Goto, TypeOK, Over
<1>11. CASE Answer(s)
  <2>1. /\ answers' \in Seq(Statuses) /\ Messages' = Messages
        /\ Len(answers') = Len(answers)
    BY <1>3, <1>11 DEF Answer, Write, Statuses
  <2> QED
    BY <1>11, <2>1 DEF Answer, Goto, TypeOK, Running
<1>12. CASE Capture(s)
  <2>1. saved' \subseteq Messages
    BY <1>12 DEF Capture, Clarifications, TypeOK
  <2> QED
    BY <1>12, <2>1 DEF Capture, Goto, TypeOK, Messages, Over
<1>13. CASE MarkFailed(s)
  <2>1. /\ answers' \in Seq(Statuses) /\ Messages' = Messages
        /\ Len(answers') = Len(answers)
    BY <1>3, <1>13 DEF MarkFailed, Write, Statuses
  <2> QED
    BY <1>1, <1>13, <2>1 DEF MarkFailed, EndWith, Goto, TypeOK, Over
<1> QED
  BY <1>4, <1>5, <1>6, <1>7, <1>8, <1>9, <1>10, <1>11, <1>12, <1>13 DEF Step

LEMMA StepTypes == TypeOK /\ [Next]_vars => TypeOK'
<1> SUFFICES ASSUME TypeOK, [Next]_vars PROVE TypeOK'
  OBVIOUS
<1>1. CASE SendMessage
  <2>1. /\ answers' \in Seq(Statuses) /\ Messages \subseteq Messages'
        /\ Len(answers') = Len(answers) + 1 /\ Len(answers) \in Nat
    BY <1>1, AppendAnswers, MessagesAreNumbers DEF SendMessage
  <2>2. message' \in [Streams -> Messages' \cup {NULL}]
        /\ question' \in [Streams -> Messages' \cup {NULL}]
    BY <1>1, <2>1 DEF SendMessage, TypeOK
  <2>3. 0..Len(answers) \subseteq 0..Len(answers')
    BY <2>1
  <2>4. round' \in [Streams -> 0..Len(answers')]
    BY <1>1, <2>3 DEF SendMessage, TypeOK
  <2>5. saved' \subseteq Messages' /\ abandoned' \subseteq Messages'
        /\ spoiled' \subseteq Messages' /\ outOfTurn' \in BOOLEAN
    BY <1>1, <2>1 DEF SendMessage, TypeOK
  <2> QED
    BY <1>1, <2>1, <2>2, <2>4, <2>5 DEF SendMessage, TypeOK
<1>2. CASE DeleteChat
  BY <1>2 DEF DeleteChat, TypeOK, Messages
<1>3. ASSUME NEW s \in Streams, NEW m \in Messages, Arrive(s, m) PROVE TypeOK'
  <2>1. m # NULL
    BY MessagesAreNumbers, ChatAssumption
  <2> QED
    BY <1>3, <2>1 DEF Arrive, EndWith, Goto, TypeOK, Messages, Over
<1>4. CASE Crash
  <2>1. {message[s] : s \in {r \in Streams : stream[r] \in Running}} \subseteq Messages
    BY DEF TypeOK, Running
  <2> QED
    BY <1>4, <2>1 DEF Crash, TypeOK, Messages, Over
<1>5. CASE Finished \/ UNCHANGED vars
  BY <1>5 DEF Finished, vars, TypeOK, Messages
<1> QED
  BY <1>1, <1>2, <1>3, <1>4, <1>5, RequestTypes DEF Next

\* Rows and requests keep the values the schema and the handlers give them.
THEOREM Typing == Spec => []TypeOK
BY InitTypes, StepTypes, PTL DEF Spec

-----------------------------------------------------------------------------
(* A message and the one request that serves it *)

\* Each owner has a message of its own, which it has left claimed as long as it
\* told the client nothing.
Served ==
    /\ \A s \in Streams : stream[s] \in Running => s \in owners
    /\ \A s \in owners : stream[s] \in Running \cup Over
    /\ \A s \in owners : answers[message[s]] # "new"
    /\ AnsweredOnce
    /\ \A s \in Streams :
         /\ stream[s] \in {"new", "claiming"} => event[s] = NULL
         /\ stream[s] \in Running => event[s] # "message_error"
         /\ stream[s] \in Running \ {"capturing", "failing"} => event[s] = NULL
         /\ stream[s] \in Running /\ event[s] = NULL
              => answers[message[s]] = "claimed"

Told ==
    \A s \in owners :
        /\ event[s] = "message_complete" => answers[message[s]] \in Answered
        /\ event[s] = "message_error" /\ chat
             => answers[message[s]] = "failed" \/ message[s] \in abandoned

LEMMA InitServed == Init => Served /\ Told
BY DEF Init, Served, Told, AnsweredOnce, Running

\* A request that writes no message, and ends with an error only over a deleted
\* chat or an abandoned message, or before it owned one.
LEMMA QuietStep ==
    ASSUME TypeOK, Served, Told, NEW s \in Streams,
           UNCHANGED <<chat, answers, message, owners>>,
           abandoned \subseteq abandoned',
           stream[s] \notin Over,
           NEW where, stream' = [stream EXCEPT ![s] = where],
           where \in Over \/ (where \in Running /\ stream[s] \in Running),
           \/ event' = event /\ (where \in Running \ {"capturing", "failing"}
                                 => event[s] = NULL)
           \/ /\ event' = [event EXCEPT ![s] = "message_error"]
              /\ where \in Over
              /\ stream[s] = "claiming" \/ ~chat \/ message[s] \in abandoned'
    PROVE  Served' /\ Told'
<1>1. \A r \in Streams : r # s => stream'[r] = stream[r] /\ event'[r] = event[r]
  BY DEF TypeOK
<1>2. stream'[s] = where /\ Running \cap Over = {} /\ where \notin {"new", "claiming"}
  BY DEF TypeOK, Running, Over
<1>3. event'[s] = event[s] \/ (event'[s] = "message_error" /\ where \in Over)
  BY DEF TypeOK
<1>4. stream[s] = "claiming" => s \notin owners
  BY DEF Served, Running, Over
<1>5. owners \subseteq Streams
  BY DEF TypeOK
<1>6. Served'
  BY <1>1, <1>2, <1>3, <1>5 DEF Served, AnsweredOnce
<1>7. Told'
  <2> SUFFICES ASSUME NEW r \in owners
               PROVE  /\ event'[r] = "message_complete" => answers[message[r]] \in Answered
                      /\ event'[r] = "message_error" /\ chat
                           => answers[message[r]] = "failed" \/ message[r] \in abandoned'
    BY DEF Told
  <2>1. CASE r # s
    BY <1>1, <1>5, <2>1 DEF Told
  <2>2. CASE r = s
    BY <1>3, <1>4, <2>2, <1>5 DEF Told, TypeOK
  <2> QED
    BY <2>1, <2>2
<1> QED
  BY <1>6, <1>7

\* The owner writes its message and says so.
LEMMA WritingStep ==
    ASSUME TypeOK, Served, Told, NEW s \in Streams, stream[s] \in Running,
           UNCHANGED <<chat, message, owners>>, abandoned' = abandoned,
           NEW status \in {"complete", "clarification_needed", "failed"},
           answers' = [answers EXCEPT ![message[s]] = status],
           NEW where \in {"done", "capturing"},
           stream' = [stream EXCEPT ![s] = where],
           event' = [event EXCEPT ![s] = IF status = "failed" THEN "message_error"
                                         ELSE "message_complete"],
           status = "failed" => where = "done"
    PROVE  Served' /\ Told'
<1>1. s \in owners /\ message[s] \in Messages /\ owners \subseteq Streams
  BY DEF Served, TypeOK, Running
<1>2. status \in Statuses
  BY DEF Statuses
<1>3. /\ answers'[message[s]] = status /\ Messages' = Messages
      /\ \A m \in Messages : m # message[s] => answers'[m] = answers[m]
  BY <1>1, <1>2, WriteAnswers
<1>4. \A r \in owners : message[r] \in Messages /\ (r # s => message[r] # message[s])
  BY <1>1 DEF Served, AnsweredOnce, TypeOK, Running, Over
<1>5. \A r \in Streams : r # s => stream'[r] = stream[r] /\ event'[r] = event[r]
  BY DEF TypeOK
<1>6. /\ stream'[s] = where
      /\ event'[s] = IF status = "failed" THEN "message_error" ELSE "message_complete"
  BY DEF TypeOK
<1>7. NULL \notin {"message_complete", "message_error"}
  BY ChatAssumption
<1>8. Served'
  BY <1>1, <1>3, <1>4, <1>5, <1>6, <1>7 DEF Served, AnsweredOnce, Running, Over
<1>9. Told'
  BY <1>1, <1>3, <1>4, <1>5, <1>6 DEF Told, Answered
<1> QED
  BY <1>8, <1>9

LEMMA RequestServed ==
    ASSUME TypeOK, Served, Told, NEW s \in Streams, Step(s) PROVE Served' /\ Told'
<1>1. CASE ClaimMessage(s)
  <2>1. /\ message[s] \in Messages /\ s \notin owners /\ event[s] = NULL
        /\ owners \subseteq Streams /\ "claimed" \in Statuses
    BY <1>1 DEF ClaimMessage, TypeOK, Served, Running, Over, Statuses
  <2>2. /\ answers'[message[s]] = "claimed" /\ Messages' = Messages
        /\ \A m \in Messages : m # message[s] => answers'[m] = answers[m]
    BY <1>1, <2>1, WriteAnswers DEF ClaimMessage
  <2>3. \A r \in owners : message[r] \in Messages /\ message[r] # message[s]
    BY <1>1, <2>1 DEF ClaimMessage, Served, TypeOK, Running, Over
  <2>4. /\ message' = message /\ event' = event /\ owners' = owners \cup {s}
        /\ chat' = chat /\ abandoned' = abandoned
        /\ stream'[s] = "reading" /\ \A r \in Streams : r # s => stream'[r] = stream[r]
    BY <1>1 DEF ClaimMessage, Goto, TypeOK
  <2>5. Served'
    BY <2>1, <2>2, <2>3, <2>4, ChatAssumption DEF Served, AnsweredOnce, Running
  <2>6. Told'
    BY <2>1, <2>2, <2>3, <2>4, ChatAssumption DEF Told
  <2> QED
    BY <2>5, <2>6
<1>2. CASE ClaimRefused(s)
  BY <1>2, QuietStep DEF ClaimRefused, EndWith, Goto, Over
<1>3. CASE ReadQuestion(s)
  <2>1. CASE chat
    BY <1>3, <2>1, QuietStep DEF ReadQuestion, Goto, Running, Over, Served
  <2>2. CASE ~chat
    BY <1>3, <2>2, QuietStep DEF ReadQuestion, EndWith, Goto, Over
  <2> QED
    BY <2>1, <2>2
<1>4. CASE LoadChat(s) \/ NoDatasets(s) \/ LoadHistory(s)
  BY <1>4, QuietStep DEF LoadChat, NoDatasets, LoadHistory, Goto, Running, Over, Served
<1>5. CASE GraphEnds(s)
  BY <1>5, QuietStep DEF GraphEnds, Goto, Running, Over, Served
<1>6. CASE ExecutionThrows(s)
  BY <1>6, QuietStep DEF ExecutionThrows, Goto, Running, Over
<1>7. CASE PrepareThrows(s) \/ ApologyThrows(s) \/ MarkFailedThrows(s)
  BY <1>7, QuietStep
  DEF PrepareThrows, ApologyThrows, MarkFailedThrows, Abandon, EndWith, Goto, Over
<1>8. CASE Capture(s)
  <2>1. /\ UNCHANGED <<chat, answers, message, owners, event, abandoned>>
        /\ stream[s] = "capturing" /\ stream' = [stream EXCEPT ![s] = "done"]
    BY <1>8 DEF Capture, Goto
  <2>2. "done" \in Over /\ "done" \notin Running /\ "capturing" \notin Over
    BY DEF Over, Running
  <2> QED
    BY <2>1, <2>2, QuietStep
<1>9. CASE AskClarification(s)
  BY <1>9, WritingStep DEF AskClarification, Write, EndWith, Goto, Running
<1>10. CASE Apologise(s)
  BY <1>10, WritingStep DEF Apologise, Write, EndWith, Goto, Running
<1>11. CASE Answer(s)
  BY <1>11, WritingStep DEF Answer, Write, Goto, Running
<1>12. CASE MarkFailed(s)
  BY <1>12, WritingStep DEF MarkFailed, Write, EndWith, Goto, Running
<1> QED
  BY <1>1, <1>2, <1>3, <1>4, <1>5, <1>6, <1>7, <1>8, <1>9, <1>10, <1>11, <1>12
  DEF Step

LEMMA StepServed ==
    TypeOK /\ Served /\ Told /\ [Next]_vars => Served' /\ Told'
<1> SUFFICES ASSUME TypeOK, Served, Told, [Next]_vars PROVE Served' /\ Told'
  OBVIOUS
<1>0. \A s \in Streams : /\ s \in owners \/ stream[s] \in Running => message[s] \in Messages
  BY DEF Served, TypeOK, Running, Over
<1>1. CASE SendMessage
  <2>1. \A m \in Messages : answers'[m] = answers[m]
    BY <1>1, AppendAnswers DEF SendMessage
  <2>2. UNCHANGED <<chat, request, owners, abandoned>> /\ owners \subseteq Streams
    BY <1>1 DEF SendMessage, TypeOK
  <2> QED
    BY <1>0, <2>1, <2>2 DEF Served, Told, AnsweredOnce
<1>2. CASE DeleteChat
  BY <1>2 DEF DeleteChat, Served, Told, AnsweredOnce
<1>3. ASSUME NEW s \in Streams, NEW m \in Messages, Arrive(s, m)
      PROVE  Served' /\ Told'
  <2>1. /\ s \notin owners /\ event[s] = NULL /\ owners \subseteq Streams
    BY <1>3 DEF Arrive, Served, Running, Over, TypeOK
  <2>2. /\ \A r \in Streams : r # s => /\ stream'[r] = stream[r] /\ event'[r] = event[r]
                                       /\ message'[r] = message[r]
        /\ \/ stream'[s] = "claiming" /\ event'[s] = NULL
           \/ stream'[s] = "done"
        /\ UNCHANGED <<chat, answers, owners, abandoned>>
    BY <1>3, <2>1 DEF Arrive, EndWith, Goto, TypeOK
  <2> QED
    BY <2>1, <2>2 DEF Served, Told, AnsweredOnce, Running, Over
<1>4. CASE Crash
  <2>1. /\ \A s \in Streams :
              stream'[s] = IF stream[s] \in Over \cup {"new"} THEN stream[s] ELSE "dead"
        /\ UNCHANGED <<chat, answers, message, event, owners>>
        /\ abandoned \subseteq abandoned' /\ owners \subseteq Streams
    BY <1>4 DEF Crash, TypeOK
  <2>2. Served'
    BY <2>1 DEF Served, AnsweredOnce, Running, Over
  <2>3. Told'
    BY <2>1 DEF Told
  <2> QED
    BY <2>2, <2>3
<1>5. CASE Finished \/ UNCHANGED vars
  BY <1>5 DEF Finished, vars, Served, Told, AnsweredOnce
<1> QED
  BY <1>1, <1>2, <1>3, <1>4, <1>5, RequestServed DEF Next

\* data-agent.service.ts claimMessage: no two requests ever answer one message.
THEOREM MessagesAnsweredOnce == Spec => []AnsweredOnce
<1>1. Served => AnsweredOnce
  BY DEF Served
<1> QED
  BY <1>1, InitTypes, StepTypes, InitServed, StepServed, PTL DEF Spec

\* agent-stream.controller.ts: what the client was told last and what it finds
\* when it reloads agree.
THEOREM EventsAgree == Spec => []EventAgreesWithRow
<1>1. Told => EventAgreesWithRow
  BY DEF Told, EventAgreesWithRow, Answered
<1> QED
  BY <1>1, InitTypes, StepTypes, InitServed, StepServed, PTL DEF Spec

-----------------------------------------------------------------------------
(* Answers *)

LEMMA StepKeeps ==
    TypeOK /\ Served /\ [Next]_vars
    => [\A m \in Messages :
          (answers[m] \in {"complete", "clarification_needed"}
             /\ answers'[m] # answers[m])
          => m \in spoiled' /\ answers'[m] = "failed"]_vars
<1> SUFFICES ASSUME TypeOK, Served, Next, NEW m \in Messages,
                    answers[m] \in {"complete", "clarification_needed"},
                    answers'[m] # answers[m]
             PROVE  m \in spoiled' /\ answers'[m] = "failed"
  BY DEF vars
<1>1. ~SendMessage
  BY AppendAnswers DEF SendMessage
<1>2. ASSUME NEW s \in Streams, NEW status \in Statuses, message[s] \in Messages,
             answers' = [answers EXCEPT ![message[s]] = status]
      PROVE  m = message[s] /\ answers'[m] = status
  BY <1>2, WriteAnswers
<1>3. ASSUME NEW s \in Streams, ClaimMessage(s) PROVE FALSE
  <2>1. message[s] \in Messages
    BY <1>3 DEF ClaimMessage, TypeOK
  <2>2. m = message[s]
    BY <1>2, <1>3, <2>1 DEF ClaimMessage, Statuses
  <2> QED
    BY <1>3, <2>2 DEF ClaimMessage
<1>4. ASSUME NEW s \in Streams, AskClarification(s) \/ Apologise(s) \/ Answer(s)
      PROVE  FALSE
  <2>1. message[s] \in Messages /\ answers[message[s]] = "claimed"
    BY <1>4 DEF AskClarification, Apologise, Answer, TypeOK, Served, Running
  <2>2. m = message[s]
    BY <1>2, <1>4, <2>1 DEF AskClarification, Apologise, Answer, Write, Statuses
  <2> QED
    BY <2>1, <2>2
<1>5. ASSUME NEW s \in Streams, MarkFailed(s)
      PROVE  m \in spoiled' /\ answers'[m] = "failed"
  <2>1. message[s] \in Messages /\ stream[s] \in Running
    BY <1>5 DEF MarkFailed, TypeOK, Running
  <2>2. m = message[s] /\ answers'[m] = "failed"
    BY <1>2, <1>5, <2>1 DEF MarkFailed, Write, Statuses
  <2>3. event[s] = "message_complete"
    BY <2>1, <2>2 DEF Served, TypeOK
  <2> QED
    BY <1>5, <2>2, <2>3 DEF MarkFailed
<1>6. ASSUME answers' = answers PROVE FALSE
  BY <1>6
<1>7. ASSUME NEW s \in Streams, Step(s),
             ~(ClaimMessage(s) \/ AskClarification(s) \/ Apologise(s) \/ Answer(s)
               \/ MarkFailed(s))
      PROVE  answers' = answers
  BY <1>7
  DEF Step, ClaimRefused, ReadQuestion, LoadChat, PrepareThrows, NoDatasets,
      LoadHistory, GraphEnds, ApologyThrows, Capture, ExecutionThrows,
      MarkFailedThrows, Abandon
<1>8. ASSUME \/ DeleteChat \/ Crash \/ Finished
             \/ \E s \in Streams, n \in Messages : Arrive(s, n)
      PROVE  answers' = answers
  BY <1>8 DEF DeleteChat, Crash, Finished, Arrive, vars
<1> QED
  BY <1>1, <1>3, <1>4, <1>5, <1>6, <1>7, <1>8 DEF Next

\* A message that was answered keeps its answer, but for the failure of the
\* capture that follows it in the same try.
THEOREM AnswersStay == Spec => AnswersAreKept
BY InitTypes, StepTypes, InitServed, StepServed, StepKeeps, PTL
DEF Spec, AnswersAreKept

-----------------------------------------------------------------------------
(* Clarifications, as long as questions are answered one by one *)

\* Only the last message is still to be claimed or worked on.
InTurn ==
    outOfTurn \/
        /\ \A m \in Messages : answers[m] = "new" => m = Len(answers)
        /\ \A s \in Streams : stream[s] \in Running => message[s] = Len(answers)

\* The request asks, or will if the planner wants to.
MayAsk(s) ==
    stream[s] = "asking" \/ (stream[s] = "invoking" /\ round[s] < MaxClarifications)

\* Among the messages before the last, as many as there may be rounds, one is
\* not a clarification.
RoomToAsk ==
    \A s \in Streams : MayAsk(s) /\ chat /\ ~outOfTurn =>
        \A m \in Messages : m + MaxClarifications = Len(answers) =>
            \E k \in m..Len(answers) - 1 : k \notin Clarifications

\* Preferences are captured from an answer, and an answer that nobody works on
\* any more stands behind each of them.
Captured ==
    /\ \A s \in Streams :
         stream[s] = "capturing" => answers[message[s]] = "complete"
    /\ outOfTurn \/ \A c \in saved :
         \E m \in Messages :
            /\ m > c /\ answers[m] = "complete"
            /\ \A s \in Streams : stream[s] \in Running => message[s] # m

\* The window of the history reaches back over as many clarifications in a row
\* as there may be rounds, wherever its edge falls between a question and its
\* answer.
LEMMA WindowReaches ==
    ASSUME TypeOK, NEW slack \in {0, 1}, NEW m \in Messages,
           m + MaxClarifications = Len(answers),
           answers[Len(answers)] \notin Answered,
           \A k \in m..Len(answers) - 1 : answers[k] = "clarification_needed"
    PROVE  ClarificationRound(slack) >= MaxClarifications
<1> DEFINE n == Len(answers)
           Rounds == {i \in Messages : /\ answers[i] = "clarification_needed"
                                       /\ RowsAfter(i) + slack < HistoryWindow}
<1>1. n \in Nat /\ m \in Nat /\ m >= 1
  BY MessagesAreNumbers DEF Messages
<1>2. ASSUME NEW k \in m..n - 1 PROVE RowsAfter(k) + slack < HistoryWindow
  <2> DEFINE Given == {j \in k + 1..n : answers[j] \in {"complete", "clarification_needed"}}
  <2>1. k \in Nat /\ k <= n - 1 /\ k >= m
    BY <1>1
  <2>2. Given \subseteq k + 1..n - 1
    BY <1>1, <2>1 DEF Answered
  <2>3. /\ IsFiniteSet(k + 1..n - 1)
        /\ Cardinality(k + 1..n - 1) = n - 1 - k
    <3>1. k + 1 \in Int /\ n - 1 \in Int
      BY <1>1, <2>1
    <3>2. /\ IsFiniteSet(k + 1..n - 1)
          /\ Cardinality(k + 1..n - 1) = IF k + 1 > n - 1 THEN 0 ELSE (n - 1) - (k + 1) + 1
      BY <3>1, FS_Interval
    <3> HIDE DEF n
    <3> QED
      BY <1>1, <2>1, <3>2
  <2>4. Cardinality(Given) <= n - 1 - k /\ Cardinality(Given) \in Nat
    BY <2>2, <2>3, FS_Subset, FS_CardinalityType
  <2>5. RowsAfter(k) = n - k + Cardinality(Given)
    BY DEF RowsAfter
  <2> HIDE DEF n, Given
  <2>6. n - k <= MaxClarifications /\ MaxClarifications \in Nat
    BY <1>1, <2>1, ChatAssumption DEF n
  <2>7. HistoryWindow \in Nat /\ HistoryWindow > 2 * MaxClarifications
    BY ChatAssumption
  <2> QED
    BY <1>1, <2>1, <2>4, <2>5, <2>6, <2>7
<1>3. m..n - 1 \subseteq Rounds
  BY <1>1, <1>2 DEF Messages
<1>4. IsFiniteSet(Messages) /\ IsFiniteSet(Rounds)
  <2>1. IsFiniteSet(Messages)
    BY <1>1, FS_Interval DEF Messages
  <2>2. Rounds \subseteq Messages
    OBVIOUS
  <2> QED
    BY <2>1, <2>2, FS_Subset
<1>5. Cardinality(m..n - 1) = MaxClarifications
  <2>1. m \in Int /\ n - 1 \in Int /\ MaxClarifications \in Nat \ {0}
    BY <1>1, ChatAssumption
  <2>2. Cardinality(m..n - 1) = IF m > n - 1 THEN 0 ELSE (n - 1) - m + 1
    BY <2>1, FS_Interval
  <2>3. m + MaxClarifications = n
    OBVIOUS
  <2> HIDE DEF n
  <2> QED
    BY <1>1, <2>1, <2>2, <2>3
<1>6. Cardinality(m..n - 1) <= Cardinality(Rounds) /\ Cardinality(Rounds) \in Nat
  BY <1>3, <1>4, FS_Subset, FS_CardinalityType
<1>7. ClarificationRound(slack) = Cardinality(Rounds)
  BY DEF ClarificationRound
<1> QED
  BY <1>5, <1>6, <1>7, ChatAssumption

\* What a request's step leaves alone: every message but its own, and that too
\* unless the request works on it or has just claimed it.
LEMMA StepIsLocal ==
    ASSUME TypeOK, NEW s \in Streams, Step(s)
    PROVE  /\ UNCHANGED <<message, outOfTurn, chat>>
           /\ message[s] \in Messages
           /\ Messages' = Messages /\ Len(answers') = Len(answers)
           /\ \A m \in Messages : m # message[s] => answers'[m] = answers[m]
           /\ answers'[message[s]] # answers[message[s]]
                => /\ answers'[message[s]] # "new"
                   /\ stream[s] \in Running \/ answers[message[s]] = "new"
           /\ \A r \in Streams :
                r # s => stream'[r] = stream[r] /\ round'[r] = round[r]
           /\ stream'[s] \in Running
                => stream[s] \in Running \/ answers[message[s]] = "new"
<1>1. message[s] \in Messages
  BY DEF TypeOK, Step, ClaimMessage, ClaimRefused, ReadQuestion, LoadChat, PrepareThrows,
         NoDatasets, LoadHistory, GraphEnds, AskClarification, Apologise,
         ApologyThrows, Answer, Capture, ExecutionThrows, MarkFailed, MarkFailedThrows
<1>2. UNCHANGED <<message, outOfTurn, chat>>
  BY DEF Step, ClaimMessage, ClaimRefused, ReadQuestion, LoadChat, PrepareThrows,
         NoDatasets, LoadHistory, GraphEnds, AskClarification, Apologise, Abandon,
         ApologyThrows, Answer, Capture, ExecutionThrows, MarkFailed, MarkFailedThrows
<1>3. ASSUME NEW r \in Streams, r # s
      PROVE  stream'[r] = stream[r] /\ round'[r] = round[r]
  BY <1>3
  DEF TypeOK, Step, ClaimMessage, ClaimRefused, ReadQuestion, LoadChat, PrepareThrows,
      NoDatasets, LoadHistory, GraphEnds, AskClarification, Apologise, Abandon,
      ApologyThrows, Answer, Capture, ExecutionThrows, MarkFailed, MarkFailedThrows,
      Goto, EndWith
<1>4. stream'[s] \in Running => stream[s] \in Running \/ answers[message[s]] = "new"
  BY DEF TypeOK, Step, ClaimMessage, ClaimRefused, ReadQuestion, LoadChat, PrepareThrows,
         NoDatasets, LoadHistory, GraphEnds, AskClarification, Apologise, Abandon,
         ApologyThrows, Answer, Capture, ExecutionThrows, MarkFailed, MarkFailedThrows,
         Goto, EndWith, Running
<1>5. \/ answers' = answers
      \/ /\ stream[s] \in Running \/ answers[message[s]] = "new"
         /\ \E status \in Statuses \ {"new"} :
               answers' = [answers EXCEPT ![message[s]] = status]
  BY DEF Step, ClaimMessage, ClaimRefused, ReadQuestion, LoadChat, PrepareThrows,
         NoDatasets, LoadHistory, GraphEnds, AskClarification, Apologise, Abandon,
         ApologyThrows, Answer, Capture, ExecutionThrows, MarkFailed, MarkFailedThrows,
         Write, Running, Statuses
<1>6. CASE answers' = answers
  BY <1>1, <1>2, <1>3, <1>4, <1>6 DEF Messages
<1>7. ASSUME stream[s] \in Running \/ answers[message[s]] = "new",
             NEW status \in Statuses \ {"new"},
             answers' = [answers EXCEPT ![message[s]] = status]
      PROVE  /\ Messages' = Messages /\ Len(answers') = Len(answers)
             /\ \A m \in Messages : m # message[s] => answers'[m] = answers[m]
             /\ answers'[message[s]] = status
  BY <1>1, <1>7, WriteAnswers
<1> QED
  BY <1>1, <1>2, <1>3, <1>4, <1>5, <1>6, <1>7

LEMMA InitTurn == Init => InTurn /\ RoomToAsk /\ Captured /\ ClarificationsBounded
<1> SUFFICES ASSUME Init
             PROVE  InTurn /\ RoomToAsk /\ Captured /\ ClarificationsBounded
  OBVIOUS
<1>1. Messages = {} /\ Len(answers) = 0
  BY DEF Init, Messages
<1> QED
  BY <1>1 DEF Init, InTurn, RoomToAsk, MayAsk, Captured, ClarificationsBounded, Running

LEMMA RequestInTurn ==
    ASSUME TypeOK, InTurn, NEW s \in Streams, Step(s) PROVE InTurn'
<1>1. CASE outOfTurn
  BY <1>1, StepIsLocal DEF InTurn
<1>2. CASE ~outOfTurn
  BY <1>2, StepIsLocal DEF InTurn
<1> QED
  BY <1>1, <1>2

\* In turn, a request changes none but the last message.
LEMMA OnlyTheLast ==
    ASSUME TypeOK, InTurn, ~outOfTurn, NEW s \in Streams, Step(s)
    PROVE  \A m \in Messages : m # Len(answers) => answers'[m] = answers[m]
BY StepIsLocal DEF InTurn

LEMMA RequestHasRoom ==
    ASSUME TypeOK, Served, InTurn, RoomToAsk, NEW s \in Streams, Step(s)
    PROVE  RoomToAsk'
<1>0. /\ chat' = chat /\ outOfTurn' = outOfTurn
      /\ Messages' = Messages /\ Len(answers') = Len(answers)
  BY StepIsLocal
<1> SUFFICES ASSUME NEW r \in Streams, MayAsk(r)', chat, ~outOfTurn, NEW m \in Messages,
                    m + MaxClarifications = Len(answers)
             PROVE  \E k \in m..Len(answers) - 1 : k \notin Clarifications'
  BY <1>0 DEF RoomToAsk
<1>1. Len(answers) \in Nat /\ m \in Nat /\ m >= 1
  BY MessagesAreNumbers DEF Messages
<1>2. ASSUME NEW k \in m..Len(answers) - 1
      PROVE  k \in Messages /\ (k \in Clarifications' <=> k \in Clarifications)
  <2>1. k \in Messages /\ k # Len(answers)
    BY <1>1 DEF Messages
  <2>2. answers'[k] = answers[k]
    BY <2>1, OnlyTheLast
  <2> QED
    BY <1>0, <2>1, <2>2 DEF Clarifications
<1>3. CASE MayAsk(r)
  BY <1>2, <1>3 DEF RoomToAsk
<1>4. CASE r # s
  BY <1>3, <1>4, StepIsLocal DEF MayAsk
<1>5. CASE r = s /\ ~MayAsk(s)
  <2>1. LoadHistory(s)
    BY <1>5
    DEF TypeOK, Step, ClaimMessage, ClaimRefused, ReadQuestion, LoadChat, PrepareThrows,
        NoDatasets, GraphEnds, AskClarification, Apologise, Abandon,
        ApologyThrows, Answer, Capture, ExecutionThrows, MarkFailed, MarkFailedThrows,
        Goto, EndWith, MayAsk
  <2>2. stream[s] = "loading" /\ stream[s] \in Running
    BY <2>1 DEF LoadHistory, Running
  <2>3. answers[Len(answers)] = "claimed"
    BY <2>2 DEF InTurn, Served, Running
  <2>4. stream'[s] = "invoking"
    BY <2>1 DEF LoadHistory, Goto, TypeOK
  <2>5. PICK slack \in {0, 1} : round'[s] = ClarificationRound(slack)
    BY <2>1 DEF LoadHistory, TypeOK
  <2>6. ClarificationRound(slack) < MaxClarifications
    BY <1>5, <2>4, <2>5 DEF MayAsk
  <2>7. ~(ClarificationRound(slack) >= MaxClarifications)
    BY <2>6, RoundsBounded, ChatAssumption, <1>1
  <2>8. \E k \in m..Len(answers) - 1 : answers[k] # "clarification_needed"
    BY <2>3, <2>7, WindowReaches DEF Answered
  <2> QED
    BY <1>2, <2>8 DEF Clarifications
<1> QED
  BY <1>3, <1>4, <1>5

LEMMA RequestBounded ==
    ASSUME TypeOK, InTurn, RoomToAsk, ClarificationsBounded,
           NEW s \in Streams, Step(s)
    PROVE  ClarificationsBounded'
<1> SUFFICES ASSUME ~outOfTurn, NEW m \in Messages
             PROVE  \E k \in m..m + MaxClarifications : k \notin Clarifications'
  BY StepIsLocal DEF ClarificationsBounded
<1>1. /\ Len(answers) \in Nat /\ m \in Nat /\ m >= 1 /\ m <= Len(answers)
      /\ MaxClarifications \in Nat
  BY MessagesAreNumbers, ChatAssumption DEF Messages
<1>2. PICK k \in m..m + MaxClarifications : k \notin Clarifications
  BY DEF ClarificationsBounded
<1>3. CASE AskClarification(s)
  <2>1. MayAsk(s) /\ chat
    BY <1>3 DEF AskClarification, MayAsk, Write
  <2>2. \A j \in Messages : j # Len(answers) => answers'[j] = answers[j]
    BY OnlyTheLast
  <2>3. Messages' = Messages
    BY StepIsLocal
  <2>4. CASE m + MaxClarifications > Len(answers)
    <3>1. m + MaxClarifications \notin Messages'
      BY <1>1, <2>3, <2>4 DEF Messages
    <3> QED
      BY <1>1, <3>1 DEF Clarifications
  <2>5. CASE m + MaxClarifications = Len(answers)
    <3>1. PICK j \in m..Len(answers) - 1 : j \notin Clarifications
      BY <2>1, <2>5 DEF RoomToAsk
    <3>2. j # Len(answers) /\ j \in m..m + MaxClarifications
      BY <1>1, <2>5, <3>1
    <3> QED
      BY <2>2, <2>3, <3>1, <3>2 DEF Clarifications
  <2>6. CASE m + MaxClarifications < Len(answers)
    <3>1. k # Len(answers)
      BY <1>1, <1>2, <2>6
    <3> QED
      BY <1>2, <2>2, <2>3, <3>1 DEF Clarifications
  <2> QED
    BY <1>1, <2>4, <2>5, <2>6
<1>4. CASE ~AskClarification(s)
  <2>1. \/ answers' = answers
        \/ \E status \in Statuses \ {"clarification_needed"} :
              answers' = [answers EXCEPT ![message[s]] = status]
    BY <1>4
    DEF Step, ClaimMessage, ClaimRefused, ReadQuestion, LoadChat, PrepareThrows,
        NoDatasets, LoadHistory, GraphEnds, Apologise, Abandon,
        ApologyThrows, Answer, Capture, ExecutionThrows, MarkFailed, MarkFailedThrows,
        Write, Statuses
  <2>2. Clarifications' \subseteq Clarifications
    <3>1. CASE answers' = answers
      BY <3>1 DEF Clarifications, Messages
    <3>2. ASSUME NEW status \in Statuses \ {"clarification_needed"},
                 answers' = [answers EXCEPT ![message[s]] = status]
          PROVE  Clarifications' \subseteq Clarifications
      <4>1. message[s] \in Messages
        BY StepIsLocal
      <4> QED
        BY <3>2, <4>1, WriteAnswers DEF Clarifications
    <3> QED
      BY <2>1, <3>1, <3>2
  <2> QED
    BY <1>2, <2>2
<1> QED
  BY <1>3, <1>4

LEMMA RequestCaptured ==
    ASSUME TypeOK, Served, InTurn, Captured, NEW s \in Streams, Step(s)
    PROVE  Captured'
<1>1. \A r \in Streams : stream[r] \in Running => r \in owners
  BY DEF Served
<1>2. ASSUME NEW m \in Messages, answers'[m] # answers[m]
      PROVE  m = message[s] /\ (stream[s] \in Running \/ answers[m] = "new")
  BY <1>2, StepIsLocal
<1>3. ASSUME NEW r \in Streams, stream'[r] = "capturing"
      PROVE  answers'[message[r]] = "complete"
  <2>1. CASE r # s
    <3>1. stream[r] = "capturing" /\ stream[r] \in Running
      BY <1>3, <2>1, StepIsLocal DEF Running
    <3>2. answers[message[r]] = "complete" /\ message[r] \in Messages
      BY <3>1 DEF Captured, TypeOK
    <3>3. ~(stream[s] \in Running /\ message[s] = message[r])
      BY <1>1, <2>1, <3>1 DEF Served, AnsweredOnce
    <3> QED
      BY <1>2, <3>2, <3>3
  <2>2. CASE r = s
    <3>1. Answer(s)
      BY <1>3, <2>2
      DEF TypeOK, Step, ClaimMessage, ClaimRefused, ReadQuestion, LoadChat, PrepareThrows,
          NoDatasets, LoadHistory, GraphEnds, AskClarification, Apologise, Abandon,
          ApologyThrows, Capture, ExecutionThrows, MarkFailed, MarkFailedThrows,
          Goto, EndWith
    <3>2. message[s] \in Messages /\ "complete" \in Statuses
      BY StepIsLocal DEF Statuses
    <3> QED
      BY <2>2, <3>1, <3>2, WriteAnswers DEF Answer, Write
  <2> QED
    BY <2>1, <2>2
<1>4. ASSUME ~outOfTurn, NEW c \in saved'
      PROVE  \E m \in Messages :
                /\ m > c /\ answers'[m] = "complete"
                /\ \A r \in Streams : stream'[r] \in Running => message[r] # m
  <2>1. CASE c \in saved
    <3>1. PICK m \in Messages :
             /\ m > c /\ answers[m] = "complete"
             /\ \A r \in Streams : stream[r] \in Running => message[r] # m
      BY <1>4, <2>1 DEF Captured
    <3>2. answers'[m] = answers[m]
      BY <1>2, <3>1
    <3>3. ASSUME NEW r \in Streams, stream'[r] \in Running PROVE message[r] # m
      BY <3>1, <3>3, StepIsLocal
    <3> QED
      BY <3>1, <3>2, <3>3
  <2>2. CASE c \notin saved
    <3>1. Capture(s)
      BY <1>4, <2>2
      DEF Step, ClaimMessage, ClaimRefused, ReadQuestion, LoadChat, PrepareThrows,
          NoDatasets, LoadHistory, GraphEnds, AskClarification, Apologise, Abandon,
          ApologyThrows, Answer, ExecutionThrows, MarkFailed, MarkFailedThrows,
          history
    <3>2. /\ stream[s] = "capturing" /\ stream[s] \in Running
          /\ c \in Clarifications /\ answers' = answers
          /\ stream' = [stream EXCEPT ![s] = "done"]
      BY <1>4, <2>2, <3>1 DEF Capture, Running, Goto
    <3>3. answers[message[s]] = "complete" /\ message[s] = Len(answers)
      BY <1>4, <3>2 DEF Captured, InTurn
    <3>4. message[s] \in Messages /\ message[s] > c
      <4>1. c \in Messages /\ c # Len(answers)
        BY <3>2, <3>3 DEF Clarifications
      <4> QED
        BY <3>3, <4>1, MessagesAreNumbers, StepIsLocal DEF Messages
    <3>5. ASSUME NEW r \in Streams, stream'[r] \in Running PROVE message[r] # message[s]
      <4>1. r # s /\ stream[r] \in Running
        BY <3>2, <3>5 DEF TypeOK, Running
      <4> QED
        BY <1>1, <3>2, <4>1 DEF Served, AnsweredOnce
    <3> QED
      BY <3>2, <3>3, <3>4, <3>5
  <2> QED
    BY <2>1, <2>2
<1> QED
  BY <1>3, <1>4, StepIsLocal DEF Captured

LEMMA StepTurn ==
    /\ TypeOK /\ Served /\ InTurn /\ RoomToAsk /\ Captured /\ ClarificationsBounded
    /\ [Next]_vars
    => InTurn' /\ RoomToAsk' /\ Captured' /\ ClarificationsBounded'
<1> SUFFICES ASSUME TypeOK, Served, InTurn, RoomToAsk, Captured, ClarificationsBounded,
                    [Next]_vars
             PROVE  InTurn' /\ RoomToAsk' /\ Captured' /\ ClarificationsBounded'
  OBVIOUS
<1>1. CASE SendMessage
  <2>1. /\ Messages \subseteq Messages' /\ Len(answers') = Len(answers) + 1
        /\ \A m \in Messages : answers'[m] = answers[m]
        /\ UNCHANGED <<chat, request, saved>>
    BY <1>1, AppendAnswers DEF SendMessage
  <2>2. /\ Len(answers) \in Nat /\ Messages' = Messages \cup {Len(answers')}
        /\ Len(answers') \notin Messages
    BY <2>1, MessagesAreNumbers DEF Messages
  <2>3. ~outOfTurn' => /\ ~outOfTurn
                       /\ \A m \in Messages : answers[m] # "new"
                       /\ \A s \in Streams : stream[s] \notin Running
    BY <1>1, AskedInTurn DEF TypeOK
  <2>4. answers'[Len(answers')] = "new"
    BY <1>1, <2>1, AppendProperties DEF SendMessage, TypeOK, Statuses
  <2>5. InTurn'
    BY <2>1, <2>2, <2>3 DEF InTurn
  <2>6. RoomToAsk'
    BY <2>1, <2>3 DEF RoomToAsk, MayAsk, Running
  <2>7. Captured'
    <3>1. ASSUME NEW s \in Streams, stream[s] = "capturing"
          PROVE  answers'[message[s]] = "complete"
      <4>1. message[s] \in Messages
        BY <3>1 DEF TypeOK
      <4> QED
        BY <2>1, <3>1, <4>1 DEF Captured
    <3> QED
      BY <2>1, <2>3, <3>1 DEF Captured
  <2>8. ClarificationsBounded'
    <3>1. Clarifications' = Clarifications
      BY <2>1, <2>2, <2>4 DEF Clarifications
    <3>2. \A m \in Messages' : m \notin Messages => m \notin Clarifications
      BY DEF Clarifications
    <3>3. \A m \in Messages' : m \in m..m + MaxClarifications
      BY <2>1, <2>2, ChatAssumption DEF Messages
    <3> QED
      BY <2>3, <3>1, <3>2, <3>3 DEF ClarificationsBounded
  <2> QED
    BY <2>5, <2>6, <2>7, <2>8
<1>2. CASE DeleteChat
  BY <1>2
  DEF DeleteChat, InTurn, RoomToAsk, MayAsk, Captured, ClarificationsBounded, Clarifications,
      Messages
<1>3. ASSUME NEW s \in Streams, NEW m \in Messages, Arrive(s, m)
      PROVE  InTurn' /\ RoomToAsk' /\ Captured' /\ ClarificationsBounded'
  <2>1. /\ \A r \in Streams : r # s => stream'[r] = stream[r] /\ message'[r] = message[r]
        /\ stream'[s] \in {"claiming", "done"}
        /\ UNCHANGED <<chat, answers, round, saved, outOfTurn>>
    BY <1>3 DEF Arrive, EndWith, Goto, TypeOK
  <2>2. InTurn'
    BY <2>1 DEF InTurn, Running, Messages
  <2>3. RoomToAsk'
    BY <2>1 DEF RoomToAsk, MayAsk, Messages, Clarifications
  <2>4. Captured'
    BY <2>1 DEF Captured, Running, Messages
  <2>5. ClarificationsBounded'
    BY <2>1 DEF ClarificationsBounded, Messages, Clarifications
  <2> QED
    BY <2>2, <2>3, <2>4, <2>5
<1>4. CASE Crash
  <2>1. /\ \A s \in Streams :
              stream'[s] = IF stream[s] \in Over \cup {"new"} THEN stream[s] ELSE "dead"
        /\ UNCHANGED <<chat, answers, message, round, saved, outOfTurn>>
    BY <1>4 DEF Crash
  <2>2. InTurn'
    BY <2>1 DEF InTurn, Running, Messages, Over
  <2>3. RoomToAsk'
    BY <2>1 DEF RoomToAsk, MayAsk, Over
  <2>4. Captured'
    BY <2>1 DEF Captured, Running, Messages, Over
  <2>5. ClarificationsBounded'
    BY <2>1 DEF ClarificationsBounded, Messages, Clarifications
  <2> QED
    BY <2>2, <2>3, <2>4, <2>5
<1>5. CASE Finished \/ UNCHANGED vars
  <2>1. UNCHANGED <<chat, answers, stream, message, round, saved, outOfTurn>>
    BY <1>5 DEF Finished, vars
  <2>2. Messages' = Messages /\ Clarifications' = Clarifications
    BY <2>1 DEF Messages, Clarifications
  <2> QED
    BY <2>1, <2>2 DEF InTurn, RoomToAsk, MayAsk, Captured, ClarificationsBounded
<1>6. ASSUME NEW s \in Streams, Step(s)
      PROVE  InTurn' /\ RoomToAsk' /\ Captured' /\ ClarificationsBounded'
  BY <1>6, RequestInTurn, RequestHasRoom, RequestCaptured, RequestBounded
<1> QED
  BY <1>1, <1>2, <1>3, <1>4, <1>5, <1>6 DEF Next

\* planner.node.ts and data-agent.service.ts: questions answered one by one are
\* never answered by more clarifications in a row than the planner's limit,
\* although every request counts them anew, from a window of the history.
THEOREM ClarificationsEnd == Spec => []ClarificationsBounded
BY InitTypes, StepTypes, InitServed, StepServed, InitTurn, StepTurn, PTL DEF Spec

\* agent-stream.controller.ts: an assumption becomes a preference only after a
\* later question was answered.
THEOREM PreferencesFollowAnswers == Spec => []CapturedAfterFollowUp
<1>1. Captured => CapturedAfterFollowUp
  BY DEF Captured, CapturedAfterFollowUp
<1> QED
  BY <1>1, InitTypes, StepTypes, InitServed, StepServed, InitTurn, StepTurn, PTL DEF Spec

-----------------------------------------------------------------------------
(* Each message as a piece of claimed work *)

Claimants(m) == {s \in owners : message[s] = m}

\* A step that touches neither the message's row nor who claimed it.
LEMMA QuietWork ==
    ASSUME NEW m, UNCHANGED <<chat, answers, owners>>,
           \A s \in owners : message'[s] = message[s]
    PROVE  UNCHANGED <<StageOf(m), Claimants(m)>>
<1>1. StageOf(m)' = StageOf(m)
  BY DEF StageOf, Messages
<1>2. Claimants(m)' = Claimants(m)
  BY DEF Claimants
<1> QED
  BY <1>1, <1>2

\* What a request's step does to the message's row and to who claimed it.
LEMMA RequestWork ==
    ASSUME TypeOK, Served, NEW s \in Streams, Step(s), NEW m \in Nat
    PROVE  \/ UNCHANGED <<StageOf(m), Claimants(m)>>
           \/ /\ StageOf(m) = "open" /\ StageOf(m)' = "claimed"
              /\ Claimants(m)' = Claimants(m) \cup {s}
           \/ /\ StageOf(m) = "claimed" /\ StageOf(m)' = "over"
              /\ UNCHANGED Claimants(m)
<1>1. CASE ClaimMessage(s)
  <2>1. /\ message[s] \in Messages /\ answers[message[s]] = "new" /\ chat
        /\ s \notin owners /\ owners' = owners \cup {s}
        /\ UNCHANGED <<chat, message>> /\ "claimed" \in Statuses
    BY <1>1 DEF ClaimMessage, TypeOK, Served, Running, Over, Statuses
  <2>2. /\ answers'[message[s]] = "claimed" /\ Messages' = Messages
        /\ \A k \in Messages : k # message[s] => answers'[k] = answers[k]
    BY <1>1, <2>1, WriteAnswers DEF ClaimMessage
  <2>3. CASE m = message[s]
    <3>1. StageOf(m) = "open" /\ StageOf(m)' = "claimed"
      BY <2>1, <2>2, <2>3 DEF StageOf
    <3>2. Claimants(m)' = Claimants(m) \cup {s}
      BY <2>1, <2>3 DEF Claimants
    <3> QED
      BY <3>1, <3>2
  <2>4. CASE m # message[s]
    <3>1. StageOf(m)' = StageOf(m)
      BY <2>1, <2>2, <2>4 DEF StageOf
    <3>2. Claimants(m)' = Claimants(m)
      BY <2>1, <2>4 DEF Claimants
    <3> QED
      BY <3>1, <3>2
  <2> QED
    BY <2>3, <2>4
<1>2. ASSUME NEW status \in {"complete", "clarification_needed", "failed"},
             stream[s] \in Running, UNCHANGED <<message, owners>>, Write(s, status),
             UNCHANGED chat
      PROVE  \/ UNCHANGED <<StageOf(m), Claimants(m)>>
             \/ /\ StageOf(m) = "claimed" /\ StageOf(m)' = "over"
                /\ UNCHANGED Claimants(m)
  <2>1. /\ message[s] \in Messages /\ answers[message[s]] # "new" /\ chat
        /\ status \in Statuses
    BY <1>2 DEF TypeOK, Served, Running, Statuses, Write
  <2>2. /\ answers'[message[s]] = status /\ Messages' = Messages
        /\ \A k \in Messages : k # message[s] => answers'[k] = answers[k]
    BY <1>2, <2>1, WriteAnswers DEF Write
  <2>3. Claimants(m)' = Claimants(m)
    BY <1>2 DEF Claimants
  <2>4. \/ StageOf(m)' = StageOf(m)
        \/ StageOf(m) = "claimed" /\ StageOf(m)' = "over"
    BY <1>2, <2>1, <2>2 DEF StageOf
  <2> QED
    BY <2>3, <2>4
<1>3. CASE AskClarification(s) \/ Apologise(s) \/ Answer(s) \/ MarkFailed(s)
  BY <1>2, <1>3 DEF AskClarification, Apologise, Answer, MarkFailed, Running, Write
<1>4. CASE \/ ClaimRefused(s) \/ ReadQuestion(s) \/ LoadChat(s) \/ PrepareThrows(s)
           \/ NoDatasets(s) \/ LoadHistory(s) \/ GraphEnds(s) \/ ApologyThrows(s)
           \/ Capture(s) \/ ExecutionThrows(s) \/ MarkFailedThrows(s)
  <2>1. UNCHANGED <<chat, answers, message, owners>>
    BY <1>4
    DEF ClaimRefused, ReadQuestion, LoadChat, PrepareThrows, NoDatasets, LoadHistory,
        GraphEnds, ApologyThrows, Capture, ExecutionThrows, MarkFailedThrows, Abandon
  <2> QED
    BY <2>1, QuietWork
<1> QED
  BY <1>1, <1>3, <1>4 DEF Step

LEMMA StepWork ==
    ASSUME TypeOK, Served, [Next]_vars, NEW m \in Nat
    PROVE  [WorkOf(m)!Next]_(WorkOf(m)!vars)
<1> DEFINE Quiet == UNCHANGED <<StageOf(m), Claimants(m)>>
<1>1. ASSUME Quiet PROVE [WorkOf(m)!Next]_(WorkOf(m)!vars)
  BY <1>1 DEF WorkOf!vars, Claimants
<1>2. CASE SendMessage
  <2>1. /\ Len(answers') = Len(answers) + 1 /\ Len(answers) \in Nat
        /\ \A k \in Messages : answers'[k] = answers[k]
    BY <1>2, AppendAnswers, MessagesAreNumbers DEF SendMessage
  <2>2. answers'[Len(answers) + 1] = "new"
    <3>1. answers \in Seq(Statuses) /\ "new" \in Statuses
      BY DEF TypeOK, Statuses
    <3> QED
      BY <1>2, <3>1, AppendProperties DEF SendMessage
  <2>3. chat /\ UNCHANGED <<chat, message, owners>>
    BY <1>2 DEF SendMessage
  <2>4. Claimants(m)' = Claimants(m)
    BY <2>3 DEF Claimants
  <2>5. CASE m = Len(answers) + 1
    <3>1. StageOf(m) = "absent" /\ StageOf(m)' = "open"
      BY <2>1, <2>2, <2>3, <2>5 DEF StageOf, Messages
    <3> QED
      BY <2>4, <3>1 DEF WorkOf!Next, WorkOf!Offer, Claimants
  <2>6. CASE m # Len(answers) + 1
    <3>1. StageOf(m)' = StageOf(m)
      BY <2>1, <2>3, <2>6 DEF StageOf, Messages
    <3> QED
      BY <1>1, <2>4, <3>1
  <2> QED
    BY <2>5, <2>6
<1>3. CASE DeleteChat
  <2>1. StageOf(m) # "gone" /\ StageOf(m)' = "gone"
    BY <1>3 DEF DeleteChat, StageOf
  <2>2. Claimants(m)' = Claimants(m)
    BY <1>3 DEF DeleteChat, Claimants
  <2> QED
    BY <2>1, <2>2 DEF WorkOf!Next, WorkOf!Remove, Claimants
<1>4. ASSUME NEW s \in Streams, NEW k \in Messages, Arrive(s, k)
      PROVE  Quiet
  <2>1. UNCHANGED <<chat, answers, owners>> /\ s \notin owners
        /\ \A r \in Streams : r # s => message'[r] = message[r]
    BY <1>4 DEF Arrive, Served, Running, Over, TypeOK
  <2>2. \A r \in owners : message'[r] = message[r]
    BY <2>1 DEF TypeOK
  <2> QED
    BY <2>1, <2>2, QuietWork
<1>5. CASE Crash \/ Finished \/ UNCHANGED vars
  <2>1. UNCHANGED <<chat, answers, message, owners>>
    BY <1>5 DEF Crash, Finished, vars
  <2> QED
    BY <1>1, <2>1, QuietWork
<1>6. ASSUME NEW s \in Streams, Step(s) PROVE [WorkOf(m)!Next]_(WorkOf(m)!vars)
  <2>1. CASE Quiet
    BY <1>1, <2>1
  <2>2. CASE /\ StageOf(m) = "open" /\ StageOf(m)' = "claimed"
             /\ Claimants(m)' = Claimants(m) \cup {s}
    BY <2>2 DEF WorkOf!Next, WorkOf!Claim, Claimants
  <2>3. CASE /\ StageOf(m) = "claimed" /\ StageOf(m)' = "over"
             /\ UNCHANGED Claimants(m)
    BY <2>3 DEF WorkOf!Next, WorkOf!Settle, Claimants
  <2> QED
    BY <1>6, <2>1, <2>2, <2>3, RequestWork
<1> QED
  BY <1>1, <1>2, <1>3, <1>4, <1>5, <1>6 DEF Next

\* agent-stream.controller.ts and data-agent.service.ts: however many requests
\* stream however many messages, each message implements ClaimedWork: a step is its
\* question, a claim, an end, the removal of the chat, or invisible to it.
THEOREM ImplementsClaimedWork == Spec => WorkSpecs
<1>1. Init => \A m \in 1..MaxMessages : WorkOf(m)!Init
  <2> SUFFICES ASSUME Init, NEW m \in 1..MaxMessages PROVE WorkOf(m)!Init
    OBVIOUS
  <2>1. StageOf(m) = "absent" /\ Claimants(m) = {}
    BY DEF Init, StageOf, Claimants, Messages
  <2> QED
    BY <2>1 DEF WorkOf!Init, Claimants
<1>2. TypeOK /\ Served /\ [Next]_vars
      => [\A m \in 1..MaxMessages : [WorkOf(m)!Next]_(WorkOf(m)!vars)]_vars
  BY StepWork, ChatAssumption
<1> QED
  BY <1>1, <1>2, InitTypes, StepTypes, InitServed, StepServed, PTL
  DEF Spec, WorkSpecs

-----------------------------------------------------------------------------
(* Who has claimed a message is there to write it *)

Attended ==
    /\ \A m \in Messages : answers[m] = "claimed" => \E s \in owners : message[s] = m
    /\ \A s \in owners :
         /\ stream[s] = "dead" => message[s] \in abandoned
         /\ stream[s] \in {"capturing", "done"} => event[s] # NULL

LEMMA InitAttended == Init => Attended
BY DEF Init, Attended, Messages

\* A request that leaves its message claimed keeps it, or has told the client.
LEMMA RequestAttends ==
    ASSUME TypeOK, Served, Attended, NEW s \in Streams, Step(s)
    PROVE  Attended'
<1>1. /\ message[s] \in Messages \cup {NULL} /\ owners \subseteq Streams
      /\ stream[s] # "new" => message[s] \in Messages
  BY DEF TypeOK
<1>2. NULL \notin {"message_complete", "message_error"}
  BY ChatAssumption
<1>3. CASE ClaimMessage(s)
  <2>1. message[s] \in Messages /\ "claimed" \in Statuses
    BY <1>3 DEF ClaimMessage, TypeOK, Statuses
  <2>2. /\ Messages' = Messages
        /\ \A m \in Messages : m # message[s] => answers'[m] = answers[m]
    BY <1>3, <2>1, WriteAnswers DEF ClaimMessage
  <2>3. /\ UNCHANGED <<message, event, abandoned>> /\ owners' = owners \cup {s}
        /\ stream'[s] = "reading" /\ \A r \in Streams : r # s => stream'[r] = stream[r]
    BY <1>3 DEF ClaimMessage, Goto, TypeOK
  <2> QED
    BY <1>1, <2>2, <2>3 DEF Attended
<1>4. ASSUME AskClarification(s) \/ Apologise(s) \/ Answer(s) \/ MarkFailed(s)
      PROVE  Attended'
  <2>1. PICK status \in {"complete", "clarification_needed", "failed"} :
          answers' = [answers EXCEPT ![message[s]] = status]
    BY <1>4 DEF AskClarification, Apologise, Answer, MarkFailed, Write
  <2>2. message[s] \in Messages /\ status \in Statuses
    BY <1>1, <1>4 DEF AskClarification, Apologise, Answer, MarkFailed, Statuses
  <2>3. /\ Messages' = Messages /\ answers'[message[s]] = status
        /\ \A m \in Messages : m # message[s] => answers'[m] = answers[m]
    BY <2>1, <2>2, WriteAnswers
  <2>4. /\ UNCHANGED <<message, owners, abandoned>>
        /\ stream'[s] \in {"done", "capturing"} /\ event'[s] # NULL
        /\ \A r \in Streams : r # s => stream'[r] = stream[r] /\ event'[r] = event[r]
    BY <1>2, <1>4
    DEF AskClarification, Apologise, Answer, MarkFailed, EndWith, Goto, TypeOK
  <2> QED
    BY <1>1, <2>3, <2>4 DEF Attended
<1>5. ASSUME UNCHANGED <<answers, message, owners>>, abandoned \subseteq abandoned',
             \A r \in Streams : r # s => stream'[r] = stream[r] /\ event'[r] = event[r],
             stream'[s] \notin {"capturing", "dead"},
             stream'[s] = "done" => event'[s] # NULL
      PROVE  Attended'
  BY <1>1, <1>5 DEF Attended, Messages
<1>6. CASE ClaimRefused(s) \/ ReadQuestion(s)
  BY <1>2, <1>5, <1>6 DEF ClaimRefused, ReadQuestion, EndWith, Goto, TypeOK
<1>7. CASE LoadChat(s) \/ NoDatasets(s) \/ LoadHistory(s) \/ GraphEnds(s)
           \/ ExecutionThrows(s)
  BY <1>5, <1>7
  DEF LoadChat, NoDatasets, LoadHistory, GraphEnds, ExecutionThrows, Goto, TypeOK
<1>8. CASE PrepareThrows(s) \/ ApologyThrows(s) \/ MarkFailedThrows(s)
  BY <1>2, <1>5, <1>8
  DEF PrepareThrows, ApologyThrows, MarkFailedThrows, Abandon, EndWith, Goto, TypeOK
<1>9. CASE Capture(s)
  <2>1. s \in owners /\ stream[s] = "capturing" /\ event[s] # NULL
    BY <1>9 DEF Capture, Served, Attended, Running
  <2> QED
    BY <1>5, <1>9, <2>1 DEF Capture, Goto, TypeOK
<1> QED
  BY <1>3, <1>4, <1>6, <1>7, <1>8, <1>9 DEF Step

LEMMA StepAttended == TypeOK /\ Served /\ Attended /\ [Next]_vars => Attended'
<1> SUFFICES ASSUME TypeOK, Served, Attended, [Next]_vars PROVE Attended'
  OBVIOUS
<1>1. CASE SendMessage
  <2>1. /\ \A m \in Messages : answers'[m] = answers[m]
        /\ \A m \in Messages' : m \in Messages \/ answers'[m] = "new"
    <3>1. answers \in Seq(Statuses) /\ "new" \in Statuses
      BY DEF TypeOK, Statuses
    <3>2. /\ Messages' = 1..Len(answers) + 1 /\ Len(answers) \in Nat
          /\ answers'[Len(answers) + 1] = "new"
      BY <1>1, <3>1 DEF SendMessage, Messages
    <3> QED
      BY <1>1, <3>2, AppendAnswers DEF SendMessage, Messages
  <2>2. UNCHANGED <<request, owners, abandoned>>
    BY <1>1 DEF SendMessage
  <2> QED
    BY <2>1, <2>2 DEF Attended, request
<1>2. ASSUME NEW s \in Streams, NEW m \in Messages, Arrive(s, m) PROVE Attended'
  <2>1. s \notin owners /\ owners \subseteq Streams
    BY <1>2 DEF Arrive, Served, Running, Over, TypeOK
  <2>2. /\ \A r \in Streams : r # s => /\ stream'[r] = stream[r] /\ event'[r] = event[r]
                                       /\ message'[r] = message[r]
        /\ UNCHANGED <<answers, owners, abandoned>>
    BY <1>2 DEF Arrive, EndWith, Goto, TypeOK, history
  <2> QED
    BY <2>1, <2>2 DEF Attended, Messages
<1>3. CASE Crash
  <2>1. /\ \A s \in Streams :
              stream'[s] = IF stream[s] \in Over \cup {"new"} THEN stream[s] ELSE "dead"
        /\ \A s \in Streams : stream[s] \in Running => message[s] \in abandoned'
        /\ UNCHANGED <<answers, message, event, owners>>
        /\ abandoned \subseteq abandoned' /\ owners \subseteq Streams
    BY <1>3 DEF Crash, TypeOK
  <2>2. \A s \in owners : stream[s] \in Running \cup Over
    BY DEF Served
  <2> QED
    BY <2>1, <2>2 DEF Attended, Messages, Over, Running
<1>4. CASE DeleteChat \/ Finished \/ UNCHANGED vars
  BY <1>4 DEF DeleteChat, Finished, vars, request, history, Attended, Messages
<1> QED
  BY <1>1, <1>2, <1>3, <1>4, RequestAttends DEF Next

\* No other request takes a claimed message out of the hands of the one that
\* claimed it: only a restart, a preparation that throws and a failed write
\* leave it behind.
THEOREM ClaimsAreAttended == Spec => []ClaimedIsAttended
<1>1. TypeOK /\ Served /\ Told /\ Attended => ClaimedIsAttended
  <2> SUFFICES ASSUME TypeOK, Served, Told, Attended, chat, NEW m \in Messages,
                      answers[m] = "claimed", m \notin abandoned
               PROVE  \E s \in owners : /\ message[s] = m
                                        /\ stream[s] \in Running \ {"capturing"}
    BY DEF ClaimedIsAttended
  <2>1. PICK s \in owners : message[s] = m
    BY DEF Attended
  <2>2. stream[s] \in Running \cup Over /\ s \in Streams
    BY DEF Served, TypeOK
  <2>3. stream[s] \notin {"dead", "done", "capturing"}
    BY <2>1, <2>2 DEF Attended, Told, Answered, TypeOK
  <2> QED
    BY <2>1, <2>2, <2>3 DEF Over
<1> QED
  BY <1>1, InitTypes, StepTypes, InitServed, StepServed, InitAttended, StepAttended,
     PTL DEF Spec
=============================================================================
