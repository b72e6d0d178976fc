------------------------ MODULE TaskExecutor_proofs ------------------------
(***************************************************************************)
(* TaskExecutor keeps the promise of RemoteCall, for any number of         *)
(* submissions, any backlog, any transfers and any number of restarts.     *)
(***************************************************************************)
EXTENDS TaskExecutor, TLAPS

(***************************************************************************)
(* Initially nobody is connected and nothing is under way.                 *)
(***************************************************************************)
LEMMA Initially == Init => IInv
BY SubmissionAssumption
DEF Init, IInv, TypeOK, ServedOnce, MovesInTurn, TransfersOver, Conversation, NoneTooEarly, Attended,
    Queued, Serving, Listening, Open, wire, data

(***************************************************************************)
(* Every step keeps the types.                                             *)
(***************************************************************************)
LEMMA TypeStep == TypeOK /\ [Next]_vars => TypeOK'
<1> SUFFICES ASSUME TypeOK, [Next]_vars PROVE TypeOK'
  OBVIOUS
<1> USE SubmissionAssumption DEF TypeOK, wire, data
<1>1. ASSUME NEW c \in Client, Connect(c) PROVE TypeOK'
  BY <1>1 DEF Connect
<1>2. ASSUME NEW c \in Client, ConnectFails(c) \/ Crash(c) \/ Collect(c) \/ ClientStep(c)
      PROVE  TypeOK'
  BY <1>2 DEF ConnectFails, Crash, Collect, ClientStep, WriteHeader, SendMessage, ReadAnswer,
              ConnectionBreaks, Open
<1>3. CASE Accept
  BY <1>3 DEF Accept, Go
<1>4. CASE Greet \/ ReadHeader \/ ReadMessage \/ MessageFails \/ Execute \/ TaskThrows
  BY <1>4 DEF Greet, ReadHeader, ReadMessage, MessageFails, Execute, TaskThrows, Go
<1>5. CASE HeaderFails \/ TaskErrs \/ Kill
  <2>1. queue' = << >> /\ moving' = {} /\ broken' \subseteq Client
    BY <1>5 DEF HeaderFails, TaskErrs, Kill, Down, Open
  <2>2. server' \in {"ended", "killed"} /\ kills' \in 0 .. MaxKills
    BY <1>5 DEF HeaderFails, TaskErrs, Kill, Down
  <2>3. UNCHANGED <<client, connection, greeted, header, sent, answer, executed, arrived, lost>>
    BY <1>5 DEF HeaderFails, TaskErrs, Kill, Down
  <2>4. << >> \in Seq(Client)
    OBVIOUS
  <2> QED
    BY <2>1, <2>2, <2>3, <2>4
<1>6. CASE StartTransfers \/ Join \/ Answer \/ Restart
  BY <1>6 DEF StartTransfers, Join, Answer, Restart, Go
<1>7. ASSUME NEW m \in Transfer, TransferStep(m) PROVE TypeOK'
  BY <1>7 DEF TransferStep, Arrive, Lose
<1>8. CASE UNCHANGED vars
  BY <1>8 DEF vars
<1> QED
  BY <1>1, <1>2, <1>3, <1>4, <1>5, <1>6, <1>7, <1>8 DEF Next, ServerStep, Environment

(***************************************************************************)
(* What each step does to the queue, the served connection, and what has   *)
(* been executed and answered.  Most steps leave all of that alone.        *)
(***************************************************************************)
LEMMA ServedStep == IInv /\ [Next]_vars => ServedOnce'
<1> SUFFICES ASSUME IInv, [Next]_vars PROVE ServedOnce'
  OBVIOUS
<1> USE SubmissionAssumption DEF wire, data
<1>0. TypeOK /\ ServedOnce
  BY DEF IInv
<1>1. ASSUME NEW c \in Client, Connect(c) PROVE ServedOnce'
  <2>1. /\ client[c] = "new" /\ client' = [client EXCEPT ![c] = "connected"]
        /\ queue' = Append(queue, c)
        /\ UNCHANGED <<server, connection, executed, answer>>
    BY <1>1 DEF Connect
  <2>2. /\ Len(queue') = Len(queue) + 1 /\ queue'[Len(queue) + 1] = c
        /\ \A i \in 1 .. Len(queue) : queue'[i] = queue[i] /\ queue[i] \in Client
        /\ Len(queue) \in Nat
    BY <1>0, <2>1 DEF TypeOK
  <2>3. c \notin executed /\ \A i \in 1 .. Len(queue) : queue[i] # c
    BY <1>0, <2>1 DEF ServedOnce
  <2> QED
    BY <1>0, <2>1, <2>2, <2>3 DEF ServedOnce, TypeOK
<1>2. ASSUME NEW c \in Client, ConnectFails(c) \/ Crash(c) \/ Collect(c) \/ ClientStep(c)
      PROVE  ServedOnce'
  <2>1. /\ UNCHANGED <<server, connection, queue, executed, answer>>
        /\ \A d \in Client : client'[d] = "new" => client[d] = "new"
        /\ \A d \in Client : client'[d] = "answered" => client[d] = "answered" \/ d \in answer
        /\ \A d \in Client : client[d] # "new" => client'[d] # "new"
    BY <1>0, <1>2 DEF ConnectFails, Crash, Collect, ClientStep, WriteHeader, SendMessage,
                      ReadAnswer, ConnectionBreaks, Open, TypeOK
  <2>2. \A i \in 1 .. Len(queue) : queue[i] \in Client
    BY <1>0 DEF TypeOK
  <2> QED
    BY <1>0, <2>1, <2>2 DEF ServedOnce, TypeOK
<1>3. CASE Accept
  <2>1. /\ queue # << >> /\ connection' = Head(queue) /\ queue' = Tail(queue)
        /\ server' = "greet"
        /\ UNCHANGED <<client, executed, answer>>
    BY <1>3 DEF Accept, Go
  <2>2. /\ Len(queue) \in Nat \ {0} /\ Len(queue') = Len(queue) - 1
        /\ connection' = queue[1]
        /\ \A i \in 1 .. Len(queue') : queue'[i] = queue[i + 1]
    BY <1>0, <2>1 DEF TypeOK
  <2> QED
    BY <1>0, <2>1, <2>2 DEF ServedOnce
<1>4. CASE Execute
  <2>1. /\ server = "execute" /\ server' = "move" /\ executed' = executed \cup {connection}
        /\ UNCHANGED <<client, queue, connection, answer>>
    BY <1>4 DEF Execute, Go
  <2> QED
    BY <1>0, <2>1 DEF ServedOnce
<1>5. CASE Answer
  <2>1. /\ server = "answer" /\ server' = "accept" /\ answer' = answer \cup {connection}
        /\ UNCHANGED <<client, queue, connection, executed>>
    BY <1>5 DEF Answer, Go
  <2> QED
    BY <1>0, <2>1 DEF ServedOnce
<1>6. CASE HeaderFails \/ TaskErrs \/ Kill
  <2>1. /\ server' \in {"ended", "killed"} /\ queue' = << >>
        /\ UNCHANGED <<client, connection, executed, answer>>
    BY <1>6 DEF HeaderFails, TaskErrs, Kill, Down
  <2> QED
    BY <1>0, <2>1 DEF ServedOnce
<1>7. CASE Greet \/ ReadHeader \/ ReadMessage \/ MessageFails \/ TaskThrows \/ Join \/ StartTransfers
  <2>1. /\ \/ server = "greet" /\ server' = "readHeader"
           \/ server = "readHeader" /\ server' = "readMessage"
           \/ server = "readMessage" /\ server' = "execute"
           \/ server' = "accept"
           \/ server = "move" /\ server' = "join"
           \/ server = "join" /\ server' = "answer"
        /\ UNCHANGED <<client, queue, connection, executed, answer>>
    BY <1>7 DEF Greet, ReadHeader, ReadMessage, MessageFails, TaskThrows, Join, StartTransfers, Go
  <2> QED
    BY <1>0, <2>1 DEF ServedOnce
<1>8. CASE Restart
  <2>1. server' = "accept" /\ UNCHANGED <<client, queue, executed, answer>>
    BY <1>8 DEF Restart, Go
  <2> QED
    BY <1>0, <2>1 DEF ServedOnce
<1>9. ASSUME NEW m \in Transfer, TransferStep(m) PROVE ServedOnce'
  <2>1. UNCHANGED <<server, client, queue, connection, executed, answer>>
    BY <1>9 DEF TransferStep, Arrive, Lose
  <2> QED
    BY <1>0, <2>1 DEF ServedOnce
<1>10. CASE UNCHANGED vars
  BY <1>0, <1>10 DEF vars, ServedOnce
<1> QED
  BY <1>1, <1>2, <1>3, <1>4, <1>5, <1>6, <1>7, <1>8, <1>9, <1>10
     DEF Next, ServerStep, Environment

(***************************************************************************)
(* Transfers are started for the connection that is served, end before it  *)
(* is answered, and die with the process.                                  *)
(***************************************************************************)
LEMMA MovesStep == IInv /\ [Next]_vars => MovesInTurn' /\ TransfersOver'
<1> SUFFICES ASSUME IInv, [Next]_vars PROVE MovesInTurn' /\ TransfersOver'
  OBVIOUS
<1> USE SubmissionAssumption DEF wire, data
<1>0. TypeOK /\ MovesInTurn /\ TransfersOver
  BY DEF IInv
<1>1. ASSUME NEW c \in Client,
             Connect(c) \/ ConnectFails(c) \/ Crash(c) \/ Collect(c) \/ ClientStep(c)
      PROVE  MovesInTurn' /\ TransfersOver'
  <2>1. UNCHANGED <<server, connection, answer, moving, arrived, lost>>
    BY <1>1 DEF Connect, ConnectFails, Crash, Collect, ClientStep, WriteHeader, SendMessage,
                ReadAnswer, ConnectionBreaks
  <2> QED
    BY <1>0, <2>1 DEF MovesInTurn, TransfersOver
<1>2. CASE Accept \/ Greet \/ ReadHeader \/ ReadMessage \/ MessageFails \/ Execute \/ TaskThrows
           \/ Restart
  <2>1. /\ server \notin {"join", "answer"} /\ server' \notin {"join", "answer"}
        /\ UNCHANGED <<answer, moving, arrived, lost>>
    BY <1>2 DEF Accept, Greet, ReadHeader, ReadMessage, MessageFails, Execute, TaskThrows,
                Restart, Go
  <2> QED
    BY <1>0, <2>1 DEF MovesInTurn, TransfersOver
<1>3. CASE HeaderFails \/ TaskErrs \/ Kill
  <2>1. /\ server' \in {"ended", "killed"} /\ moving' = {}
        /\ UNCHANGED <<answer, arrived, lost>>
    BY <1>3 DEF HeaderFails, TaskErrs, Kill, Down
  <2> QED
    BY <1>0, <2>1 DEF MovesInTurn, TransfersOver
<1>4. CASE StartTransfers
  <2>1. /\ server = "move" /\ server' = "join" /\ moving' = transfers[connection]
        /\ UNCHANGED <<connection, answer, arrived, lost>>
    BY <1>4 DEF StartTransfers, Go
  <2> QED
    BY <1>0, <2>1 DEF MovesInTurn, TransfersOver
<1>5. CASE Join
  <2>1. /\ server = "join" /\ server' = "answer" /\ moving = {}
        /\ UNCHANGED <<connection, answer, moving, arrived, lost>>
    BY <1>5 DEF Join, Go
  <2> QED
    BY <1>0, <2>1 DEF MovesInTurn, TransfersOver
<1>6. CASE Answer
  <2>1. /\ server = "answer" /\ server' = "accept" /\ answer' = answer \cup {connection}
        /\ UNCHANGED <<moving, arrived, lost>>
    BY <1>6 DEF Answer, Go
  <2> QED
    BY <1>0, <2>1 DEF MovesInTurn, TransfersOver
<1>7. ASSUME NEW m \in Transfer, TransferStep(m) PROVE MovesInTurn' /\ TransfersOver'
  <2>1. /\ moving' = moving \ {m} /\ m \in moving
        /\ arrived' \cup lost' = arrived \cup lost \cup {m}
        /\ UNCHANGED <<server, connection, answer>>
    BY <1>7 DEF TransferStep, Arrive, Lose
  <2> QED
    BY <1>0, <2>1 DEF MovesInTurn, TransfersOver
<1>8. CASE UNCHANGED vars
  BY <1>0, <1>8 DEF vars, MovesInTurn, TransfersOver
<1> QED
  BY <1>1, <1>2, <1>3, <1>4, <1>5, <1>6, <1>7, <1>8 DEF Next, ServerStep, Environment

(***************************************************************************)
(* A step of a client leaves the executor alone.  It goes on to the next   *)
(* state of MSGClient, writes what belongs to it, or has its connection    *)
(* collected, which happens only to one that is not served any more.       *)
(***************************************************************************)
LEMMA ConversationOfClients ==
  ASSUME IInv, NEW c \in Client, ConnectFails(c) \/ Crash(c) \/ Collect(c) \/ ClientStep(c)
  PROVE  Conversation' /\ Attended'
<1> USE DEF wire, data
<1>0. TypeOK /\ ServedOnce /\ Conversation /\ Attended
  BY DEF IInv
<1>1. UNCHANGED <<queue, server, connection, greeted, answer>>
  BY DEF ConnectFails, Crash, Collect, ClientStep, WriteHeader, SendMessage, ReadAnswer,
         ConnectionBreaks
<1>2. /\ \A d \in Client : Queued(d)' <=> Queued(d)
      /\ Serving' <=> Serving
  BY <1>1 DEF Queued, Serving
<1>3. /\ \A d \in Client \ {c} : client'[d] = client[d]
      /\ \A d \in Client \ {c} : /\ d \in header' <=> d \in header
                                 /\ d \in sent' <=> d \in sent
                                 /\ d \in broken' <=> d \in broken
  BY <1>0 DEF ConnectFails, Crash, Collect, ClientStep, WriteHeader, SendMessage, ReadAnswer,
              ConnectionBreaks, TypeOK
<1>4. Queued(c) => client[c] # "new"
  BY <1>0 DEF Queued, ServedOnce
<1>5. Serving /\ connection = c => client[c] # "new"
  BY <1>0 DEF Serving, ServedOnce, TypeOK
<1>6. CASE ConnectFails(c)
  <2>1. /\ client[c] = "new" /\ client'[c] = "failed" /\ UNCHANGED <<header, sent, broken>>
    BY <1>0, <1>6 DEF ConnectFails, TypeOK
  <2>2. Conversation'
    BY <1>0, <1>1, <1>2, <1>3, <1>4, <1>5, <2>1 DEF Conversation
  <2>3. Attended'
    BY <1>0, <1>1, <1>2, <1>3, <2>1 DEF Attended, Open
  <2> QED
    BY <2>2, <2>3
<1>7. CASE Crash(c)
  <2>1. client'[c] = "dead" /\ UNCHANGED <<header, sent, broken>>
    BY <1>0, <1>7 DEF Crash, TypeOK
  <2>2. Conversation'
    BY <1>0, <1>1, <1>2, <1>3, <2>1 DEF Conversation
  <2>3. Attended'
    BY <1>0, <1>1, <1>2, <1>3, <2>1 DEF Attended, Open
  <2> QED
    BY <2>2, <2>3
<1>8. CASE Collect(c)
  <2>1. /\ c \in greeted /\ c # connection /\ client[c] # "new"
        /\ broken' = broken \cup {c} /\ UNCHANGED <<client, header, sent>>
    BY <1>8 DEF Collect, Open
  <2>2. Conversation'
    BY <1>0, <1>1, <1>2, <1>3, <2>1 DEF Conversation
  <2>3. Attended'
    BY <1>0, <1>1, <1>2, <1>3, <2>1 DEF Attended, Open
  <2> QED
    BY <2>2, <2>3
<1>9. CASE WriteHeader(c)
  <2>1. /\ client[c] = "connected" /\ client'[c] = "greeting"
        /\ header' = header \cup {c} /\ UNCHANGED <<sent, broken>>
    BY <1>0, <1>9 DEF WriteHeader, TypeOK
  <2>2. Conversation'
    BY <1>0, <1>1, <1>2, <1>3, <2>1 DEF Conversation
  <2>3. Attended'
    BY <1>0, <1>1, <1>2, <1>3, <2>1 DEF Attended, Open
  <2> QED
    BY <2>2, <2>3
<1>10. CASE SendMessage(c)
  <2>1. /\ client[c] = "greeting" /\ client'[c] = "waiting" /\ c \in greeted
        /\ sent' = sent \cup {c} /\ UNCHANGED <<header, broken>>
    BY <1>0, <1>10 DEF SendMessage, TypeOK
  <2>2. Conversation'
    BY <1>0, <1>1, <1>2, <1>3, <2>1 DEF Conversation
  <2>3. Attended'
    BY <1>0, <1>1, <1>2, <1>3, <2>1 DEF Attended, Open
  <2> QED
    BY <2>2, <2>3
<1>11. CASE ReadAnswer(c)
  <2>1. client'[c] = "answered" /\ UNCHANGED <<header, sent, broken>>
    BY <1>0, <1>11 DEF ReadAnswer, TypeOK
  <2>2. Conversation'
    BY <1>0, <1>1, <1>2, <1>3, <2>1 DEF Conversation
  <2>3. Attended'
    BY <1>0, <1>1, <1>2, <1>3, <2>1 DEF Attended, Open
  <2> QED
    BY <2>2, <2>3
<1>12. CASE ConnectionBreaks(c)
  <2>1. c \in broken /\ client'[c] = "failed" /\ UNCHANGED <<header, sent, broken>>
    BY <1>0, <1>12 DEF ConnectionBreaks, TypeOK
  <2>2. ~Queued(c) /\ ~(Serving /\ connection = c)
    BY <1>0, <2>1 DEF Conversation
  <2>3. Conversation'
    BY <1>0, <1>1, <1>2, <1>3, <2>1, <2>2 DEF Conversation
  <2>4. Attended'
    BY <1>0, <1>1, <1>2, <1>3, <2>1 DEF Attended, Open
  <2> QED
    BY <2>3, <2>4
<1> QED
  BY <1>6, <1>7, <1>8, <1>9, <1>10, <1>11, <1>12 DEF ClientStep

(***************************************************************************)
(* Who is served is not in the queue, and has been there.                  *)
(***************************************************************************)
LEMMA ServedNotQueued ==
  ASSUME IInv, Serving
  PROVE  connection \in Client /\ ~Queued(connection) /\ client[connection] # "new"
<1>1. TypeOK /\ ServedOnce
  BY DEF IInv
<1> QED
  BY <1>1 DEF TypeOK, ServedOnce, Serving, Queued

(***************************************************************************)
(* The executor takes the next connection only when it is done with the    *)
(* one it serves: it has answered it, seen its client dead or its task     *)
(* throw, or is gone itself, with all the connections.                     *)
(***************************************************************************)
LEMMA ConversationOfServer ==
  ASSUME IInv, ServerStep \/ Kill \/ Restart
  PROVE  Conversation' /\ Attended'
<1> USE DEF wire, data
<1>0. TypeOK /\ ServedOnce /\ Conversation /\ Attended
  BY DEF IInv
<1>1. UNCHANGED <<client, header, sent>>
  BY DEF ServerStep, Kill, Restart, Accept, Greet, ReadHeader, HeaderFails, ReadMessage,
         MessageFails, Execute, TaskThrows, TaskErrs, StartTransfers, Join, Answer, Down
<1>2. Open' = Open
  BY <1>1 DEF Open
<1>3. CASE Accept
  <2>1. /\ server = "accept" /\ server' = "greet" /\ queue # << >>
        /\ connection' = Head(queue) /\ queue' = Tail(queue)
        /\ UNCHANGED <<greeted, answer, broken>>
    BY <1>3 DEF Accept, Go
  <2>2. /\ Len(queue) \in Nat \ {0} /\ Len(queue') = Len(queue) - 1
        /\ connection' = queue[1] /\ queue[1] \in Client
        /\ \A i \in 1 .. Len(queue') : queue'[i] = queue[i + 1]
    BY <1>0, <2>1 DEF TypeOK
  <2>3. /\ Queued(connection') /\ ~Serving /\ Serving'
        /\ \A d \in Client : Queued(d)' => Queued(d)
        /\ \A d \in Client : Queued(d) => Queued(d)' \/ connection' = d
    <3>1. Queued(connection') /\ ~Serving /\ Serving'
      BY <2>1, <2>2 DEF Queued, Serving
    <3>2. ASSUME NEW d \in Client, Queued(d)' PROVE Queued(d)
      BY <2>2, <3>2 DEF Queued
    <3>3. ASSUME NEW d \in Client, Queued(d) PROVE Queued(d)' \/ connection' = d
      <4>1. PICK i \in 1 .. Len(queue) : queue[i] = d
        BY <3>3 DEF Queued
      <4>2. CASE i = 1
        BY <2>2, <4>1, <4>2
      <4>3. CASE i # 1
        <5>1. i - 1 \in 1 .. Len(queue') /\ queue'[i - 1] = d
          BY <2>2, <4>1, <4>3
        <5> QED
          BY <5>1 DEF Queued
      <4> QED
        BY <4>2, <4>3
    <3> QED
      BY <3>1, <3>2, <3>3
  <2>4. \A d \in Client : d = connection' => ~Queued(d)'
    <3>1. \A i \in 1 .. Len(queue') : queue[i + 1] # queue[1]
      BY <1>0, <2>2 DEF ServedOnce
    <3> QED
      BY <2>2, <3>1 DEF Queued
  <2>5. Conversation'
    BY <1>0, <1>1, <2>1, <2>2, <2>3, <2>4 DEF Conversation
  <2>6. Attended'
    BY <1>0, <1>1, <1>2, <2>1, <2>3 DEF Attended, Open
  <2> QED
    BY <2>5, <2>6
<1>4. CASE Greet
  <2>1. /\ server = "greet" /\ server' = "readHeader" /\ greeted' = greeted \cup {connection}
        /\ UNCHANGED <<queue, connection, answer, broken>>
    BY <1>4 DEF Greet, Go
  <2>2. Serving /\ Serving' /\ \A d \in Client : Queued(d)' <=> Queued(d)
    BY <2>1 DEF Queued, Serving
  <2>3. Conversation'
    BY <1>0, <1>1, <2>1, <2>2, ServedNotQueued DEF Conversation
  <2>4. Attended'
    BY <1>0, <1>1, <1>2, <2>1, <2>2 DEF Attended, Open
  <2> QED
    BY <2>3, <2>4
<1>5. CASE ReadHeader \/ ReadMessage \/ Execute \/ StartTransfers \/ Join
  <2>1. /\ UNCHANGED <<queue, connection, greeted, answer, broken>>
        /\ server \notin {"greet", "accept", "ended", "killed"}
        /\ server' \notin {"greet", "accept", "ended", "killed"}
        /\ \/ server' \notin {"execute", "move", "join", "answer"}
           \/ server \in {"execute", "move", "join", "answer"}
           \/ connection \in sent
        /\ server' = "readMessage" => connection \in header
    BY <1>5 DEF ReadHeader, ReadMessage, Execute, StartTransfers, Join, Go
  <2>2. Serving /\ Serving' /\ \A d \in Client : Queued(d)' <=> Queued(d)
    BY <2>1 DEF Queued, Serving
  <2>3. Conversation'
    BY <1>0, <1>1, <2>1, <2>2 DEF Conversation
  <2>4. Attended'
    BY <1>0, <1>1, <1>2, <2>1, <2>2 DEF Attended, Open
  <2> QED
    BY <2>3, <2>4
<1>6. CASE MessageFails \/ TaskThrows
  <2>1. /\ server \in {"readMessage", "execute"} /\ server' = "accept"
        /\ UNCHANGED <<queue, connection, greeted, answer, broken>>
        /\ \/ client[connection] = "dead"
           \/ server = "execute" /\ connection \in MayThrow
    BY <1>6 DEF MessageFails, TaskThrows, Go
  <2>2. Serving /\ ~Serving' /\ \A d \in Client : Queued(d)' <=> Queued(d)
    BY <2>1 DEF Queued, Serving
  <2>3. Conversation'
    BY <1>0, <1>1, <2>1, <2>2 DEF Conversation
  <2>4. connection \in Open => client[connection] = "waiting" /\ connection \in MayThrow
    BY <1>0, <2>1 DEF Conversation, Open
  <2>5. Attended'
    BY <1>0, <1>1, <1>2, <2>1, <2>2, <2>4 DEF Attended, Open
  <2> QED
    BY <2>3, <2>5
<1>7. CASE HeaderFails \/ TaskErrs \/ Kill
  <2>1. /\ server' \in {"ended", "killed"} /\ queue' = << >> /\ broken' = broken \cup Open
        /\ UNCHANGED <<connection, greeted, answer>>
    BY <1>7 DEF HeaderFails, TaskErrs, Kill, Down
  <2>2. ~Serving' /\ \A d \in Client : ~Queued(d)'
    BY <2>1 DEF Queued, Serving
  <2>3. Conversation'
    BY <1>0, <1>1, <2>1, <2>2 DEF Conversation, Open
  <2>4. Attended'
    BY <1>2, <2>1 DEF Attended, Open
  <2> QED
    BY <2>3, <2>4
<1>8. CASE Answer
  <2>1. /\ server = "answer" /\ server' = "accept"
        /\ answer' = answer \cup {connection} /\ broken' = broken \cup {connection}
        /\ UNCHANGED <<queue, connection, greeted>>
    BY <1>8 DEF Answer, Go
  <2>2. Serving /\ ~Serving' /\ \A d \in Client : Queued(d)' <=> Queued(d)
    BY <2>1 DEF Queued, Serving
  <2>3. Conversation'
    BY <1>0, <1>1, <2>1, <2>2, ServedNotQueued DEF Conversation
  <2>4. Attended'
    BY <1>0, <1>1, <1>2, <2>1, <2>2 DEF Attended, Open
  <2> QED
    BY <2>3, <2>4
<1>9. CASE Restart
  <2>1. /\ server = "killed" /\ server' = "accept"
        /\ UNCHANGED <<queue, greeted, answer, broken>>
    BY <1>9 DEF Restart, Go
  <2>2. ~Serving /\ ~Serving' /\ \A d \in Client : Queued(d)' <=> Queued(d)
    BY <2>1 DEF Queued, Serving
  <2>3. Conversation'
    BY <1>0, <1>1, <2>1, <2>2 DEF Conversation
  <2>4. Attended'
    BY <1>0, <1>1, <1>2, <2>1, <2>2 DEF Attended, Open
  <2> QED
    BY <2>3, <2>4
<1> QED
  BY <1>3, <1>4, <1>5, <1>6, <1>7, <1>8, <1>9 DEF ServerStep

(***************************************************************************)
(* Every step keeps track of every open connection.                        *)
(***************************************************************************)
LEMMA ConversationStep == IInv /\ [Next]_vars => Conversation' /\ Attended'
<1> SUFFICES ASSUME IInv, [Next]_vars PROVE Conversation' /\ Attended'
  OBVIOUS
<1> USE DEF wire, data
<1>0. TypeOK /\ ServedOnce /\ Conversation /\ Attended
  BY DEF IInv
<1>1. ASSUME NEW c \in Client, Connect(c) PROVE Conversation' /\ Attended'
  <2>1. /\ client[c] = "new" /\ client'[c] = "connected"
        /\ \A d \in Client \ {c} : client'[d] = client[d]
        /\ queue' = Append(queue, c)
        /\ UNCHANGED <<server, connection, greeted, header, sent, answer, broken>>
    BY <1>0, <1>1 DEF Connect, TypeOK
  <2>2. /\ Len(queue') = Len(queue) + 1 /\ queue'[Len(queue) + 1] = c
        /\ \A i \in 1 .. Len(queue) : queue'[i] = queue[i]
        /\ Len(queue) \in Nat
    BY <1>0, <2>1 DEF TypeOK
  <2>3. \A d \in Client : Queued(d)' <=> (Queued(d) \/ d = c)
    BY <2>2 DEF Queued
  <2>4. Serving' <=> Serving
    BY <2>1 DEF Serving
  <2>5. Serving => connection # c
    BY <2>1, ServedNotQueued
  <2>6. Conversation'
    BY <1>0, <2>1, <2>3, <2>4, <2>5 DEF Conversation
  <2>7. Attended'
    BY <1>0, <2>1, <2>3, <2>4 DEF Attended, Open
  <2> QED
    BY <2>6, <2>7
<1>2. ASSUME NEW m \in Transfer, TransferStep(m) PROVE Conversation' /\ Attended'
  <2>1. UNCHANGED <<server, client, queue, connection, wire>>
    BY <1>2 DEF TransferStep, Arrive, Lose
  <2> QED
    BY <1>0, <2>1 DEF Conversation, Attended, Queued, Serving, Open
<1>3. CASE UNCHANGED vars
  BY <1>0, <1>3 DEF vars, Conversation, Attended, Queued, Serving, Open
<1> QED
  BY <1>1, <1>2, <1>3, ConversationOfClients, ConversationOfServer DEF Next, Environment

(***************************************************************************)
(* Only the served client is answered, and only a listening executor       *)
(* accepts connections; when it goes, the queue goes with it.              *)
(***************************************************************************)
LEMMA NoneTooEarlyStep == IInv /\ [Next]_vars => NoneTooEarly'
<1> SUFFICES ASSUME IInv, [Next]_vars PROVE NoneTooEarly'
  OBVIOUS
<1> USE DEF wire, data
<1>0. TypeOK /\ Conversation /\ NoneTooEarly
  BY DEF IInv
<1>1. ASSUME NEW c \in Client, Connect(c) PROVE NoneTooEarly'
  BY <1>0, <1>1 DEF Connect, NoneTooEarly, Listening
<1>2. ASSUME NEW c \in Client, ConnectFails(c) \/ Crash(c) \/ Collect(c) \/ ClientStep(c)
      PROVE  NoneTooEarly'
  <2>1. UNCHANGED <<queue, server, answer>> /\ sent \subseteq sent'
    BY <1>2 DEF ConnectFails, Crash, Collect, ClientStep, WriteHeader, SendMessage, ReadAnswer,
                ConnectionBreaks
  <2> QED
    BY <1>0, <2>1 DEF NoneTooEarly, Listening
<1>3. CASE Answer
  <2>1. /\ server = "answer" /\ server' = "accept" /\ answer' = answer \cup {connection}
        /\ UNCHANGED <<queue, sent>>
    BY <1>3 DEF Answer, Go
  <2> QED
    BY <1>0, <2>1 DEF NoneTooEarly, Conversation, Listening
<1>4. CASE HeaderFails \/ TaskErrs \/ Kill
  BY <1>0, <1>4 DEF HeaderFails, TaskErrs, Kill, Down, NoneTooEarly
<1>5. CASE Accept \/ Greet \/ ReadHeader \/ ReadMessage \/ MessageFails \/ Execute \/ TaskThrows
           \/ StartTransfers \/ Join \/ Restart
  <2>1. server' \notin {"ended", "killed"} /\ UNCHANGED <<answer, sent>>
    BY <1>5 DEF Accept, Greet, ReadHeader, ReadMessage, MessageFails, Execute, TaskThrows,
                StartTransfers, Join, Restart, Go
  <2> QED
    BY <1>0, <2>1 DEF NoneTooEarly, Listening
<1>6. ASSUME NEW m \in Transfer, TransferStep(m) PROVE NoneTooEarly'
  BY <1>0, <1>6 DEF TransferStep, Arrive, Lose, NoneTooEarly, Listening
<1>7. CASE UNCHANGED vars
  BY <1>0, <1>7 DEF vars, NoneTooEarly, Listening
<1> QED
  BY <1>1, <1>2, <1>3, <1>4, <1>5, <1>6, <1>7 DEF Next, ServerStep, Environment

-----------------------------------------------------------------------------
(***************************************************************************)
(* IInv is an inductive invariant of the task executor and its clients.    *)
(***************************************************************************)
THEOREM Invariance == Spec => []IInv
<1>1. IInv /\ [Next]_vars => IInv'
  <2>1. IInv /\ [Next]_vars => TypeOK' /\ ServedOnce' /\ MovesInTurn' /\ TransfersOver'
    BY TypeStep, ServedStep, MovesStep DEF IInv
  <2> QED
    BY <2>1, ConversationStep, NoneTooEarlyStep DEF IInv
<1> QED
  BY Initially, <1>1, PTL DEF Spec

(***************************************************************************)
(* TaskExecutor_Beta answers a submission only after all transfers of its  *)
(* outputs have ended, and no transfer runs while another task is served.  *)
(***************************************************************************)
THEOREM TransfersAreOver == Spec => []TransfersOver
<1>1. IInv => TransfersOver
  BY DEF IInv
<1> QED
  BY Invariance, <1>1, PTL

(***************************************************************************)
(* TaskExecutor_Beta and its clients never wait for each other in vain: a  *)
(* connected client is in the queue, served, answered or cut off, unless   *)
(* its task has thrown, and a read of the executor will find its data, or  *)
(* a client that can still write it, or fail.  It holds for any backlog    *)
(* and any number of submissions, crashes and restarts.                    *)
(***************************************************************************)
THEOREM NobodyIsForgotten == Spec => []NobodyWaitsInVain
<1>1. IInv => NobodyWaitsInVain
  <2> SUFFICES ASSUME IInv PROVE ReadsInTurn
    BY DEF IInv, NobodyWaitsInVain
  <2>0. TypeOK /\ ServedOnce /\ Conversation
    BY DEF IInv
  <2> SUFFICES ASSUME server \in {"readHeader", "readMessage"} PROVE ReadsInTurn
    BY DEF ReadsInTurn
  <2>1. /\ Serving /\ connection \in Client /\ client[connection] # "new"
        /\ connection \notin broken /\ connection \in greeted
    BY <2>0, ServedNotQueued DEF Serving, Conversation
  <2>2. client[connection] \notin {"answered", "failed"}
    BY <2>0, <2>1 DEF ServedOnce, Conversation
  <2>3. client[connection] \in {"connected", "greeting", "waiting", "dead"}
    BY <2>0, <2>1, <2>2 DEF TypeOK
  <2>4. server = "readMessage" => client[connection] # "connected"
    BY <2>0, <2>1 DEF Conversation
  <2> QED
    BY <2>0, <2>1, <2>3, <2>4 DEF ReadsInTurn, Conversation
<1> QED
  BY Invariance, <1>1, PTL

(***************************************************************************)
(* MSGClient, TaskExecutor_Beta and the transfers come to rest only when   *)
(* all submissions are over, but those whose tasks have thrown, which are  *)
(* neither answered nor closed.  So no order of their steps is a deadlock. *)
(***************************************************************************)
THEOREM NeverStuck == Spec => []StopsForAReason
<1>1. IInv /\ NobodyWaitsInVain => StopsForAReason
  <2> SUFFICES ASSUME IInv, NobodyWaitsInVain,
                      \A c \in Client : ~ClientCanGo(c), ~ServerCanGo, moving = {}
               PROVE  /\ \A c \in Open : client[c] = "waiting" /\ c \in MayThrow
                      /\ ~Serving /\ queue = << >>
    BY DEF StopsForAReason
  <2>0. TypeOK /\ Conversation /\ NoneTooEarly /\ Attended /\ ReadsInTurn
    BY DEF IInv, NobodyWaitsInVain
  <2>1. ~Serving
    <3> SUFFICES ASSUME Serving PROVE FALSE
      OBVIOUS
    <3>1. connection \in Client /\ ~ClientCanGo(connection)
      BY ServedNotQueued
    <3>2. server \in {"readHeader", "readMessage"}
      BY <2>0 DEF ServerCanGo, Serving, TypeOK
    <3> QED
      BY <2>0, <3>1, <3>2 DEF ServerCanGo, ClientCanGo, ReadsInTurn
  <2>2. queue = << >>
    BY <2>0, <2>1 DEF ServerCanGo, Serving, NoneTooEarly, Listening
  <2>3. ASSUME NEW c \in Open PROVE client[c] = "waiting" /\ c \in MayThrow
    <3>1. c \in Client /\ client[c] \in {"connected", "greeting", "waiting"} /\ ~ClientCanGo(c)
      BY DEF Open
    <3>2. c \notin answer
      BY <2>0, <3>1 DEF ClientCanGo, Conversation, NoneTooEarly
    <3>3. c \notin broken
      BY <3>1, <3>2 DEF ClientCanGo
    <3>4. ~Queued(c)
      BY <2>2 DEF Queued
    <3> QED
      BY <2>0, <2>1, <3>2, <3>3, <3>4 DEF Attended
  <2> QED
    BY <2>1, <2>2, <2>3
<1> QED
  BY Invariance, NobodyIsForgotten, <1>1, PTL

(***************************************************************************)
(* The step of RemoteCall that each step implements.                       *)
(***************************************************************************)
LEMMA StepRefinement == IInv /\ [Next]_vars => [R!Next]_(R!vars)
<1> SUFFICES ASSUME IInv, [Next]_vars PROVE [R!Next]_(R!vars)
  OBVIOUS
<1> USE SubmissionAssumption DEF wire, data
<1>0. TypeOK /\ ServedOnce
  BY DEF IInv
<1>a. call = [c \in Client |-> call[c]] /\ call' = [c \in Client |-> call'[c]]
  BY DEF call
<1>b. \A c \in Client : /\ client[c] = "new" => call[c] = "new"
                        /\ client[c] \in {"connected", "greeting", "waiting"} => call[c] = "called"
                        /\ client[c] = "answered" => call[c] = "answered"
                        /\ client[c] \in {"failed", "dead"} => call[c] = "failed"
  BY DEF call
<1>c. \A c \in Client : /\ client'[c] = "new" => call'[c] = "new"
                        /\ client'[c] \in {"connected", "greeting", "waiting"} => call'[c] = "called"
                        /\ client'[c] = "answered" => call'[c] = "answered"
                        /\ client'[c] \in {"failed", "dead"} => call'[c] = "failed"
  BY DEF call
<1>f. \A c \in Client : client'[c] = client[c] => call'[c] = call[c]
  BY <1>0, <1>b, <1>c DEF TypeOK
<1>d. ASSUME UNCHANGED <<client, executed>> PROVE UNCHANGED R!vars
  BY <1>d DEF call, R!vars
<1>e. ASSUME NEW c \in Client, NEW s, client' = [client EXCEPT ![c] = s],
             UNCHANGED executed
      PROVE  /\ client'[c] = s
             /\ call' = [call EXCEPT ![c] = call'[c]]
  <2>1. client'[c] = s /\ \A d \in Client \ {c} : client'[d] = client[d]
    BY <1>0, <1>e DEF TypeOK
  <2> QED
    BY <1>a, <1>f, <2>1
<1>1. ASSUME NEW c \in Client, Connect(c) PROVE R!Next
  <2>1. client[c] = "new" /\ client' = [client EXCEPT ![c] = "connected"] /\ UNCHANGED executed
    BY <1>1 DEF Connect
  <2>2. R!Call(c)
    BY <1>b, <1>c, <1>e, <2>1 DEF R!Call
  <2> QED
    BY <2>2 DEF R!Next
<1>2. ASSUME NEW c \in Client, WriteHeader(c) \/ SendMessage(c) PROVE UNCHANGED R!vars
  <2>1. \E s \in {"greeting", "waiting"} :
          /\ client[c] \in {"connected", "greeting"} /\ client' = [client EXCEPT ![c] = s]
          /\ UNCHANGED executed
    BY <1>2 DEF WriteHeader, SendMessage
  <2>2. \A d \in Client : call'[d] = call[d]
    BY <1>0, <1>b, <1>c, <1>f, <2>1 DEF TypeOK
  <2>3. call' = call
    BY <1>a, <2>2, Zenon
  <2> QED
    BY <2>1, <2>3 DEF R!vars
<1>3. ASSUME NEW c \in Client, ReadAnswer(c) PROVE R!Next
  <2>1. /\ client[c] = "waiting" /\ client' = [client EXCEPT ![c] = "answered"]
        /\ c \in answer /\ UNCHANGED executed
    BY <1>3 DEF ReadAnswer
  <2>2. c \in executed
    BY <1>0, <2>1 DEF ServedOnce
  <2>3. R!Answer(c)
    BY <1>b, <1>c, <1>e, <2>1, <2>2 DEF R!Answer
  <2> QED
    BY <2>3 DEF R!Next
<1>4. ASSUME NEW c \in Client, ConnectFails(c) \/ ConnectionBreaks(c) \/ Crash(c) PROVE R!Next
  <2>1. \E s \in {"failed", "dead"} :
          /\ client[c] \in {"new", "connected", "greeting", "waiting"}
          /\ client' = [client EXCEPT ![c] = s]
          /\ UNCHANGED executed
    BY <1>4 DEF ConnectFails, ConnectionBreaks, Crash, Open
  <2>2. R!Fail(c)
    BY <1>b, <1>c, <1>e, <2>1 DEF R!Fail
  <2> QED
    BY <2>2 DEF R!Next
<1>5. CASE Execute
  <2>1. server = "execute" /\ executed' = executed \cup {connection} /\ UNCHANGED client
    BY <1>5 DEF Execute, Go
  <2>2. connection \in Client /\ connection \notin executed
    BY <1>0, <2>1 DEF TypeOK, ServedOnce
  <2>3. client[connection] \in {"connected", "greeting", "waiting", "failed", "dead"}
    BY <1>0, <2>1, <2>2 DEF TypeOK, ServedOnce
  <2>4. call' = call
    BY <2>1 DEF call
  <2>5. R!Execute(connection)
    BY <1>b, <2>1, <2>2, <2>3, <2>4 DEF R!Execute
  <2> QED
    BY <2>2, <2>5 DEF R!Next
<1>6. ASSUME NEW c \in Client, Collect(c) PROVE UNCHANGED R!vars
  BY <1>6, <1>d DEF Collect
<1>7. ASSUME NEW m \in Transfer, TransferStep(m) PROVE UNCHANGED R!vars
  BY <1>7, <1>d DEF TransferStep, Arrive, Lose
<1>8. CASE HeaderFails \/ TaskErrs \/ Kill
  BY <1>8, <1>d DEF HeaderFails, TaskErrs, Kill, Down
<1>9. CASE Accept \/ Greet \/ ReadHeader \/ ReadMessage \/ MessageFails \/ TaskThrows
           \/ StartTransfers \/ Join \/ Answer \/ Restart
  BY <1>9, <1>d DEF Accept, Greet, ReadHeader, ReadMessage, MessageFails, TaskThrows,
                    StartTransfers, Join, Answer, Restart
<1>10. CASE UNCHANGED vars
  BY <1>10, <1>d DEF vars
<1> QED
  BY <1>1, <1>2, <1>3, <1>4, <1>5, <1>6, <1>7, <1>8, <1>9, <1>10
     DEF Next, ClientStep, ServerStep, Environment

(***************************************************************************)
(* A submission by MSGClient to TaskExecutor_Beta is a remote call that    *)
(* executes the task at most once and answers only after that.             *)
(***************************************************************************)
THEOREM Refinement == Spec => ImplementsRemoteCall
<1>1. Init => R!Init
  BY DEF Init, R!Init, call, wire, data
<1> QED
  BY <1>1, Invariance, StepRefinement, PTL DEF Spec, ImplementsRemoteCall, R!Spec

=============================================================================
