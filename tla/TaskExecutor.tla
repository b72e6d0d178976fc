---------------------------- MODULE TaskExecutor ----------------------------
(***************************************************************************)
(* The TaskExecutor_Beta of one VM and the MSGClients that submit tasks to *)
(* it, connected by TCP.  The executor serves one connection after the     *)
(* other: it exchanges stream headers with the client, reads the message,  *)
(* executes the task, moves the outputs to the VMs of the children by one  *)
(* thread each, joins these threads, answers and closes.                   *)
(*                                                                         *)
(* The clients are the submissions of all the workflows that use the VM:   *)
(* VMs are shared by whoever asks for their type, and a workflow that      *)
(* starts kills and restarts the executors of all the running VMs.         *)
(***************************************************************************)
EXTENDS Naturals, FiniteSets, Sequences

CONSTANTS
  Client,      \* the submissions, each by a MSGClient of its own
  NoClient,    \* no connection accepted yet
  Backlog,     \* how many connections wait to be accepted (10 in the code)
  Transfer,    \* the transfers of outputs to other VMs
  transfers,   \* the transfers that follow the task of each client
  MayThrow,    \* clients whose task may throw
  MayCrash,    \* clients whose process may die
  MayLose,     \* transfers that may fail
  MaxKills     \* bound on the restarts by other workflows

ASSUME SubmissionAssumption ==
  /\ IsFiniteSet(Client) /\ NoClient \notin Client
  /\ Backlog \in Nat /\ MaxKills \in Nat
  /\ transfers \in [Client -> SUBSET Transfer]
  /\ \A c, d \in Client : c # d => transfers[c] \cap transfers[d] = {}
  /\ MayThrow \subseteq Client /\ MayCrash \subseteq Client /\ MayLose \subseteq Transfer

VARIABLES
  client,     \* where each MSGClient is
  queue,      \* the connections that wait to be accepted
  server,     \* where the executor is in its loop
  connection, \* the connection accepted last
  greeted,    \* clients that have been sent the executor's stream header
  header,     \* clients that have sent their stream header
  sent,       \* clients that have sent their message
  answer,     \* clients that have been sent the answer
  broken,     \* clients whose connection the executor's side has closed
  executed,   \* history: clients whose task has been executed
  moving,     \* transfers that are under way
  arrived,    \* history: transfers that have delivered the file
  lost,       \* history: transfers that have failed
  kills       \* how often the executor has been killed

wire == <<greeted, header, sent, answer, broken>>
data == <<executed, moving, arrived, lost>>
vars == <<client, queue, server, connection, wire, data, kills>>

Init ==
  /\ client = [c \in Client |-> "new"]
  /\ queue = << >>
  /\ server = "accept"
  /\ connection = NoClient
  /\ greeted = {} /\ header = {} /\ sent = {} /\ answer = {} /\ broken = {}
  /\ executed = {} /\ moving = {} /\ arrived = {} /\ lost = {}
  /\ kills = 0

Listening == server \notin {"ended", "killed"}

\* Clients in the middle of a submission.
Open == {c \in Client : client[c] \in {"connected", "greeting", "waiting"}}

-----------------------------------------------------------------------------
(* MSGClient                                                               *)

Connect(c) ==
  /\ client[c] = "new" /\ Listening /\ Len(queue) < Backlog
  /\ client' = [client EXCEPT ![c] = "connected"]
  /\ queue' = Append(queue, c)
  /\ UNCHANGED <<server, connection, wire, data, kills>>

\* The constructor throws: nobody listens, or the backlog is full.
ConnectFails(c) ==
  /\ client[c] = "new" /\ (~Listening \/ Len(queue) >= Backlog)
  /\ client' = [client EXCEPT ![c] = "failed"]
  /\ UNCHANGED <<queue, server, connection, wire, data, kills>>

\* new ObjectOutputStream
WriteHeader(c) ==
  /\ client[c] = "connected" /\ c \notin broken
  /\ client' = [client EXCEPT ![c] = "greeting"]
  /\ header' = header \cup {c}
  /\ UNCHANGED <<queue, server, connection, greeted, sent, answer, broken, data, kills>>

\* new ObjectInputStream returns when the executor's header is there; then sendMessage
SendMessage(c) ==
  /\ client[c] = "greeting" /\ c \in greeted /\ c \notin broken
  /\ client' = [client EXCEPT ![c] = "waiting"]
  /\ sent' = sent \cup {c}
  /\ UNCHANGED <<queue, server, connection, greeted, header, answer, broken, data, kills>>

ReadAnswer(c) ==
  /\ client[c] = "waiting" /\ c \in answer
  /\ client' = [client EXCEPT ![c] = "answered"]
  /\ UNCHANGED <<queue, server, connection, wire, data, kills>>

\* An exception in send(): the answer stays empty, or in is still null when it is closed.
ConnectionBreaks(c) ==
  /\ c \in Open \ answer /\ c \in broken
  /\ client' = [client EXCEPT ![c] = "failed"]
  /\ UNCHANGED <<queue, server, connection, wire, data, kills>>

Crash(c) ==
  /\ c \in MayCrash \cap Open
  /\ client' = [client EXCEPT ![c] = "dead"]
  /\ UNCHANGED <<queue, server, connection, wire, data, kills>>

-----------------------------------------------------------------------------
(* TaskExecutor_Beta.run                                                   *)

Go(from, to) == server = from /\ server' = to

\* The process of the executor is gone, with its connections and its transfer threads.
Down(to) ==
  /\ server' = to
  /\ queue' = << >>
  /\ broken' = broken \cup Open
  /\ moving' = {}
  /\ UNCHANGED <<client, connection, greeted, header, sent, answer, executed, arrived, lost>>

Accept ==
  /\ queue # << >>
  /\ Go("accept", "greet")
  /\ connection' = Head(queue)
  /\ queue' = Tail(queue)
  /\ UNCHANGED <<client, wire, data, kills>>

Greet ==
  /\ Go("greet", "readHeader")
  /\ greeted' = greeted \cup {connection}
  /\ UNCHANGED <<client, queue, connection, header, sent, answer, broken, data, kills>>

ReadHeader ==
  /\ connection \in header
  /\ Go("readHeader", "readMessage")
  /\ UNCHANGED <<client, queue, connection, wire, data, kills>>

\* The streams are opened outside the inner try: an IOException there ends the loop.
HeaderFails ==
  /\ server = "readHeader" /\ client[connection] = "dead"
  /\ Down("ended")
  /\ UNCHANGED kills

ReadMessage ==
  /\ connection \in sent
  /\ Go("readMessage", "execute")
  /\ UNCHANGED <<client, queue, connection, wire, data, kills>>

\* Mutation: the executor does not wait for a client that is slow.
GiveUpReading ==
  /\ Go("readMessage", "accept")
  /\ connection \notin sent
  /\ UNCHANGED <<client, queue, connection, wire, data, kills>>

MessageFails ==
  /\ Go("readMessage", "accept")
  /\ client[connection] = "dead"
  /\ UNCHANGED <<client, queue, connection, wire, data, kills>>

Execute ==
  /\ Go("execute", "move")
  /\ executed' = executed \cup {connection}
  /\ UNCHANGED <<client, queue, connection, wire, moving, arrived, lost, kills>>

\* Mutation: the answer is sent after an exception, too.
AnswerAfterThrow ==
  /\ connection \in MayThrow
  /\ Go("execute", "answer")
  /\ UNCHANGED <<client, queue, connection, wire, data, kills>>

\* The exception is printed; there is no answer, and the connection is not closed.
TaskThrows ==
  /\ connection \in MayThrow
  /\ Go("execute", "accept")
  /\ UNCHANGED <<client, queue, connection, wire, data, kills>>

\* An Error (out of memory, a missing class) is not caught.
TaskErrs ==
  /\ server = "execute" /\ connection \in MayThrow
  /\ Down("ended")
  /\ UNCHANGED kills

\* dataMove starts a thread for each output to be moved
StartTransfers ==
  /\ Go("move", "join")
  /\ moving' = transfers[connection]
  /\ UNCHANGED <<client, queue, connection, wire, executed, arrived, lost, kills>>

Arrive(m) ==
  /\ m \in moving
  /\ moving' = moving \ {m}
  /\ arrived' = arrived \cup {m}
  /\ UNCHANGED <<client, queue, server, connection, wire, executed, lost, kills>>

\* CmdLineDriver.copyFile prints the exception and returns.
Lose(m) ==
  /\ m \in moving \cap MayLose
  /\ moving' = moving \ {m}
  /\ lost' = lost \cup {m}
  /\ UNCHANGED <<client, queue, server, connection, wire, executed, arrived, kills>>

\* Mutation: the threads are not joined.
NoJoin ==
  /\ Go("join", "answer")
  /\ UNCHANGED <<client, queue, connection, wire, data, kills>>

\* Mutation: the files have to arrive, not only the threads to end.
JoinArrived ==
  /\ moving = {} /\ (server = "join" => transfers[connection] \subseteq arrived)
  /\ Go("join", "answer")
  /\ UNCHANGED <<client, queue, connection, wire, data, kills>>

Join ==
  /\ moving = {}
  /\ Go("join", "answer")
  /\ UNCHANGED <<client, queue, connection, wire, data, kills>>

\* Mutation: the loop reads the next message of the same connection.
AnswerAndReadOn ==
  /\ Go("answer", "readMessage")
  /\ answer' = answer \cup {connection}
  /\ UNCHANGED <<client, queue, connection, greeted, header, sent, broken, data, kills>>

\* writeObject and the three close; towards a dead client they throw and that is caught
Answer ==
  /\ Go("answer", "accept")
  /\ answer' = answer \cup {connection}
  /\ broken' = broken \cup {connection}
  /\ UNCHANGED <<client, queue, connection, greeted, header, sent, data, kills>>

(***************************************************************************)
(* A connection left open is closed when its socket is collected, which it *)
(* can be once the next connection is accepted.                            *)
(***************************************************************************)
Collect(c) ==
  /\ c \in Open \ broken /\ c \in greeted /\ c # connection
  /\ broken' = broken \cup {c}
  /\ UNCHANGED <<client, queue, server, connection, greeted, header, sent, answer, data, kills>>

\* MoveToCloud.getCodeReady of another workflow: kill -9, then a new executor
Kill ==
  /\ kills < MaxKills
  /\ kills' = kills + 1
  /\ Down("killed")

\* Mutation: the new executor goes on without an accept.
RestartInTheMiddle ==
  /\ Go("killed", "greet")
  /\ connection' = NoClient
  /\ UNCHANGED <<client, queue, wire, data, kills>>

Restart ==
  /\ Go("killed", "accept")
  /\ connection' = NoClient
  /\ UNCHANGED <<client, queue, wire, data, kills>>

-----------------------------------------------------------------------------
ClientStep(c) ==
  \/ WriteHeader(c) \/ SendMessage(c) \/ ReadAnswer(c) \/ ConnectionBreaks(c)

ServerStep ==
  \/ Accept \/ Greet \/ ReadHeader \/ HeaderFails \/ ReadMessage \/ MessageFails
  \/ Execute \/ TaskThrows \/ TaskErrs \/ StartTransfers \/ Join \/ Answer

TransferStep(m) == Arrive(m) \/ Lose(m)

Environment ==
  \/ \E c \in Client : Connect(c) \/ ConnectFails(c) \/ Crash(c) \/ Collect(c)
  \/ Kill \/ Restart

Next ==
  \/ \E c \in Client : ClientStep(c)
  \/ ServerStep
  \/ \E m \in Transfer : TransferStep(m)
  \/ Environment

Spec == Init /\ [][Next]_vars

(***************************************************************************)
(* The processes run, a task and a transfer come to an end in one way or   *)
(* another.  Nobody has to submit, to crash, to kill or to collect.        *)
(***************************************************************************)
FairSpec ==
  /\ Spec
  /\ \A c \in Client : WF_vars(ClientStep(c))
  /\ WF_vars(ServerStep)
  /\ \A m \in Transfer : WF_vars(TransferStep(m))

-----------------------------------------------------------------------------
TypeOK ==
  /\ client \in [Client -> {"new", "connected", "greeting", "waiting", "answered", "failed",
                            "dead"}]
  /\ queue \in Seq(Client)
  /\ server \in {"accept", "greet", "readHeader", "readMessage", "execute", "move", "join",
                 "answer", "ended", "killed"}
  /\ connection \in Client \cup {NoClient}
  /\ server \notin {"accept", "ended", "killed"} => connection \in Client
  /\ greeted \subseteq Client /\ header \subseteq Client /\ sent \subseteq Client
  /\ answer \subseteq Client /\ broken \subseteq Client
  /\ executed \subseteq Client
  /\ moving \subseteq Transfer /\ arrived \subseteq Transfer /\ lost \subseteq Transfer
  /\ kills \in 0 .. MaxKills

(***************************************************************************)
(* Who gets an answer can rely on the transfers of its outputs being over, *)
(* although they are made by threads of their own, and no transfer of a    *)
(* task runs on while the executor is busy with another one.               *)
(***************************************************************************)
TransfersOver ==
  /\ \A c \in answer : transfers[c] \subseteq arrived \cup lost
  /\ moving # {} => server = "join" /\ moving \subseteq transfers[connection]

(***************************************************************************)
(* A connection is in one place: new, waiting in the queue, or served.  So *)
(* what is in the queue, or served and not yet executed, is not executed,  *)
(* and what has been answered is.                                          *)
(***************************************************************************)
ServedOnce ==
  /\ \A i \in 1 .. Len(queue) : queue[i] \notin executed /\ client[queue[i]] # "new"
  /\ \A i, j \in 1 .. Len(queue) : queue[i] = queue[j] => i = j
  /\ server \in {"greet", "readHeader", "readMessage", "execute"} =>
       /\ connection \notin executed /\ client[connection] # "new"
       /\ \A i \in 1 .. Len(queue) : queue[i] # connection
  /\ server \in {"move", "join", "answer"} => connection \in executed
  /\ \A c \in Client : client[c] = "new" => c \notin executed
  /\ \A c \in Client : client[c] = "answered" => c \in answer
  /\ answer \subseteq executed

\* The transfers of the task that is served are accounted for.
MovesInTurn ==
  /\ server = "join" => transfers[connection] \subseteq moving \cup arrived \cup lost
  /\ server = "answer" => transfers[connection] \subseteq arrived \cup lost

\* The connection accepted last has not been left yet.
Serving == server \notin {"accept", "ended", "killed"}

Queued(c) == \E i \in 1 .. Len(queue) : queue[i] = c

(***************************************************************************)
(* What has been written tells where the writer is, and a connection stays *)
(* open until it has been served.                                          *)
(***************************************************************************)
Conversation ==
  /\ \A c \in Client :
       /\ client[c] = "new" => c \notin greeted \cup header \cup sent \cup broken
       /\ client[c] = "connected" => c \notin header \cup sent
       /\ client[c] = "greeting" => c \in header \ sent
       /\ client[c] = "waiting" => c \in greeted \cap header \cap sent
       /\ client[c] = "failed" => ~Queued(c) /\ ~(Serving /\ connection = c)
       /\ Queued(c) => c \notin greeted \cup broken
  /\ Serving => connection \notin broken
  /\ Serving => (connection \in greeted <=> server # "greet")
  /\ server = "readMessage" => connection \in header
  /\ server \in {"execute", "move", "join", "answer"} => connection \in sent

\* Who is answered has sent a message, and nobody queues for an executor that is gone.
NoneTooEarly == answer \subseteq sent /\ (~Listening => queue = << >>)

\* A client that has connected is answered, cut off, in the queue or being served.
Attended ==
  \A c \in Open \ (answer \cup broken) :
    \/ Queued(c)
    \/ Serving /\ connection = c
    \/ client[c] = "waiting" /\ c \in MayThrow

\* What the executor reads is there, or can still be written, or the read fails.
ReadsInTurn ==
  /\ server = "readHeader" =>
       \/ connection \in header
       \/ client[connection] = "connected" /\ connection \notin broken
       \/ client[connection] = "dead"
  /\ server = "readMessage" =>
       \/ connection \in sent
       \/ client[connection] = "greeting" /\ connection \in greeted \ broken
       \/ client[connection] = "dead"

(***************************************************************************)
(* No client is forgotten, unless its task has thrown, and the two ends    *)
(* never read from each other at the same time.                            *)
(***************************************************************************)
NobodyWaitsInVain == Attended /\ ReadsInTurn

\* Where ClientStep(c) and ServerStep are enabled
ClientCanGo(c) ==
  \/ client[c] = "connected" /\ c \notin broken
  \/ client[c] = "greeting" /\ c \in greeted \ broken
  \/ client[c] = "waiting" /\ c \in answer
  \/ c \in Open \ answer /\ c \in broken

ServerCanGo ==
  \/ server = "accept" /\ queue # << >>
  \/ server \in {"greet", "execute", "move", "answer"}
  \/ server = "readHeader" /\ (connection \in header \/ client[connection] = "dead")
  \/ server = "readMessage" /\ (connection \in sent \/ client[connection] = "dead")
  \/ server = "join" /\ moving = {}

(***************************************************************************)
(* When client, executor and transfers can do nothing more, each client    *)
(* has its answer, has failed or has died, or its task has thrown; and the *)
(* executor is ready for the next connection or gone.                      *)
(***************************************************************************)
StopsForAReason ==
  (\A c \in Client : ~ClientCanGo(c)) /\ ~ServerCanGo /\ moving = {} =>
    /\ \A c \in Open : client[c] = "waiting" /\ c \in MayThrow
    /\ ~Serving /\ queue = << >>

(***************************************************************************)
(* The inductive invariant: with it a submission is executed at most once, *)
(* answered only after its execution and its transfers, and not forgotten. *)
(***************************************************************************)
IInv ==
  /\ TypeOK /\ ServedOnce /\ MovesInTurn /\ TransfersOver
  /\ Conversation /\ NoneTooEarly /\ Attended

(***************************************************************************)
(* A submission is a remote call with at-most-once semantics.              *)
(***************************************************************************)
call == [c \in Client |->
           CASE client[c] = "new" -> "new"
             [] client[c] \in {"connected", "greeting", "waiting"} -> "called"
             [] client[c] = "answered" -> "answered"
             [] OTHER -> "failed"]

R == INSTANCE RemoteCall

ImplementsRemoteCall == R!Spec

(***************************************************************************)
(* The two ends never wait for each other's stream header, and a queued    *)
(* connection gets its turn whatever becomes of those before it.           *)
(***************************************************************************)
HandshakeCompletes ==
  \A c \in Client : client[c] = "connected" ~> client[c] \notin {"connected", "greeting"}

\* A client waits for ever only for a task that throws.
AnswersUnlessThrown ==
  \A c \in Client \ MayThrow : client[c] = "waiting" ~> client[c] # "waiting"

(***************************************************************************)
(* The execution status of every task is sent back to the executor of the  *)
(* workflow, or at least the connection is closed (step 7 of the loop).    *)
(***************************************************************************)
StatusIsSentBack ==
  \A c \in Client : client[c] = "waiting" ~> client[c] # "waiting"

(***************************************************************************)
(* When the submission returns, all the output data of the task have been  *)
(* moved to their destinations.                                            *)
(***************************************************************************)
OutputsMoved ==
  \A c \in Client : client[c] = "answered" => transfers[c] \subseteq arrived

=============================================================================
