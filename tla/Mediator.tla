------------------------------ MODULE Mediator ------------------------------
(***************************************************************************)
(* The servlet behind the web bench.  The user, the folder and the token   *)
(* it works with are static fields, set by whatever request comes along:   *)
(* strUser by each request, from its session; fileLocation (and with it    *)
(* tableLocation) by initializeUserFolder, from strUser; token by those    *)
(* that need it.  A diagram is saved in the folder of the user and in the  *)
(* Dropbox account of the token; a run parses the saved file and hands the *)
(* schedule, the folder and the token to an executor, again in static      *)
(* fields, which the threads of its tasks read as long as the run lasts.   *)
(*                                                                         *)
(* Each access of a thread to a static field or to a file is a step.  The  *)
(* threads of one user may overlap: saveWorkflow covers nothing on the     *)
(* page, and axios gives a request up after 50 seconds, which does not     *)
(* stop it on the server.  The files that tasks read and write have other  *)
(* names than workflows and are left out.                                  *)
(***************************************************************************)
EXTENDS Naturals, FiniteSets

CONSTANTS
  Thread,        \* threads of the servlet container
  User,          \* users who are signed in
  Name,          \* names given to workflows
  Diagram,       \* diagrams drawn
  Default,       \* the account of defaultToken
  None,          \* no user, no file, no diagram
  Empty,         \* the content of a file that is not written to its end: none, or a beginning
  Broken,        \* the content of a file that two threads write at a time: pieces of diagrams
  MaxRequests,   \* bound on the requests of the users
  MaxOverlaps,   \* bound on those that come before another is over
  MaxRestarts    \* bound on restarts of the server

Account == User \cup {Default}
Content == Diagram \cup {Empty, Broken}

ASSUME UserAssumption ==
  /\ IsFiniteSet(Thread) /\ IsFiniteSet(User)
  /\ None \notin Account \cup Name \cup Content /\ Default \notin User
  /\ Empty \notin Diagram /\ Broken \notin Diagram /\ Empty # Broken
  /\ {MaxRequests, MaxOverlaps, MaxRestarts} \subseteq Nat

VARIABLES
  strUser,       \* Mediator.strUser
  fileLocation,  \* Mediator.fileLocation, by the user whose folder it is
  token,         \* Mediator.token, by its account
  gsch,          \* WorkflowExecutor.gsch, by the diagram it was planned for
  taskDir,       \* WorkflowExecutor_Local.workflowTaskDir
  taskToken,     \* WorkflowExecutor_Local.dropboxToken, by its account
  hasToken,      \* the users with a token of their own in users.table
  disk,          \* the files in the folder of each user
  dropbox,       \* the files in each account
  pc,            \* where each thread is
  job,           \* what it does, for whom, with which name and diagram
  at,            \* the folder it has the path of its file from
  reg,           \* the user it has read from strUser
  account,       \* the token it has read from token
  spec,          \* the diagram it has read
  fresh,         \* whether the name of its diagram was a new one
  ran,           \* the schedules its run has executed
  dirs,          \* the folders its task threads have read from taskDir
  tokens,        \* the tokens they have read from taskToken
  requests, overlaps, restarts,
  apart,         \* history: the threads that no other has overlapped
  settled,       \* history: the user who last set fileLocation, if apart
  mixed,         \* history: a diagram was saved by a request that was not calm
  overtaken      \* history: the threads that write a file which another has opened since they looked for it

statics == <<strUser, fileLocation, token, gsch, taskDir, taskToken>>
files == <<hasToken, disk, dropbox>>
run == <<fresh, ran, dirs, tokens>>
locals == <<at, reg, account, spec, run>>
bounds == <<requests, overlaps, restarts>>
history == <<apart, settled, mixed, overtaken>>
vars == <<statics, files, pc, job, locals, bounds, history>>

NoJob == [kind |-> "none", user |-> None, name |-> None, diagram |-> None]

Job ==
  [kind : {"initializeUserFolder", "loadDropboxKey", "getInputData"}, user : User, name : {None}, diagram : {None}]
    \cup [kind : {"save", "run"}, user : User, name : Name, diagram : Diagram]

Init ==
  /\ strUser = None /\ fileLocation = None /\ token = None
  /\ gsch = None /\ taskDir = None /\ taskToken = None
  /\ hasToken \in SUBSET User
  /\ disk = [u \in User |-> [n \in Name |-> None]]
  /\ dropbox = [a \in Account |-> [n \in Name |-> None]]
  /\ pc = [r \in Thread |-> "idle"]
  /\ job = [r \in Thread |-> NoJob]
  /\ at = [r \in Thread |-> None] /\ reg = [r \in Thread |-> None]
  /\ account = [r \in Thread |-> None] /\ spec = [r \in Thread |-> None]
  /\ fresh = [r \in Thread |-> FALSE] /\ ran = [r \in Thread |-> {}]
  /\ dirs = [r \in Thread |-> {}] /\ tokens = [r \in Thread |-> {}]
  /\ requests = 0 /\ overlaps = 0 /\ restarts = 0
  /\ apart = Thread /\ settled = None /\ mixed = FALSE /\ overtaken = {}

-----------------------------------------------------------------------------
Goto(r, from, to) ==
  /\ pc[r] = from
  /\ pc' = [pc EXCEPT ![r] = to]

\* Nobody overlapped the thread, and fileLocation was last set for its user.
Calm(r) == r \in apart /\ settled = job[r].user

Busy == {r \in Thread : pc[r] # "idle"}
Set(local, r, value) == local' = [local EXCEPT ![r] = value]

\* The answer, or an exception, which doPost catches: the answer is empty.
End(r) ==
  /\ pc' = [pc EXCEPT ![r] = "idle"]
  /\ job' = [job EXCEPT ![r] = NoJob]
  /\ Set(at, r, None) /\ Set(reg, r, None) /\ Set(account, r, None) /\ Set(spec, r, None)
  /\ Set(fresh, r, FALSE) /\ Set(ran, r, {}) /\ Set(dirs, r, {}) /\ Set(tokens, r, {})
  /\ UNCHANGED bounds

\* How many requests the page sends: two for a run, which is saved first.
Requests(j) == IF j.kind = "run" THEN 2 ELSE 1

\* doPost: the user of the session becomes the current one.
DoPost(r, j) ==
  /\ pc[r] = "idle" /\ j \in Job /\ requests + Requests(j) <= MaxRequests
  /\ requests' = requests + Requests(j)
  /\ Busy # {} => overlaps < MaxOverlaps
  /\ overlaps' = IF Busy = {} THEN overlaps ELSE overlaps + 1
  /\ pc' = [pc EXCEPT ![r] = j.kind]
  /\ job' = [job EXCEPT ![r] = j]
  /\ strUser' = j.user
  /\ apart' = IF Busy = {} THEN apart \cup {r} ELSE apart \ (Busy \cup {r})
  /\ UNCHANGED <<fileLocation, token, gsch, taskDir, taskToken, files, locals, restarts, settled,
                 mixed, overtaken>>

(***************************************************************************)
(* loadDropboxKey writes the token into users.table, unless it is empty,   *)
(* and then initializes the folder.  Without tableLocation there is no     *)
(* users.table, and both read and write throw.                             *)
(***************************************************************************)
LoadDropboxKey(r) ==
  /\ pc[r] = "loadDropboxKey"
  /\ IF fileLocation = None
     THEN End(r) /\ UNCHANGED hasToken
     ELSE /\ Goto(r, "loadDropboxKey", "initializeUserFolder")
          /\ hasToken' \in {hasToken, hasToken \cup {job[r].user}}
          /\ UNCHANGED <<job, locals, bounds>>
  /\ UNCHANGED <<statics, disk, dropbox, history>>

\* fileLocation becomes the folder of the current user, and the request ends.
Settle(r) ==
  /\ fileLocation' = strUser
  /\ settled' = IF r \in apart THEN job[r].user ELSE None

\* A mutant: the folder is initialized once, as getInputData does it.
InitializeUserFolderOnce(r) ==
  /\ pc[r] = "initializeUserFolder"
  /\ fileLocation' = IF fileLocation = None THEN strUser ELSE fileLocation
  /\ settled' = IF r \in apart THEN job[r].user ELSE None
  /\ End(r)
  /\ UNCHANGED <<strUser, token, gsch, taskDir, taskToken, files, apart, mixed, overtaken>>

InitializeUserFolder(r) ==
  /\ pc[r] = "initializeUserFolder"
  /\ Settle(r) /\ End(r)
  /\ UNCHANGED <<strUser, token, gsch, taskDir, taskToken, files, apart, mixed, overtaken>>

(***************************************************************************)
(* getInputData, which shows a file (getPortsNumber is alike), initializes *)
(* the folder only if there is none.  A file that is not in the folder is  *)
(* downloaded, with the token of the current user, which is read twice.    *)
(***************************************************************************)
GetInputData(r) ==
  /\ pc[r] = "getInputData"
  /\ IF fileLocation = None THEN Settle(r) ELSE UNCHANGED <<fileLocation, settled>>
  /\ \/ End(r)
     \/ Goto(r, "getInputData", "fileUser") /\ UNCHANGED <<job, locals, bounds>>
  /\ UNCHANGED <<strUser, token, gsch, taskDir, taskToken, files, apart, mixed, overtaken>>

Download(r) ==
  /\ pc[r] = "download" /\ End(r)
  /\ UNCHANGED <<statics, files, history>>

-----------------------------------------------------------------------------
(***************************************************************************)
(* The answer to saveAs, or the exception: runWithSave runs the workflow   *)
(* whatever the answer is, unless there is none in time.                   *)
(***************************************************************************)
EndSave(r) ==
  \/ /\ job[r].kind = "run"
     /\ pc' = [pc EXCEPT ![r] = "doPost"]
     /\ Set(at, r, None) /\ Set(reg, r, None) /\ Set(account, r, None)
     /\ UNCHANGED <<job, spec, run, bounds>>
  \/ End(r)

NoTable(r) ==
  /\ fileLocation = None /\ pc[r] \in {"save", "run"}
  /\ EndSave(r)
  /\ UNCHANGED <<statics, files, history>>

ReadUser(r, from, to) ==
  /\ fileLocation # None /\ Goto(r, from, to)
  /\ Set(reg, r, strUser)
  /\ UNCHANGED <<statics, files, job, at, account, spec, run, bounds, history>>

SetToken(r, from, to) ==
  /\ Goto(r, from, to)
  /\ token' = IF reg[r] \in hasToken THEN reg[r] ELSE Default
  /\ Set(reg, r, None)
  /\ UNCHANGED <<strUser, fileLocation, gsch, taskDir, taskToken, files, job, at, account, spec, run,
                 bounds, history>>

NewClient(r, from, to) ==
  /\ Goto(r, from, to)
  /\ Set(account, r, token)
  /\ UNCHANGED <<statics, files, job, at, reg, spec, run, bounds, history>>

\* saveAs, once it has its client.  A mutant: what is there is written over.
ExistsIgnored(r) ==
  /\ Goto(r, "exists", "create")
  /\ Set(at, r, fileLocation) /\ Set(fresh, r, TRUE)
  /\ mixed' = (mixed \/ ~Calm(r))
  /\ UNCHANGED <<statics, files, job, reg, account, spec, ran, dirs, tokens, bounds, apart, settled, overtaken>>

\* A file that is there already is not written, and its content uploaded again.
Exists(r) ==
  /\ pc[r] = "exists"
  /\ Set(at, r, fileLocation)
  /\ LET there == disk[fileLocation][job[r].name] # None
     IN  /\ pc' = [pc EXCEPT ![r] = IF there THEN "upload" ELSE "create"]
         /\ Set(fresh, r, ~there)
  /\ mixed' = (mixed \/ ~Calm(r))
  /\ UNCHANGED <<statics, files, job, reg, account, spec, ran, dirs, tokens, bounds, apart, settled, overtaken>>

\* The threads other than r that are about to open the file of r, or have it open
Opening(r) == {q \in Thread \ {r} : pc[q] = "create" /\ at[q] = at[r] /\ job[q].name = job[r].name}
Writing(r) == {q \in Thread \ {r} : pc[q] = "fill" /\ at[q] = at[r] /\ job[q].name = job[r].name}

(***************************************************************************)
(* FileWriter creates the file or empties it, and the diagram is written   *)
(* at the beginning.  If the file has been opened by another thread in the *)
(* meantime, it may have pieces of both diagrams in the end.               *)
(***************************************************************************)
CreateFile(r) ==
  /\ Goto(r, "create", "fill")
  /\ disk' = [disk EXCEPT ![at[r]][job[r].name] = IF Writing(r) = {} THEN Empty ELSE Broken]
  /\ overtaken' = overtaken \cup Opening(r) \cup Writing(r)
  /\ UNCHANGED <<statics, hasToken, dropbox, job, locals, bounds, apart, settled, mixed>>

WriteFile(r) ==
  /\ Goto(r, "fill", "upload")
  /\ \E content \in {job[r].diagram, Broken} :
       /\ disk[at[r]][job[r].name] \in {Empty, job[r].diagram} => content = job[r].diagram
       /\ disk' = [disk EXCEPT ![at[r]][job[r].name] = content]
  /\ overtaken' = overtaken \ {r}
  /\ UNCHANGED <<statics, hasToken, dropbox, job, locals, bounds, apart, settled, mixed>>

\* A mutant: the diagram of the request is uploaded, not the file.
UploadDrawn(r) ==
  LET n == job[r].name
      old == dropbox[account[r]][n]
  IN  /\ pc[r] = "upload"
      /\ dropbox' = IF old = None THEN [dropbox EXCEPT ![account[r]][n] = job[r].diagram] ELSE dropbox
      /\ mixed' = (mixed \/ ~Calm(r))
      /\ EndSave(r)
      /\ UNCHANGED <<statics, hasToken, disk, apart, settled, overtaken>>

\* WriteMode.ADD: another content under this name is a conflict, and the upload throws.
Upload(r) ==
  LET n == job[r].name
      content == disk[at[r]][n]
      old == dropbox[account[r]][n]
  IN  /\ pc[r] = "upload"
      /\ dropbox' = IF old = None THEN [dropbox EXCEPT ![account[r]][n] = content] ELSE dropbox
      /\ mixed' = (mixed \/ ~Calm(r))
      /\ EndSave(r)
      /\ UNCHANGED <<statics, hasToken, disk, apart, settled, overtaken>>

\* The second request of runWithSave
PostRun(r) ==
  /\ Goto(r, "doPost", "parse")
  /\ strUser' = job[r].user
  /\ UNCHANGED <<fileLocation, token, gsch, taskDir, taskToken, files, job, locals, bounds, history>>

\* A mutant: whatever is in the file is planned.
ParseUnchecked(r) ==
  /\ fileLocation # None /\ Goto(r, "parse", "runUser")
  /\ Set(spec, r, disk[fileLocation][job[r].name])
  /\ UNCHANGED <<statics, files, job, at, reg, account, run, bounds, history>>

\* serverRunWorkflows; a file that is not there, or that is no diagram, makes it throw.
Parse(r) ==
  /\ pc[r] = "parse"
  /\ IF fileLocation = None \/ disk[fileLocation][job[r].name] \notin Diagram
     THEN End(r)
     ELSE /\ Goto(r, "parse", "runUser")
          /\ Set(spec, r, disk[fileLocation][job[r].name])
          /\ UNCHANGED <<job, at, reg, account, run, bounds>>
  /\ UNCHANGED <<statics, files, history>>

\* The arguments of the constructor are read before it writes anything.
Arguments(r) ==
  /\ Goto(r, "arguments", "construct")
  /\ Set(at, r, fileLocation) /\ Set(account, r, token)
  /\ UNCHANGED <<statics, files, job, reg, spec, run, bounds, history>>

ConstructSuper(r) ==
  /\ Goto(r, "construct", "construct2")
  /\ gsch' = spec[r]
  /\ UNCHANGED <<strUser, fileLocation, token, taskDir, taskToken, files, job, locals, bounds, history>>

ConstructDir(r) ==
  /\ Goto(r, "construct2", "construct3")
  /\ taskDir' = at[r]
  /\ UNCHANGED <<strUser, fileLocation, token, gsch, taskToken, files, job, locals, bounds, history>>

\* A mutant: the constructor that takes no token is called.
ConstructTokenOmitted(r) ==
  /\ Goto(r, "construct3", "execute")
  /\ Set(at, r, None) /\ Set(account, r, None) /\ Set(spec, r, None)
  /\ UNCHANGED <<statics, files, job, reg, run, bounds, history>>

ConstructToken(r) ==
  /\ Goto(r, "construct3", "execute")
  /\ taskToken' = account[r]
  /\ Set(at, r, None) /\ Set(account, r, None) /\ Set(spec, r, None)
  /\ UNCHANGED <<strUser, fileLocation, token, gsch, taskDir, files, job, reg, run, bounds, history>>

(***************************************************************************)
(* execute takes its tasks from the static schedule, which it reads again  *)
(* for each of them, and starts a thread for each.  They read the folder   *)
(* and the token when they come to use them.  execute waits for all.       *)
(***************************************************************************)
Execute(r) ==
  /\ pc[r] = "execute"
  /\ \E to \in {"execute", "running"} : Goto(r, "execute", to)
  /\ Set(ran, r, ran[r] \cup {gsch})
  /\ UNCHANGED <<statics, files, job, at, reg, account, spec, fresh, dirs, tokens, bounds, history>>

UseDir(r) ==
  /\ pc[r] = "running"
  /\ Set(dirs, r, dirs[r] \cup {taskDir})
  /\ UNCHANGED <<statics, files, pc, job, at, reg, account, spec, fresh, ran, tokens, bounds, history>>

UseToken(r) ==
  /\ pc[r] = "running"
  /\ Set(tokens, r, tokens[r] \cup {taskToken})
  /\ UNCHANGED <<statics, files, pc, job, at, reg, account, spec, fresh, ran, dirs, bounds, history>>

Join(r) ==
  /\ pc[r] = "running" /\ End(r)
  /\ UNCHANGED <<statics, files, history>>

-----------------------------------------------------------------------------
\* The server is started anew: the sessions are still there, the static fields are not.
Restart ==
  /\ restarts < MaxRestarts /\ restarts' = restarts + 1
  /\ strUser' = None /\ fileLocation' = None /\ token' = None
  /\ gsch' = None /\ taskDir' = None /\ taskToken' = None
  /\ pc' = [r \in Thread |-> "idle"] /\ job' = [r \in Thread |-> NoJob]
  /\ at' = [r \in Thread |-> None] /\ reg' = [r \in Thread |-> None]
  /\ account' = [r \in Thread |-> None] /\ spec' = [r \in Thread |-> None]
  /\ fresh' = [r \in Thread |-> FALSE] /\ ran' = [r \in Thread |-> {}]
  /\ dirs' = [r \in Thread |-> {}] /\ tokens' = [r \in Thread |-> {}]
  /\ settled' = None /\ overtaken' = {}
  /\ UNCHANGED <<files, requests, overlaps, apart, mixed>>

Step(r) ==
  \/ LoadDropboxKey(r) \/ InitializeUserFolder(r)
  \/ GetInputData(r) \/ ReadUser(r, "fileUser", "fileToken") \/ SetToken(r, "fileToken", "fileClient")
  \/ NewClient(r, "fileClient", "download") \/ Download(r)
  \/ ReadUser(r, "save", "token") \/ ReadUser(r, "run", "token") \/ NoTable(r)
  \/ SetToken(r, "token", "client") \/ NewClient(r, "client", "exists")
  \/ Exists(r) \/ CreateFile(r) \/ WriteFile(r) \/ Upload(r)
  \/ PostRun(r) \/ Parse(r) \/ ReadUser(r, "runUser", "runToken")
  \/ SetToken(r, "runToken", "arguments")
  \/ Arguments(r) \/ ConstructSuper(r) \/ ConstructDir(r) \/ ConstructToken(r)
  \/ Execute(r) \/ UseDir(r) \/ UseToken(r) \/ Join(r)

Next == Restart \/ \E r \in Thread : Step(r) \/ \E j \in Job : DoPost(r, j)

Spec == Init /\ [][Next]_vars

-----------------------------------------------------------------------------
\* The type invariant; the thread of a request that is over, and no other, has no job.
TypeOK ==
  /\ {strUser, fileLocation, taskDir} \subseteq User \cup {None}
  /\ {token, taskToken} \subseteq Account \cup {None} /\ gsch \in Diagram \cup {None}
  /\ hasToken \subseteq User
  /\ disk \in [User -> [Name -> Content \cup {None}]]
  /\ dropbox \in [Account -> [Name -> Content \cup {None}]]
  /\ job \in [Thread -> Job \cup {NoJob}]
  /\ \A r \in Thread : pc[r] = "idle" <=> job[r] = NoJob
  /\ at \in [Thread -> User \cup {None}] /\ reg \in [Thread -> User \cup {None}]
  /\ account \in [Thread -> Account \cup {None}] /\ spec \in [Thread -> Diagram \cup {None}]
  /\ fresh \in [Thread -> BOOLEAN]
  /\ ran \in [Thread -> SUBSET Diagram]
  /\ dirs \in [Thread -> SUBSET User] /\ tokens \in [Thread -> SUBSET Account]
  /\ apart \subseteq Thread /\ settled \in User \cup {None}
  /\ overtaken \subseteq {r \in Thread : pc[r] \in {"create", "fill"}}

AccountOf(u) == IF u \in hasToken THEN u ELSE Default

(***************************************************************************)
(* A request that no other overlaps, of the user for whom the folder was   *)
(* last initialized, works in the folder of that user and with that        *)
(* user's token, whatever other requests left in the static fields         *)
(* (Mediator.java 76-86), also after a restart of the server.              *)
(***************************************************************************)
InOwnPlaces ==
  \A r \in Busy : Calm(r) =>
    /\ fileLocation = job[r].user
    /\ at[r] \in {None, job[r].user}
    /\ account[r] \in {None, AccountOf(job[r].user)}

(***************************************************************************)
(* A run that is not overlapped from its request to the end of its last    *)
(* task, and whose diagram was given a new name, executes that diagram and *)
(* no other, and its tasks find the folder and the token of its user,      *)
(* although all three go through static fields of the executors            *)
(* (WorkflowExecutor.java:14, WorkflowExecutor_Local.java 82-256).         *)
(***************************************************************************)
RunsItsDiagram ==
  \A r \in Busy : Calm(r) /\ fresh[r] =>
    /\ ran[r] \subseteq {job[r].diagram}
    /\ dirs[r] \subseteq {job[r].user} /\ tokens[r] \subseteq {AccountOf(job[r].user)}

(***************************************************************************)
(* As long as every diagram was saved by such a request, what is in the    *)
(* Dropbox account of a user is what is in the folder of that user, though *)
(* saveAs writes the two one after the other, neither if it is there       *)
(* already, and the account changes with the token.                        *)
(***************************************************************************)
MirrorsFolder ==
  ~mixed => \A u \in User, n \in Name : dropbox[u][n] \in {None, disk[u][n]}

(***************************************************************************)
(* A diagram that is saved is never replaced or broken (the test of        *)
(* saveAs), except by a thread whose file another has opened after this    *)
(* thread has looked for it and before it has written it; this holds for   *)
(* every overlap of requests, and after a restart.                         *)
(***************************************************************************)
DiagramsKept ==
  [][\A u \in User, n \in Name :
       disk[u][n] \in Diagram /\ disk'[u][n] # disk[u][n] =>
         \E r \in overtaken : at[r] = u /\ job[r].name = n]_vars
=============================================================================
