--------------------------- MODULE Mediator_proofs ---------------------------
(***************************************************************************)
(* Proofs about the static fields of Mediator for any number of threads,   *)
(* users, workflow names, diagrams, requests and restarts.                 *)
(***************************************************************************)
EXTENDS Mediator, TLAPS

Entry == {"initializeUserFolder", "loadDropboxKey", "getInputData", "save", "run"}
Filing == {"fileUser", "fileToken", "fileClient", "download"}
Saving == {"token", "client", "exists", "create", "fill", "upload"}
Planned == {"runUser", "runToken", "arguments", "construct", "construct2", "construct3", "execute", "running"}
Running == {"doPost", "parse"} \cup Planned
BeforeTest == Entry \cup Filing \cup {"token", "client", "exists"}

Place == {"idle"} \cup Entry \cup Filing \cup Saving \cup Running

TypeInv ==
  /\ TypeOK
  /\ pc \in [Thread -> Place]
  /\ mixed \in BOOLEAN

(***************************************************************************)
(* Where a thread is: which requests come there, and what has been set by  *)
(* then, in its variables and in the static fields.                        *)
(***************************************************************************)
PlaceInv(r) ==
  /\ pc[r] \in Entry \ {"initializeUserFolder"} => job[r].kind = pc[r]
  /\ pc[r] \in Filing => job[r].kind = "getInputData"
  /\ pc[r] \in Saving => job[r].kind \in {"save", "run"}
  /\ pc[r] \in Running => job[r].kind = "run"
  /\ pc[r] \in Entry \cup {"idle"} => at[r] = None /\ reg[r] = None /\ account[r] = None
  /\ pc[r] \in BeforeTest \cup {"idle"} => fresh[r] = FALSE
  /\ pc[r] \notin {"execute", "running"} => ran[r] = {}
  /\ pc[r] # "running" => dirs[r] = {} /\ tokens[r] = {}
  /\ pc[r] # "idle" => strUser # None
  /\ pc[r] \in Filing \cup Saving \cup Planned => fileLocation # None
  /\ pc[r] \in {"token", "fileToken", "runToken"} => reg[r] # None
  /\ pc[r] \in {"client", "fileClient", "arguments"} => token # None
  /\ pc[r] \in {"exists", "create", "fill", "upload", "construct", "construct2", "construct3"} => account[r] # None
  /\ pc[r] \in {"create", "fill", "upload", "construct", "construct2", "construct3"} => at[r] # None
  /\ pc[r] \in {"runUser", "runToken", "arguments", "construct"} => spec[r] # None
  /\ pc[r] \in {"construct2", "construct3", "execute", "running"} => gsch # None
  /\ pc[r] \in {"construct3", "execute", "running"} => taskDir # None
  /\ pc[r] \in {"execute", "running"} => taskToken # None

\* A request that no other has overlapped is alone, and the current user is its own.
AloneInv ==
  \A r \in Busy \cap apart :
    /\ strUser = job[r].user
    /\ \A q \in Busy : q = r

\* What a calm request has read from the static fields is about its user.
CalmInv(r) ==
  pc[r] # "idle" /\ Calm(r) =>
    /\ at[r] \in {None, job[r].user}
    /\ account[r] \in {None, AccountOf(job[r].user)}
    /\ pc[r] \in {"token", "fileToken", "runToken"} => reg[r] = job[r].user
    /\ pc[r] \in {"client", "fileClient", "arguments"} => token = AccountOf(job[r].user)

(***************************************************************************)
(* The way of a diagram through a calm run: from the request to the file,  *)
(* when the name is new, and over the static schedule to the executor and  *)
(* its task threads, with the folder and the token.                        *)
(***************************************************************************)
RunInv(r) ==
  pc[r] # "idle" /\ Calm(r) /\ fresh[r] = TRUE =>
    /\ pc[r] = "fill" => disk[job[r].user][job[r].name] = Empty
    /\ pc[r] \in Running \cup {"upload"} => disk[job[r].user][job[r].name] = job[r].diagram
    /\ pc[r] \in {"runUser", "runToken", "arguments", "construct"} => spec[r] = job[r].diagram
    /\ pc[r] \in {"construct2", "construct3", "execute", "running"} => gsch = job[r].diagram
    /\ pc[r] \in {"construct3", "execute", "running"} => taskDir = job[r].user
    /\ pc[r] \in {"execute", "running"} => taskToken = AccountOf(job[r].user)
    /\ ran[r] \subseteq {job[r].diagram}
    /\ dirs[r] \subseteq {job[r].user} /\ tokens[r] \subseteq {AccountOf(job[r].user)}

(***************************************************************************)
(* Unless another has opened the file of a thread since the thread looked  *)
(* for it, the file is not there yet, or is still as empty as the thread   *)
(* has created it, and open for this thread only.                          *)
(***************************************************************************)
SameFile(q, r) == at[q] = at[r] /\ job[q].name = job[r].name

WriteInv(r) ==
  /\ pc[r] = "create" /\ r \notin overtaken => disk[at[r]][job[r].name] = None
  /\ pc[r] = "fill" => disk[at[r]][job[r].name] # None
  /\ pc[r] = "fill" /\ r \notin overtaken =>
       /\ disk[at[r]][job[r].name] = Empty
       /\ \A q \in Thread \ {r} : pc[q] = "fill" => ~SameFile(q, r)

(***************************************************************************)
(* While every diagram was saved by calm requests: who writes or uploads   *)
(* does so in the folder of its user, where the account has nothing else,  *)
(* and is the only one to do so.                                           *)
(***************************************************************************)
MirrorInv ==
  mixed = FALSE =>
    /\ \A u \in User, n \in Name : dropbox[u][n] \in {None, disk[u][n]}
    /\ \A r \in Thread : pc[r] \in {"create", "fill", "upload"} =>
         /\ at[r] = job[r].user
         /\ \A q \in Thread : pc[q] \in {"create", "fill", "upload"} => q = r
    /\ \A r \in Thread : pc[r] \in {"create", "fill"} => dropbox[job[r].user][job[r].name] = None

SettledInv == settled # None => fileLocation = settled

-----------------------------------------------------------------------------
\* A step of a request, or the arrival of one.
Acts(r) == Step(r) \/ \E j \in Job : DoPost(r, j)

\* A request names a user and, if it is to save or run, a workflow and a diagram.
LEMMA Jobs ==
  ASSUME NEW j \in Job
  PROVE  /\ j # NoJob /\ j.user \in User /\ j.user # None /\ j.kind \in Entry
         /\ j.kind \in {"save", "run"} => j.name \in Name /\ j.diagram \in Diagram
<1>1. j # NoJob
  BY DEF Job, NoJob
<1>2. j.user \in User /\ j.kind \in Entry /\ (j.kind \in {"save", "run"} => j.name \in Name /\ j.diagram \in Diagram)
  BY DEF Job, Entry
<1>3. QED
  BY <1>1, <1>2, UserAssumption DEF Account

\* The request of a thread that is not idle.
LEMMA BusyJob ==
  ASSUME TypeInv, NEW r \in Thread, pc[r] # "idle"
  PROVE  job[r] \in Job /\ job[r].user \in User /\ job[r].user # None
BY Jobs DEF TypeInv, TypeOK

\* A thread whose variables a step leaves alone
Still(q) ==
  /\ pc'[q] = pc[q] /\ job'[q] = job[q] /\ at'[q] = at[q] /\ reg'[q] = reg[q]
  /\ account'[q] = account[q] /\ spec'[q] = spec[q] /\ fresh'[q] = fresh[q]
  /\ ran'[q] = ran[q] /\ dirs'[q] = dirs[q] /\ tokens'[q] = tokens[q]

(***************************************************************************)
(* A thread leaves the variables of the others alone, and only ever fills  *)
(* the static fields.  Whoever it finds busy is not apart after the step.  *)
(***************************************************************************)
LEMMA Frame ==
  ASSUME TypeInv, NEW r \in Thread, Acts(r), NEW q \in Thread \ {r}
  PROVE  /\ pc'[q] = pc[q] /\ job'[q] = job[q] /\ at'[q] = at[q] /\ reg'[q] = reg[q]
         /\ account'[q] = account[q] /\ spec'[q] = spec[q] /\ fresh'[q] = fresh[q]
         /\ ran'[q] = ran[q] /\ dirs'[q] = dirs[q] /\ tokens'[q] = tokens[q]
<1> USE DEF TypeInv, TypeOK, Goto, Set, End, EndSave, Still
<1> SUFFICES Still(q)
  OBVIOUS
<1>1. CASE LoadDropboxKey(r) \/ InitializeUserFolder(r) \/ GetInputData(r) \/ Download(r) \/ NoTable(r)
  BY <1>1 DEF LoadDropboxKey, InitializeUserFolder, GetInputData, Download, NoTable, locals, run, history
<1>2. ASSUME NEW from, NEW to, ReadUser(r, from, to) \/ SetToken(r, from, to) \/ NewClient(r, from, to)
      PROVE  Still(q)
  BY <1>2 DEF ReadUser, SetToken, NewClient, locals, run, history
<1>3. CASE Exists(r) \/ CreateFile(r) \/ WriteFile(r) \/ Upload(r)
  BY <1>3 DEF Exists, CreateFile, WriteFile, Upload, locals, run, history
<1>4. CASE PostRun(r) \/ Parse(r) \/ Arguments(r) \/ ConstructSuper(r) \/ ConstructDir(r) \/ ConstructToken(r)
  BY <1>4 DEF PostRun, Parse, Arguments, ConstructSuper, ConstructDir, ConstructToken, locals, run, history
<1>5. CASE Execute(r) \/ UseDir(r) \/ UseToken(r) \/ Join(r)
  BY <1>5 DEF Execute, UseDir, UseToken, Join, locals, run
<1>6. ASSUME NEW j \in Job, DoPost(r, j)
      PROVE  Still(q)
  BY <1>6 DEF DoPost, locals, run
<1>7. QED
  BY <1>1, <1>2, <1>3, <1>4, <1>5, <1>6 DEF Acts, Step

\* What a step may set the static fields to.
LEMMA Statics ==
  ASSUME TypeInv, NEW r \in Thread, PlaceInv(r), Acts(r)
  PROVE  /\ pc[r] # "idle" => apart' = apart
         /\ pc[r] # "idle" => strUser' \in {strUser, job[r].user}
         /\ pc[r] = "idle" => pc'[r] \in Entry /\ job'[r] \in Job /\ strUser' = job'[r].user
         /\ pc[r] = "idle" => apart' = IF Busy = {} THEN apart \cup {r} ELSE apart \ (Busy \cup {r})
         /\ pc'[r] # "idle" /\ pc[r] # "idle" => job'[r] = job[r]
         /\ fileLocation' = fileLocation \/ fileLocation' = strUser
         /\ token' = token \/ (pc[r] \in {"token", "fileToken", "runToken"} /\ token' \in {reg[r], Default})
         /\ gsch' = gsch \/ (pc[r] = "construct" /\ gsch' = spec[r])
         /\ taskDir' = taskDir \/ (pc[r] = "construct2" /\ taskDir' = at[r])
         /\ taskToken' = taskToken \/ (pc[r] = "construct3" /\ taskToken' = account[r])
<1> USE DEF TypeInv, TypeOK, Goto, Set, End, EndSave, Entry, Filing, Saving, Running, Planned
<1>1. CASE LoadDropboxKey(r) \/ InitializeUserFolder(r) \/ GetInputData(r) \/ Download(r) \/ NoTable(r)
  BY <1>1 DEF LoadDropboxKey, InitializeUserFolder, GetInputData, Settle, Download, NoTable, locals, run, history, statics
<1>2. CASE \/ ReadUser(r, "fileUser", "fileToken") \/ ReadUser(r, "save", "token")
           \/ ReadUser(r, "run", "token") \/ ReadUser(r, "runUser", "runToken")
  BY <1>2 DEF ReadUser, locals, run, history, statics
<1>3. CASE \/ SetToken(r, "fileToken", "fileClient") \/ SetToken(r, "token", "client") \/ SetToken(r, "runToken", "arguments")
           \/ NewClient(r, "fileClient", "download") \/ NewClient(r, "client", "exists")
  BY <1>3 DEF SetToken, NewClient, locals, run, history, statics
<1>4. CASE Exists(r) \/ CreateFile(r) \/ WriteFile(r) \/ Upload(r)
  BY <1>4 DEF Exists, CreateFile, WriteFile, Upload, locals, run, history, statics
<1>5. CASE PostRun(r) \/ Parse(r) \/ Arguments(r)
  BY <1>5 DEF PostRun, Parse, Arguments, locals, run, history, statics
<1>6. CASE ConstructSuper(r) \/ ConstructDir(r) \/ ConstructToken(r)
  BY <1>6 DEF ConstructSuper, ConstructDir, ConstructToken, locals, run, history
<1>7. CASE Execute(r) \/ UseDir(r) \/ UseToken(r) \/ Join(r)
  BY <1>7 DEF Execute, UseDir, UseToken, Join, history, statics
<1>8. ASSUME NEW j \in Job, DoPost(r, j)
      PROVE  /\ pc[r] = "idle" /\ pc'[r] \in Entry /\ job'[r] \in Job /\ strUser' = job'[r].user
             /\ apart' = IF Busy = {} THEN apart \cup {r} ELSE apart \ (Busy \cup {r})
             /\ UNCHANGED <<fileLocation, token, gsch, taskDir, taskToken>>
  BY <1>8, Jobs DEF DoPost, locals, run
<1>9. QED
  BY <1>1, <1>2, <1>3, <1>4, <1>5, <1>6, <1>7, <1>8 DEF Acts, Step

(***************************************************************************)
(* Nobody but the acting thread is both busy and apart after its step: a   *)
(* thread that acts is not idle, or has just become busy.                  *)
(***************************************************************************)
LEMMA OthersNotApart ==
  ASSUME TypeInv, AloneInv, NEW r \in Thread, PlaceInv(r), Acts(r), NEW q \in Thread \ {r}, pc'[q] # "idle"
  PROVE  q \notin apart'
<1>1. q \in Busy
  BY Frame DEF Busy
<1>2. CASE pc[r] # "idle"
  BY <1>1, <1>2, Statics DEF AloneInv, Busy
<1>3. CASE pc[r] = "idle"
  BY <1>1, <1>3, Statics
<1>4. QED
  BY <1>2, <1>3

\* A request that is apart is alone after each step as well.
LEMMA AloneStep ==
  ASSUME TypeInv, AloneInv, NEW r \in Thread, PlaceInv(r), Acts(r)
  PROVE  AloneInv'
<1> SUFFICES ASSUME NEW p \in Thread, pc'[p] # "idle", p \in apart'
             PROVE  strUser' = job'[p].user /\ \A q \in Thread : pc'[q] # "idle" => q = p
  BY DEF AloneInv, Busy
<1>1. p = r
  BY OthersNotApart
<1>2. CASE pc[r] # "idle"
  <2>1. r \in Busy \cap apart
    BY <1>1, <1>2, Statics DEF Busy
  <2>2. strUser' = job'[r].user
    BY <1>1, <1>2, <2>1, Statics DEF AloneInv
  <2>3. \A q \in Thread \ {r} : pc'[q] = "idle"
    BY <2>1, Frame DEF AloneInv, Busy
  <2>4. QED
    BY <1>1, <2>2, <2>3
<1>3. CASE pc[r] = "idle"
  <2>1. Busy = {}
    BY <1>1, <1>3, Statics
  <2>2. \A q \in Thread \ {r} : pc'[q] = "idle"
    BY <2>1, Frame DEF Busy
  <2>3. QED
    BY <1>1, <1>3, <2>2, Statics
<1>4. QED
  BY <1>2, <1>3

-----------------------------------------------------------------------------
\* PlaceInv of the acting thread, action by action.
LEMMA OwnPlace ==
  ASSUME TypeInv, NEW r \in Thread, PlaceInv(r), Acts(r)
  PROVE  PlaceInv(r)'
<1> USE DEF TypeInv, TypeOK, Goto, Set, End, EndSave, Entry, Filing, Saving, Running, Planned, BeforeTest, PlaceInv
<1>1. CASE LoadDropboxKey(r) \/ InitializeUserFolder(r) \/ GetInputData(r)
  BY <1>1 DEF LoadDropboxKey, InitializeUserFolder, GetInputData, Settle, locals, run, statics
<1>2. CASE Download(r) \/ NoTable(r)
  BY <1>2 DEF Download, NoTable, locals, run, statics
<1>3. CASE \/ ReadUser(r, "fileUser", "fileToken") \/ ReadUser(r, "save", "token")
           \/ ReadUser(r, "run", "token") \/ ReadUser(r, "runUser", "runToken")
  BY <1>3 DEF ReadUser, run, statics
<1>4. CASE SetToken(r, "fileToken", "fileClient") \/ SetToken(r, "token", "client") \/ SetToken(r, "runToken", "arguments")
  BY <1>4, UserAssumption DEF SetToken, run, Account
<1>5. CASE NewClient(r, "fileClient", "download") \/ NewClient(r, "client", "exists")
  BY <1>5 DEF NewClient, run, statics
<1>6. CASE Exists(r) \/ CreateFile(r) \/ WriteFile(r)
  BY <1>6 DEF Exists, CreateFile, WriteFile, locals, run, statics
<1>7. CASE Upload(r)
  BY <1>7 DEF Upload, run, statics
<1>8. CASE PostRun(r) \/ Arguments(r)
  BY <1>8, BusyJob DEF PostRun, Arguments, locals, run, statics
<1>9. CASE Parse(r)
  BY <1>9, UserAssumption DEF Parse, run, statics, Content
<1>10. CASE ConstructSuper(r) \/ ConstructDir(r) \/ ConstructToken(r)
  BY <1>10 DEF ConstructSuper, ConstructDir, ConstructToken, locals, run, statics
<1>11. CASE Execute(r) \/ UseDir(r) \/ UseToken(r) \/ Join(r)
  BY <1>11 DEF Execute, UseDir, UseToken, Join, statics
<1>12. ASSUME NEW j \in Job, DoPost(r, j) PROVE PlaceInv(r)'
  BY <1>12, Jobs DEF DoPost, locals, run
<1>13. QED
  BY <1>1, <1>2, <1>3, <1>4, <1>5, <1>6, <1>7, <1>8, <1>9, <1>10, <1>11, <1>12 DEF Acts, Step

\* That of the others: no static field is emptied but by a restart.
LEMMA OtherPlace ==
  ASSUME TypeInv, NEW r \in Thread, PlaceInv(r), Acts(r), NEW q \in Thread \ {r}, PlaceInv(q)
  PROVE  PlaceInv(q)'
<1>1. strUser # None => strUser' # None
  BY Statics, BusyJob, Jobs
<1>2. pc[q] # "idle" => strUser # None
  BY DEF PlaceInv
<1>3. pc[q] # "idle" /\ fileLocation # None => fileLocation' # None
  BY <1>2, Statics
<1>4. token # None => token' # None
  BY Statics, UserAssumption DEF PlaceInv, Account
<1>5. (gsch # None => gsch' # None) /\ (taskDir # None => taskDir' # None) /\ (taskToken # None => taskToken' # None)
  BY Statics DEF PlaceInv
<1>6. QED
  BY <1>1, <1>3, <1>4, <1>5, Frame DEF PlaceInv, Entry, Filing, Saving, Running, Planned, BeforeTest

-----------------------------------------------------------------------------
\* The variables of the threads, and the static fields and files.
Requesting ==
  /\ pc \in [Thread -> Place]
  /\ job \in [Thread -> Job \cup {NoJob}]
  /\ \A r \in Thread : pc[r] = "idle" <=> job[r] = NoJob

Reading ==
  /\ at \in [Thread -> User \cup {None}] /\ reg \in [Thread -> User \cup {None}]
  /\ account \in [Thread -> Account \cup {None}] /\ spec \in [Thread -> Diagram \cup {None}]

Executing ==
  /\ fresh \in [Thread -> BOOLEAN]
  /\ ran \in [Thread -> SUBSET Diagram]
  /\ dirs \in [Thread -> SUBSET User] /\ tokens \in [Thread -> SUBSET Account]

Globals ==
  /\ {strUser, fileLocation, taskDir} \subseteq User \cup {None}
  /\ {token, taskToken} \subseteq Account \cup {None} /\ gsch \in Diagram \cup {None}
  /\ hasToken \subseteq User
  /\ disk \in [User -> [Name -> Content \cup {None}]]
  /\ dropbox \in [Account -> [Name -> Content \cup {None}]]
  /\ apart \subseteq Thread /\ settled \in User \cup {None}

OvertakenInv == overtaken \subseteq {r \in Thread : pc[r] \in {"create", "fill"}}

Typed == Requesting /\ Reading /\ Executing /\ Globals /\ mixed \in BOOLEAN /\ OvertakenInv

\* The type invariant, taken apart
LEMMA Types == TypeInv <=> Typed
BY DEF TypeInv, TypeOK, Typed, Requesting, Reading, Executing, Globals, OvertakenInv

\* The place of the thread changes and its request stays, or the thread becomes idle and has none.
LEMMA RequestingStep ==
  ASSUME TypeInv, NEW r \in Thread, Acts(r)
  PROVE  Requesting'
<1>0. Requesting
  BY Types DEF Typed
<1>1. ASSUME NEW to \in Place \ {"idle"}, pc[r] # "idle", pc' = [pc EXCEPT ![r] = to], job' = job
      PROVE  Requesting'
  BY <1>0, <1>1 DEF Requesting
<1>2. CASE End(r)
  BY <1>0, <1>2 DEF Requesting, End, Place
<1>3. ASSUME NEW from, NEW to \in Place \ {"idle"}, from # "idle", Goto(r, from, to), job' = job
      PROVE  Requesting'
  BY <1>1, <1>3 DEF Goto
<1> USE DEF Place, Entry, Filing, Saving, Running, Planned
<1>4. CASE EndSave(r) /\ pc[r] # "idle"
  BY <1>1, <1>2, <1>4 DEF EndSave
<1>5. CASE LoadDropboxKey(r) \/ InitializeUserFolder(r) \/ GetInputData(r) \/ Download(r)
  BY <1>2, <1>3, <1>5 DEF LoadDropboxKey, InitializeUserFolder, GetInputData, Download
<1>6. CASE NoTable(r) \/ Upload(r)
  BY <1>4, <1>6 DEF NoTable, Upload
<1>7. CASE \/ ReadUser(r, "fileUser", "fileToken") \/ ReadUser(r, "save", "token")
           \/ ReadUser(r, "run", "token") \/ ReadUser(r, "runUser", "runToken")
  BY <1>3, <1>7 DEF ReadUser
<1>8. CASE \/ SetToken(r, "fileToken", "fileClient") \/ SetToken(r, "token", "client") \/ SetToken(r, "runToken", "arguments")
           \/ NewClient(r, "fileClient", "download") \/ NewClient(r, "client", "exists")
  BY <1>3, <1>8 DEF SetToken, NewClient
<1>9. CASE Exists(r)
  <2>1. pc' = [pc EXCEPT ![r] = "create"] \/ pc' = [pc EXCEPT ![r] = "upload"]
    BY <1>9 DEF Exists
  <2>2. QED
    BY <1>1, <1>9, <2>1 DEF Exists
<1>10. CASE CreateFile(r) \/ WriteFile(r) \/ PostRun(r) \/ Arguments(r)
  BY <1>3, <1>10 DEF CreateFile, WriteFile, PostRun, Arguments
<1>11. CASE Parse(r)
  BY <1>2, <1>3, <1>11 DEF Parse
<1>12. CASE ConstructSuper(r) \/ ConstructDir(r) \/ ConstructToken(r)
  BY <1>3, <1>12 DEF ConstructSuper, ConstructDir, ConstructToken
<1>13. CASE Execute(r)
  BY <1>3, <1>13 DEF Execute
<1>14. CASE UseDir(r) \/ UseToken(r)
  BY <1>0, <1>14 DEF UseDir, UseToken, Requesting
<1>15. CASE Join(r)
  BY <1>2, <1>15 DEF Join
<1>16. ASSUME NEW j \in Job, DoPost(r, j) PROVE Requesting'
  <2>1. j # NoJob /\ j.kind \in Entry
    BY Jobs
  <2>2. QED
    BY <1>0, <1>16, <2>1 DEF DoPost, Requesting
<1>17. QED
  BY <1>5, <1>6, <1>7, <1>8, <1>9, <1>10, <1>11, <1>12, <1>13, <1>14, <1>15, <1>16 DEF Acts, Step

\* The folder, the user, the token and the diagram that a thread has read
LEMMA ReadingStep ==
  ASSUME TypeInv, NEW r \in Thread, Acts(r)
  PROVE  Reading'
<1>0. Reading /\ Globals
  BY Types DEF Typed
<1> USE DEF Reading, Globals, Set
<1>1. CASE UNCHANGED <<at, reg, account, spec>>
  BY <1>0, <1>1
<1>2. CASE End(r)
  BY <1>0, <1>2 DEF End
<1>3. CASE EndSave(r)
  BY <1>0, <1>2, <1>3 DEF EndSave
<1>4. ASSUME NEW from, NEW to, ReadUser(r, from, to) \/ SetToken(r, from, to) \/ NewClient(r, from, to)
      PROVE  Reading'
  BY <1>0, <1>4 DEF ReadUser, SetToken, NewClient
<1>5. CASE Exists(r) \/ Arguments(r)
  BY <1>0, <1>5 DEF Exists, Arguments
<1>6. CASE Parse(r)
  BY <1>0, <1>2, <1>6 DEF Parse
<1>7. CASE ConstructToken(r)
  BY <1>0, <1>7 DEF ConstructToken
<1>8. QED
  BY <1>1, <1>2, <1>3, <1>4, <1>5, <1>6, <1>7 DEF Acts, Step, DoPost, LoadDropboxKey, InitializeUserFolder, GetInputData,
     Download, NoTable, CreateFile, WriteFile, Upload, PostRun, ConstructSuper, ConstructDir, Execute, UseDir, UseToken,
     Join, locals

\* What a run has executed and used: the static fields are set by then.
LEMMA ExecutingStep ==
  ASSUME TypeInv, NEW r \in Thread, PlaceInv(r), Acts(r)
  PROVE  Executing'
<1>0. Executing /\ Globals
  BY Types DEF Typed
<1> USE DEF Set
<1>1. CASE UNCHANGED run
  BY <1>0, <1>1 DEF run, Executing
<1>2. CASE End(r)
  BY <1>0, <1>2 DEF End, Executing
<1>3. CASE EndSave(r)
  BY <1>1, <1>2, <1>3 DEF EndSave
<1>4. CASE Exists(r)
  <2>1. /\ fresh' \in [Thread -> BOOLEAN]
    <3>1. \E b \in BOOLEAN : fresh' = [fresh EXCEPT ![r] = b]
      BY <1>4, Zenon DEF Exists
    <3>2. QED
      BY <1>0, <3>1 DEF Executing
  <2>2. QED
    BY <1>0, <1>4, <2>1 DEF Exists, Executing
<1>5. CASE Execute(r)
  <2>1. gsch \in Diagram
    BY <1>0, <1>5 DEF Execute, PlaceInv, Globals
  <2>2. QED
    BY <1>0, <1>5, <2>1 DEF Execute, Executing
<1>6. CASE UseDir(r) \/ UseToken(r)
  <2>1. taskDir \in User /\ taskToken \in Account
    BY <1>0, <1>6 DEF UseDir, UseToken, PlaceInv, Globals
  <2>2. QED
    BY <1>0, <1>6, <2>1 DEF UseDir, UseToken, Executing
<1>7. QED
  BY <1>1, <1>2, <1>3, <1>4, <1>5, <1>6 DEF Acts, Step, DoPost, LoadDropboxKey, InitializeUserFolder, GetInputData,
     Download, NoTable, ReadUser, SetToken, NewClient, CreateFile, WriteFile, Upload, PostRun, Parse, Arguments,
     ConstructSuper, ConstructDir, ConstructToken, Join, locals

\* The user, the name and the diagram of a request
LEMMA JobTypes ==
  ASSUME TypeInv, NEW r \in Thread, PlaceInv(r)
  PROVE  /\ pc[r] # "idle" => job[r] \in Job /\ job[r].user \in User
         /\ pc[r] \in Saving \cup Running => job[r].name \in Name /\ job[r].diagram \in Diagram
<1>1. pc[r] # "idle" => job[r] \in Job /\ job[r].user \in User
  BY BusyJob
<1>2. pc[r] \in Saving \cup Running => pc[r] # "idle" /\ job[r].kind \in {"save", "run"}
  BY DEF PlaceInv, Saving, Running, Planned
<1>3. QED
  BY <1>1, <1>2, Jobs

\* The static fields, the files and the histories stay well typed too.
LEMMA GlobalsStep ==
  ASSUME TypeInv, NEW r \in Thread, PlaceInv(r), Acts(r)
  PROVE  Globals'
<1>0. Reading /\ Globals
  BY Types DEF Typed
<1>1. pc[r] # "idle" => job[r] \in Job /\ job[r].user \in User
  BY JobTypes
<1>2. pc[r] \in Saving \cup Running => job[r].name \in Name /\ job[r].diagram \in Diagram
  BY JobTypes
<1> USE <1>0 DEF Globals, Saving, Running, Planned, Goto
<1>3. CASE LoadDropboxKey(r)
  BY <1>1, <1>3 DEF LoadDropboxKey, statics, history
<1>4. CASE InitializeUserFolder(r) \/ GetInputData(r)
  BY <1>1, <1>4 DEF InitializeUserFolder, GetInputData, Settle, files
<1>5. CASE Download(r) \/ NoTable(r) \/ Parse(r) \/ Arguments(r)
  BY <1>5 DEF Download, NoTable, Parse, Arguments, statics, files, history
<1>6. ASSUME NEW from, NEW to, ReadUser(r, from, to) \/ NewClient(r, from, to) PROVE Globals'
  BY <1>6 DEF ReadUser, NewClient, statics, files, history
<1>7. ASSUME NEW from, NEW to, SetToken(r, from, to) PROVE Globals'
  BY <1>7 DEF SetToken, files, history, Account
<1>8. CASE Exists(r) \/ Execute(r) \/ UseDir(r) \/ UseToken(r) \/ Join(r)
  BY <1>8 DEF Exists, Execute, UseDir, UseToken, Join, statics, files, history
<1>9. CASE CreateFile(r) \/ WriteFile(r)
  <2>1. \E c \in Content : disk' = [disk EXCEPT ![at[r]][job[r].name] = c]
    <3>1. Empty \in Content /\ Broken \in Content /\ Diagram \subseteq Content
      BY DEF Content
    <3>2. CASE CreateFile(r)
      BY <3>1, <3>2 DEF CreateFile
    <3>3. CASE WriteFile(r)
      <4>1. job[r].diagram \in Diagram
        BY <1>2, <3>3 DEF WriteFile
      <4>2. QED
        BY <3>1, <3>3, <4>1 DEF WriteFile
    <3>4. QED
      BY <1>9, <3>2, <3>3
  <2>2. disk' \in [User -> [Name -> Content \cup {None}]]
    <3>1. PICK c \in Content : disk' = [disk EXCEPT ![at[r]][job[r].name] = c]
      BY <2>1
    <3>2. disk \in [User -> [Name -> Content \cup {None}]]
      BY DEF Globals
    <3>3. QED
      BY <3>1, <3>2
  <2>3. QED
    BY <1>9, <2>2 DEF CreateFile, WriteFile, statics
<1>10. CASE Upload(r)
  <2>1. at[r] \in User
    BY <1>10 DEF Upload, PlaceInv, Reading
  <2>2. disk[at[r]][job[r].name] \in Content \cup {None}
    BY <1>2, <1>10, <2>1 DEF Upload
  <2>3. dropbox' \in [Account -> [Name -> Content \cup {None}]]
    BY <1>10, <2>2 DEF Upload
  <2>4. QED
    BY <1>10, <2>3 DEF Upload, statics
<1>11. CASE PostRun(r)
  BY <1>1, <1>11 DEF PostRun, files, history
<1>12. CASE ConstructSuper(r) \/ ConstructDir(r) \/ ConstructToken(r)
  BY <1>12 DEF ConstructSuper, ConstructDir, ConstructToken, files, history, Reading
<1>13. ASSUME NEW j \in Job, DoPost(r, j) PROVE Globals'
  BY <1>13, Jobs DEF DoPost, files
<1>14. QED
  BY <1>3, <1>4, <1>5, <1>6, <1>7, <1>8, <1>9, <1>10, <1>11, <1>12, <1>13 DEF Acts, Step

\* Where a thread is that does not open or write its file.
LEMMA ElsewhereThanFiles ==
  ASSUME TypeInv, NEW r \in Thread, Acts(r), ~CreateFile(r), ~WriteFile(r)
  PROVE  pc[r] \notin {"create", "fill"}
BY Jobs DEF Acts, Step, Goto, DoPost, LoadDropboxKey, InitializeUserFolder, GetInputData, Download, NoTable, ReadUser,
   SetToken, NewClient, Exists, Upload, PostRun, Parse, Arguments, ConstructSuper, ConstructDir, ConstructToken,
   Execute, UseDir, UseToken, Join

\* The threads that are overtaken are about to open their file, or have it open.
LEMMA OvertakenStep ==
  ASSUME TypeInv, NEW r \in Thread, Acts(r)
  PROVE  OvertakenInv' /\ mixed' \in BOOLEAN
<1>0. OvertakenInv /\ mixed \in BOOLEAN /\ pc \in [Thread -> Place]
  BY Types DEF Typed, Requesting
<1>1. mixed' \in BOOLEAN
  <2>1. mixed' = mixed \/ mixed' = (mixed \/ ~Calm(r))
    BY DEF Acts, Step, DoPost, LoadDropboxKey, InitializeUserFolder, GetInputData, Download, NoTable, ReadUser,
       SetToken, NewClient, Exists, CreateFile, WriteFile, Upload, PostRun, Parse, Arguments, ConstructSuper, ConstructDir,
       ConstructToken, Execute, UseDir, UseToken, Join, history
  <2>2. QED
    BY <1>0, <2>1, Zenon
<1>2. \A q \in Thread \ {r} : pc'[q] = pc[q]
  BY Frame
<1>3. CASE CreateFile(r)
  <2>1. pc[r] = "create" /\ pc'[r] = "fill" /\ overtaken' = overtaken \cup Opening(r) \cup Writing(r)
    BY <1>0, <1>3 DEF CreateFile, Goto
  <2>2. QED
    BY <1>0, <1>1, <1>2, <2>1 DEF OvertakenInv, Opening, Writing
<1>4. CASE WriteFile(r)
  <2>1. overtaken' = overtaken \ {r}
    BY <1>4 DEF WriteFile
  <2>2. QED
    BY <1>0, <1>1, <1>2, <2>1 DEF OvertakenInv
<1>5. CASE ~CreateFile(r) /\ ~WriteFile(r)
  <2>1. overtaken' = overtaken
    BY <1>5 DEF Acts, Step, DoPost, LoadDropboxKey, InitializeUserFolder, GetInputData, Download, NoTable, ReadUser,
       SetToken, NewClient, Exists, Upload, PostRun, Parse, Arguments, ConstructSuper, ConstructDir,
       ConstructToken, Execute, UseDir, UseToken, Join, history
  <2>2. pc[r] \notin {"create", "fill"}
    BY <1>5, ElsewhereThanFiles
  <2>3. QED
    BY <1>0, <1>1, <1>2, <2>1, <2>2 DEF OvertakenInv
<1>6. QED
  BY <1>3, <1>4, <1>5

-----------------------------------------------------------------------------
(***************************************************************************)
(* fileLocation is the folder of the user it was last set for, if that     *)
(* request was apart.                                                      *)
(***************************************************************************)
LEMMA SettledStep ==
  ASSUME TypeInv, AloneInv, SettledInv, NEW r \in Thread, Acts(r)
  PROVE  SettledInv'
<1>1. CASE UNCHANGED <<fileLocation, settled>>
  BY <1>1 DEF SettledInv
<1>2. CASE Settle(r) /\ pc[r] # "idle"
  BY <1>2 DEF Settle, SettledInv, AloneInv, Busy
<1>3. QED
  BY <1>1, <1>2 DEF Acts, Step, DoPost, LoadDropboxKey, InitializeUserFolder, GetInputData, Download, NoTable, ReadUser,
     SetToken, NewClient, Exists, CreateFile, WriteFile, Upload, PostRun, Parse, Arguments, ConstructSuper, ConstructDir, ConstructToken, Execute, UseDir, UseToken, Join,
     statics, history

\* What a calm request reads from the static fields, and writes into them, is about its user.
LEMMA CalmStep ==
  ASSUME TypeInv, AloneInv, SettledInv, NEW r \in Thread, PlaceInv(r), CalmInv(r), Acts(r)
  PROVE  \A q \in Thread : CalmInv(q)'
<1>1. ASSUME NEW q \in Thread \ {r} PROVE CalmInv(q)'
  BY OthersNotApart DEF CalmInv, Calm
<1>2. CalmInv(r)'
  <2> SUFFICES ASSUME pc'[r] # "idle", Calm(r)' PROVE CalmInv(r)'
    BY DEF CalmInv
  <2>1. CASE pc[r] \in Entry \cup {"idle"} /\ UNCHANGED <<at, reg, account>> /\ pc'[r] \in Entry \cup {"fileUser"}
    BY <2>1 DEF CalmInv, PlaceInv, Entry
  <2>2. CASE UNCHANGED <<settled, hasToken>> /\ pc[r] # "idle"
    <3>1. Calm(r) /\ job'[r] = job[r] /\ \A u : AccountOf(u)' = AccountOf(u)
      BY <2>2, Statics DEF Calm, AccountOf
    <3>2. strUser = job[r].user /\ fileLocation = job[r].user
      <4>1. r \in Busy \cap apart /\ settled = job[r].user /\ job[r].user # None
        BY <2>2, <3>1, BusyJob DEF Calm, Busy
      <4>2. QED
        BY <4>1 DEF AloneInv, SettledInv
    <3> USE <2>2, <3>1, <3>2 DEF TypeInv, TypeOK, Goto, Set, CalmInv, AccountOf
    <3>3. CASE pc'[r] = "doPost" /\ at'[r] = None /\ account'[r] = None
      BY <3>3
    <3>4. CASE Download(r) \/ NoTable(r) \/ Upload(r) \/ Join(r)
      BY <3>3, <3>4 DEF Download, NoTable, Upload, Join, End, EndSave
    <3>5. ASSUME NEW from, NEW to \in {"fileToken", "token", "runToken"}, ReadUser(r, from, to) PROVE CalmInv(r)'
      BY <3>5 DEF ReadUser
    <3>6. ASSUME NEW from \in {"fileToken", "token", "runToken"}, NEW to \in {"fileClient", "client", "arguments"}, SetToken(r, from, to)
          PROVE  CalmInv(r)'
      BY <3>6 DEF SetToken, locals, run, AccountOf
    <3>7. ASSUME NEW from \in {"fileClient", "client"}, NEW to \in {"download", "exists"}, NewClient(r, from, to) PROVE CalmInv(r)'
      BY <3>7 DEF NewClient
    <3>8. CASE Exists(r) \/ CreateFile(r) \/ WriteFile(r)
      BY <3>8 DEF Exists, CreateFile, WriteFile, locals, run
    <3>9. CASE PostRun(r) \/ Parse(r) \/ Arguments(r)
      BY <3>9 DEF PostRun, Parse, Arguments, End, locals, run
    <3>10. CASE ConstructSuper(r) \/ ConstructDir(r) \/ ConstructToken(r)
      BY <3>10 DEF ConstructSuper, ConstructDir, ConstructToken, locals, run
    <3>11. CASE LoadDropboxKey(r) \/ InitializeUserFolder(r) \/ GetInputData(r)
      <4>1. UNCHANGED <<at, reg, account>> /\ pc'[r] \in Entry \cup {"fileUser"} /\ pc[r] \in Entry
        BY <3>11 DEF LoadDropboxKey, InitializeUserFolder, GetInputData, End, locals, run, Entry
      <4>2. QED
        BY <2>1, <4>1
    <3>12. ASSUME NEW j \in Job, DoPost(r, j) PROVE FALSE
      BY <3>12 DEF DoPost
    <3>13. CASE Execute(r) \/ UseDir(r) \/ UseToken(r)
      BY <3>13 DEF Execute, UseDir, UseToken
    <3>14. QED
      BY <3>4, <3>5, <3>6, <3>7, <3>8, <3>9, <3>10, <3>11, <3>12, <3>13 DEF Acts, Step
  <2>3. ASSUME NEW j \in Job, DoPost(r, j) PROVE CalmInv(r)'
    <3>1. UNCHANGED <<at, reg, account>> /\ pc[r] = "idle"
      BY <2>3 DEF DoPost, locals, run
    <3>2. QED
      BY <2>1, <3>1, Statics
  <2>4. CASE LoadDropboxKey(r) \/ InitializeUserFolder(r) \/ GetInputData(r)
    <3>1. UNCHANGED <<at, reg, account>> /\ pc'[r] \in Entry \cup {"fileUser"} /\ pc[r] \in Entry
      BY <2>4 DEF LoadDropboxKey, InitializeUserFolder, GetInputData, End, Goto, locals, run, Entry, TypeInv
    <3>2. QED
      BY <2>1, <3>1
  <2>5. QED
    BY <2>2, <2>3, <2>4 DEF Acts, Step, Download, NoTable, ReadUser, SetToken, NewClient, Exists, CreateFile, WriteFile, Upload,
       PostRun, Parse, Arguments, ConstructSuper, ConstructDir, ConstructToken, Execute, UseDir, UseToken, Join, Goto, files, history
<1>3. QED
  BY <1>1, <1>2

-----------------------------------------------------------------------------
\* What a calm request works with.
LEMMA CalmPlaces ==
  ASSUME TypeInv, AloneInv, SettledInv, NEW r \in Thread, pc[r] # "idle", Calm(r)
  PROVE  strUser = job[r].user /\ fileLocation = job[r].user /\ job[r].user \in User /\ job[r].user # None
<1>1. r \in Busy \cap apart /\ settled = job[r].user
  BY DEF Calm, Busy
<1>2. job[r].user \in User /\ job[r].user # None
  BY BusyJob
<1>3. QED
  BY <1>1, <1>2 DEF AloneInv, SettledInv

(***************************************************************************)
(* The steps of a run one after the other; the history of the other        *)
(* threads is not about it, since nobody who acts leaves it apart.         *)
(***************************************************************************)
LEMMA RunStep ==
  ASSUME TypeInv, AloneInv, SettledInv, NEW r \in Thread, PlaceInv(r), CalmInv(r), RunInv(r), Acts(r)
  PROVE  RunInv(r)'
<1> SUFFICES ASSUME pc'[r] # "idle", Calm(r)', fresh'[r] = TRUE
             PROVE  RunInv(r)'
  BY DEF RunInv
<1>0. PlaceInv(r)'
  BY OwnPlace
<1>1. pc'[r] \notin BeforeTest /\ pc'[r] \notin Entry
  BY <1>0 DEF PlaceInv, BeforeTest
<1>2. pc[r] # "idle"
  BY <1>1, Statics
<1>3. /\ pc \in [Thread -> Place] /\ fresh \in [Thread -> BOOLEAN]
      /\ at \in [Thread -> User \cup {None}] /\ account \in [Thread -> Account \cup {None}]
      /\ spec \in [Thread -> Diagram \cup {None}]
      /\ disk \in [User -> [Name -> Content \cup {None}]]
      /\ ran \in [Thread -> SUBSET Diagram] /\ dirs \in [Thread -> SUBSET User] /\ tokens \in [Thread -> SUBSET Account]
  BY Types DEF Typed, Requesting, Reading, Executing, Globals
<1>4. apart' = apart /\ job'[r] = job[r]
  BY <1>2, Statics
<1>5. UNCHANGED <<settled, hasToken>>
  <2>1. CASE LoadDropboxKey(r) \/ InitializeUserFolder(r) \/ GetInputData(r)
    <3>1. pc'[r] \in {"idle", "initializeUserFolder", "fileUser"}
      BY <1>3, <2>1 DEF LoadDropboxKey, InitializeUserFolder, GetInputData, End, Goto
    <3>2. QED
      BY <1>1, <3>1 DEF BeforeTest, Entry, Filing
  <2>2. ASSUME NEW j \in Job, DoPost(r, j) PROVE FALSE
    BY <1>2, <2>2 DEF DoPost
  <2>3. QED
    BY <2>1, <2>2 DEF Acts, Step, Download, NoTable, ReadUser, SetToken, NewClient, Exists, CreateFile, WriteFile, Upload,
       PostRun, Parse, Arguments, ConstructSuper, ConstructDir, ConstructToken, Execute, UseDir, UseToken, Join, files, history
<1>6. Calm(r) /\ AccountOf(job[r].user)' = AccountOf(job[r].user)
  BY <1>4, <1>5 DEF Calm, AccountOf
<1>7. strUser = job[r].user /\ fileLocation = job[r].user /\ job[r].user \in User /\ job[r].user # None
  BY <1>2, <1>6, CalmPlaces
<1>8. pc[r] \in Saving \cup Running => job[r].name \in Name /\ job[r].diagram \in Diagram
  BY JobTypes
<1> USE <1>2, <1>3, <1>4, <1>6, <1>7 DEF Goto, Set, RunInv, BeforeTest, Entry, Filing, Saving, Running, Planned
<1>9. CASE Exists(r)
  <2>1. pc'[r] = "create"
    <3>1. PICK there \in BOOLEAN :
            /\ pc' = [pc EXCEPT ![r] = IF there THEN "upload" ELSE "create"]
            /\ fresh' = [fresh EXCEPT ![r] = ~there]
      BY <1>9, Zenon DEF Exists, Set
    <3>2. there = FALSE
      <4>1. fresh'[r] = ~there
        BY <3>1, <1>3, Zenon
      <4>2. QED
        BY <4>1, Zenon
    <3>3. QED
      BY <3>1, <3>2
  <2>2. UNCHANGED <<ran, dirs, tokens>> /\ pc[r] = "exists"
    BY <1>9 DEF Exists
  <2>3. ran[r] = {} /\ dirs[r] = {} /\ tokens[r] = {}
    BY <2>2 DEF PlaceInv
  <2>4. QED
    BY <2>1, <2>2, <2>3
<1>10. CASE CreateFile(r)
  <2>1. pc[r] = "create" /\ pc'[r] = "fill" /\ UNCHANGED run
    BY <1>10 DEF CreateFile, locals
  <2>2. at[r] = job[r].user
    BY <2>1 DEF CalmInv, PlaceInv
  <2>3. Writing(r) = {}
    BY DEF Writing, AloneInv, Calm, Busy
  <2>4. disk'[job[r].user][job[r].name] = Empty
    BY <1>8, <1>10, <2>1, <2>2, <2>3 DEF CreateFile
  <2>5. ran[r] = {} /\ dirs[r] = {} /\ tokens[r] = {}
    BY <2>1 DEF PlaceInv
  <2>6. QED
    BY <2>1, <2>4, <2>5 DEF run
<1>11. CASE WriteFile(r)
  <2>1. pc[r] = "fill" /\ pc'[r] = "upload" /\ UNCHANGED run
    BY <1>11 DEF WriteFile, locals
  <2>2. at[r] = job[r].user
    BY <2>1 DEF CalmInv, PlaceInv
  <2>3. disk[job[r].user][job[r].name] = Empty
    BY <2>1 DEF run
  <2>4. disk'[job[r].user][job[r].name] = job[r].diagram
    BY <1>8, <1>11, <2>1, <2>2, <2>3 DEF WriteFile
  <2>5. ran[r] = {} /\ dirs[r] = {} /\ tokens[r] = {}
    BY <2>1 DEF PlaceInv
  <2>6. QED
    BY <2>1, <2>4, <2>5 DEF run
<1>12. CASE NoTable(r) \/ Upload(r)
  <2>1. EndSave(r) /\ disk' = disk /\ pc[r] \in {"save", "run", "upload"}
    BY <1>12 DEF NoTable, Upload, files
  <2>2. pc'[r] = "doPost" /\ UNCHANGED run
    BY <2>1 DEF EndSave, End
  <2>3. pc[r] = "upload" /\ fresh[r] = TRUE
    BY <2>1, <2>2 DEF PlaceInv, run
  <2>4. QED
    BY <2>1, <2>2, <2>3 DEF run
<1>13. CASE PostRun(r)
  BY <1>13 DEF PostRun, files, locals, run
<1>14. CASE Parse(r)
  <2>1. pc[r] = "parse" /\ pc'[r] = "runUser" /\ spec'[r] = disk[fileLocation][job[r].name] /\ UNCHANGED <<run, disk>>
    BY <1>14 DEF Parse, End, files
  <2>2. QED
    BY <2>1 DEF run
<1>15. CASE \/ ReadUser(r, "fileUser", "fileToken") \/ ReadUser(r, "save", "token") \/ ReadUser(r, "run", "token")
            \/ SetToken(r, "fileToken", "fileClient") \/ SetToken(r, "token", "client")
            \/ NewClient(r, "fileClient", "download") \/ NewClient(r, "client", "exists")
  <2>1. pc'[r] \in BeforeTest
    BY <1>15 DEF ReadUser, SetToken, NewClient
  <2>2. QED
    BY <1>1, <2>1
<1>16. CASE ReadUser(r, "runUser", "runToken") \/ SetToken(r, "runToken", "arguments")
  <2>1. UNCHANGED <<run, disk, spec>> /\ pc[r] \in {"runUser", "runToken"} /\ pc'[r] \in {"runToken", "arguments"}
    BY <1>16 DEF ReadUser, SetToken, statics, files, locals
  <2>2. QED
    BY <2>1 DEF run
<1>17. CASE Arguments(r)
  <2>1. UNCHANGED <<run, disk, spec>> /\ pc[r] = "arguments" /\ pc'[r] = "construct"
    BY <1>17 DEF Arguments, files
  <2>2. QED
    BY <2>1 DEF run
<1>18. CASE ConstructSuper(r)
  <2>1. /\ UNCHANGED <<run, disk, taskDir, taskToken>> /\ gsch' = spec[r]
        /\ pc[r] = "construct" /\ pc'[r] = "construct2"
    BY <1>18 DEF ConstructSuper, files, locals
  <2>2. QED
    BY <2>1 DEF run
<1>19. CASE ConstructDir(r)
  <2>1. /\ UNCHANGED <<run, disk, gsch, taskToken>> /\ taskDir' = at[r]
        /\ pc[r] = "construct2" /\ pc'[r] = "construct3"
    BY <1>19 DEF ConstructDir, files, locals
  <2>2. at[r] = job[r].user
    BY <2>1 DEF CalmInv, PlaceInv
  <2>3. QED
    BY <2>1, <2>2 DEF run
<1>20. CASE ConstructToken(r)
  <2>1. /\ UNCHANGED <<run, disk, gsch, taskDir>> /\ taskToken' = account[r]
        /\ pc[r] = "construct3" /\ pc'[r] = "execute"
    BY <1>20 DEF ConstructToken, files
  <2>2. account[r] = AccountOf(job[r].user)
    BY <2>1 DEF CalmInv, PlaceInv
  <2>3. QED
    BY <2>1, <2>2 DEF run
<1>21. CASE Execute(r)
  <2>1. /\ UNCHANGED <<fresh, dirs, tokens, disk, gsch, taskDir, taskToken>> /\ ran'[r] = ran[r] \cup {gsch}
        /\ pc[r] = "execute" /\ pc'[r] \in {"execute", "running"}
    BY <1>21 DEF Execute, files, statics
  <2>2. QED
    BY <2>1
<1>22. CASE UseDir(r)
  <2>1. /\ UNCHANGED <<fresh, ran, tokens, disk, gsch, taskDir, taskToken, pc>> /\ dirs'[r] = dirs[r] \cup {taskDir}
        /\ pc[r] = "running"
    BY <1>22 DEF UseDir, files, statics
  <2>2. QED
    BY <2>1
<1>23. CASE UseToken(r)
  <2>1. /\ UNCHANGED <<fresh, ran, dirs, disk, gsch, taskDir, taskToken, pc>> /\ tokens'[r] = tokens[r] \cup {taskToken}
        /\ pc[r] = "running"
    BY <1>23 DEF UseToken, files, statics
  <2>2. QED
    BY <2>1
<1>24. CASE LoadDropboxKey(r) \/ InitializeUserFolder(r) \/ GetInputData(r) \/ Download(r) \/ Join(r)
  <2>1. pc'[r] \in {"idle", "initializeUserFolder", "fileUser"}
    BY <1>24 DEF LoadDropboxKey, InitializeUserFolder, GetInputData, Download, Join, End
  <2>2. QED
    BY <1>1, <2>1
<1>25. ASSUME NEW j \in Job, DoPost(r, j) PROVE FALSE
  BY <1>25 DEF DoPost
<1>26. QED
  BY <1>9, <1>10, <1>11, <1>12, <1>13, <1>14, <1>15, <1>16, <1>17, <1>18, <1>19, <1>20, <1>21, <1>22, <1>23, <1>24, <1>25
     DEF Acts, Step

-----------------------------------------------------------------------------
\* What a thread changes in the files and in `overtaken', if it neither opens nor writes its file.
LEMMA ElsewhereNoWrite ==
  ASSUME TypeInv, NEW r \in Thread, Acts(r), ~CreateFile(r), ~WriteFile(r)
  PROVE  /\ UNCHANGED <<disk, overtaken>> /\ pc[r] \notin {"create", "fill"} /\ pc'[r] # "fill"
         /\ pc'[r] = "create" => disk'[at'[r]][job'[r].name] = None
<1>1. UNCHANGED <<disk, overtaken>>
  BY DEF Acts, Step, DoPost, LoadDropboxKey, InitializeUserFolder, GetInputData, Download, NoTable, ReadUser,
     SetToken, NewClient, Exists, Upload, PostRun, Parse, Arguments, ConstructSuper, ConstructDir,
     ConstructToken, Execute, UseDir, UseToken, Join, files, history
<1>2. pc[r] \notin {"create", "fill"}
  BY ElsewhereThanFiles
<1>3. pc \in [Thread -> Place] /\ at \in [Thread -> User \cup {None}]
  BY Types DEF Typed, Requesting, Reading
<1>4. CASE Exists(r)
  <2>1. /\ at'[r] = fileLocation /\ job' = job /\ disk' = disk
        /\ pc'[r] = IF disk[fileLocation][job[r].name] # None THEN "upload" ELSE "create"
    BY <1>3, <1>4 DEF Exists, Set, files
  <2>2. QED
    BY <1>1, <1>2, <2>1
<1>5. CASE ~Exists(r)
  <2>1. pc'[r] \notin {"create", "fill"}
    BY <1>2, <1>3, <1>5, Jobs DEF Entry, Acts, Step, Goto, DoPost, LoadDropboxKey, InitializeUserFolder, GetInputData,
       Download, NoTable, ReadUser, SetToken, NewClient, Upload, PostRun, Parse, Arguments, ConstructSuper, ConstructDir,
       ConstructToken, Execute, UseDir, UseToken, Join, End, EndSave
  <2>2. QED
    BY <1>1, <1>2, <2>1
<1>6. QED
  BY <1>4, <1>5

(***************************************************************************)
(* A thread that opens its file overtakes all who are about to open it or  *)
(* have it open; nobody else is disturbed.                                 *)
(***************************************************************************)
LEMMA WriteStep ==
  ASSUME TypeInv, NEW r \in Thread, PlaceInv(r), Acts(r), \A q \in Thread : PlaceInv(q) /\ WriteInv(q)
  PROVE  \A q \in Thread : WriteInv(q)'
<1>1. /\ pc \in [Thread -> Place] /\ at \in [Thread -> User \cup {None}]
      /\ disk \in [User -> [Name -> Content \cup {None}]]
      /\ None \notin Content /\ Empty \in Content /\ Broken \in Content /\ Diagram \subseteq Content
  BY Types, UserAssumption DEF Typed, Requesting, Reading, Globals, Content
<1>2. \A q \in Thread \ {r} : pc'[q] = pc[q] /\ at'[q] = at[q] /\ job'[q] = job[q]
  BY Frame
<1>3. \A q \in Thread : pc[q] \in {"create", "fill"} => at[q] \in User /\ job[q].name \in Name /\ job[q].diagram \in Diagram
  BY <1>1, JobTypes DEF PlaceInv, Saving
<1>4. WriteInv(r)
  OBVIOUS
<1>5. CASE ~CreateFile(r) /\ ~WriteFile(r)
  BY <1>2, <1>5, ElsewhereNoWrite DEF WriteInv, SameFile
<1>6. CASE CreateFile(r)
  <2>1. /\ pc[r] = "create" /\ pc'[r] = "fill" /\ at' = at /\ job' = job
        /\ overtaken' = overtaken \cup Opening(r) \cup Writing(r)
    BY <1>1, <1>6 DEF CreateFile, Goto, locals
  <2>2. /\ disk'[at[r]][job[r].name] \in {Empty, Broken}
        /\ Writing(r) = {} => disk'[at[r]][job[r].name] = Empty
        /\ \A u \in User, n \in Name : disk'[u][n] = disk[u][n] \/ (u = at[r] /\ n = job[r].name)
    BY <1>1, <1>3, <1>6, <2>1 DEF CreateFile
  <2>3. ASSUME NEW q \in Thread \ {r} PROVE WriteInv(q)'
    <3>1. WriteInv(q) /\ pc'[q] = pc[q]
      BY <1>2
    <3>2. CASE SameFile(q, r)
      <4>1. pc[q] \in {"create", "fill"} => q \in overtaken'
        BY <2>1, <3>2 DEF Opening, Writing, SameFile
      <4>2. disk'[at[q]][job[q].name] # None
        BY <1>1, <2>2, <3>2 DEF SameFile
      <4>3. QED
        BY <2>1, <3>1, <4>1, <4>2 DEF WriteInv
    <3>3. CASE ~SameFile(q, r)
      <4>1. pc[q] \in {"create", "fill"} => disk'[at[q]][job[q].name] = disk[at[q]][job[q].name]
        BY <1>3, <2>2, <3>3 DEF SameFile
      <4>2. \A p \in Thread \ {q} : pc'[p] = "fill" /\ SameFile(p, q)' => pc[p] = "fill" /\ SameFile(p, q)
        BY <1>2, <2>1, <3>3 DEF SameFile
      <4>3. QED
        BY <2>1, <3>1, <4>1, <4>2 DEF WriteInv
    <3>4. QED
      BY <3>2, <3>3
  <2>4. WriteInv(r)'
    <3>1. disk'[at'[r]][job'[r].name] # None
      BY <1>1, <2>1, <2>2
    <3>2. ASSUME r \notin overtaken'
          PROVE  disk'[at'[r]][job'[r].name] = Empty /\ \A q \in Thread \ {r} : pc'[q] = "fill" => ~SameFile(q, r)'
      <4>1. disk[at[r]][job[r].name] = None
        BY <1>4, <2>1, <3>2 DEF WriteInv
      <4>2. \A q \in Thread \ {r} : pc[q] = "fill" => ~SameFile(q, r)
        BY <4>1 DEF WriteInv, SameFile
      <4>3. Writing(r) = {}
        BY <4>2 DEF Writing, SameFile
      <4>4. QED
        BY <1>2, <2>1, <2>2, <4>2, <4>3 DEF SameFile
    <3>3. QED
      BY <2>1, <3>1, <3>2 DEF WriteInv
  <2>5. QED
    BY <2>3, <2>4
<1>7. CASE WriteFile(r)
  <2>1. /\ pc[r] = "fill" /\ pc'[r] = "upload" /\ at' = at /\ job' = job
        /\ overtaken' = overtaken \ {r}
    BY <1>1, <1>7 DEF WriteFile, Goto, locals
  <2>2. PICK content \in {job[r].diagram, Broken} : disk' = [disk EXCEPT ![at[r]][job[r].name] = content]
    BY <1>7 DEF WriteFile
  <2>3. content # None
    BY <1>1, <1>3, <2>1
  <2>4. /\ disk'[at[r]][job[r].name] = content
        /\ \A u \in User, n \in Name : disk'[u][n] = disk[u][n] \/ (u = at[r] /\ n = job[r].name)
    BY <1>1, <1>3, <2>1, <2>2
  <2>5. ASSUME NEW q \in Thread \ {r} PROVE WriteInv(q)'
    <3>1. WriteInv(q) /\ pc'[q] = pc[q] /\ (q \in overtaken' <=> q \in overtaken)
      BY <1>2, <2>1
    <3>2. CASE SameFile(q, r)
      <4>1. disk[at[q]][job[q].name] # None
        BY <1>4, <2>1, <3>2 DEF WriteInv, SameFile
      <4>2. pc[q] = "fill" => q \in overtaken
        BY <2>1, <3>1, <3>2 DEF WriteInv, SameFile
      <4>3. pc[q] = "create" => q \in overtaken
        BY <3>1, <4>1 DEF WriteInv
      <4>4. disk'[at[q]][job[q].name] # None
        BY <2>3, <2>4, <3>2 DEF SameFile
      <4>5. QED
        BY <2>1, <3>1, <4>2, <4>3, <4>4 DEF WriteInv
    <3>3. CASE ~SameFile(q, r)
      <4>1. pc[q] \in {"create", "fill"} => disk'[at[q]][job[q].name] = disk[at[q]][job[q].name]
        BY <1>3, <2>4, <3>3 DEF SameFile
      <4>2. \A p \in Thread \ {q} : pc'[p] = "fill" /\ SameFile(p, q)' => pc[p] = "fill" /\ SameFile(p, q)
        BY <1>2, <2>1, <3>3 DEF SameFile
      <4>3. QED
        BY <2>1, <3>1, <4>1, <4>2 DEF WriteInv
    <3>4. QED
      BY <3>2, <3>3
  <2>6. WriteInv(r)'
    BY <2>1 DEF WriteInv
  <2>7. QED
    BY <2>5, <2>6
<1>8. QED
  BY <1>5, <1>6, <1>7

-----------------------------------------------------------------------------
(***************************************************************************)
(* The folder and the account: a test that finds nothing in the folder     *)
(* finds nothing in the account either, and an upload takes what is in the *)
(* folder.                                                                 *)
(***************************************************************************)
LEMMA MirrorStep ==
  ASSUME TypeInv, AloneInv, SettledInv, MirrorInv, NEW r \in Thread, PlaceInv(r), CalmInv(r), Acts(r)
  PROVE  MirrorInv'
<1> SUFFICES ASSUME mixed' = FALSE PROVE MirrorInv'
  BY DEF MirrorInv
<1> DEFINE w(q) == pc[q] \in {"create", "fill", "upload"}
<1>0. /\ pc \in [Thread -> Place] /\ at \in [Thread -> User \cup {None}]
      /\ disk \in [User -> [Name -> Content \cup {None}]] /\ dropbox \in [Account -> [Name -> Content \cup {None}]]
      /\ User \subseteq Account
  BY Types DEF Typed, Requesting, Reading, Globals, Account
<1>1. \A q \in Thread \ {r} : pc'[q] = pc[q] /\ at'[q] = at[q] /\ job'[q] = job[q]
  BY Frame
<1>2. w(r) => job[r].user \in User /\ job[r].name \in Name
  BY JobTypes DEF Saving
<1> USE DEF Goto, Set
<1>3. CASE Exists(r)
  <2>1. mixed = FALSE /\ Calm(r)
    BY <1>3, Zenon DEF Exists, TypeInv
  <2>2. pc[r] = "exists" /\ pc[r] # "idle"
    BY <1>3 DEF Exists
  <2>3. fileLocation = job[r].user /\ job[r].user \in User
    BY <2>1, <2>2, CalmPlaces
  <2>4. \A q \in Thread : pc[q] # "idle" => q = r
    BY <2>1, <2>2 DEF AloneInv, Calm, Busy
  <2>5. job[r].name \in Name
    BY <2>2, JobTypes DEF Saving
  <2>6. /\ at'[r] = job[r].user /\ job' = job /\ disk' = disk /\ dropbox' = dropbox /\ pc'[r] \in {"create", "upload"}
        /\ pc'[r] = "create" => disk[job[r].user][job[r].name] = None
    BY <1>0, <1>3, <2>3 DEF Exists, statics, files
  <2>7. \A q \in Thread \ {r} : pc'[q] = "idle"
    BY <1>1, <2>4
  <2>8. \A u \in User, n \in Name : dropbox[u][n] \in {None, disk[u][n]}
    BY <2>1 DEF MirrorInv
  <2>9. pc'[r] = "create" => dropbox'[job'[r].user][job'[r].name] = None
    BY <2>3, <2>5, <2>6, <2>8
  <2>10. QED
    BY <2>6, <2>7, <2>8, <2>9 DEF MirrorInv
<1>4. CASE CreateFile(r) \/ WriteFile(r)
  <2>1. mixed = FALSE /\ pc[r] \in {"create", "fill"} /\ pc'[r] \in {"fill", "upload"} /\ UNCHANGED <<job, at, dropbox>>
    BY <1>0, <1>4 DEF CreateFile, WriteFile, locals, history
  <2>2. /\ at[r] = job[r].user /\ dropbox[job[r].user][job[r].name] = None
        /\ \A q \in Thread : w(q) => q = r
    BY <2>1 DEF MirrorInv
  <2>3. \A u \in User, n \in Name : disk'[u][n] = disk[u][n] \/ (u = job[r].user /\ n = job[r].name)
    <3>1. PICK c : disk' = [disk EXCEPT ![at[r]][job[r].name] = c]
      BY <1>4 DEF CreateFile, WriteFile
    <3>2. QED
      BY <1>0, <1>2, <2>1, <2>2, <3>1
  <2>4. \A u \in User, n \in Name : dropbox'[u][n] \in {None, disk'[u][n]}
    BY <2>1, <2>2, <2>3 DEF MirrorInv
  <2>5. \A q \in Thread : pc'[q] \in {"create", "fill", "upload"} => q = r
    BY <1>1, <2>2
  <2>6. QED
    BY <2>1, <2>2, <2>4, <2>5 DEF MirrorInv
<1>5. CASE Upload(r)
  <2>1. mixed = FALSE /\ Calm(r)
    BY <1>5, Zenon DEF Upload, TypeInv
  <2>2. pc[r] = "upload" /\ pc[r] # "idle" /\ pc'[r] \in {"doPost", "idle"} /\ disk' = disk
    BY <1>0, <1>5 DEF Upload, End, EndSave
  <2>3. at[r] = job[r].user /\ \A q \in Thread : w(q) => q = r
    BY <2>1, <2>2 DEF MirrorInv
  <2>4. account[r] = AccountOf(job[r].user)
    BY <2>1, <2>2 DEF CalmInv, PlaceInv
  <2>5. account[r] \in {job[r].user, Default} /\ Default \notin User
    BY <2>4, UserAssumption DEF AccountOf
  <2>6. \A u \in User, n \in Name :
          \/ dropbox'[u][n] = dropbox[u][n]
          \/ u = job[r].user /\ n = job[r].name /\ dropbox'[u][n] = disk[u][n]
    BY <1>0, <1>2, <1>5, <2>2, <2>3, <2>5 DEF Upload
  <2>7. \A u \in User, n \in Name : dropbox'[u][n] \in {None, disk'[u][n]}
    BY <2>1, <2>2, <2>6 DEF MirrorInv
  <2>8. \A q \in Thread : pc'[q] \notin {"create", "fill", "upload"}
    BY <1>1, <2>2, <2>3
  <2>9. QED
    BY <2>7, <2>8 DEF MirrorInv
<1>6. CASE ~Exists(r) /\ ~CreateFile(r) /\ ~WriteFile(r) /\ ~Upload(r)
  <2>1. pc'[r] \notin {"create", "fill", "upload"}
    <3>1. pc[r] \notin {"create", "fill", "upload"}
      BY <1>6, Jobs DEF Acts, Step, DoPost, LoadDropboxKey, InitializeUserFolder, GetInputData, Download, NoTable,
         ReadUser, SetToken, NewClient, PostRun, Parse, Arguments, ConstructSuper, ConstructDir, ConstructToken, Execute,
         UseDir, UseToken, Join
    <3>2. QED
      BY <1>0, <1>6, <3>1, Jobs DEF Entry, Acts, Step, DoPost, LoadDropboxKey, InitializeUserFolder, GetInputData, Download,
         NoTable, ReadUser, SetToken, NewClient, PostRun, Parse, Arguments, ConstructSuper, ConstructDir, ConstructToken,
         Execute, UseDir, UseToken, Join, End, EndSave
  <2>2. UNCHANGED <<disk, dropbox, mixed>>
    BY <1>6 DEF Acts, Step, DoPost, LoadDropboxKey, InitializeUserFolder, GetInputData, Download, NoTable,
       ReadUser, SetToken, NewClient, PostRun, Parse, Arguments, ConstructSuper, ConstructDir, ConstructToken, Execute,
       UseDir, UseToken, Join, files, history
  <2>3. QED
    BY <1>1, <2>1, <2>2 DEF MirrorInv
<1>7. QED
  BY <1>3, <1>4, <1>5, <1>6

-----------------------------------------------------------------------------
IInv ==
  /\ TypeInv /\ AloneInv /\ SettledInv /\ MirrorInv
  /\ \A r \in Thread : PlaceInv(r) /\ CalmInv(r) /\ RunInv(r) /\ WriteInv(r)

\* What holds of a thread that is idle
LEMMA Idle ==
  ASSUME NEW r, pc[r] = "idle", at[r] = None, reg[r] = None, account[r] = None,
         fresh[r] = FALSE, ran[r] = {}, dirs[r] = {}, tokens[r] = {}
  PROVE  PlaceInv(r) /\ CalmInv(r) /\ RunInv(r) /\ WriteInv(r)
<1>1. PlaceInv(r)
  BY DEF PlaceInv, Entry, Filing, Saving, Running, Planned, BeforeTest
<1>2. QED
  BY <1>1 DEF CalmInv, RunInv, WriteInv

\* No thread is busy at first.
LEMMA Initially == Init => IInv
<1> SUFFICES ASSUME Init PROVE IInv
  OBVIOUS
<1> USE DEF Init
<1>1. NoJob \notin Job /\ "idle" \in Place
  BY Jobs DEF Place
<1>2. TypeInv
  <2>1. Requesting /\ Reading
    BY <1>1 DEF Requesting, Reading
  <2>2. Executing /\ mixed \in BOOLEAN /\ OvertakenInv
    BY DEF Executing, OvertakenInv
  <2>3. Globals
    BY DEF Globals
  <2>4. QED
    BY <2>1, <2>2, <2>3, Types DEF Typed
<1>3. AloneInv /\ SettledInv
  BY DEF AloneInv, SettledInv, Busy
<1>4. MirrorInv
  BY DEF MirrorInv, Account
<1>5. ASSUME NEW r \in Thread PROVE PlaceInv(r) /\ CalmInv(r) /\ RunInv(r) /\ WriteInv(r)
  BY Idle
<1>6. QED
  BY <1>2, <1>3, <1>4, <1>5 DEF IInv

\* After a restart nobody is busy, and the files are what they were.
LEMMA RestartStep ==
  ASSUME IInv, Restart
  PROVE  IInv'
<1>1. Globals /\ mixed \in BOOLEAN
  BY Types DEF IInv, Typed
<1>2. UNCHANGED <<hasToken, disk, dropbox, apart, mixed>>
  BY DEF Restart, files
<1>3. TypeInv'
  <2>1. NoJob \notin Job /\ "idle" \in Place
    BY Jobs DEF Place
  <2>2. Requesting' /\ Reading'
    BY <2>1 DEF Restart, Requesting, Reading
  <2>3. Executing' /\ OvertakenInv' /\ mixed' \in BOOLEAN
    BY <1>1, <1>2 DEF Restart, Executing, OvertakenInv
  <2>4. Globals'
    BY <1>1, <1>2 DEF Restart, Globals
  <2>5. TypeOK' /\ pc' \in [Thread -> Place]
    BY <2>2, <2>3, <2>4 DEF TypeOK, Requesting, Reading, Executing, Globals, OvertakenInv
  <2>6. QED
    BY <2>3, <2>5 DEF TypeInv
<1>4. \A r \in Thread : /\ pc'[r] = "idle" /\ at'[r] = None /\ reg'[r] = None /\ account'[r] = None
                        /\ fresh'[r] = FALSE /\ ran'[r] = {} /\ dirs'[r] = {} /\ tokens'[r] = {}
  BY DEF Restart
<1>5. AloneInv' /\ SettledInv'
  BY <1>4 DEF Restart, AloneInv, SettledInv, Busy
<1>6. MirrorInv'
  BY <1>2, <1>4 DEF IInv, MirrorInv
<1>7. ASSUME NEW r \in Thread PROVE (PlaceInv(r) /\ CalmInv(r) /\ RunInv(r) /\ WriteInv(r))'
  <2>1. PlaceInv(r)'
    BY <1>4 DEF PlaceInv, Entry, Filing, Saving, Running, Planned, BeforeTest
  <2>2. CalmInv(r)' /\ RunInv(r)' /\ WriteInv(r)'
    BY <1>4 DEF CalmInv, RunInv, WriteInv
  <2>3. QED
    BY <2>1, <2>2
<1>8. QED
  BY <1>3, <1>5, <1>6, <1>7 DEF IInv

\* All parts together: for the acting thread by its own lemmas, for the others since they are not apart.
LEMMA ActsStep ==
  ASSUME IInv, NEW r \in Thread, Acts(r)
  PROVE  IInv'
<1> USE DEF IInv
<1>1. TypeInv'
  <2>1. Requesting' /\ Reading' /\ Executing' /\ Globals' /\ OvertakenInv' /\ mixed' \in BOOLEAN
    BY RequestingStep, ReadingStep, ExecutingStep, GlobalsStep, OvertakenStep
  <2>2. QED
    BY <2>1 DEF TypeInv, TypeOK, Requesting, Reading, Executing, Globals, OvertakenInv
<1>2. AloneInv' /\ SettledInv' /\ MirrorInv'
  BY AloneStep, SettledStep, MirrorStep
<1>3. \A q \in Thread : CalmInv(q)'
  BY CalmStep
<1>4. \A q \in Thread : PlaceInv(q)'
  BY OwnPlace, OtherPlace
<1>5. \A q \in Thread : RunInv(q)'
  <2>1. RunInv(r)'
    BY RunStep
  <2>2. \A q \in Thread \ {r} : pc'[q] # "idle" => q \notin apart'
    BY OthersNotApart
  <2>3. \A q \in Thread \ {r} : RunInv(q)'
    BY <2>2 DEF RunInv, Calm
  <2>4. QED
    BY <2>1, <2>3
<1>6. \A q \in Thread : WriteInv(q)'
  BY WriteStep
<1>7. QED
  BY <1>1, <1>2, <1>3, <1>4, <1>5, <1>6

\* Nothing changes in a step that stutters.
LEMMA StutterStep ==
  ASSUME IInv, UNCHANGED vars
  PROVE  IInv'
<1>1. UNCHANGED <<statics, files, pc, job, locals, history>>
  BY DEF vars
<1>2. TypeInv'
  BY <1>1 DEF IInv, TypeInv, TypeOK, statics, files, locals, run, history
<1>3. (AloneInv /\ SettledInv /\ MirrorInv)'
  BY <1>1 DEF IInv, AloneInv, SettledInv, MirrorInv, Busy, statics, files, history, locals
<1>4. \A r \in Thread : (PlaceInv(r) /\ CalmInv(r))'
  BY <1>1 DEF IInv, PlaceInv, CalmInv, Calm, AccountOf, statics, files, history, locals, run
<1>5. \A r \in Thread : (RunInv(r) /\ WriteInv(r))'
  BY <1>1 DEF IInv, RunInv, WriteInv, SameFile, Calm, AccountOf, statics, files, history, locals, run
<1>6. QED
  BY <1>2, <1>3, <1>4, <1>5 DEF IInv

(***************************************************************************)
(* The inductive invariant: what is in the static fields and in the        *)
(* variables of the threads when a request is apart, and what is in the    *)
(* files.                                                                  *)
(***************************************************************************)
THEOREM Invariance == Spec => []IInv
<1>1. IInv /\ [Next]_vars => IInv'
  BY RestartStep, ActsStep, StutterStep DEF Next, Acts
<1>2. QED
  BY Initially, <1>1, PTL DEF Spec

\* The static fields, the files and the variables of the requests keep their types.
THEOREM TypeCorrect == Spec => []TypeOK
<1>1. IInv => TypeOK
  BY DEF IInv, TypeInv
<1>2. QED
  BY <1>1, Invariance, PTL

(***************************************************************************)
(* A calm request works in the folder and with the token of its user.      *)
(***************************************************************************)
THEOREM CalmRequestsAreAtHome == Spec => []InOwnPlaces
<1>1. IInv => InOwnPlaces
  <2> SUFFICES ASSUME IInv, NEW r \in Busy, Calm(r)
               PROVE  /\ fileLocation = job[r].user
                      /\ at[r] \in {None, job[r].user}
                      /\ account[r] \in {None, AccountOf(job[r].user)}
    BY DEF InOwnPlaces
  <2>1. r \in Thread /\ pc[r] # "idle"
    BY DEF Busy
  <2>2. QED
    BY <2>1, CalmPlaces DEF IInv, CalmInv
<1>2. QED
  BY <1>1, Invariance, PTL

(***************************************************************************)
(* A run that nobody overlaps until its last task has ended executes the   *)
(* diagram that was drawn, if its name was a new one, and its tasks find   *)
(* the folder and the token of its user whenever they read them.           *)
(***************************************************************************)
THEOREM CalmRunsAreTrue == Spec => []RunsItsDiagram
<1>1. IInv => RunsItsDiagram
  <2> SUFFICES ASSUME IInv, NEW r \in Busy, Calm(r), fresh[r]
               PROVE  /\ ran[r] \subseteq {job[r].diagram}
                      /\ dirs[r] \subseteq {job[r].user} /\ tokens[r] \subseteq {AccountOf(job[r].user)}
    BY DEF RunsItsDiagram
  <2>1. r \in Thread /\ pc[r] # "idle" /\ RunInv(r)
    BY DEF Busy, IInv
  <2>2. fresh[r] = TRUE
    <3>1. fresh[r] \in BOOLEAN
      BY <2>1 DEF IInv, TypeInv, TypeOK
    <3>2. QED
      BY <3>1, Zenon
  <2>3. QED
    BY <2>1, <2>2 DEF RunInv
<1>2. QED
  BY <1>1, Invariance, PTL

(***************************************************************************)
(* As long as all saves are calm, the account has what the folder has, or  *)
(* nothing.                                                                *)
(***************************************************************************)
THEOREM AccountsMirrorFolders == Spec => []MirrorsFolder
<1>1. IInv => MirrorsFolder
  <2>1. IInv => mixed \in BOOLEAN /\ MirrorInv
    BY DEF IInv, TypeInv
  <2>2. QED
    BY <2>1 DEF MirrorInv, MirrorsFolder
<1>2. QED
  BY <1>1, Invariance, PTL

(***************************************************************************)
(* A diagram on the disk is only replaced by a thread whose file another   *)
(* has opened since the thread looked for it.                              *)
(***************************************************************************)
THEOREM DiagramsAreKept == Spec => DiagramsKept
<1> DEFINE Kept == \A u \in User, n \in Name :
                     disk[u][n] \in Diagram /\ disk'[u][n] # disk[u][n] =>
                       \E r \in overtaken : at[r] = u /\ job[r].name = n
<1>1. IInv /\ [Next]_vars => Kept
  <2> SUFFICES ASSUME IInv, [Next]_vars PROVE Kept
    OBVIOUS
  <2>1. CASE disk' = disk
    BY <2>1
  <2>2. ASSUME NEW r \in Thread, CreateFile(r) \/ WriteFile(r) PROVE Kept
    <3>1. /\ pc[r] \in {"create", "fill"} /\ WriteInv(r) /\ disk \in [User -> [Name -> Content \cup {None}]]
          /\ None \notin Diagram /\ Empty \notin Diagram
      BY <2>2, UserAssumption DEF CreateFile, WriteFile, Goto, IInv, TypeInv, TypeOK, Content
    <3>2. \A u \in User, n \in Name : disk'[u][n] = disk[u][n] \/ (u = at[r] /\ n = job[r].name)
      <4>1. PICK c : disk' = [disk EXCEPT ![at[r]][job[r].name] = c]
        BY <2>2 DEF CreateFile, WriteFile
      <4>2. QED
        BY <3>1, <4>1
    <3>3. CASE r \notin overtaken
      <4>1. disk[at[r]][job[r].name] \in {None, Empty}
        BY <3>1, <3>3 DEF WriteInv
      <4>2. QED
        BY <3>1, <3>2, <4>1
    <3>4. CASE r \in overtaken
      BY <3>2, <3>4
    <3>5. QED
      BY <3>3, <3>4
  <2>3. disk' = disk \/ \E r \in Thread : CreateFile(r) \/ WriteFile(r)
    BY DEF Next, vars, files, Restart, Step, DoPost, LoadDropboxKey, InitializeUserFolder, GetInputData, Download, NoTable,
       ReadUser, SetToken, NewClient, Exists, Upload, PostRun, Parse, Arguments, ConstructSuper, ConstructDir,
       ConstructToken, Execute, UseDir, UseToken, Join
  <2>4. QED
    BY <2>1, <2>2, <2>3
<1>2. IInv /\ [Next]_vars => [Kept]_vars
  BY <1>1
<1>3. QED
  BY <1>2, Invariance, PTL DEF Spec, DiagramsKept

=============================================================================
