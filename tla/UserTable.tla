----------------------------- MODULE UserTable -----------------------------
(***************************************************************************)
(* users.table, the file that holds one line for each user, and the        *)
(* requests of the web bench that read and rewrite it: User.login, signup, *)
(* resetPassword and updateUserInformation, ReadAndWrite.read and write.   *)
(*                                                                         *)
(* A file is an inode (a position in disk); a path is the number of an     *)
(* inode or NoFile.  A file that is deleted or replaced while a request    *)
(* has it open lives on for that request.  All requests run in one JVM, in *)
(* which a FileLock that overlaps another one is not waited for: it throws *)
(* OverlappingFileLockException.                                           *)
(***************************************************************************)
EXTENDS Naturals, FiniteSets, Sequences

CONSTANTS
  Request,       \* threads of the servlet container
  User,          \* email addresses
  InitialUsers,  \* the users in the file at the start, in its order
  Version,       \* tells apart the passwords and the tokens of a user
  NoToken,       \* "no": the token of a user who has not given one
  Blank,         \* a line with no second column, such as an empty one
  Torn,          \* a line that is no beginning of a record: a piece of one, or pieces of two
  Kind,          \* the operations that are requested
  MaxRequests,   \* bound on the number of requests
  MaxCrashes     \* bound on the crashes of the server

\* A password or token as it is stored: whose it is, which, and how often it has been encrypted.
Secrets == User \X Version \X (Nat \ {0})
\* The line of a user: the columns of a record from the first, of which 7 make it whole.  The
\* second is the email, the sixth the password, the seventh the token.
UserLine == [user : User, password : Secrets, token : Secrets \cup {NoToken}, columns : 2 .. 7]

ASSUME RequestAssumption ==
  /\ IsFiniteSet(Request) /\ IsFiniteSet(User) /\ IsFiniteSet(Version)
  /\ InitialUsers \in Seq(User)
  /\ \A i, j \in DOMAIN InitialUsers : InitialUsers[i] = InitialUsers[j] => i = j
  /\ Kind \subseteq {"login", "read", "signup", "save", "reset", "update"}
  /\ Blank \notin UserLine /\ Torn \notin UserLine /\ Blank # Torn
  /\ MaxRequests \in Nat /\ MaxCrashes \in Nat

NoFile == 0

\* What a user may choose as a password or token; it is encrypted once before it is stored.
Secret(u) == {<<u, v, 1>> : v \in Version}
Encryptions(secret, n) == [secret EXCEPT ![3] = n]

Record(u, p, t) == [user |-> u, password |-> p, token |-> t, columns |-> 7]

\* The content of a file: its lines, and whether the last one ends with a newline.
File(lines, eol) == [lines |-> lines, eol |-> eol]

VARIABLES
  disk,      \* the contents of all files ever created
  table,     \* the file at the path users.table
  bak,       \* the file at the path users.table.bak
  pc,        \* where each request is
  job,       \* what it does, for whom, with which password and token; the columns it has appended
  fd,        \* the file it has open
  locked,    \* the file it holds the lock of
  buf,       \* the lines it is going to write
  failed,    \* the requests that last ended with an exception
  requests,  \* how many requests there have been
  crashes,   \* how many crashes there have been
  known,     \* history: the set of records there should be; see Calm
  apart      \* history: no operation that rewrites the table overlapped another that writes it

files == <<disk, table, bak>>
vars == <<disk, table, bak, pc, job, fd, locked, buf, failed, requests, crashes, known, apart>>

(***************************************************************************)
(* The history known is kept up to date by each operation as long as       *)
(* requests come one after the other, nothing crashes and no blank line is *)
(* written.  It is Lost from then on.                                      *)
(***************************************************************************)
Lost == {Blank}
Calm == known # Lost

Users(records) == {l.user : l \in records}

NoJob == [kind |-> "none"]

Init ==
  /\ \E v \in Version, eol \in BOOLEAN :
       LET line(i) == Record(InitialUsers[i], <<InitialUsers[i], v, 1>>, NoToken)
       IN  /\ known = {line(i) : i \in DOMAIN InitialUsers}
           /\ disk = << File([i \in DOMAIN InitialUsers |-> line(i)], eol /\ InitialUsers # << >>) >>
  /\ table = 1 /\ bak = NoFile
  /\ pc = [r \in Request |-> "idle"]
  /\ job = [r \in Request |-> NoJob]
  /\ fd = [r \in Request |-> NoFile]
  /\ locked = [r \in Request |-> NoFile]
  /\ buf = [r \in Request |-> << >>]
  /\ failed = {}
  /\ requests = 0 /\ crashes = 0 /\ apart = TRUE

-----------------------------------------------------------------------------
\* The line with the first n columns of the record that a signup appends
Prefix(r, n) ==
  IF n < 2 THEN Blank
  ELSE [Record(job[r].user, job[r].password, NoToken) EXCEPT !.columns = n]

\* The lines as r sees them: a torn one may look like one without a second column, like another's
\* or like a short or a long one of its user.
Seen(r, lines) ==
  {[i \in DOMAIN lines |-> IF lines[i] = Torn THEN looks ELSE lines[i]] :
     looks \in {Blank, Torn, Prefix(r, 2), Prefix(r, 7)}}

Of(line, u) == line \notin {Blank, Torn} /\ line.user = u
Has(lines, u) == \E i \in DOMAIN lines : Of(lines[i], u)

\* Splitting a line and looking at a second column that is not there throws.
HasBlank(lines) == \E i \in DOMAIN lines : lines[i] = Blank

\* The line at which the request stops reading: existsUser at the user's, read at a token "no".
Stops(r, line) ==
  /\ Of(line, job[r].user)
  /\ job[r].kind = "read" => line.columns = 7 /\ line.token = NoToken
  /\ job[r].kind # "login"

\* The line at which it throws: login also if its user's has no password.
Trips(r, line) ==
  \/ line = Blank
  \/ Of(line, job[r].user) /\ job[r].kind = "login" /\ line.columns < 6

\* Whether the request splits such a line, at or after which it does not stop.
MeetsBlank(r, lines) ==
  \E i \in DOMAIN lines : Trips(r, lines[i]) /\ \A j \in 1 .. i - 1 : ~Stops(r, lines[j])

Goto(r, from, to) ==
  /\ pc[r] = from
  /\ pc' = [pc EXCEPT ![r] = to]

\* The operation is over: the request holds nothing any more.
End(r, ok) ==
  /\ pc' = [pc EXCEPT ![r] = "idle"]
  /\ job' = [job EXCEPT ![r] = NoJob]
  /\ fd' = [fd EXCEPT ![r] = NoFile]
  /\ locked' = [locked EXCEPT ![r] = NoFile]
  /\ buf' = [buf EXCEPT ![r] = << >>]
  /\ failed' = IF ok THEN failed \ {r} ELSE failed \cup {r}
  /\ UNCHANGED <<requests, crashes, apart>>

Throws(r) == End(r, FALSE) /\ UNCHANGED <<files, known>>

\* FileChannel.lock of file f succeeds at once or throws.
CanLock(f) == f # NoFile /\ \A q \in Request : locked[q] # f

\* The lock of file f, or the exception: NullPointerException in finally if there is no lock.
OpenAndLock(r, from, f, to) ==
  /\ pc[r] = from
  /\ IF CanLock(f)
     THEN /\ Goto(r, from, to)
          /\ fd' = [fd EXCEPT ![r] = f] /\ locked' = [locked EXCEPT ![r] = f]
          /\ UNCHANGED <<files, job, buf, failed, requests, crashes, known, apart>>
     ELSE Throws(r)

(***************************************************************************)
(* Opening a path for writing creates the file or truncates it.            *)
(***************************************************************************)
OpenToWrite(r) ==
  IF table = NoFile
  THEN /\ disk' = Append(disk, File(<< >>, FALSE))
       /\ table' = Len(disk) + 1
       /\ fd' = [fd EXCEPT ![r] = Len(disk) + 1]
  ELSE /\ disk' = [disk EXCEPT ![table] = File(<< >>, FALSE)]
       /\ fd' = [fd EXCEPT ![r] = table]
       /\ UNCHANGED table

(***************************************************************************)
(* The lines new are written at the beginning of the file old, as it is by *)
(* now.  What is longer than they are keeps its tail, from somewhere in    *)
(* line k on: a line of its own if a newline has been written before it,   *)
(* or else the rest of the last line, unless only the newline is left.     *)
(***************************************************************************)
Overwritten(new, eol, old) ==
  IF new = << >> THEN {old}
  ELSE {File(new, eol)} \cup
       UNION {{File(begin \o SubSeq(old.lines, k + 1, Len(old.lines)), old.eol) :
                 begin \in IF eol THEN {Append(new, l) : l \in {old.lines[k], Blank, Torn}}
                                  ELSE {new, [new EXCEPT ![Len(new)] = Torn]}} :
              k \in DOMAIN old.lines}

WriteAll(r, eol) ==
  \E file \in Overwritten(buf[r], eol, disk[fd[r]]) : disk' = [disk EXCEPT ![fd[r]] = file]

\* After the operation of r there should be the records new instead of the old ones of u.
Expect(u, new) == known' = IF Calm THEN {l \in known : l.user # u} \cup new ELSE Lost

-----------------------------------------------------------------------------
(* The servlets: which operation is requested.                             *)

FirstStep(kind) ==
  CASE kind \in {"login", "read", "signup"} -> "open"
    [] kind = "save" -> "copy"
    [] kind \in {"reset", "update"} -> "readTable"

\* The operations that write the table, and those that replace its content
Rewriters == {"save", "reset", "update"}
Writers == Rewriters \cup {"signup"}

Clash(k, l) == {k, l} \subseteq Writers /\ {k, l} \cap Rewriters # {}

Receive(r) ==
  /\ requests < MaxRequests /\ pc[r] = "idle"
  /\ \E k \in Kind, u \in User : \E p \in Secret(u), t \in Secret(u) \cup {NoToken} :
       /\ k = "save" => t # NoToken
       /\ k \in {"login", "read", "signup", "reset"} => t = NoToken
       /\ k \in {"login", "read", "save"} => p = CHOOSE s \in Secret(u) : TRUE
       /\ job' = [job EXCEPT ![r] =
                     [kind |-> k, user |-> u, password |-> p, token |-> t, written |-> 0]]
       /\ apart' = (apart /\ \A q \in Request : pc[q] # "idle" => ~Clash(k, job[q].kind))
       /\ pc' = [pc EXCEPT ![r] = FirstStep(k)]
  /\ requests' = requests + 1
  /\ failed' = failed \ {r}
  /\ known' = IF \A q \in Request : pc[q] = "idle" THEN known ELSE Lost
  /\ UNCHANGED <<files, fd, locked, buf, crashes>>

-----------------------------------------------------------------------------
(* login, read and the test for existence in signup                        *)

Open(r) == OpenAndLock(r, "open", table, "scan")

\* Mutation: signup keeps the lock of its test while it appends.
ScanKeepsLock(r) ==
  /\ pc[r] = "scan"
  /\ \E lines \in Seen(r, disk[fd[r]].lines) :
       IF MeetsBlank(r, lines) THEN Throws(r)
       ELSE IF job[r].kind = "signup" /\ ~Has(lines, job[r].user)
       THEN /\ Goto(r, "scan", "append")
            /\ UNCHANGED <<files, fd, locked, job, buf, failed, requests, crashes, known, apart>>
       ELSE End(r, TRUE) /\ UNCHANGED <<files, known>>

\* Mutation: signup does not look for the user first.
ScanWithoutTest(r) ==
  /\ pc[r] = "scan"
  /\ IF job[r].kind = "signup"
     THEN /\ Goto(r, "scan", "append")
          /\ fd' = [fd EXCEPT ![r] = NoFile] /\ locked' = [locked EXCEPT ![r] = NoFile]
          /\ UNCHANGED <<files, job, buf, failed, requests, crashes, known, apart>>
     ELSE End(r, TRUE) /\ UNCHANGED <<files, known>>

(***************************************************************************)
(* The lines are split one by one, up to the one at which the request      *)
(* stops.  The lock is released in either case.                            *)
(***************************************************************************)
Scan(r) ==
  /\ pc[r] = "scan"
  /\ \E lines \in Seen(r, disk[fd[r]].lines) :
       IF MeetsBlank(r, lines) THEN Throws(r)
       ELSE IF job[r].kind = "signup" /\ ~Has(lines, job[r].user)
       THEN /\ Goto(r, "scan", "append")
            /\ fd' = [fd EXCEPT ![r] = NoFile] /\ locked' = [locked EXCEPT ![r] = NoFile]
            /\ UNCHANGED <<files, job, buf, failed, requests, crashes, known, apart>>
       ELSE End(r, TRUE) /\ UNCHANGED <<files, known>>

\* Mutation: appendARecord does not lock the table.
OpenToAppendUnlocked(r) ==
  /\ pc[r] = "append"
  /\ IF table # NoFile
     THEN /\ Goto(r, "append", "newline")
          /\ fd' = [fd EXCEPT ![r] = table]
          /\ UNCHANGED <<files, job, locked, buf, failed, requests, crashes, known, apart>>
     ELSE Throws(r)

OpenToAppend(r) == OpenAndLock(r, "append", table, "newline")

\* A newline first unless the file is empty; it is a blank line if the last record has one.
AppendNewline(r) ==
  LET file == disk[fd[r]]
      blank == file.lines # << >> /\ file.eol
  IN  /\ Goto(r, "newline", "write")
      /\ disk' = [disk EXCEPT ![fd[r]] =
                    File(IF blank THEN Append(file.lines, Blank) ELSE file.lines,
                         file.lines # << >>)]
      /\ known' = IF blank THEN Lost ELSE known
      /\ UNCHANGED <<table, bak, job, fd, locked, buf, failed, requests, crashes, apart>>

(***************************************************************************)
(* A column at the end of the file, which is written for itself.  It goes  *)
(* on with the line that r has begun if that is still the last one, and is *)
(* the first column of a new line after a newline or in an empty file.     *)
(***************************************************************************)
WithColumn(r, file) ==
  LET n == job[r].written
      last == Len(file.lines)
      mine == n > 0 /\ file.lines[last] = Prefix(r, n)
  IN  IF file.lines = << >> \/ file.eol
      THEN File(Append(file.lines, Blank), FALSE)
      ELSE File([file.lines EXCEPT ![last] = IF mine THEN Prefix(r, n + 1) ELSE Torn], FALSE)

\* One of the columns from username to password
AppendColumn(r) ==
  /\ pc[r] = "write" /\ job[r].written < 6
  /\ disk' = [disk EXCEPT ![fd[r]] = WithColumn(r, @)]
  /\ job' = [job EXCEPT ![r].written = @ + 1]
  /\ UNCHANGED <<table, bak, pc, fd, locked, buf, failed, requests, crashes, known, apart>>

\* The last column, the token "no", with no newline after it
AppendToken(r) ==
  /\ pc[r] = "write" /\ job[r].written = 6
  /\ disk' = [disk EXCEPT ![fd[r]] = WithColumn(r, @)]
  /\ Expect(job[r].user, {Record(job[r].user, job[r].password, NoToken)})
  /\ End(r, TRUE)
  /\ UNCHANGED <<table, bak>>

-----------------------------------------------------------------------------
(* ReadAndWrite.write, of the Dropbox token and of the EC2 keys            *)

\* Files.copy does not replace an existing file; its exceptions are printed.
Copy(r) ==
  /\ Goto(r, "copy", "lockBak")
  /\ IF table # NoFile /\ bak = NoFile
     THEN disk' = Append(disk, disk[table]) /\ bak' = Len(disk) + 1
     ELSE UNCHANGED <<disk, bak>>
  /\ UNCHANGED <<table, job, fd, locked, buf, failed, requests, crashes, known, apart>>

LockBak(r) == OpenAndLock(r, "lockBak", bak, "readLines")

\* A missing table is an IOException that is printed, after which nothing is rewritten as the table.
ReadLines(r) ==
  /\ Goto(r, "readLines", IF table = NoFile THEN "rewrite" ELSE "delete")
  /\ buf' = [buf EXCEPT ![r] = IF table = NoFile THEN << >> ELSE disk[table].lines]
  /\ locked' = [locked EXCEPT ![r] = IF table = NoFile THEN NoFile ELSE @]
  /\ UNCHANGED <<files, job, fd, failed, requests, crashes, known, apart>>

\* A line of the user with the secret as its token, or after the columns it has
WithToken(l, secret) ==
  CASE l.columns = 7 -> [l EXCEPT !.token = secret]
    [] l.columns = 6 -> [l EXCEPT !.token = secret, !.columns = 7]
    [] l.columns = 5 -> [l EXCEPT !.password = secret, !.columns = 6]
    [] l.columns < 5 -> [l EXCEPT !.columns = @ + 1]

\* Mutation: the token is encrypted after it has been put into the line.
WithTokensTooEarly(lines, u, secret) ==
  [i \in DOMAIN lines |->
     IF Of(lines[i], u)
     THEN WithToken(lines[i], Encryptions(secret, Cardinality({j \in 1 .. i - 1 : Of(lines[j], u)})))
     ELSE lines[i]]

\* The lines with the token of the user; the n-th of the user gets it encrypted n times.
WithTokens(lines, u, secret) ==
  [i \in DOMAIN lines |->
     IF Of(lines[i], u)
     THEN WithToken(lines[i], Encryptions(secret, Cardinality({j \in 1 .. i : Of(lines[j], u)})))
     ELSE lines[i]]

\* Mutation: the backup is deleted too early.
DeleteBoth(r) ==
  /\ Goto(r, "delete", "rewrite")
  /\ table' = NoFile /\ bak' = NoFile
  /\ locked' = [locked EXCEPT ![r] = NoFile]
  /\ UNCHANGED <<disk, job, fd, buf, failed, requests, crashes, known, apart>>

(***************************************************************************)
(* src.delete(), and then the lines are split and the token of the user is *)
(* replaced.                                                               *)
(***************************************************************************)
Delete(r) ==
  /\ pc[r] = "delete"
  /\ table' = NoFile
  /\ \E lines \in Seen(r, buf[r]) :
       IF HasBlank(lines)
       THEN End(r, FALSE)
       ELSE /\ Goto(r, "delete", "rewrite")
            /\ buf' = [buf EXCEPT ![r] = WithTokens(@, job[r].user, job[r].token)]
            /\ locked' = [locked EXCEPT ![r] = NoFile]
            /\ UNCHANGED <<job, fd, failed, requests, crashes, apart>>
  /\ UNCHANGED <<disk, bak, known>>

Create(r) ==
  /\ Goto(r, "rewrite", "fill")
  /\ OpenToWrite(r)
  /\ UNCHANGED <<bak, job, locked, buf, failed, requests, crashes, known, apart>>

Fill(r) ==
  /\ Goto(r, "fill", "deleteBak")
  /\ WriteAll(r, FALSE)
  /\ UNCHANGED <<table, bak, job, fd, locked, buf, failed, requests, crashes, known, apart>>

DeleteBak(r) ==
  /\ pc[r] = "deleteBak"
  /\ bak' = NoFile
  /\ Expect(job[r].user, {[l EXCEPT !.token = job[r].token] : l \in
                            {l \in known : l.user = job[r].user}})
  /\ End(r, TRUE)
  /\ UNCHANGED <<disk, table>>

-----------------------------------------------------------------------------
(* User.resetPassword and User.updateUserInformation; no lock is taken     *)

\* The line of the user after the operation; a token that is not given becomes "no".
Changed(r, l) ==
  IF ~Of(l, job[r].user) THEN l
  ELSE [l EXCEPT !.password = IF l.columns < 6 THEN @ ELSE job[r].password,
                 !.token = IF job[r].kind = "reset" \/ l.columns < 7 THEN @ ELSE job[r].token]

(***************************************************************************)
(* Assigning to a column that is not there throws.  It is caught for the   *)
(* password and for a token that is given, but not for the "no" of one     *)
(* that is not, nor for the columns before them, if those are given.       *)
(***************************************************************************)
LacksToken(r, l) ==
  Of(l, job[r].user) /\ job[r].kind = "update" /\ l.columns < 7 /\ job[r].token = NoToken
LacksMore(r, l) == Of(l, job[r].user) /\ job[r].kind = "update" /\ l.columns < 5

ReadTable(r) ==
  /\ pc[r] = "readTable"
  /\ LET old == IF table = NoFile THEN << >> ELSE disk[table].lines
     IN  \E lines \in Seen(r, old) :
           LET throws == HasBlank(lines) \/ \E i \in DOMAIN lines : LacksToken(r, lines[i])
           IN  \/ /\ throws \/ \E i \in DOMAIN lines : LacksMore(r, lines[i])
                  /\ Throws(r)
               \/ /\ ~throws /\ ~Has(lines, job[r].user)
                  /\ End(r, TRUE) /\ UNCHANGED <<files, known>>
               \/ /\ ~throws /\ Has(lines, job[r].user)
                  /\ Goto(r, "readTable", "truncate")
                  /\ buf' = [buf EXCEPT ![r] = [i \in DOMAIN old |-> Changed(r, old[i])]]
                  /\ UNCHANGED <<files, job, fd, locked, failed, requests, crashes, known, apart>>

Truncate(r) ==
  /\ Goto(r, "truncate", "overwrite")
  /\ OpenToWrite(r)
  /\ UNCHANGED <<bak, job, locked, buf, failed, requests, crashes, known, apart>>

\* Each record is written with a newline after it.
Overwrite(r) ==
  /\ pc[r] = "overwrite"
  /\ WriteAll(r, TRUE)
  /\ Expect(job[r].user, {Changed(r, l) : l \in {l \in known : l.user = job[r].user}})
  /\ End(r, TRUE)
  /\ UNCHANGED <<table, bak>>

-----------------------------------------------------------------------------
\* The server stops and starts again: the locks are gone, the files stay.
Crash ==
  /\ crashes < MaxCrashes
  /\ \E r \in Request : pc[r] # "idle"
  /\ pc' = [r \in Request |-> "idle"]
  /\ job' = [r \in Request |-> NoJob]
  /\ fd' = [r \in Request |-> NoFile]
  /\ locked' = [r \in Request |-> NoFile]
  /\ buf' = [r \in Request |-> << >>]
  /\ failed' = {}
  /\ crashes' = crashes + 1
  /\ known' = Lost
  /\ UNCHANGED <<files, requests, apart>>

Step(r) ==
  \/ Open(r) \/ Scan(r) \/ OpenToAppend(r) \/ AppendNewline(r)
  \/ AppendColumn(r) \/ AppendToken(r)
  \/ Copy(r) \/ LockBak(r) \/ ReadLines(r) \/ Delete(r) \/ Create(r) \/ Fill(r) \/ DeleteBak(r)
  \/ ReadTable(r) \/ Truncate(r) \/ Overwrite(r)

Next == (\E r \in Request : Receive(r) \/ Step(r)) \/ Crash

Spec == Init /\ [][Next]_vars

-----------------------------------------------------------------------------
States == {"idle", "open", "scan", "append", "newline", "write", "copy", "lockBak", "readLines",
           "delete", "rewrite", "fill", "deleteBak", "readTable", "truncate", "overwrite"}

IsLine(l) == l \in {Blank, Torn} \/ l \in UserLine

IsLines(lines) == \A i \in DOMAIN lines : IsLine(lines[i])

TypeOK ==
  /\ \A f \in DOMAIN disk : IsLines(disk[f].lines) /\ disk[f].eol \in BOOLEAN
  /\ table \in 0 .. Len(disk) /\ bak \in 0 .. Len(disk)
  /\ pc \in [Request -> States]
  /\ \A r \in Request : job[r] = NoJob <=> pc[r] = "idle"
  /\ apart \in BOOLEAN
  /\ fd \in [Request -> 0 .. Len(disk)] /\ locked \in [Request -> 0 .. Len(disk)]
  /\ \A r \in Request : IsLines(buf[r])
  /\ failed \subseteq Request
  /\ requests \in 0 .. MaxRequests /\ crashes \in 0 .. MaxCrashes

(***************************************************************************)
(* One after the other the operations do what they should: between two of  *)
(* them the table has exactly the records it should have, each once, and   *)
(* there is no backup.                                                     *)
(***************************************************************************)
CalmTable ==
  Calm /\ (\A r \in Request : pc[r] = "idle") =>
    /\ table # NoFile /\ bak = NoFile
    /\ {disk[table].lines[i] : i \in DOMAIN disk[table].lines} = known
    /\ Len(disk[table].lines) = Cardinality(known)

\* No operation that has the file for itself ends with an exception.
CalmRequestsSucceed == Calm => failed = {}

(***************************************************************************)
(* If the server dies in the middle of a ReadAndWrite.write that has the   *)
(* file for itself, the table or the backup has all the users.             *)
(***************************************************************************)
Complete(f) ==
  f # NoFile /\ \A u \in Users(known) : Has(disk[f].lines, u)

SaveIsRecoverable ==
  Calm /\ (\A r \in Request : pc[r] # "idle" => job[r].kind \in {"login", "read", "signup", "save"})
    => Complete(table) \/ Complete(bak)

(***************************************************************************)
(* Only an operation that rewrites the table while another one writes it   *)
(* can mix the lines of users.  As long as there has been no such overlap, *)
(* no line of a file, nor of what is going to be written, is torn, and     *)
(* none has the password or the token of another user, however signups     *)
(* overlap each other, whoever reads, and wherever the server crashes.     *)
(***************************************************************************)
Own(l) ==
  l # Blank => /\ l # Torn
               /\ l.password[1] = l.user /\ (l.token = NoToken \/ l.token[1] = l.user)

OwnRecords ==
  apart => \A f \in DOMAIN disk : \A i \in DOMAIN disk[f].lines : Own(disk[f].lines[i])

(***************************************************************************)
(* Only the operations that rewrite the table can lose a user: as long as  *)
(* there is none of them, everybody stays, whatever overlaps or crashes.   *)
(***************************************************************************)
AppendsLoseNobody ==
  Kind \cap {"save", "reset", "update"} = {} =>
    table # NoFile /\ \A i \in DOMAIN InitialUsers : Has(disk[table].lines, InitialUsers[i])

(***************************************************************************)
(* A login, or any other operation, that comes when no other request is    *)
(* under way returns instead of throwing.                                  *)
(***************************************************************************)
LoneRequestsReturn == Cardinality(Request) = 1 /\ crashes = 0 => failed = {}

(***************************************************************************)
(* Concurrent requests do not conflict: without a crash the users of the   *)
(* table stay in it.                                                       *)
(***************************************************************************)
UsersKept ==
  crashes = 0 /\ (\A r \in Request : pc[r] = "idle") =>
    table # NoFile /\ \A i \in DOMAIN InitialUsers : Has(disk[table].lines, InitialUsers[i])

=============================================================================
