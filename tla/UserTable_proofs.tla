-------------------------- MODULE UserTable_proofs --------------------------
(***************************************************************************)
(* Proofs about the table of users for any number of users, requests,      *)
(* threads and crashes.                                                    *)
(***************************************************************************)
EXTENDS UserTable, SequenceTheorems, FunctionTheorems, FiniteSetTheorems, TLAPS

\* A line with the password and the token of its own user
OwnLine == {l \in UserLine : l.password[1] = l.user /\ (l.token = NoToken \/ l.token[1] = l.user)}
\* A whole one
OwnRecord == {l \in OwnLine : l.columns = 7}
\* What is in a file, line by line
Line == OwnLine \cup {Blank, Torn}
FileType == [lines : Seq(Line), eol : BOOLEAN]

\* The operations
Kinds == {"login", "read", "signup", "save", "reset", "update"}
\* What a request does, with secrets of its user
Job ==
  {j \in [kind : Kinds, user : User, password : Secrets, token : Secrets \cup {NoToken},
         written : 0 .. 6] :
     /\ j.password \in Secret(j.user)
     /\ j.token \in Secret(j.user) \cup {NoToken}
     /\ j.kind = "save" => j.token \in Secret(j.user)}

\* Where a request has a file open, and where it is in ReadAndWrite.write
FilePlaces == {"scan", "newline", "write", "fill", "deleteBak", "overwrite"}
SavePlaces == {"copy", "lockBak", "readLines", "delete", "rewrite", "fill", "deleteBak"}

\* The files, and what the requests have of them.
FilesInv ==
  /\ disk \in Seq(FileType)
  /\ table \in 0 .. Len(disk) /\ bak \in 0 .. Len(disk)
  /\ fd \in [Request -> 0 .. Len(disk)] /\ locked \in [Request -> 0 .. Len(disk)]
  /\ buf \in [Request -> Seq(Line)]
  /\ \A r \in Request : pc[r] \in FilePlaces => fd[r] # NoFile

\* The requests, and where they may be with what they do.
JobsInv ==
  /\ pc \in [Request -> States]
  /\ job \in [Request -> Job \cup {NoJob}]
  /\ \A r \in Request : job[r] = NoJob <=> pc[r] = "idle"
  /\ \A r \in Request : pc[r] \in SavePlaces => job[r].kind = "save"
  /\ \A r \in Request : pc[r] \in {"append", "newline", "write"} => job[r].kind = "signup"
  /\ \A r \in Request : pc[r] \in {"readTable", "truncate", "overwrite"} => job[r].kind \in {"reset", "update"}
  /\ \A r \in Request : pc[r] \in {"open", "scan"} => job[r].kind \in {"login", "read", "signup"}
  /\ \A r \in Request : pc[r] \in {"open", "scan", "append", "newline"} => job[r].written = 0
  /\ \A r \in Request : pc[r] \in {"idle", "open", "append", "copy", "lockBak"} => locked[r] = NoFile
  /\ failed \subseteq Request
  /\ requests \in 0 .. MaxRequests /\ crashes \in 0 .. MaxCrashes

-----------------------------------------------------------------------------
(* Facts about the data *)

\* A secret of a user is in the form in which it is stored.
LEMMA SecretFacts ==
  ASSUME NEW u \in User
  PROVE  /\ Secret(u) \subseteq Secrets
         /\ \A s \in Secret(u) : s[1] = u
         /\ \A s \in Secret(u), n \in Nat \ {0} :
              /\ Encryptions(s, n) \in Secrets
              /\ Encryptions(s, n)[1] = u
              /\ n = 1 => Encryptions(s, n) = s
BY DEF Secret, Secrets, Encryptions

\* A job of a user carries this user's secrets, and no job is NoJob.
LEMMA JobFacts ==
  /\ NoJob \notin Job
  /\ \A j \in Job : j.user \in User /\ j.kind \in Kinds
BY DEF Job, NoJob

\* A line of a user is neither blank nor torn, and signup makes one that is its user's.
LEMMA RecordFacts ==
  /\ Blank \notin OwnLine /\ Torn \notin OwnLine /\ Blank # Torn
  /\ OwnRecord \subseteq OwnLine
  /\ \A l \in OwnLine : l.user \in User
  /\ \A j \in Job : Record(j.user, j.password, NoToken) \in OwnRecord
<1>1. \A j \in Job : /\ j.user \in User /\ j.password \in Secrets /\ j.password[1] = j.user
  BY SecretFacts DEF Job
<1>2. QED
  BY <1>1, RequestAssumption DEF OwnRecord, OwnLine, UserLine, Record

\* The beginnings of the record of a signup
LEMMA PrefixFacts ==
  ASSUME NEW r \in Request, job[r] \in Job, NEW n \in 0 .. 7
  PROVE  /\ Prefix(r, n) \in Line /\ Prefix(r, n) # Torn
         /\ n < 2 => Prefix(r, n) = Blank
         /\ n >= 2 => Prefix(r, n) \in OwnLine /\ Prefix(r, n).user = job[r].user
         /\ Prefix(r, 7) = Record(job[r].user, job[r].password, NoToken)
<1> DEFINE l == Record(job[r].user, job[r].password, NoToken)
<1>1. l \in OwnRecord /\ l.user = job[r].user /\ l.columns = 7
  BY RecordFacts DEF Record
<1>2. Prefix(r, n) = IF n < 2 THEN Blank ELSE [l EXCEPT !.columns = n]
  BY DEF Prefix
<1>3. Prefix(r, 7) = [l EXCEPT !.columns = 7]
  BY DEF Prefix
<1> HIDE DEF l
<1>4. [l EXCEPT !.columns = 7] = l
  BY <1>1 DEF OwnRecord, OwnLine, UserLine
<1>5. n >= 2 => [l EXCEPT !.columns = n] \in OwnLine /\ [l EXCEPT !.columns = n].user = job[r].user
  BY <1>1 DEF OwnRecord, OwnLine, UserLine
<1>6. QED
  BY <1>2, <1>3, <1>4, <1>5, RecordFacts DEF l, Line

\* Lines make a file, none included.
LEMMA FileFacts ==
  /\ \A lines \in Seq(Line), eol \in BOOLEAN : File(lines, eol) \in FileType
  /\ << >> \in Seq(Line)
BY DEF File, FileType

\* One more file, or a file that gets another content.
LEMMA NewFile ==
  ASSUME NEW d \in Seq(FileType), NEW f \in FileType, NEW e, e = Append(d, f)
  PROVE  /\ e \in Seq(FileType) /\ Len(e) = Len(d) + 1
         /\ e[Len(d) + 1] = f
         /\ \A i \in 1 .. Len(d) : e[i] = d[i]
OBVIOUS

\* A file that gets another content keeps its place, and the others keep theirs.
LEMMA NewContent ==
  ASSUME NEW d \in Seq(FileType), NEW f \in FileType, NEW i \in 1 .. Len(d),
         NEW e, e = [d EXCEPT ![i] = f]
  PROVE  /\ e \in Seq(FileType) /\ Len(e) = Len(d)
         /\ e[i] = f
         /\ \A j \in 1 .. Len(d) : j # i => e[j] = d[j]
BY ExceptSeq

\* What a file of the disk consists of
LEMMA Contents ==
  ASSUME NEW d \in Seq(FileType), NEW i \in 1 .. Len(d)
  PROVE  /\ d[i] \in FileType /\ d[i].lines \in Seq(Line) /\ d[i].eol \in BOOLEAN
<1>1. d[i] \in FileType
  BY ElementOfSeq
<1>2. QED
  BY <1>1 DEF FileType

\* The lines of a file, changed one by one
LEMMA SameLength ==
  ASSUME NEW lines \in Seq(Line), NEW new, DOMAIN new = DOMAIN lines,
         new = [i \in DOMAIN new |-> new[i]],
         \A i \in DOMAIN lines : new[i] \in Line
  PROVE  new \in Seq(Line) /\ Len(new) = Len(lines)
<1>1. DOMAIN lines = 1 .. Len(lines) /\ Len(lines) \in Nat
  BY LenProperties
<1>2. new \in [1 .. Len(lines) -> Line]
  BY <1>1
<1>3. QED
  BY <1>1, <1>2

\* One more line at the end
LEMMA AddLine ==
  ASSUME NEW lines \in Seq(Line), NEW l \in Line, NEW new, new = Append(lines, l)
  PROVE  /\ new \in Seq(Line) /\ Len(new) = Len(lines) + 1
         /\ new[Len(lines) + 1] = l
         /\ \A i \in 1 .. Len(lines) : new[i] = lines[i]
OBVIOUS

\* A line that is not blank or torn is of its user.
LEMMA LinesAre ==
  ASSUME NEW lines \in Seq(Line), NEW i \in DOMAIN lines
  PROVE  lines[i] \in Line /\ (lines[i] \notin {Blank, Torn} => lines[i] \in OwnLine)
BY LenProperties, ElementOfSeq DEF Line

\* A line that gets another content
LEMMA NewLine ==
  ASSUME NEW lines \in Seq(Line), NEW l \in Line, NEW i \in 1 .. Len(lines),
         NEW new, new = [lines EXCEPT ![i] = l]
  PROVE  /\ new \in Seq(Line) /\ Len(new) = Len(lines)
         /\ new[i] = l
         /\ \A j \in 1 .. Len(lines) : j # i => new[j] = lines[j]
BY ExceptSeq

-----------------------------------------------------------------------------
(* The files keep their form *)

\* A step of a request that leaves the files as they are, or lets them grow.
LEMMA FilesStep ==
  ASSUME FilesInv, JobsInv, NEW r \in Request, NEW to, NEW f, NEW k, NEW b,
         pc' = [pc EXCEPT ![r] = to], fd' = [fd EXCEPT ![r] = f],
         locked' = [locked EXCEPT ![r] = k], buf' = [buf EXCEPT ![r] = b],
         disk' \in Seq(FileType), Len(disk) <= Len(disk'),
         table' \in 0 .. Len(disk'), bak' \in 0 .. Len(disk'),
         f \in 0 .. Len(disk'), k \in 0 .. Len(disk'), b \in Seq(Line),
         to \in FilePlaces => f # NoFile
  PROVE  FilesInv'
<1>1. Len(disk) \in Nat /\ Len(disk') \in Nat
  BY LenProperties DEF FilesInv
<1>2. fd' \in [Request -> 0 .. Len(disk')] /\ locked' \in [Request -> 0 .. Len(disk')]
  BY <1>1 DEF FilesInv
<1>3. buf' \in [Request -> Seq(Line)]
  BY DEF FilesInv
<1>4. \A q \in Request : pc'[q] \in FilePlaces => fd'[q] # NoFile
  BY DEF FilesInv, JobsInv
<1>5. QED
  BY <1>2, <1>3, <1>4 DEF FilesInv

\* What is left alone keeps its value in such a step.
LEMMA Unchanged ==
  ASSUME FilesInv, NEW r \in Request
  PROVE  /\ UNCHANGED fd => fd' = [fd EXCEPT ![r] = fd[r]]
         /\ UNCHANGED locked => locked' = [locked EXCEPT ![r] = locked[r]]
         /\ UNCHANGED buf => buf' = [buf EXCEPT ![r] = buf[r]]
         /\ fd[r] \in 0 .. Len(disk) /\ locked[r] \in 0 .. Len(disk) /\ buf[r] \in Seq(Line)
         /\ Len(disk) \in Nat
BY LenProperties DEF FilesInv

\* The end of a request, with the files as they are or with other contents
LEMMA FilesEnd ==
  ASSUME FilesInv, JobsInv, NEW r \in Request, NEW ok, End(r, ok),
         disk' \in Seq(FileType), Len(disk') = Len(disk),
         table' \in 0 .. Len(disk), bak' \in 0 .. Len(disk)
  PROVE  FilesInv'
<1>1. Len(disk) \in Nat /\ << >> \in Seq(Line)
  BY LenProperties, FileFacts DEF FilesInv
<1>2. /\ "idle" \notin FilePlaces /\ NoFile \in 0 .. Len(disk') /\ Len(disk) <= Len(disk')
      /\ table' \in 0 .. Len(disk') /\ bak' \in 0 .. Len(disk')
  BY <1>1 DEF FilePlaces, NoFile
<1>3. /\ pc' = [pc EXCEPT ![r] = "idle"] /\ fd' = [fd EXCEPT ![r] = NoFile]
      /\ locked' = [locked EXCEPT ![r] = NoFile] /\ buf' = [buf EXCEPT ![r] = << >>]
  BY DEF End
<1>4. \A to, f, k, b :
        /\ pc' = [pc EXCEPT ![r] = to] /\ fd' = [fd EXCEPT ![r] = f]
        /\ locked' = [locked EXCEPT ![r] = k] /\ buf' = [buf EXCEPT ![r] = b]
        /\ f \in 0 .. Len(disk') /\ k \in 0 .. Len(disk') /\ b \in Seq(Line)
        /\ to \in FilePlaces => f # NoFile
        => FilesInv'
  BY <1>2, FilesStep
<1>5. QED
  BY <1>1, <1>2, <1>3, <1>4

\* A request that ends and leaves the files alone
LEMMA FilesThrow ==
  ASSUME FilesInv, JobsInv, NEW r \in Request, NEW ok, End(r, ok), UNCHANGED files
  PROVE  FilesInv'
BY FilesEnd DEF files, FilesInv

\* A path that is opened for writing leads to an empty file afterwards.
LEMMA Opened ==
  ASSUME FilesInv, NEW r \in Request, OpenToWrite(r)
  PROVE  /\ disk' \in Seq(FileType) /\ Len(disk) <= Len(disk')
         /\ table' \in 1 .. Len(disk') /\ fd' = [fd EXCEPT ![r] = table']
         /\ disk'[table'] = File(<< >>, FALSE)
         /\ \A i \in 1 .. Len(disk) : i # table => disk'[i] = disk[i]
         /\ table # NoFile => table' = table
         /\ table = NoFile => table' = Len(disk) + 1
<1>1. Len(disk) \in Nat /\ File(<< >>, FALSE) \in FileType
  BY LenProperties, FileFacts DEF FilesInv
<1>2. CASE table = NoFile
  <2>1. disk' = Append(disk, File(<< >>, FALSE))
    BY <1>2 DEF OpenToWrite
  <2>2. disk \in Seq(FileType)
    BY DEF FilesInv
  <2>3. /\ disk' \in Seq(FileType) /\ Len(disk') = Len(disk) + 1
        /\ disk'[Len(disk) + 1] = File(<< >>, FALSE)
        /\ \A i \in 1 .. Len(disk) : disk'[i] = disk[i]
    <3> DEFINE f == File(<< >>, FALSE)
    <3>1. f \in FileType /\ disk' = Append(disk, f)
      BY <1>1, <2>1
    <3> HIDE DEF f
    <3>2. /\ disk' \in Seq(FileType) /\ Len(disk') = Len(disk) + 1
          /\ disk'[Len(disk) + 1] = f
          /\ \A i \in 1 .. Len(disk) : disk'[i] = disk[i]
      BY <2>2, <3>1, NewFile
    <3>3. QED
      BY <3>2 DEF f
  <2>4. table' = Len(disk) + 1 /\ fd' = [fd EXCEPT ![r] = table']
    BY <1>2 DEF OpenToWrite
  <2>5. table' \in 1 .. Len(disk') /\ Len(disk) <= Len(disk')
    BY <1>1, <2>3, <2>4
  <2>6. QED
    BY <1>2, <2>3, <2>4, <2>5
<1>3. CASE table # NoFile
  <2>1. disk' = [disk EXCEPT ![table] = File(<< >>, FALSE)]
    BY <1>3 DEF OpenToWrite
  <2>2. disk \in Seq(FileType) /\ table \in 1 .. Len(disk)
    BY <1>1, <1>3 DEF FilesInv, NoFile
  <2>3. /\ disk' \in Seq(FileType) /\ Len(disk') = Len(disk)
        /\ disk'[table] = File(<< >>, FALSE)
        /\ \A i \in 1 .. Len(disk) : i # table => disk'[i] = disk[i]
    <3> DEFINE f == File(<< >>, FALSE)
    <3>1. f \in FileType /\ disk' = [disk EXCEPT ![table] = f]
      BY <1>1, <2>1
    <3> HIDE DEF f
    <3>2. /\ disk' \in Seq(FileType) /\ Len(disk') = Len(disk)
          /\ disk'[table] = f
          /\ \A i \in 1 .. Len(disk) : i # table => disk'[i] = disk[i]
      BY <2>2, <3>1, NewContent
    <3>3. QED
      BY <3>2 DEF f
  <2>4. table' = table /\ fd' = [fd EXCEPT ![r] = table']
    BY <1>3 DEF OpenToWrite
  <2>5. table' \in 1 .. Len(disk') /\ Len(disk) <= Len(disk')
    BY <1>1, <2>2, <2>3, <2>4
  <2>6. disk'[table'] = File(<< >>, FALSE) /\ \A i \in 1 .. Len(disk) : i # table => disk'[i] = disk[i]
    BY <2>3, <2>4, Zenon
  <2>7. QED
    BY <1>3, <2>3, <2>4, <2>5, <2>6
<1>4. QED
  BY <1>2, <1>3

\* The secrets in the job of a request that writes are its user's.
LEMMA JobOf ==
  ASSUME JobsInv, NEW r \in Request, pc[r] # "idle"
  PROVE  job[r] \in Job
BY DEF JobsInv

\* A lock is had, or not.
LEMMA LockFiles ==
  ASSUME FilesInv, JobsInv, NEW r \in Request, NEW from, NEW f \in 0 .. Len(disk), NEW to,
         OpenAndLock(r, from, f, to)
  PROVE  FilesInv'
<1>1. CASE CanLock(f)
  <2>1. /\ pc' = [pc EXCEPT ![r] = to] /\ fd' = [fd EXCEPT ![r] = f] /\ locked' = [locked EXCEPT ![r] = f]
        /\ UNCHANGED <<disk, table, bak, buf>> /\ f # NoFile
    BY <1>1 DEF OpenAndLock, Goto, files, CanLock
  <2>2. /\ buf' = [buf EXCEPT ![r] = buf[r]] /\ buf[r] \in Seq(Line) /\ Len(disk) \in Nat
    BY <2>1, Unchanged
  <2>3. /\ disk' \in Seq(FileType) /\ Len(disk) <= Len(disk')
        /\ table' \in 0 .. Len(disk') /\ bak' \in 0 .. Len(disk') /\ f \in 0 .. Len(disk')
    BY <2>1, <2>2 DEF FilesInv
  <2>4. QED
    BY <2>1, <2>2, <2>3, FilesStep
<1>2. CASE ~CanLock(f)
  BY <1>2, FilesThrow DEF OpenAndLock, Throws
<1>3. QED
  BY <1>1, <1>2

\* Reading the lines changes no file.
LEMMA ScanFiles ==
  ASSUME FilesInv, JobsInv, NEW r \in Request, Scan(r)
  PROVE  FilesInv'
<1>1. CASE pc' = [pc EXCEPT ![r] = "append"] /\ fd' = [fd EXCEPT ![r] = NoFile] /\ locked' = [locked EXCEPT ![r] = NoFile]
           /\ UNCHANGED <<disk, table, bak, buf>>
  <2>1. buf' = [buf EXCEPT ![r] = buf[r]] /\ buf[r] \in Seq(Line) /\ Len(disk) \in Nat
    BY <1>1, Unchanged
  <2>2. /\ disk' \in Seq(FileType) /\ Len(disk) <= Len(disk') /\ NoFile \in 0 .. Len(disk')
        /\ table' \in 0 .. Len(disk') /\ bak' \in 0 .. Len(disk') /\ "append" \notin FilePlaces
    BY <1>1, <2>1 DEF FilesInv, FilePlaces, NoFile
  <2>3. QED
    BY <1>1, <2>1, <2>2, FilesStep
<1>2. CASE (End(r, TRUE) \/ End(r, FALSE)) /\ UNCHANGED files
  BY <1>2, FilesThrow
<1>3. QED
  BY <1>1, <1>2, Zenon DEF Scan, Throws, Goto, files

\* A newline, or a blank line, at the end of the open file
LEMMA NewlineFiles ==
  ASSUME FilesInv, JobsInv, NEW r \in Request, AppendNewline(r)
  PROVE  FilesInv'
<1>1. Len(disk) \in Nat /\ fd[r] \in 1 .. Len(disk) /\ disk \in Seq(FileType)
  BY Unchanged DEF FilesInv, FilePlaces, AppendNewline, Goto, NoFile
<1> DEFINE file == disk[fd[r]]
           new == File(IF file.lines # << >> /\ file.eol THEN Append(file.lines, Blank) ELSE file.lines, file.lines # << >>)
<1>2. file.lines \in Seq(Line) /\ Blank \in Line
  BY <1>1, Contents DEF Line
<1>3. Append(file.lines, Blank) \in Seq(Line)
  BY <1>2, AddLine
<1>4. new \in FileType
  BY <1>2, <1>3 DEF File, FileType
<1>5. disk' = [disk EXCEPT ![fd[r]] = new] /\ pc' = [pc EXCEPT ![r] = "write"] /\ UNCHANGED <<table, bak, fd, locked, buf>>
  BY DEF AppendNewline, Goto
<1> HIDE DEF new
<1>6. disk' \in Seq(FileType) /\ Len(disk') = Len(disk)
  BY <1>1, <1>4, <1>5, NewContent
<1>7. /\ fd' = [fd EXCEPT ![r] = fd[r]] /\ locked' = [locked EXCEPT ![r] = locked[r]] /\ buf' = [buf EXCEPT ![r] = buf[r]]
      /\ locked[r] \in 0 .. Len(disk) /\ buf[r] \in Seq(Line)
  BY <1>5, Unchanged
<1>8. /\ Len(disk) <= Len(disk') /\ table' \in 0 .. Len(disk') /\ bak' \in 0 .. Len(disk')
      /\ fd[r] \in 0 .. Len(disk') /\ locked[r] \in 0 .. Len(disk') /\ fd[r] # NoFile
  BY <1>1, <1>5, <1>6, <1>7 DEF FilesInv, NoFile
<1>9. QED
  BY <1>5, <1>6, <1>7, <1>8, FilesStep

\* A column more: a new line, or the last one with a column more or torn
LEMMA ColumnFile ==
  ASSUME FilesInv, NEW r \in Request, job[r] \in Job, NEW file \in FileType
  PROVE  /\ WithColumn(r, file) \in FileType
         /\ WithColumn(r, file).eol = FALSE
         /\ file.lines = << >> \/ file.eol => WithColumn(r, file).lines = Append(file.lines, Blank)
         /\ file.lines # << >> /\ ~file.eol =>
              /\ Len(file.lines) \in 1 .. Len(file.lines)
              /\ WithColumn(r, file).lines =
                   [file.lines EXCEPT ![Len(file.lines)] =
                      IF job[r].written > 0 /\ file.lines[Len(file.lines)] = Prefix(r, job[r].written)
                      THEN Prefix(r, job[r].written + 1) ELSE Torn]
<1> DEFINE n == job[r].written
           last == Len(file.lines)
           l == IF n > 0 /\ file.lines[last] = Prefix(r, n) THEN Prefix(r, n + 1) ELSE Torn
           long == Append(file.lines, Blank)
           same == [file.lines EXCEPT ![last] = l]
<1>1. file.lines \in Seq(Line) /\ last \in Nat /\ n \in 0 .. 6 /\ Blank \in Line /\ Torn \in Line
  BY LenProperties DEF FileType, Job, Line
<1>2. n + 1 \in 0 .. 7
  BY <1>1
<1>3. l \in Line
  BY <1>1, <1>2, PrefixFacts
<1>4. long \in Seq(Line)
  BY <1>1, AddLine
<1>5. WithColumn(r, file) = IF file.lines = << >> \/ file.eol THEN File(long, FALSE) ELSE File(same, FALSE)
  BY DEF WithColumn
<1>6. CASE file.lines = << >> \/ file.eol
  <2>1. WithColumn(r, file) = File(long, FALSE)
    BY <1>5, <1>6
  <2>2. long = Append(file.lines, Blank)
    OBVIOUS
  <2> HIDE DEF long
  <2>3. File(long, FALSE) \in FileType /\ File(long, FALSE).lines = long /\ File(long, FALSE).eol = FALSE
    BY <1>4, FileFacts DEF File
  <2>4. QED
    BY <1>6, <2>1, <2>2, <2>3
<1>7. CASE file.lines # << >> /\ ~file.eol
  <2>1. last \in 1 .. Len(file.lines)
    BY <1>1, <1>7, EmptySeq
  <2>2. WithColumn(r, file) = File(same, FALSE)
    BY <1>5, <1>7
  <2> HIDE DEF l
  <2>3. same \in Seq(Line)
    BY <1>1, <1>3, <2>1, NewLine
  <2>4. same = [file.lines EXCEPT ![Len(file.lines)] =
                      IF job[r].written > 0 /\ file.lines[Len(file.lines)] = Prefix(r, job[r].written)
                      THEN Prefix(r, job[r].written + 1) ELSE Torn]
    BY Zenon DEF l
  <2> HIDE DEF same
  <2>5. File(same, FALSE) \in FileType /\ File(same, FALSE).lines = same /\ File(same, FALSE).eol = FALSE
    BY <2>3, FileFacts DEF File
  <2>6. QED
    BY <1>7, <2>1, <2>2, <2>4, <2>5, Zenon
<1>8. QED
  BY <1>6, <1>7

\* The disk after a column has been appended
LEMMA ColumnDisk ==
  ASSUME FilesInv, JobsInv, NEW r \in Request, AppendColumn(r) \/ AppendToken(r)
  PROVE  /\ fd[r] \in 1 .. Len(disk) /\ disk[fd[r]] \in FileType /\ job[r] \in Job /\ pc[r] = "write"
         /\ disk' \in Seq(FileType) /\ Len(disk') = Len(disk)
         /\ disk'[fd[r]] = WithColumn(r, disk[fd[r]])
         /\ \A i \in 1 .. Len(disk) : i # fd[r] => disk'[i] = disk[i]
<1>1. pc[r] = "write" /\ disk' = [disk EXCEPT ![fd[r]] = WithColumn(r, disk[fd[r]])]
  BY Zenon DEF AppendColumn, AppendToken
<1>2. job[r] \in Job
  BY <1>1 DEF JobsInv
<1>3. Len(disk) \in Nat /\ fd[r] \in 1 .. Len(disk) /\ disk \in Seq(FileType)
  BY <1>1, Unchanged DEF FilesInv, FilePlaces, NoFile
<1>4. disk[fd[r]] \in FileType
  BY <1>3, Contents
<1> DEFINE new == WithColumn(r, disk[fd[r]])
<1>5. new \in FileType
  BY <1>2, <1>4, ColumnFile
<1> HIDE DEF new
<1>6. disk' = [disk EXCEPT ![fd[r]] = new]
  BY <1>1 DEF new
<1>7. /\ disk' \in Seq(FileType) /\ Len(disk') = Len(disk) /\ disk'[fd[r]] = new
      /\ \A i \in 1 .. Len(disk) : i # fd[r] => disk'[i] = disk[i]
  BY <1>3, <1>5, <1>6, NewContent
<1>8. QED
  BY <1>1, <1>2, <1>3, <1>4, <1>7 DEF new

\* The columns of a record are appended one by one.
LEMMA ColumnFiles ==
  ASSUME FilesInv, JobsInv, NEW r \in Request, AppendColumn(r) \/ AppendToken(r)
  PROVE  FilesInv'
<1>1. disk' \in Seq(FileType) /\ Len(disk') = Len(disk) /\ pc[r] = "write"
  BY ColumnDisk
<1>2. CASE AppendColumn(r)
  <2>1. UNCHANGED <<table, bak, pc, fd, locked, buf>>
    BY <1>2 DEF AppendColumn
  <2>2. QED
    BY <1>1, <2>1 DEF FilesInv
<1>3. CASE AppendToken(r)
  <2>1. End(r, TRUE) /\ table' \in 0 .. Len(disk) /\ bak' \in 0 .. Len(disk)
    BY <1>3 DEF AppendToken, FilesInv
  <2>2. QED
    BY <1>1, <2>1, FilesEnd
<1>4. QED
  BY <1>2, <1>3

\* Lines after the lines new, or the last of new torn: they make a file.
LEMMA OverwrittenFiles ==
  ASSUME NEW new \in Seq(Line), NEW eol \in BOOLEAN, NEW old \in FileType,
         NEW file \in Overwritten(new, eol, old)
  PROVE  /\ file \in FileType
         /\ old.lines = << >> => file.lines = new
<1>1. old.lines \in Seq(Line) /\ old.eol \in BOOLEAN /\ Len(new) \in Nat /\ Blank \in Line /\ Torn \in Line
  BY LenProperties DEF FileType, Line
<1>2. CASE new = << >>
  <2>1. file = old
    BY <1>2 DEF Overwritten
  <2>2. QED
    BY <1>2, <2>1
<1>3. CASE new # << >>
  <2>1. CASE file = File(new, eol)
    BY <2>1, FileFacts DEF File
  <2>2. CASE file # File(new, eol)
    <3>1. PICK k \in DOMAIN old.lines :
            \E begin \in IF eol THEN {Append(new, l) : l \in {old.lines[k], Blank, Torn}}
                                  ELSE {new, [new EXCEPT ![Len(new)] = Torn]} :
              file = File(begin \o SubSeq(old.lines, k + 1, Len(old.lines)), old.eol)
      BY <1>3, <2>2 DEF Overwritten
    <3>2. PICK begin \in IF eol THEN {Append(new, l) : l \in {old.lines[k], Blank, Torn}}
                                 ELSE {new, [new EXCEPT ![Len(new)] = Torn]} :
              file = File(begin \o SubSeq(old.lines, k + 1, Len(old.lines)), old.eol)
      BY <3>1
    <3>3. old.lines[k] \in Line /\ k \in 1 .. Len(old.lines) /\ Len(old.lines) \in Nat
      BY <1>1, LinesAre, LenProperties
    <3>4. begin \in Seq(Line)
      <4>1. CASE eol
        <5>1. PICK l \in Line : begin = Append(new, l)
          BY <1>1, <3>2, <3>3, <4>1
        <5>2. QED
          BY <5>1, AddLine
      <4>2. CASE ~eol /\ begin # new
        <5>1. begin = [new EXCEPT ![Len(new)] = Torn] /\ Len(new) \in 1 .. Len(new)
          BY <1>1, <1>3, <3>2, <4>2, EmptySeq
        <5>2. QED
          BY <1>1, <5>1, NewLine
      <4>3. QED
        BY <4>1, <4>2
    <3>5. SubSeq(old.lines, k + 1, Len(old.lines)) \in Seq(Line)
      BY <1>1, <3>3, SubSeqProperties
    <3>6. begin \o SubSeq(old.lines, k + 1, Len(old.lines)) \in Seq(Line)
      BY <3>4, <3>5, ConcatProperties
    <3>7. file \in FileType
      BY <1>1, <3>2, <3>6, FileFacts
    <3>8. old.lines # << >>
      BY <3>3
    <3>9. QED
      BY <3>7, <3>8
  <2>3. QED
    BY <2>1, <2>2
<1>4. QED
  BY <1>2, <1>3

\* The open file gets the lines of the request, the other files stay.
LEMMA WriteAllFiles ==
  ASSUME FilesInv, NEW r \in Request, NEW eol \in BOOLEAN, WriteAll(r, eol), fd[r] # NoFile
  PROVE  /\ disk' \in Seq(FileType) /\ Len(disk') = Len(disk)
         /\ \E file \in Overwritten(buf[r], eol, disk[fd[r]]) : disk'[fd[r]] = file
         /\ disk[fd[r]].lines = << >> => disk'[fd[r]].lines = buf[r]
         /\ \A i \in 1 .. Len(disk) : i # fd[r] => disk'[i] = disk[i]
<1>1. Len(disk) \in Nat /\ fd[r] \in 1 .. Len(disk) /\ disk \in Seq(FileType) /\ buf[r] \in Seq(Line)
  BY Unchanged DEF FilesInv, NoFile
<1>2. disk[fd[r]] \in FileType
  BY <1>1, Contents
<1>3. PICK new \in Overwritten(buf[r], eol, disk[fd[r]]) : disk' = [disk EXCEPT ![fd[r]] = new]
  BY DEF WriteAll
<1>4. /\ new \in FileType
      /\ disk[fd[r]].lines = << >> => new.lines = buf[r]
  BY <1>1, <1>2, OverwrittenFiles
<1>5. /\ disk' \in Seq(FileType) /\ Len(disk') = Len(disk)
      /\ disk'[fd[r]] = new
      /\ \A i \in 1 .. Len(disk) : i # fd[r] => disk'[i] = disk[i]
  BY <1>1, <1>3, <1>4, NewContent
<1>6. QED
  BY <1>4, <1>5

-----------------------------------------------------------------------------
(* What is written for a user *)

\* No line is blank.
NoBlanks(lines) == \A i \in DOMAIN lines : lines[i] # Blank

\* A line stays its user's when it gets this user's token, however often encrypted.
LEMMA TokenOf ==
  ASSUME NEW l \in OwnLine, NEW u \in User, NEW secret \in Secret(u), l.user = u, NEW n \in Nat \ {0}
  PROVE  /\ WithToken(l, Encryptions(secret, n)) \in OwnLine
         /\ WithToken(l, Encryptions(secret, n)).user = u
         /\ l \in OwnRecord => /\ WithToken(l, Encryptions(secret, n)) = [l EXCEPT !.token = Encryptions(secret, n)]
                               /\ [l EXCEPT !.token = Encryptions(secret, n)] \in OwnRecord
<1>1. Encryptions(secret, n) \in Secrets /\ Encryptions(secret, n)[1] = u
  BY SecretFacts
<1> DEFINE t == Encryptions(secret, n)
<1> HIDE DEF t
<1>2. t \in Secrets /\ t[1] = u
  BY <1>1 DEF t
<1>3. l \in UserLine /\ l.columns \in 2 .. 7
  BY DEF OwnLine, UserLine
<1>4. CASE l.columns = 7
  <2>1. WithToken(l, t) = [l EXCEPT !.token = t]
    BY <1>4 DEF WithToken
  <2>2. [l EXCEPT !.token = t] \in OwnRecord /\ [l EXCEPT !.token = t].user = u
    BY <1>2, <1>4 DEF OwnRecord, OwnLine, UserLine
  <2>3. QED
    BY <2>1, <2>2 DEF t, OwnRecord
<1>5. CASE l.columns = 6
  <2>1. WithToken(l, t) = [l EXCEPT !.token = t, !.columns = 7]
    BY <1>5 DEF WithToken
  <2>2. [l EXCEPT !.token = t, !.columns = 7] \in OwnLine /\ [l EXCEPT !.token = t, !.columns = 7].user = u
    <3> DEFINE c == 7
    <3>1. c \in 2 .. 7
      OBVIOUS
    <3> HIDE DEF c
    <3>2. [l EXCEPT !.token = t, !.columns = c] \in OwnLine /\ [l EXCEPT !.token = t, !.columns = c].user = u
      BY <1>2, <3>1 DEF OwnLine, UserLine
    <3>3. QED
      BY <3>2 DEF c
  <2>3. l \notin OwnRecord
    BY <1>5 DEF OwnRecord
  <2>4. QED
    BY <2>1, <2>2, <2>3 DEF t
<1>6. CASE l.columns = 5
  <2>1. WithToken(l, t) = [l EXCEPT !.password = t, !.columns = 6]
    BY <1>6 DEF WithToken
  <2>2. [l EXCEPT !.password = t, !.columns = 6] \in OwnLine /\ [l EXCEPT !.password = t, !.columns = 6].user = u
    <3> DEFINE c == 6
    <3>1. c \in 2 .. 7
      OBVIOUS
    <3> HIDE DEF c
    <3>2. [l EXCEPT !.password = t, !.columns = c] \in OwnLine /\ [l EXCEPT !.password = t, !.columns = c].user = u
      BY <1>2, <3>1 DEF OwnLine, UserLine
    <3>3. QED
      BY <3>2 DEF c
  <2>3. l \notin OwnRecord
    BY <1>6 DEF OwnRecord
  <2>4. QED
    BY <2>1, <2>2, <2>3 DEF t
<1>7. CASE l.columns < 5
  <2>1. WithToken(l, t) = [l EXCEPT !.columns = l.columns + 1]
    BY <1>3, <1>7 DEF WithToken
  <2>2. [l EXCEPT !.columns = l.columns + 1] \in OwnLine /\ [l EXCEPT !.columns = l.columns + 1].user = u
    BY <1>3, <1>7 DEF OwnLine, UserLine
  <2>3. l \notin OwnRecord
    BY <1>7 DEF OwnRecord
  <2>4. QED
    BY <2>1, <2>2, <2>3 DEF t
<1>8. QED
  BY <1>3, <1>4, <1>5, <1>6, <1>7

\* The line of the user with the new password and token; other lines stay.
LEMMA ChangedLine ==
  ASSUME JobsInv, NEW r \in Request, pc[r] # "idle", NEW l \in Line
  PROVE  /\ Changed(r, l) \in Line
         /\ l # Torn => Changed(r, l) # Torn
         /\ l \in OwnRecord => Changed(r, l) \in OwnRecord /\ Changed(r, l).user = l.user
<1>1. /\ job[r].user \in User /\ job[r].password \in Secret(job[r].user)
      /\ job[r].token \in Secret(job[r].user) \cup {NoToken}
  BY JobOf DEF Job
<1>2. /\ job[r].password \in Secrets /\ job[r].password[1] = job[r].user
      /\ job[r].token \in Secrets \cup {NoToken}
      /\ job[r].token = NoToken \/ job[r].token[1] = job[r].user
  BY <1>1, SecretFacts
<1>3. CASE ~Of(l, job[r].user)
  <2>1. Changed(r, l) = l
    BY <1>3 DEF Changed
  <2>2. QED
    BY <2>1
<1>4. CASE Of(l, job[r].user)
  <2> DEFINE p == IF l.columns < 6 THEN l.password ELSE job[r].password
             t == IF job[r].kind = "reset" \/ l.columns < 7 THEN l.token ELSE job[r].token
  <2>1. l \in OwnLine /\ l.user = job[r].user
    BY <1>4 DEF Of, Line
  <2>2. Changed(r, l) = [l EXCEPT !.password = p, !.token = t]
    BY <1>4 DEF Changed
  <2>3. p \in Secrets /\ p[1] = l.user /\ t \in Secrets \cup {NoToken} /\ (t = NoToken \/ t[1] = l.user)
    BY <1>2, <2>1 DEF OwnLine, UserLine
  <2> HIDE DEF p, t
  <2>4. /\ [l EXCEPT !.password = p, !.token = t] \in OwnLine
        /\ [l EXCEPT !.password = p, !.token = t].user = l.user
        /\ [l EXCEPT !.password = p, !.token = t].columns = l.columns
    BY <2>1, <2>3 DEF OwnLine, UserLine
  <2>5. QED
    BY <2>2, <2>4, RecordFacts DEF Line, OwnRecord
<1>5. QED
  BY <1>3, <1>4

\* How often the token of a line is encrypted by write: at least once
LEMMA Encrypted ==
  ASSUME NEW lines \in Seq(Line), NEW u, NEW i \in DOMAIN lines, Of(lines[i], u)
  PROVE  /\ Cardinality({j \in 1 .. i : Of(lines[j], u)}) \in Nat \ {0}
         /\ (\A j \in DOMAIN lines : Of(lines[j], u) => j = i)
              => Cardinality({j \in 1 .. i : Of(lines[j], u)}) = 1
<1> DEFINE S == {j \in 1 .. i : Of(lines[j], u)}
<1>1. DOMAIN lines = 1 .. Len(lines) /\ Len(lines) \in Nat
  BY LenProperties
<1>2. i \in S /\ i \in Nat /\ S \in SUBSET (1 .. i)
  BY <1>1
<1>3. IsFiniteSet(1 .. i)
  BY <1>2, FS_Interval
<1>4. IsFiniteSet(S)
  BY <1>2, <1>3, FS_Subset
<1>5. Cardinality(S) \in Nat /\ Cardinality(S) # 0
  BY <1>2, <1>4, FS_CardinalityType, FS_EmptySet
<1>6. ASSUME \A j \in DOMAIN lines : Of(lines[j], u) => j = i
      PROVE  Cardinality(S) = 1
  <2>1. S = {i}
    BY <1>1, <1>2, <1>6
  <2>2. QED
    BY <2>1, FS_Singleton
<1>7. QED
  BY <1>5, <1>6

\* Lines stay lines when write puts the token into them.
LEMMA TokenLines ==
  ASSUME NEW lines \in Seq(Line), NEW u \in User, NEW secret \in Secret(u)
  PROVE  /\ WithTokens(lines, u, secret) \in Seq(Line)
         /\ DOMAIN WithTokens(lines, u, secret) = DOMAIN lines
         /\ \A i \in DOMAIN lines : lines[i] # Torn => WithTokens(lines, u, secret)[i] # Torn
<1> DEFINE new == WithTokens(lines, u, secret)
<1>1. DOMAIN new = DOMAIN lines /\ new = [i \in DOMAIN new |-> new[i]]
  BY DEF WithTokens
<1>2. ASSUME NEW i \in DOMAIN lines PROVE new[i] \in Line /\ (lines[i] # Torn => new[i] # Torn)
  <2>1. CASE Of(lines[i], u)
    <3> DEFINE n == Cardinality({j \in 1 .. i : Of(lines[j], u)})
    <3>1. n \in Nat \ {0}
      BY <2>1, Encrypted
    <3>2. new[i] = WithToken(lines[i], Encryptions(secret, n))
      BY <2>1 DEF WithTokens
    <3>3. lines[i] \in OwnLine /\ lines[i].user = u
      BY <2>1, LinesAre DEF Of
    <3> DEFINE l == lines[i]
    <3> HIDE DEF n, new, l
    <3>4. l \in OwnLine /\ l.user = u
      BY <3>3 DEF l
    <3>5. WithToken(l, Encryptions(secret, n)) \in OwnLine
      BY <3>1, <3>4, TokenOf
    <3>6. new[i] \in OwnLine
      BY <3>2, <3>5 DEF l
    <3>7. QED
      BY <3>6, RecordFacts DEF Line
  <2>2. CASE ~Of(lines[i], u)
    <3>1. new[i] = lines[i]
      BY <2>2 DEF WithTokens
    <3>2. QED
      BY <3>1, LinesAre
  <2>3. QED
    BY <2>1, <2>2
<1> HIDE DEF new
<1>3. new \in Seq(Line)
  BY <1>1, <1>2, SameLength
<1>4. QED
  BY <1>1, <1>2, <1>3 DEF new

\* The lines of resetPassword and updateUserInformation, line by line
Updated(r, lines) == [i \in DOMAIN lines |-> Changed(r, lines[i])]

\* So they do when resetPassword or updateUserInformation changes them.
LEMMA UpdatedLines ==
  ASSUME JobsInv, NEW r \in Request, pc[r] # "idle", NEW lines \in Seq(Line)
  PROVE  /\ Updated(r, lines) \in Seq(Line) /\ DOMAIN Updated(r, lines) = DOMAIN lines
         /\ \A i \in DOMAIN lines : lines[i] # Torn => Updated(r, lines)[i] # Torn
<1> DEFINE new == Updated(r, lines)
<1>1. DOMAIN new = DOMAIN lines /\ new = [i \in DOMAIN new |-> new[i]]
  BY DEF Updated
<1>2. ASSUME NEW i \in DOMAIN lines PROVE new[i] \in Line /\ (lines[i] # Torn => new[i] # Torn)
  BY LinesAre, ChangedLine DEF Updated
<1> HIDE DEF new
<1>3. new \in Seq(Line)
  BY <1>1, <1>2, SameLength
<1>4. QED
  BY <1>1, <1>2, <1>3 DEF new

\* The backup is a new file with the lines of the table; all other files stay.
LEMMA CopyFiles ==
  ASSUME FilesInv, JobsInv, NEW r \in Request, Copy(r)
  PROVE  /\ FilesInv'
         /\ Len(disk) <= Len(disk') /\ \A i \in 1 .. Len(disk) : disk'[i] = disk[i]
         /\ table # NoFile /\ bak = NoFile => bak' = Len(disk) + 1 /\ disk'[bak'] = disk[table]
<1>1. /\ fd' = [fd EXCEPT ![r] = fd[r]] /\ locked' = [locked EXCEPT ![r] = locked[r]] /\ buf' = [buf EXCEPT ![r] = buf[r]]
      /\ fd[r] \in 0 .. Len(disk) /\ locked[r] \in 0 .. Len(disk) /\ buf[r] \in Seq(Line)
      /\ Len(disk) \in Nat /\ disk \in Seq(FileType) /\ table \in 0 .. Len(disk) /\ bak \in 0 .. Len(disk)
  BY Unchanged DEF Copy, FilesInv
<1>2. pc' = [pc EXCEPT ![r] = "lockBak"] /\ "lockBak" \notin FilePlaces /\ UNCHANGED table
  BY DEF Copy, Goto, FilePlaces
<1>3. /\ disk' \in Seq(FileType) /\ Len(disk) <= Len(disk') /\ bak' \in 0 .. Len(disk')
      /\ \A i \in 1 .. Len(disk) : disk'[i] = disk[i]
      /\ table # NoFile /\ bak = NoFile => bak' = Len(disk) + 1 /\ disk'[bak'] = disk[table]
  <2>1. CASE table # NoFile /\ bak = NoFile
    <3>1. disk[table] \in FileType /\ disk' = Append(disk, disk[table])
      BY <1>1, <2>1, Contents DEF Copy, NoFile
    <3>2. /\ disk' \in Seq(FileType) /\ Len(disk') = Len(disk) + 1
          /\ disk'[Len(disk) + 1] = disk[table]
          /\ \A i \in 1 .. Len(disk) : disk'[i] = disk[i]
      BY <1>1, <3>1, NewFile
    <3>3. bak' = Len(disk) + 1
      BY <2>1 DEF Copy
    <3>4. QED
      BY <1>1, <3>2, <3>3
  <2>2. CASE ~(table # NoFile /\ bak = NoFile)
    <3>1. UNCHANGED <<disk, bak>>
      BY <2>2 DEF Copy
    <3>2. QED
      BY <1>1, <2>2, <3>1
  <2>3. QED
    BY <2>1, <2>2
<1>4. /\ table' \in 0 .. Len(disk') /\ fd[r] \in 0 .. Len(disk') /\ locked[r] \in 0 .. Len(disk')
      /\ Len(disk') \in Nat
  BY <1>1, <1>2, <1>3, LenProperties
<1>5. FilesInv'
  BY <1>1, <1>2, <1>3, <1>4, FilesStep
<1>6. QED
  BY <1>3, <1>5

\* The lines that write reads are lines of the table, or none.
LEMMA ReadLinesFiles ==
  ASSUME FilesInv, JobsInv, NEW r \in Request, ReadLines(r)
  PROVE  FilesInv'
<1> DEFINE to == IF table = NoFile THEN "rewrite" ELSE "delete"
           b == IF table = NoFile THEN << >> ELSE disk[table].lines
           k == IF table = NoFile THEN NoFile ELSE locked[r]
<1>1. /\ pc' = [pc EXCEPT ![r] = to] /\ buf' = [buf EXCEPT ![r] = b] /\ locked' = [locked EXCEPT ![r] = k]
      /\ UNCHANGED <<disk, table, bak, fd>>
  BY DEF ReadLines, Goto, files
<1>2. /\ fd' = [fd EXCEPT ![r] = fd[r]] /\ fd[r] \in 0 .. Len(disk) /\ locked[r] \in 0 .. Len(disk)
      /\ Len(disk) \in Nat /\ disk \in Seq(FileType) /\ table \in 0 .. Len(disk) /\ bak \in 0 .. Len(disk)
  BY <1>1, Unchanged DEF FilesInv
<1>3. b \in Seq(Line) /\ k \in 0 .. Len(disk) /\ to \notin FilePlaces
  BY <1>2, Contents, FileFacts DEF FilePlaces, NoFile
<1> HIDE DEF to, b, k
<1>4. disk' \in Seq(FileType) /\ Len(disk) <= Len(disk') /\ Len(disk') = Len(disk)
  BY <1>1, <1>2
<1>5. QED
  BY <1>1, <1>2, <1>3, <1>4, FilesStep

\* Deleting the table leaves the files that are open.
LEMMA DeleteFiles ==
  ASSUME FilesInv, JobsInv, NEW r \in Request, Delete(r)
  PROVE  FilesInv'
<1>1. disk \in Seq(FileType) /\ Len(disk) \in Nat /\ bak \in 0 .. Len(disk) /\ UNCHANGED <<disk, bak>> /\ table' = 0
  BY Unchanged DEF FilesInv, Delete, NoFile
<1>2. CASE End(r, FALSE)
  <2>1. disk' \in Seq(FileType) /\ Len(disk') = Len(disk) /\ table' \in 0 .. Len(disk) /\ bak' \in 0 .. Len(disk)
    BY <1>1
  <2>2. QED
    BY <1>2, <2>1, FilesEnd
<1>3. CASE ~End(r, FALSE)
  <2> DEFINE b == WithTokens(buf[r], job[r].user, job[r].token)
  <2>1. buf[r] \in Seq(Line) /\ buf' = [buf EXCEPT ![r] = b]
    BY <1>3, Unchanged DEF Delete
  <2>2. job[r].user \in User /\ job[r].token \in Secret(job[r].user)
    BY JobOf DEF JobsInv, Job, Delete, SavePlaces
  <2>3. b \in Seq(Line)
    BY <2>1, <2>2, TokenLines
  <2> HIDE DEF b
  <2>4. /\ pc' = [pc EXCEPT ![r] = "rewrite"] /\ locked' = [locked EXCEPT ![r] = NoFile] /\ UNCHANGED fd
        /\ "rewrite" \notin FilePlaces
    BY <1>3 DEF Delete, Goto, FilePlaces
  <2>5. fd' = [fd EXCEPT ![r] = fd[r]] /\ fd[r] \in 0 .. Len(disk')
    BY <1>1, <2>4, Unchanged
  <2>6. /\ disk' \in Seq(FileType) /\ Len(disk) <= Len(disk') /\ NoFile \in 0 .. Len(disk')
        /\ table' \in 0 .. Len(disk') /\ bak' \in 0 .. Len(disk')
    BY <1>1 DEF NoFile
  <2>7. QED
    BY <2>1, <2>3, <2>4, <2>5, <2>6, FilesStep
<1>4. QED
  BY <1>2, <1>3

\* Create and Truncate
LEMMA OpenFiles ==
  ASSUME FilesInv, JobsInv, NEW r \in Request, NEW to, pc' = [pc EXCEPT ![r] = to],
         OpenToWrite(r), UNCHANGED <<bak, locked, buf>>
  PROVE  FilesInv'
<1>1. /\ disk' \in Seq(FileType) /\ Len(disk) <= Len(disk')
      /\ table' \in 1 .. Len(disk') /\ fd' = [fd EXCEPT ![r] = table']
  BY Opened
<1>2. /\ locked' = [locked EXCEPT ![r] = locked[r]] /\ buf' = [buf EXCEPT ![r] = buf[r]]
      /\ locked[r] \in 0 .. Len(disk) /\ buf[r] \in Seq(Line) /\ Len(disk) \in Nat
  BY Unchanged
<1>3. /\ table' \in 0 .. Len(disk') /\ bak' \in 0 .. Len(disk') /\ locked[r] \in 0 .. Len(disk') /\ table' # NoFile
  <2>1. Len(disk') \in Nat
    BY <1>1, LenProperties
  <2>2. bak' \in 0 .. Len(disk)
    BY DEF FilesInv
  <2>3. QED
    BY <1>1, <1>2, <2>1, <2>2 DEF NoFile
<1>4. QED
  BY <1>1, <1>2, <1>3, FilesStep

\* write puts its lines into the file it has created.
LEMMA FillFiles ==
  ASSUME FilesInv, JobsInv, NEW r \in Request, Fill(r)
  PROVE  FilesInv'
<1>1. pc[r] = "fill" /\ WriteAll(r, FALSE) /\ pc' = [pc EXCEPT ![r] = "deleteBak"] /\ UNCHANGED <<table, bak, fd, locked, buf>>
  BY DEF Fill, Goto
<1>2. fd[r] # NoFile
  BY <1>1 DEF FilesInv, FilePlaces
<1>3. disk' \in Seq(FileType) /\ Len(disk') = Len(disk)
  BY <1>1, <1>2, WriteAllFiles
<1>4. /\ fd' = [fd EXCEPT ![r] = fd[r]] /\ locked' = [locked EXCEPT ![r] = locked[r]] /\ buf' = [buf EXCEPT ![r] = buf[r]]
      /\ fd[r] \in 0 .. Len(disk) /\ locked[r] \in 0 .. Len(disk) /\ buf[r] \in Seq(Line) /\ Len(disk) \in Nat
  BY <1>1, Unchanged
<1>5. /\ Len(disk) <= Len(disk') /\ table' \in 0 .. Len(disk') /\ bak' \in 0 .. Len(disk')
      /\ fd[r] \in 0 .. Len(disk') /\ locked[r] \in 0 .. Len(disk')
  BY <1>1, <1>3, <1>4 DEF FilesInv
<1>6. QED
  BY <1>1, <1>2, <1>3, <1>4, <1>5, FilesStep

\* The updates put their lines into the file they have truncated.
LEMMA OverwriteFiles ==
  ASSUME FilesInv, JobsInv, NEW r \in Request, Overwrite(r)
  PROVE  FilesInv'
<1>1. WriteAll(r, TRUE) /\ End(r, TRUE) /\ UNCHANGED <<table, bak>> /\ fd[r] # NoFile
  BY DEF Overwrite, FilesInv, FilePlaces
<1>2. disk' \in Seq(FileType) /\ Len(disk') = Len(disk)
  BY <1>1, WriteAllFiles
<1>3. table' \in 0 .. Len(disk) /\ bak' \in 0 .. Len(disk)
  BY <1>1 DEF FilesInv
<1>4. QED
  BY <1>1, <1>2, <1>3, FilesEnd

\* Deleting the backup leaves the files.
LEMMA DeleteBakFiles ==
  ASSUME FilesInv, JobsInv, NEW r \in Request, DeleteBak(r)
  PROVE  FilesInv'
<1>1. End(r, TRUE) /\ UNCHANGED <<disk, table>> /\ bak' = 0
  BY DEF DeleteBak, NoFile
<1>2. disk' \in Seq(FileType) /\ Len(disk') = Len(disk) /\ table' \in 0 .. Len(disk) /\ bak' \in 0 .. Len(disk)
  BY <1>1, Unchanged DEF FilesInv
<1>3. QED
  BY <1>1, <1>2, FilesEnd

\* The lines that the updates prepare are lines.
LEMMA ReadTableFiles ==
  ASSUME FilesInv, JobsInv, NEW r \in Request, ReadTable(r)
  PROVE  FilesInv'
<1> DEFINE lines == IF table = NoFile THEN << >> ELSE disk[table].lines
           b == Updated(r, lines)
<1>1. disk \in Seq(FileType) /\ Len(disk) \in Nat /\ table \in 0 .. Len(disk) /\ bak \in 0 .. Len(disk)
  BY Unchanged DEF FilesInv
<1>2. lines \in Seq(Line) /\ pc[r] # "idle"
  BY <1>1, Contents, FileFacts DEF ReadTable, NoFile
<1>3. CASE (End(r, TRUE) \/ End(r, FALSE)) /\ UNCHANGED files
  BY <1>3, FilesThrow
<1>4. CASE Goto(r, "readTable", "truncate") /\ buf' = [buf EXCEPT ![r] = b] /\ UNCHANGED <<files, fd, locked>>
  <2>1. pc' = [pc EXCEPT ![r] = "truncate"] /\ buf' = [buf EXCEPT ![r] = b] /\ UNCHANGED <<disk, table, bak, fd, locked>>
    BY <1>4 DEF Goto, files
  <2>2. b \in Seq(Line) /\ "truncate" \notin FilePlaces
    <3> HIDE DEF lines
    <3>1. QED
      BY <1>2, UpdatedLines DEF FilePlaces
  <2> HIDE DEF b, lines
  <2>3. /\ fd' = [fd EXCEPT ![r] = fd[r]] /\ locked' = [locked EXCEPT ![r] = locked[r]]
        /\ fd[r] \in 0 .. Len(disk') /\ locked[r] \in 0 .. Len(disk')
    BY <2>1, Unchanged
  <2>4. /\ disk' \in Seq(FileType) /\ Len(disk) <= Len(disk')
        /\ table' \in 0 .. Len(disk') /\ bak' \in 0 .. Len(disk')
    BY <1>1, <2>1
  <2>5. QED
    BY <2>1, <2>2, <2>3, <2>4, FilesStep
<1>5. QED
  BY <1>3, <1>4, Zenon DEF ReadTable, Throws, Updated

\* A new request has no file open; after a crash nobody has.
LEMMA ReceiveFiles ==
  ASSUME FilesInv, JobsInv, NEW r \in Request, Receive(r)
  PROVE  FilesInv'
<1>1. pc[r] = "idle" /\ UNCHANGED <<disk, table, bak, fd, locked, buf>>
  BY DEF Receive, files
<1>2. PICK to \in {"open", "copy", "readTable"} : pc' = [pc EXCEPT ![r] = to]
  BY RequestAssumption DEF Receive, FirstStep
<1>3. /\ fd' = [fd EXCEPT ![r] = fd[r]] /\ locked' = [locked EXCEPT ![r] = locked[r]] /\ buf' = [buf EXCEPT ![r] = buf[r]]
      /\ fd[r] \in 0 .. Len(disk) /\ locked[r] \in 0 .. Len(disk) /\ buf[r] \in Seq(Line) /\ Len(disk) \in Nat
  BY <1>1, Unchanged
<1>4. /\ disk' \in Seq(FileType) /\ Len(disk) <= Len(disk') /\ table' \in 0 .. Len(disk') /\ bak' \in 0 .. Len(disk')
      /\ fd[r] \in 0 .. Len(disk') /\ locked[r] \in 0 .. Len(disk') /\ to \notin FilePlaces
  BY <1>1, <1>2, <1>3 DEF FilesInv, FilePlaces
<1>5. QED
  BY <1>2, <1>3, <1>4, FilesStep

\* A crash closes all files and changes none.
LEMMA CrashFiles ==
  ASSUME FilesInv, Crash
  PROVE  FilesInv'
<1>1. Len(disk) \in Nat /\ << >> \in Seq(Line)
  BY LenProperties, FileFacts DEF FilesInv
<1>2. UNCHANGED <<disk, table, bak>> /\ \A r \in Request : pc'[r] = "idle"
  BY DEF Crash, files
<1>3. fd' = [r \in Request |-> 0] /\ locked' = [r \in Request |-> 0] /\ buf' = [r \in Request |-> << >>]
  BY DEF Crash, NoFile
<1>4. QED
  BY <1>1, <1>2, <1>3 DEF FilesInv, FilePlaces

\* Every step of a request keeps the form of the files.
LEMMA StepFiles ==
  ASSUME FilesInv, JobsInv, NEW r \in Request, Step(r)
  PROVE  FilesInv'
<1>1. table \in 0 .. Len(disk) /\ bak \in 0 .. Len(disk)
  BY DEF FilesInv
<1>2. CASE Open(r) \/ OpenToAppend(r) \/ LockBak(r)
  BY <1>1, <1>2, LockFiles DEF Open, OpenToAppend, LockBak
<1>3. CASE Create(r)
  BY <1>3, OpenFiles DEF Create, Goto
<1>4. CASE Truncate(r)
  BY <1>4, OpenFiles DEF Truncate, Goto
<1>5. CASE Scan(r) \/ AppendNewline(r) \/ AppendColumn(r) \/ AppendToken(r) \/ Copy(r) \/ ReadLines(r) \/ Delete(r)
  BY <1>5, ScanFiles, NewlineFiles, ColumnFiles, CopyFiles, ReadLinesFiles, DeleteFiles
<1>6. CASE Fill(r) \/ DeleteBak(r) \/ ReadTable(r) \/ Overwrite(r)
  BY <1>6, FillFiles, DeleteBakFiles, ReadTableFiles, OverwriteFiles
<1>7. QED
  BY <1>2, <1>3, <1>4, <1>5, <1>6 DEF Step

-----------------------------------------------------------------------------
(* Who is where *)

\* A request goes from one step of its operation to another.
Kept(r) ==
  \/ UNCHANGED <<job, locked>>
  \/ UNCHANGED job /\ locked' = [locked EXCEPT ![r] = NoFile]
  \/ UNCHANGED job /\ pc'[r] \notin {"idle", "open", "append", "copy", "lockBak"} /\ \E f : locked' = [locked EXCEPT ![r] = f]

\* A request that goes on stays in its operation and has a lock only where it may.
LEMMA GoesJobs ==
  ASSUME FilesInv, JobsInv, NEW r \in Request, NEW from, NEW to, Goto(r, from, to), Kept(r),
         UNCHANGED <<failed, requests, crashes>>,
         <<from, to>> \in {<<"open", "scan">>, <<"scan", "append">>, <<"append", "newline">>, <<"newline", "write">>,
           <<"copy", "lockBak">>, <<"lockBak", "readLines">>, <<"readLines", "delete">>, <<"readLines", "rewrite">>,
           <<"delete", "rewrite">>, <<"rewrite", "fill">>, <<"fill", "deleteBak">>,
           <<"readTable", "truncate">>, <<"truncate", "overwrite">>},
         to = "append" => job[r].kind = "signup" /\ locked'[r] = NoFile
  PROVE  JobsInv'
<1>1. pc[r] = from /\ pc' = [pc EXCEPT ![r] = to] /\ pc \in [Request -> States]
  BY DEF Goto, JobsInv
<1>2. from \in States \ {"idle"} /\ to \in States \ {"idle"}
  BY DEF States
<1>3. pc' \in [Request -> States] /\ pc'[r] = to /\ \A q \in Request \ {r} : pc'[q] = pc[q]
  BY <1>1, <1>2
<1>4. UNCHANGED job /\ locked \in [Request -> 0 .. Len(disk)] /\ \A q \in Request \ {r} : locked'[q] = locked[q]
  BY DEF Kept, FilesInv
<1>5. /\ to \in SavePlaces => from \in SavePlaces
      /\ to \in {"newline", "write"} => from \in {"append", "newline", "write"}
      /\ to \in {"readTable", "truncate", "overwrite"} => from \in {"readTable", "truncate", "overwrite"}
      /\ to \in {"open", "scan"} => from \in {"open", "scan"}
      /\ to \in {"open", "scan", "append", "newline"} => from \in {"open", "scan", "append", "newline"}
      /\ to \notin {"idle", "open", "copy"}
      /\ to = "lockBak" => from = "copy"
  BY DEF SavePlaces
<1>6. to \in {"append", "lockBak"} => locked'[r] = NoFile
  BY <1>1, <1>3, <1>4, <1>5 DEF Kept, JobsInv, FilesInv
<1>7. \A q \in Request : job'[q] = NoJob <=> pc'[q] = "idle"
  BY <1>1, <1>2, <1>3, <1>4 DEF JobsInv
<1>8. \A q \in Request : /\ pc'[q] \in SavePlaces => job'[q].kind = "save"
                         /\ pc'[q] \in {"append", "newline", "write"} => job'[q].kind = "signup"
                         /\ pc'[q] \in {"readTable", "truncate", "overwrite"} => job'[q].kind \in {"reset", "update"}
                         /\ pc'[q] \in {"open", "scan"} => job'[q].kind \in {"login", "read", "signup"}
                         /\ pc'[q] \in {"open", "scan", "append", "newline"} => job'[q].written = 0
  BY <1>1, <1>3, <1>4, <1>5 DEF JobsInv
<1>9. \A q \in Request : pc'[q] \in {"idle", "open", "append", "copy", "lockBak"} => locked'[q] = NoFile
  BY <1>3, <1>4, <1>5, <1>6 DEF JobsInv
<1>10. QED
  BY <1>3, <1>4, <1>7, <1>8, <1>9 DEF JobsInv

\* A request that ends has no job and no lock.
LEMMA EndJobs ==
  ASSUME FilesInv, JobsInv, NEW r \in Request, NEW ok \in BOOLEAN, End(r, ok)
  PROVE  JobsInv'
<1>1. /\ pc' = [pc EXCEPT ![r] = "idle"] /\ job' = [job EXCEPT ![r] = NoJob] /\ locked' = [locked EXCEPT ![r] = NoFile]
      /\ UNCHANGED <<requests, crashes>>
  BY DEF End
<1>2. /\ pc' \in [Request -> States] /\ pc'[r] = "idle" /\ job'[r] = NoJob /\ locked'[r] = NoFile
      /\ job' \in [Request -> Job \cup {NoJob}]
      /\ \A q \in Request \ {r} : pc'[q] = pc[q] /\ job'[q] = job[q] /\ locked'[q] = locked[q]
  BY <1>1 DEF JobsInv, FilesInv, States
<1>3. failed' \subseteq Request
  BY DEF End, JobsInv
<1>4. "idle" \notin SavePlaces
  BY DEF SavePlaces
<1>5. QED
  BY <1>1, <1>2, <1>3, <1>4 DEF JobsInv

\* A request that gets its lock goes on.
LEMMA LockJobs ==
  ASSUME FilesInv, JobsInv, NEW r \in Request, NEW from, NEW f, NEW to, OpenAndLock(r, from, f, to), ~End(r, FALSE),
         <<from, to>> \in {<<"open", "scan">>, <<"append", "newline">>, <<"lockBak", "readLines">>}
  PROVE  JobsInv'
<1>1. /\ Goto(r, from, to) /\ locked' = [locked EXCEPT ![r] = f]
      /\ UNCHANGED <<job, failed, requests, crashes>>
  BY DEF OpenAndLock, Throws
<1>2. pc'[r] = to /\ to \in {"scan", "newline", "readLines"}
  BY <1>1 DEF Goto, JobsInv
<1>3. Kept(r)
  BY <1>1, <1>2 DEF Kept
<1>4. <<from, to>> \in {<<"open", "scan">>, <<"scan", "append">>, <<"append", "newline">>, <<"newline", "write">>,
           <<"copy", "lockBak">>, <<"lockBak", "readLines">>, <<"readLines", "delete">>, <<"readLines", "rewrite">>,
           <<"delete", "rewrite">>, <<"rewrite", "fill">>, <<"fill", "deleteBak">>,
           <<"readTable", "truncate">>, <<"truncate", "overwrite">>}
  OBVIOUS
<1>5. QED
  BY <1>1, <1>2, <1>3, <1>4, GoesJobs

\* A signup counts its columns.
LEMMA ColumnJobs ==
  ASSUME FilesInv, JobsInv, NEW r \in Request, AppendColumn(r)
  PROVE  JobsInv'
<1>1. /\ pc[r] = "write" /\ job[r].written < 6 /\ job' = [job EXCEPT ![r].written = job[r].written + 1]
      /\ UNCHANGED <<pc, locked, failed, requests, crashes>>
  BY DEF AppendColumn
<1>2. job[r] \in Job
  BY <1>1, JobOf
<1> DEFINE j == [job[r] EXCEPT !.written = job[r].written + 1]
<1>3. j \in Job /\ j.kind = job[r].kind
  BY <1>1, <1>2 DEF Job
<1>4. job' = [job EXCEPT ![r] = j]
  BY <1>1
<1> HIDE DEF j
<1>5. /\ job' \in [Request -> Job \cup {NoJob}] /\ job'[r] = j
      /\ \A q \in Request \ {r} : job'[q] = job[q]
  BY <1>3, <1>4 DEF JobsInv
<1>6. \A q \in Request : /\ job'[q] = NoJob <=> pc[q] = "idle"
                         /\ pc[q] # "idle" => job'[q].kind = job[q].kind
                         /\ pc[q] \in {"open", "scan", "append", "newline"} => job'[q].written = 0
  BY <1>1, <1>3, <1>5, JobFacts DEF JobsInv
<1>7. "idle" \notin SavePlaces
  BY DEF SavePlaces
<1>8. QED
  BY <1>1, <1>5, <1>6, <1>7 DEF JobsInv

\* Each step goes on in its operation, or ends it.
LEMMA StepJobs ==
  ASSUME FilesInv, JobsInv, NEW r \in Request, Step(r)
  PROVE  JobsInv'
<1>1. CASE \E ok \in BOOLEAN : End(r, ok)
  BY <1>1, EndJobs
<1>2. CASE ~\E ok \in BOOLEAN : End(r, ok)
  <2>0. ~End(r, TRUE) /\ ~End(r, FALSE)
    BY <1>2
  <2>1. CASE Open(r)
    BY <2>0, <2>1, LockJobs DEF Open
  <2>2. CASE Scan(r)
    BY <2>0, <2>2, GoesJobs DEF Scan, Throws, Kept, FilesInv
  <2>3. CASE OpenToAppend(r)
    BY <2>0, <2>3, LockJobs DEF OpenToAppend
  <2>4. CASE AppendNewline(r)
    BY <2>4, GoesJobs DEF AppendNewline, Kept
  <2>5. CASE Copy(r)
    BY <2>5, GoesJobs DEF Copy, Kept
  <2>6. CASE LockBak(r)
    BY <2>0, <2>6, LockJobs DEF LockBak
  <2>7. CASE ReadLines(r)
    BY <2>7, GoesJobs DEF ReadLines, Kept, FilesInv
  <2>8. CASE Delete(r)
    BY <2>0, <2>8, GoesJobs DEF Delete, Kept
  <2>9. CASE Create(r)
    BY <2>9, GoesJobs DEF Create, Kept
  <2>10. CASE Fill(r)
    BY <2>10, GoesJobs DEF Fill, Kept
  <2>11. CASE ReadTable(r)
    BY <2>0, <2>11, GoesJobs DEF ReadTable, Throws, Kept
  <2>12. CASE Truncate(r)
    BY <2>12, GoesJobs DEF Truncate, Kept
  <2>13. CASE AppendToken(r) \/ DeleteBak(r) \/ Overwrite(r)
    BY <2>0, <2>13 DEF AppendToken, DeleteBak, Overwrite
  <2>14. CASE AppendColumn(r)
    BY <2>14, ColumnJobs
  <2>15. QED
    BY <2>1, <2>2, <2>3, <2>4, <2>5, <2>6, <2>7, <2>8, <2>9, <2>10, <2>11, <2>12, <2>13, <2>14 DEF Step
<1>3. QED
  BY <1>1, <1>2

\* A new request gets a job of its user.
LEMMA ReceiveJobs ==
  ASSUME FilesInv, JobsInv, NEW r \in Request, Receive(r)
  PROVE  JobsInv'
<1>1. PICK k \in Kind, u \in User : \E p \in Secret(u), t \in Secret(u) \cup {NoToken} :
        /\ k = "save" => t # NoToken
        /\ job' = [job EXCEPT ![r] = [kind |-> k, user |-> u, password |-> p, token |-> t, written |-> 0]]
        /\ pc' = [pc EXCEPT ![r] = FirstStep(k)]
  BY DEF Receive
<1>2. PICK p \in Secret(u), t \in Secret(u) \cup {NoToken} :
        /\ k = "save" => t # NoToken
        /\ job' = [job EXCEPT ![r] = [kind |-> k, user |-> u, password |-> p, token |-> t, written |-> 0]]
        /\ pc' = [pc EXCEPT ![r] = FirstStep(k)]
  BY <1>1
<1> DEFINE j == [kind |-> k, user |-> u, password |-> p, token |-> t, written |-> 0]
<1>3. k \in Kinds /\ p \in Secrets /\ t \in Secrets \cup {NoToken}
  BY RequestAssumption, SecretFacts DEF Kinds
<1>4. j \in Job /\ j.kind = k /\ j.written = 0
  BY <1>2, <1>3 DEF Job
<1> HIDE DEF j
<1>5. /\ k \in {"login", "read", "signup"} => FirstStep(k) = "open"
      /\ k = "save" => FirstStep(k) = "copy"
      /\ k \in {"reset", "update"} => FirstStep(k) = "readTable"
  BY DEF FirstStep
<1>6. pc[r] = "idle" /\ UNCHANGED locked /\ failed' = failed \ {r} /\ requests' = requests + 1 /\ requests < MaxRequests
      /\ UNCHANGED crashes
  BY DEF Receive
<1>7. job' = [job EXCEPT ![r] = j]
  BY <1>2 DEF j
<1>8. /\ job' \in [Request -> Job \cup {NoJob}] /\ job'[r] = j /\ pc'[r] = FirstStep(k)
      /\ \A q \in Request \ {r} : pc'[q] = pc[q] /\ job'[q] = job[q]
  BY <1>2, <1>4, <1>7 DEF JobsInv
<1>9. FirstStep(k) \in {"open", "copy", "readTable"}
  BY <1>3, <1>5 DEF Kinds
<1>10. pc' \in [Request -> States]
  BY <1>2, <1>9 DEF JobsInv, States
<1>11. \A q \in Request : job'[q] = NoJob <=> pc'[q] = "idle"
  BY <1>4, <1>8, <1>9, JobFacts DEF JobsInv
<1>12. failed' \subseteq Request /\ requests' \in 0 .. MaxRequests /\ crashes' \in 0 .. MaxCrashes
  BY <1>6, RequestAssumption DEF JobsInv
<1>13. \A q \in Request : pc'[q] \in {"idle", "open", "append", "copy", "lockBak"} => locked'[q] = NoFile
  BY <1>6, <1>8 DEF JobsInv
<1>14. ASSUME NEW q \in Request
       PROVE  /\ pc'[q] \in SavePlaces => job'[q].kind = "save"
              /\ pc'[q] \in {"append", "newline", "write"} => job'[q].kind = "signup"
              /\ pc'[q] \in {"readTable", "truncate", "overwrite"} => job'[q].kind \in {"reset", "update"}
              /\ pc'[q] \in {"open", "scan"} => job'[q].kind \in {"login", "read", "signup"}
              /\ pc'[q] \in {"open", "scan", "append", "newline"} => job'[q].written = 0
  <2>1. CASE q = r
    BY <1>3, <1>4, <1>5, <1>8, <2>1 DEF Kinds, SavePlaces
  <2>2. CASE q # r
    BY <1>8, <2>2 DEF JobsInv
  <2>3. QED
    BY <2>1, <2>2
<1>15. QED
  BY <1>8, <1>10, <1>11, <1>12, <1>13, <1>14 DEF JobsInv

\* After a crash nobody has a job or a lock.
LEMMA CrashJobs ==
  ASSUME JobsInv, Crash
  PROVE  JobsInv'
<1>1. crashes' \in 0 .. MaxCrashes
  BY RequestAssumption DEF Crash, JobsInv
<1>2. "idle" \notin SavePlaces /\ "idle" \in States
  BY DEF SavePlaces, States
<1>3. UNCHANGED requests /\ failed' = {} /\ \A r \in Request : pc'[r] = "idle" /\ job'[r] = NoJob /\ locked'[r] = NoFile
  BY DEF Crash
<1>4. pc' \in [Request -> States] /\ job' \in [Request -> Job \cup {NoJob}]
  BY <1>2 DEF Crash
<1>5. QED
  BY <1>1, <1>2, <1>3, <1>4 DEF JobsInv

-----------------------------------------------------------------------------
(* The table at the start *)

\* The record of the i-th initial user
InitialLine(i, v) == Record(InitialUsers[i], <<InitialUsers[i], v, 1>>, NoToken)

\* The records at the start are their users'.
LEMMA InitialLines ==
  ASSUME NEW v \in Version
  PROVE  /\ [i \in DOMAIN InitialUsers |-> InitialLine(i, v)] \in Seq(Line)
         /\ \A i \in DOMAIN InitialUsers : InitialLine(i, v) \in OwnRecord /\ InitialLine(i, v).user = InitialUsers[i]
<1>1. InitialUsers \in Seq(User) /\ Len(InitialUsers) \in Nat /\ DOMAIN InitialUsers = 1 .. Len(InitialUsers)
  BY RequestAssumption, LenProperties
<1>2. ASSUME NEW i \in DOMAIN InitialUsers
      PROVE InitialLine(i, v) \in OwnRecord /\ InitialLine(i, v).user = InitialUsers[i]
  <2>1. InitialUsers[i] \in User
    BY <1>1, ElementOfSeq
  <2>2. <<InitialUsers[i], v, 1>> \in Secret(InitialUsers[i])
    BY DEF Secret
  <2>3. <<InitialUsers[i], v, 1>> \in Secrets /\ <<InitialUsers[i], v, 1>>[1] = InitialUsers[i]
    BY <2>1, <2>2, SecretFacts
  <2>4. QED
    BY <2>1, <2>3 DEF InitialLine, Record, OwnRecord, OwnLine, UserLine
<1>3. [i \in DOMAIN InitialUsers |-> InitialLine(i, v)] \in [1 .. Len(InitialUsers) -> Line]
  BY <1>1, <1>2, RecordFacts DEF Line
<1>4. QED
  BY <1>1, <1>2, <1>3

\* The only file at the start has the records that are expected.
LEMMA InitialFile ==
  ASSUME Init
  PROVE  \E v \in Version, eol \in BOOLEAN :
           /\ disk = << File([i \in DOMAIN InitialUsers |-> InitialLine(i, v)], eol) >>
           /\ known = {InitialLine(i, v) : i \in DOMAIN InitialUsers}
<1>1. PICK v \in Version, eol \in BOOLEAN :
        /\ disk = << File([i \in DOMAIN InitialUsers |-> InitialLine(i, v)], eol /\ InitialUsers # << >>) >>
        /\ known = {InitialLine(i, v) : i \in DOMAIN InitialUsers}
  BY Zenon DEF Init, InitialLine
<1>2. (eol /\ InitialUsers # << >>) \in BOOLEAN
  OBVIOUS
<1>3. PICK b \in BOOLEAN : b = (eol /\ InitialUsers # << >>)
  BY <1>2
<1>4. QED
  BY <1>1, <1>3, Zenon

\* The files and the jobs have their form at the start.
LEMMA InitFiles == Init => FilesInv /\ JobsInv
<1> SUFFICES ASSUME Init PROVE FilesInv /\ JobsInv
  OBVIOUS
<1>1. PICK v \in Version, eol \in BOOLEAN : disk = << File([i \in DOMAIN InitialUsers |-> InitialLine(i, v)], eol) >>
  BY InitialFile
<1> DEFINE f == File([i \in DOMAIN InitialUsers |-> InitialLine(i, v)], eol)
<1>2. f \in FileType
  BY InitialLines, FileFacts
<1> HIDE DEF f
<1>3. disk = <<f>>
  BY <1>1 DEF f
<1>4. disk \in Seq(FileType) /\ Len(disk) = 1
  BY <1>2, <1>3
<1>5. table = 1 /\ bak = 0 /\ \A r \in Request : pc[r] = "idle"
  BY DEF Init, NoFile
<1>6. fd = [r \in Request |-> 0] /\ locked = [r \in Request |-> 0] /\ buf = [r \in Request |-> << >>]
  BY DEF Init, NoFile
<1>7. FilesInv
  BY <1>4, <1>5, <1>6, FileFacts DEF FilesInv, FilePlaces
<1>8. JobsInv
  BY RequestAssumption DEF Init, JobsInv, States, SavePlaces
<1>9. QED
  BY <1>7, <1>8

\* Whatever happens to them, the files and the jobs keep their form.
LEMMA NextFiles ==
  ASSUME FilesInv, JobsInv, [Next]_vars
  PROVE  FilesInv' /\ JobsInv'
<1>1. CASE Crash
  BY <1>1, CrashFiles, CrashJobs
<1>2. ASSUME NEW r \in Request, Receive(r) PROVE FilesInv' /\ JobsInv'
  BY <1>2, ReceiveFiles, ReceiveJobs
<1>3. ASSUME NEW r \in Request, Step(r) PROVE FilesInv' /\ JobsInv'
  BY <1>3, StepFiles, StepJobs
<1>4. CASE UNCHANGED vars
  BY <1>4 DEF vars, files, FilesInv, JobsInv
<1>5. QED
  BY <1>1, <1>2, <1>3, <1>4 DEF Next

\* The types of what is in the files
LEMMA Records ==
  ASSUME FilesInv, NEW f \in DOMAIN disk
  PROVE  /\ disk[f].lines \in Seq(Line) /\ disk[f].eol \in BOOLEAN
         /\ \A i \in DOMAIN disk[f].lines : disk[f].lines[i] \in Line
<1>1. disk \in Seq(FileType) /\ f \in 1 .. Len(disk)
  BY LenProperties DEF FilesInv
<1>2. disk[f].lines \in Seq(Line) /\ disk[f].eol \in BOOLEAN
  BY <1>1, Contents
<1>3. QED
  BY <1>2, LinesAre

\* The forms of files and jobs give all types.
LEMMA FormsTypes == FilesInv /\ JobsInv /\ apart \in BOOLEAN => TypeOK
<1> SUFFICES ASSUME FilesInv, JobsInv, apart \in BOOLEAN PROVE TypeOK
  OBVIOUS
<1>1. \A l \in Line : IsLine(l)
  BY DEF IsLine, Line, OwnLine
<1>2. \A f \in DOMAIN disk : IsLines(disk[f].lines) /\ disk[f].eol \in BOOLEAN
  BY <1>1, Records DEF IsLines
<1>3. \A r \in Request : IsLines(buf[r])
  BY <1>1, LinesAre DEF IsLines, FilesInv
<1>4. QED
  BY <1>2, <1>3 DEF TypeOK, FilesInv, JobsInv

-----------------------------------------------------------------------------
(* One request after the other *)

\* The lines are the records of K, each once, and no user has two.
Exact(lines, K) ==
  /\ \A i \in DOMAIN lines : lines[i] \in K
  /\ \A k \in K : \E i \in DOMAIN lines : lines[i] = k
  /\ \A i, j \in DOMAIN lines : lines[i].user = lines[j].user => i = j

\* The path f leads to a file with the records K.
Holds(f, K) == f # NoFile /\ Exact(disk[f].lines, K)

\* The records there will be when r is done
Saved(r) ==
  {l \in known : l.user # job[r].user}
    \cup {[l EXCEPT !.token = job[r].token] : l \in {l \in known : l.user = job[r].user}}
Rewritten(r) ==
  {l \in known : l.user # job[r].user} \cup {Changed(r, l) : l \in {l \in known : l.user = job[r].user}}

\* The table of a signup that has appended some columns of its record
Begun(r) ==
  \E old \in Seq(Line) :
    /\ Exact(old, known)
    /\ job[r].written = 0 => disk[table].lines = old /\ (old = << >> \/ disk[table].eol)
    /\ job[r].written > 0 => disk[table].lines = Append(old, Prefix(r, job[r].written)) /\ ~disk[table].eol

(***************************************************************************)
(* What a request that has the table for itself finds and has done, place  *)
(* by place.                                                               *)
(***************************************************************************)
AtPlace(r) ==
  /\ pc[r] \notin {"rewrite", "fill", "deleteBak", "overwrite", "write"} => Holds(table, known)
  /\ pc[r] = "write" => table # NoFile /\ Begun(r)
  /\ pc[r] \notin {"lockBak", "readLines", "delete", "rewrite", "fill", "deleteBak"} => bak = NoFile
  /\ pc[r] \in {"lockBak", "readLines", "delete", "rewrite", "fill", "deleteBak"} => Holds(bak, known) /\ bak # table
  /\ pc[r] \in {"scan", "newline", "write", "fill", "overwrite"} => fd[r] = table
  /\ pc[r] \in {"append", "newline", "write"} => job[r].user \notin Users(known)
  /\ pc[r] = "delete" => Exact(buf[r], known)
  /\ pc[r] = "rewrite" => table = NoFile
  /\ pc[r] \in {"rewrite", "fill"} => Exact(buf[r], Saved(r))
  /\ pc[r] \in {"fill", "deleteBak", "overwrite"} => table # NoFile
  /\ pc[r] \in {"fill", "overwrite"} => disk[table].lines = << >>
  /\ pc[r] = "deleteBak" => Holds(table, Saved(r))
  /\ pc[r] \in {"truncate", "overwrite"} => Exact(buf[r], Rewritten(r))

\* The requests that are under way
Busy == {r \in Request : pc[r] # "idle"}

\* In a calm history at most one request is under way, and all is as it expects.
CalmInv ==
  Calm =>
    /\ known \subseteq OwnRecord
    /\ failed = {}
    /\ \A q, r \in Busy : q = r
    /\ Busy = {} => Holds(table, known) /\ bak = NoFile
    /\ \A r \in Busy : AtPlace(r)

\* Whole records are neither blank nor torn, and are seen as they are.
LEMMA ExactSeen ==
  ASSUME NEW lines, NEW K \in SUBSET OwnRecord, Exact(lines, K)
  PROVE  /\ ~HasBlank(lines) /\ \A i \in DOMAIN lines : lines[i] \in OwnRecord /\ lines[i] \notin {Blank, Torn}
         /\ lines \in Seq(Line) => \A r \in Request : Seen(r, lines) = {lines}
<1>1. \A i \in DOMAIN lines : lines[i] \in OwnRecord /\ lines[i] \notin {Blank, Torn}
  BY RecordFacts DEF Exact
<1>2. ASSUME lines \in Seq(Line), NEW r \in Request PROVE Seen(r, lines) = {lines}
  <2>1. lines = [i \in DOMAIN lines |-> lines[i]]
    BY <1>2, LenProperties
  <2>2. \A l : [i \in DOMAIN lines |-> IF lines[i] = Torn THEN l ELSE lines[i]] = lines
    <3>1. ASSUME NEW l PROVE [i \in DOMAIN lines |-> IF lines[i] = Torn THEN l ELSE lines[i]] = [i \in DOMAIN lines |-> lines[i]]
      BY <1>1
    <3>2. QED
      BY <2>1, <3>1, Zenon
  <2>3. QED
    BY <2>2, Zenon DEF Seen
<1>3. QED
  BY <1>1, <1>2 DEF HasBlank

\* The users found in the lines are the expected ones.
LEMMA ExactHas ==
  ASSUME NEW lines, NEW K \in SUBSET OwnRecord, Exact(lines, K), NEW u
  PROVE  Has(lines, u) <=> u \in Users(K)
<1>1. \A i \in DOMAIN lines : lines[i] \in K /\ lines[i] \notin {Blank, Torn}
  BY ExactSeen DEF Exact
<1>2. \A k \in K : \E i \in DOMAIN lines : lines[i] = k
  BY DEF Exact
<1>3. QED
  BY <1>1, <1>2 DEF Has, Of, Users

\* Changing the records one by one, each for the same user, keeps the lines exact.
LEMMA ExactMap ==
  ASSUME NEW lines, NEW K, Exact(lines, K), NEW new, DOMAIN new = DOMAIN lines, NEW g,
         \A i \in DOMAIN lines : new[i] = g[lines[i]],
         \A k \in K : g[k].user = k.user
  PROVE  Exact(new, {g[k] : k \in K})
<1>1. \A i \in DOMAIN new : new[i] \in {g[k] : k \in K}
  BY DEF Exact
<1>2. ASSUME NEW k \in K PROVE \E i \in DOMAIN new : new[i] = g[k]
  BY DEF Exact
<1>3. ASSUME NEW i \in DOMAIN new, NEW j \in DOMAIN new, new[i].user = new[j].user PROVE i = j
  <2>1. lines[i] \in K /\ lines[j] \in K
    BY DEF Exact
  <2>2. lines[i].user = lines[j].user
    BY <1>3, <2>1
  <2>3. QED
    BY <2>2 DEF Exact
<1>4. QED
  BY <1>1, <1>2, <1>3 DEF Exact

\* So does appending the record of a new user.
LEMMA ExactAppend ==
  ASSUME NEW lines \in Seq(Line), NEW K \in SUBSET OwnRecord, Exact(lines, K),
         NEW l \in OwnRecord, l.user \notin Users(K), NEW new, new = Append(lines, l)
  PROVE  Exact(new, K \cup {l})
<1>1. /\ new \in Seq(Line) /\ Len(new) = Len(lines) + 1 /\ new[Len(lines) + 1] = l
      /\ \A i \in 1 .. Len(lines) : new[i] = lines[i]
  BY AddLine, RecordFacts DEF Line
<1>2. DOMAIN new = 1 .. Len(new) /\ DOMAIN lines = 1 .. Len(lines) /\ Len(lines) \in Nat
  BY <1>1, LenProperties
<1> HIDE DEF Line
<1>3. \A i \in DOMAIN new : new[i] \in K \cup {l}
  BY <1>1, <1>2 DEF Exact
<1>4. \A k \in K \cup {l} : \E i \in DOMAIN new : new[i] = k
  <2>1. ASSUME NEW k \in K PROVE \E i \in DOMAIN new : new[i] = k
    <3>1. PICK i \in DOMAIN lines : lines[i] = k
      BY DEF Exact
    <3>2. i \in DOMAIN new /\ new[i] = k
      BY <1>1, <1>2, <3>1
    <3>3. QED
      BY <3>2
  <2>2. \E i \in DOMAIN new : new[i] = l
    BY <1>1, <1>2
  <2>3. QED
    BY <2>1, <2>2
<1>5. ASSUME NEW i \in DOMAIN new, NEW j \in DOMAIN new, new[i].user = new[j].user PROVE i = j
  <2>1. \A n \in DOMAIN lines : lines[n].user # l.user
    BY DEF Exact, Users
  <2>2. /\ i \in DOMAIN lines \/ i = Len(lines) + 1
        /\ j \in DOMAIN lines \/ j = Len(lines) + 1
    BY <1>1, <1>2
  <2>3. QED
    BY <1>1, <1>2, <1>5, <2>1, <2>2 DEF Exact
<1>6. QED
  BY <1>3, <1>4, <1>5 DEF Exact

\* A sequence of different records has as many lines as there are records.
LEMMA ExactLength ==
  ASSUME NEW lines \in Seq(Line), NEW K, Exact(lines, K)
  PROVE  {lines[i] : i \in DOMAIN lines} = K /\ Len(lines) = Cardinality(K)
<1>1. DOMAIN lines = 1 .. Len(lines) /\ Len(lines) \in Nat /\ lines = [i \in 1 .. Len(lines) |-> lines[i]]
  BY LenProperties
<1>2. lines \in Bijection(1 .. Len(lines), K)
  <2>1. lines \in [1 .. Len(lines) -> K]
    BY <1>1 DEF Exact
  <2>2. \A i, j \in 1 .. Len(lines) : lines[i] = lines[j] => i = j
    BY <1>1 DEF Exact
  <2>3. \A k \in K : \E i \in 1 .. Len(lines) : lines[i] = k
    BY <1>1 DEF Exact
  <2>4. QED
    BY <2>1, <2>2, <2>3, Fun_IsBij
<1>3. Cardinality(K) = Len(lines)
  BY <1>1, <1>2, FS_CountingElements DEF ExistsBijection
<1>4. QED
  BY <1>3 DEF Exact

\* What write and the two updates make of the lines
LEMMA SavedExact ==
  ASSUME JobsInv, NEW r \in Request, pc[r] \in SavePlaces, known \subseteq OwnRecord,
         NEW lines \in Seq(Line), Exact(lines, known)
  PROVE  Exact(WithTokens(lines, job[r].user, job[r].token), Saved(r))
<1> DEFINE u == job[r].user
           t == job[r].token
           new == WithTokens(lines, u, t)
           g == [k \in known |-> IF k.user = u THEN [k EXCEPT !.token = t] ELSE k]
<1>1. u \in User /\ t \in Secret(u)
  BY JobOf DEF JobsInv, Job, SavePlaces
<1>2. \A k \in known : g[k].user = k.user
  BY DEF OwnRecord, OwnLine, UserLine
<1>3. ASSUME NEW i \in DOMAIN lines PROVE new[i] = g[lines[i]]
  <2>1. lines[i] \in known /\ lines[i] \notin {Blank, Torn} /\ lines[i] \in OwnRecord
    BY ExactSeen DEF Exact
  <2>2. CASE lines[i].user = u
    <3>1. Of(lines[i], u) /\ \A j \in DOMAIN lines : Of(lines[j], u) => j = i
      BY <2>1, <2>2 DEF Of, Exact
    <3>2. Cardinality({j \in 1 .. i : Of(lines[j], u)}) = 1
      BY <3>1, Encrypted
    <3>3. Encryptions(t, 1) = t
      BY <1>1, SecretFacts
    <3>4. new[i] = WithToken(lines[i], t)
      BY <3>1, <3>2, <3>3 DEF WithTokens
    <3>5. WithToken(lines[i], t) = [lines[i] EXCEPT !.token = t]
      BY <2>1 DEF WithToken, OwnRecord
    <3>6. QED
      BY <2>1, <2>2, <3>4, <3>5
  <2>3. CASE lines[i].user # u
    BY <2>1, <2>3 DEF WithTokens, Of
  <2>4. QED
    BY <2>2, <2>3
<1>4. DOMAIN new = DOMAIN lines
  BY DEF WithTokens
<1>5. {g[k] : k \in known} = Saved(r)
  BY DEF Saved
<1> HIDE DEF g, new
<1>6. Exact(new, {g[k] : k \in known})
  BY <1>2, <1>3, <1>4, ExactMap
<1>7. QED
  BY <1>5, <1>6 DEF new

\* The lines of the two updates are the records expected after them.
LEMMA RewrittenExact ==
  ASSUME JobsInv, NEW r \in Request, pc[r] # "idle", known \subseteq OwnRecord,
         NEW lines \in Seq(Line), Exact(lines, known)
  PROVE  Exact(Updated(r, lines), Rewritten(r))
<1> DEFINE new == Updated(r, lines)
           g == [k \in known |-> Changed(r, k)]
<1>1. \A k \in known : g[k].user = k.user
  BY ChangedLine, RecordFacts DEF Line
<1>2. \A i \in DOMAIN lines : new[i] = g[lines[i]]
  BY DEF Updated, Exact
<1>3. DOMAIN new = DOMAIN lines
  BY DEF Updated
<1>4. {g[k] : k \in known} = Rewritten(r)
  <2>1. \A k \in known : k.user # job[r].user => Changed(r, k) = k
    BY DEF Changed, Of
  <2>2. QED
    BY <2>1 DEF Rewritten
<1> HIDE DEF g, new
<1>5. Exact(new, {g[k] : k \in known})
  BY <1>1, <1>2, <1>3, ExactMap
<1>6. QED
  BY <1>4, <1>5 DEF new

\* They are records of the same users.
LEMMA SavedRecords ==
  ASSUME JobsInv, NEW r \in Request, known \subseteq OwnRecord
  PROVE  /\ pc[r] \in SavePlaces => Saved(r) \subseteq OwnRecord
         /\ pc[r] # "idle" => Rewritten(r) \subseteq OwnRecord
<1>1. ASSUME pc[r] \in SavePlaces, NEW l \in known, l.user = job[r].user PROVE [l EXCEPT !.token = job[r].token] \in OwnRecord
  <2>1. job[r].user \in User /\ job[r].token \in Secret(job[r].user)
    BY <1>1, JobOf DEF JobsInv, Job, SavePlaces
  <2>2. Encryptions(job[r].token, 1) = job[r].token
    BY <2>1, SecretFacts
  <2>3. [l EXCEPT !.token = Encryptions(job[r].token, 1)] \in OwnRecord
    BY <1>1, <2>1, TokenOf, RecordFacts
  <2>4. QED
    BY <2>2, <2>3
<1>2. QED
  BY <1>1, ChangedLine, RecordFacts DEF Saved, Rewritten, Line

-----------------------------------------------------------------------------
(* The steps of a request that has the table for itself *)

\* A request that is under way in a calm history is the only one.
LEMMA Alone ==
  ASSUME JobsInv, CalmInv, Calm, NEW r \in Request, pc[r] # "idle"
  PROVE  /\ AtPlace(r) /\ known \subseteq OwnRecord /\ failed = {}
         /\ \A q \in Request \ {r} : pc[q] = "idle" /\ locked[q] = NoFile
BY DEF CalmInv, Busy, JobsInv

\* It goes on, and its new place is as described.
LEMMA CalmGoes ==
  ASSUME JobsInv, CalmInv, Calm, NEW r \in Request, pc[r] # "idle", NEW to, to # "idle",
         pc' = [pc EXCEPT ![r] = to], UNCHANGED <<failed, known>>, AtPlace(r)'
  PROVE  CalmInv'
<1>1. /\ known \subseteq OwnRecord /\ failed = {} /\ \A q \in Request \ {r} : pc[q] = "idle"
  BY Alone
<1>2. pc'[r] = to /\ \A q \in Request \ {r} : pc'[q] = "idle"
  BY <1>1 DEF JobsInv
<1>3. Busy' = {r}
  BY <1>2 DEF Busy
<1>4. QED
  BY <1>1, <1>3 DEF CalmInv

\* It ends, and the table is as expected.
LEMMA CalmEnds ==
  ASSUME JobsInv, CalmInv, Calm, NEW r \in Request, pc[r] # "idle", End(r, TRUE),
         known' \subseteq OwnRecord, Holds(table, known)', bak' = NoFile
  PROVE  CalmInv'
<1>1. /\ failed = {} /\ \A q \in Request \ {r} : pc[q] = "idle"
  BY Alone
<1>2. \A q \in Request : pc'[q] = "idle"
  BY <1>1 DEF JobsInv, End
<1>3. failed' = {}
  BY <1>1 DEF End
<1>4. Busy' = {}
  BY <1>2 DEF Busy
<1>5. QED
  BY <1>3, <1>4 DEF CalmInv

\* Nobody else has a lock, so there is no exception.
LEMMA CalmLock ==
  ASSUME FilesInv, JobsInv, CalmInv, Calm, NEW r \in Request, NEW from, NEW f, NEW to, OpenAndLock(r, from, f, to),
         from \in {"open", "append", "lockBak"}, f # NoFile
  PROVE  /\ pc' = [pc EXCEPT ![r] = to] /\ fd' = [fd EXCEPT ![r] = f]
         /\ UNCHANGED <<files, job, buf, failed, known>>
<1>1. pc[r] = from
  BY DEF OpenAndLock
<1>2. \A q \in Request : locked[q] = NoFile
  BY <1>1, Alone DEF JobsInv
<1>3. CanLock(f)
  BY <1>2 DEF CanLock
<1>4. QED
  BY <1>3 DEF OpenAndLock, Goto

\* A path that is not empty leads to a file.
LEMMA Paths ==
  ASSUME FilesInv
  PROVE  /\ disk \in Seq(FileType) /\ Len(disk) \in Nat
         /\ table # NoFile => table \in 1 .. Len(disk)
         /\ bak # NoFile => bak \in 1 .. Len(disk)
<1>1. disk \in Seq(FileType) /\ table \in 0 .. Len(disk) /\ bak \in 0 .. Len(disk)
  BY DEF FilesInv
<1>2. Len(disk) \in Nat
  BY <1>1, LenProperties
<1>3. QED
  BY <1>1, <1>2 DEF NoFile

\* The table is opened for reading.
LEMMA CalmOpen ==
  ASSUME FilesInv, JobsInv, CalmInv, Calm, NEW r \in Request, Open(r)
  PROVE  CalmInv'
<1>1. pc[r] = "open" /\ AtPlace(r)
  BY Alone DEF Open, OpenAndLock
<1>2. table # NoFile
  BY <1>1 DEF AtPlace, Holds
<1>3. pc' = [pc EXCEPT ![r] = "scan"] /\ fd' = [fd EXCEPT ![r] = table] /\ UNCHANGED <<files, job, buf, failed, known>>
  BY <1>2, CalmLock DEF Open
<1>4. pc'[r] = "scan" /\ fd'[r] = table
  BY <1>3 DEF JobsInv, FilesInv
<1>5. AtPlace(r)'
  BY <1>1, <1>3, <1>4 DEF AtPlace, Holds, Exact, files
<1>6. QED
  BY <1>1, <1>3, <1>5, CalmGoes

\* The table is opened again, for appending.
LEMMA CalmOpenToAppend ==
  ASSUME FilesInv, JobsInv, CalmInv, Calm, NEW r \in Request, OpenToAppend(r)
  PROVE  CalmInv'
<1>1. pc[r] = "append" /\ AtPlace(r)
  BY Alone DEF OpenToAppend, OpenAndLock
<1>2. table # NoFile
  BY <1>1 DEF AtPlace, Holds
<1>3. pc' = [pc EXCEPT ![r] = "newline"] /\ fd' = [fd EXCEPT ![r] = table] /\ UNCHANGED <<files, job, buf, failed, known>>
  BY <1>2, CalmLock DEF OpenToAppend
<1>4. pc'[r] = "newline" /\ fd'[r] = table
  BY <1>3 DEF JobsInv, FilesInv
<1>5. AtPlace(r)'
  BY <1>1, <1>3, <1>4 DEF AtPlace, Holds, Exact, files, Users
<1>6. QED
  BY <1>1, <1>3, <1>5, CalmGoes

\* The backup is opened.
LEMMA CalmLockBak ==
  ASSUME FilesInv, JobsInv, CalmInv, Calm, NEW r \in Request, LockBak(r)
  PROVE  CalmInv'
<1>1. pc[r] = "lockBak" /\ AtPlace(r)
  BY Alone DEF LockBak, OpenAndLock
<1>2. bak # NoFile
  BY <1>1 DEF AtPlace, Holds
<1>3. pc' = [pc EXCEPT ![r] = "readLines"] /\ UNCHANGED <<files, job, buf, failed, known>>
  BY <1>2, CalmLock DEF LockBak
<1>4. pc'[r] = "readLines"
  BY <1>3 DEF JobsInv
<1>5. AtPlace(r)'
  BY <1>1, <1>3, <1>4 DEF AtPlace, Holds, Exact, files
<1>6. QED
  BY <1>1, <1>3, <1>5, CalmGoes

\* The lines are read: signup goes on if the user is new, all others end.
LEMMA CalmScan ==
  ASSUME FilesInv, JobsInv, CalmInv, Calm, NEW r \in Request, Scan(r)
  PROVE  CalmInv'
<1>1. /\ pc[r] = "scan" /\ AtPlace(r) /\ known \subseteq OwnRecord
      /\ Holds(table, known) /\ fd[r] = table /\ bak = NoFile
  BY Alone DEF Scan, AtPlace
<1> DEFINE lines == disk[fd[r]].lines
<1>2. Exact(lines, known)
  BY <1>1 DEF Holds
<1>3. /\ ~MeetsBlank(r, lines)
      /\ IF job[r].kind = "signup" /\ ~Has(lines, job[r].user)
         THEN /\ Goto(r, "scan", "append")
              /\ UNCHANGED <<files, job, buf, known, failed>>
         ELSE End(r, TRUE) /\ UNCHANGED <<files, known>>
  <2>1. lines \in Seq(Line)
    BY <1>1, Paths, Contents DEF Holds
  <2>2. Seen(r, lines) = {lines} /\ \A i \in DOMAIN lines : lines[i] \in OwnRecord /\ lines[i] # Blank
    <3> HIDE DEF lines
    <3>1. QED
      BY <1>1, <1>2, <2>1, ExactSeen
  <2>3. ~MeetsBlank(r, lines)
    <3> HIDE DEF lines
    <3>1. QED
      BY <2>2 DEF MeetsBlank, Trips, OwnRecord
  <2>4. QED
    BY <2>2, <2>3 DEF Scan
<1>4. CASE job[r].kind = "signup" /\ ~Has(lines, job[r].user)
  <2>1. pc' = [pc EXCEPT ![r] = "append"] /\ UNCHANGED <<files, job, buf, failed, known>>
    BY <1>3, <1>4 DEF Goto
  <2>2. pc'[r] = "append" /\ job[r].user \notin Users(known)
    BY <1>1, <1>2, <1>4, <2>1, ExactHas DEF JobsInv
  <2>3. AtPlace(r)'
    BY <1>1, <2>1, <2>2 DEF AtPlace, Holds, Exact, files, Users
  <2>4. QED
    BY <1>1, <2>1, <2>3, CalmGoes
<1>5. CASE ~(job[r].kind = "signup" /\ ~Has(lines, job[r].user))
  <2>1. End(r, TRUE) /\ UNCHANGED <<files, known>>
    BY <1>3, <1>5
  <2>2. Holds(table, known)' /\ bak' = NoFile /\ known' \subseteq OwnRecord
    BY <1>1, <2>1 DEF Holds, Exact, files
  <2>3. QED
    BY <1>1, <2>1, <2>2, CalmEnds
<1>6. QED
  BY <1>4, <1>5

\* A blank line ends the history; otherwise the lines stay as they are.
LEMMA CalmAppendNewline ==
  ASSUME FilesInv, JobsInv, CalmInv, Calm, NEW r \in Request, AppendNewline(r)
  PROVE  CalmInv'
<1>1. /\ pc[r] = "newline" /\ AtPlace(r) /\ Holds(table, known) /\ fd[r] = table /\ bak = NoFile /\ table # NoFile
      /\ disk \in Seq(FileType) /\ table \in 1 .. Len(disk)
  BY Alone, Paths DEF AppendNewline, Goto, AtPlace, Holds
<1> DEFINE file == disk[fd[r]]
           blank == file.lines # << >> /\ file.eol
           new == File(file.lines, file.lines # << >>)
<1>2. CASE blank
  BY <1>2 DEF AppendNewline, CalmInv, Calm
<1>3. CASE ~blank
  <2>1. disk' = [disk EXCEPT ![table] = new]
    BY <1>1, <1>3 DEF AppendNewline
  <2>2. new \in FileType /\ new.lines = disk[table].lines /\ (disk[table].lines # << >> => new.eol)
    BY <1>1, Contents DEF File, FileType
  <2> HIDE DEF new
  <2>3. disk'[table] = new
    BY <1>1, <2>1, <2>2, NewContent
  <2>4. disk'[table].lines = disk[table].lines
    BY <2>2, <2>3
  <2>5. /\ pc' = [pc EXCEPT ![r] = "write"] /\ UNCHANGED <<table, bak, job, fd, buf, failed>> /\ known' = known
    BY <1>3 DEF AppendNewline, Goto
  <2>6. pc'[r] = "write" /\ Begun(r)'
    <3>1. pc'[r] = "write" /\ job'[r].written = 0 /\ table' = table
      BY <1>1, <2>5 DEF JobsInv
    <3>2. disk[table].lines = << >> \/ disk'[table].eol
      BY <2>2, <2>3
    <3>3. disk[table].lines \in Seq(Line) /\ Exact(disk[table].lines, known)
      BY <1>1, Contents DEF Holds
    <3>4. QED
      BY <2>4, <2>5, <3>1, <3>2, <3>3 DEF Begun
  <2>7. AtPlace(r)'
    BY <1>1, <2>5, <2>6 DEF AtPlace, Users
  <2>8. QED
    BY <1>1, <2>5, <2>7, CalmGoes
<1>4. QED
  BY <1>2, <1>3

\* A column goes to the line that the signup has begun, or begins it.
LEMMA CalmGrows ==
  ASSUME FilesInv, JobsInv, CalmInv, Calm, NEW r \in Request, AppendColumn(r) \/ AppendToken(r)
  PROVE  /\ pc[r] = "write" /\ table \in 1 .. Len(disk) /\ bak = NoFile /\ known \subseteq OwnRecord
         /\ job[r] \in Job /\ job[r].user \notin Users(known)
         /\ \E old \in Seq(Line) : /\ Exact(old, known)
                                  /\ disk'[table].lines = Append(old, Prefix(r, job[r].written + 1))
                                  /\ ~disk'[table].eol
<1>1. /\ pc[r] = "write" /\ known \subseteq OwnRecord /\ Begun(r) /\ fd[r] = table /\ bak = NoFile
      /\ table \in 1 .. Len(disk) /\ job[r].user \notin Users(known)
  BY ColumnDisk, Alone, Paths DEF AtPlace
<1>2. /\ disk[table] \in FileType /\ job[r] \in Job
      /\ disk'[table] = WithColumn(r, disk[table])
  BY <1>1, ColumnDisk
<1> DEFINE n == job[r].written
<1>3. n \in 0 .. 6
  BY <1>2 DEF Job
<1>4. PICK old \in Seq(Line) :
        /\ Exact(old, known)
        /\ n = 0 => disk[table].lines = old /\ (old = << >> \/ disk[table].eol)
        /\ n > 0 => disk[table].lines = Append(old, Prefix(r, n)) /\ ~disk[table].eol
  BY <1>1 DEF Begun
<1>5. disk'[table].eol = FALSE
  BY <1>2, ColumnFile
<1>6. CASE n = 0
  <2>1. disk'[table].lines = Append(old, Blank)
    BY <1>2, <1>4, <1>6, ColumnFile
  <2>2. Prefix(r, n + 1) = Blank
    BY <1>2, <1>6, PrefixFacts
  <2>3. QED
    BY <1>1, <1>2, <1>4, <1>5, <2>1, <2>2
<1>7. CASE n > 0
  <2> DEFINE p == Prefix(r, n)
             q == Prefix(r, n + 1)
             lines == disk[table].lines
             new == disk'[table].lines
  <2>1. p \in Line /\ q \in Line
    BY <1>2, <1>3, PrefixFacts
  <2>2. lines = Append(old, p) /\ ~disk[table].eol
    BY <1>4, <1>7
  <2> HIDE DEF p, q
  <2>3. lines \in Seq(Line) /\ Len(lines) = Len(old) + 1 /\ lines[Len(lines)] = p /\ Len(old) \in Nat
    BY <2>1, <2>2, AddLine, LenProperties
  <2>4. lines # << >>
    BY <2>3, EmptySeq
  <2>5. new = [lines EXCEPT ![Len(lines)] = IF n > 0 /\ lines[Len(lines)] = p THEN q ELSE Torn]
    BY <1>2, <2>2, <2>4, ColumnFile DEF p, q
  <2>6. new = [lines EXCEPT ![Len(lines)] = q]
    BY <1>7, <2>3, <2>5
  <2> HIDE DEF lines, new
  <2>7. new = Append(old, q)
    <3> DEFINE long == Append(old, q)
    <3>1. /\ long \in Seq(Line) /\ Len(long) = Len(old) + 1 /\ long[Len(old) + 1] = q
          /\ \A i \in 1 .. Len(old) : long[i] = old[i]
      BY <2>1, AddLine
    <3>2. \A i \in 1 .. Len(old) : lines[i] = old[i]
      BY <2>1, <2>2, AddLine
    <3>3. Len(lines) \in 1 .. Len(lines)
      BY <2>3
    <3>4. /\ new \in Seq(Line) /\ Len(new) = Len(lines) /\ new[Len(lines)] = q
          /\ \A i \in 1 .. Len(lines) : i # Len(lines) => new[i] = lines[i]
      BY <2>1, <2>3, <2>6, <3>3, NewLine
    <3> HIDE DEF long
    <3>5. \A i \in 1 .. Len(new) : new[i] = long[i]
      BY <2>3, <3>1, <3>2, <3>4
    <3>6. new = long
      BY <2>3, <3>1, <3>4, <3>5, SeqEqual
    <3>7. QED
      BY <3>6 DEF long
  <2>8. QED
    BY <1>1, <1>2, <1>4, <1>5, <2>7 DEF q, new
<1>8. QED
  BY <1>3, <1>6, <1>7

\* The line grows.
LEMMA CalmColumn ==
  ASSUME FilesInv, JobsInv, CalmInv, Calm, NEW r \in Request, AppendColumn(r)
  PROVE  CalmInv'
<1>1. /\ pc[r] = "write" /\ table \in 1 .. Len(disk) /\ job[r] \in Job /\ AtPlace(r)
      /\ \E old \in Seq(Line) : /\ Exact(old, known)
                               /\ disk'[table].lines = Append(old, Prefix(r, job[r].written + 1))
                               /\ ~disk'[table].eol
  BY CalmGrows, Alone
<1>2. /\ job[r].written < 6 /\ job' = [job EXCEPT ![r].written = job[r].written + 1]
      /\ UNCHANGED <<table, bak, pc, fd, failed, known>>
  BY DEF AppendColumn
<1>3. job \in [Request -> Job \cup {NoJob}] /\ job[r].written \in 0 .. 6
  BY <1>1 DEF JobsInv, Job
<1>4. job'[r] = [job[r] EXCEPT !.written = job[r].written + 1]
  BY <1>2, <1>3
<1>5. /\ job'[r].written = job[r].written + 1 /\ job'[r].user = job[r].user
      /\ job'[r].password = job[r].password
  BY <1>1, <1>4 DEF Job
<1>6. \A n : Prefix(r, n)' = Prefix(r, n)
  BY <1>5 DEF Prefix
<1>7. Begun(r)'
  <2>1. job'[r].written > 0 /\ job'[r].written # 0
    BY <1>3, <1>5
  <2>2. PICK old \in Seq(Line) : /\ Exact(old, known)
                                /\ disk'[table].lines = Append(old, Prefix(r, job[r].written + 1))
                                /\ ~disk'[table].eol
    BY <1>1
  <2>3. Prefix(r, job[r].written)' = Prefix(r, job[r].written + 1)
    BY <1>5 DEF Prefix
  <2>4. disk'[table'].lines = Append(old, Prefix(r, job[r].written)') /\ ~disk'[table'].eol /\ Exact(old, known')
    BY <1>2, <2>2, <2>3
  <2>5. QED
    BY <2>1, <2>4 DEF Begun
<1>8. pc' = [pc EXCEPT ![r] = "write"] /\ pc'[r] = "write"
  BY <1>1, <1>2 DEF JobsInv
<1>9. AtPlace(r)'
  BY <1>1, <1>2, <1>5, <1>7, <1>8 DEF AtPlace, Users
<1>10. QED
  BY <1>1, <1>2, <1>8, <1>9, CalmGoes

\* The record of the new user makes the table as expected.
LEMMA CalmToken ==
  ASSUME FilesInv, JobsInv, CalmInv, Calm, NEW r \in Request, AppendToken(r)
  PROVE  CalmInv'
<1> DEFINE l == Record(job[r].user, job[r].password, NoToken)
<1>1. /\ pc[r] = "write" /\ table \in 1 .. Len(disk) /\ job[r] \in Job /\ bak = NoFile /\ known \subseteq OwnRecord
      /\ job[r].user \notin Users(known)
      /\ \E old \in Seq(Line) : /\ Exact(old, known)
                               /\ disk'[table].lines = Append(old, Prefix(r, job[r].written + 1))
  BY CalmGrows
<1>2. job[r].written + 1 = 7
  BY DEF AppendToken
<1>3. l \in OwnRecord /\ l.user = job[r].user
  BY <1>1, RecordFacts DEF Record
<1>4. Prefix(r, 7) = l
  BY <1>1, PrefixFacts
<1>5. known' = known \cup {l}
  BY <1>1 DEF AppendToken, Expect, Users
<1>6. End(r, TRUE) /\ UNCHANGED <<table, bak>>
  BY DEF AppendToken
<1> HIDE DEF l
<1>7. Exact(disk'[table].lines, known \cup {l})
  <2>1. PICK old \in Seq(Line) : Exact(old, known) /\ disk'[table].lines = Append(old, l)
    BY <1>1, <1>2, <1>4
  <2>2. QED
    BY <1>1, <1>3, <2>1, ExactAppend
<1>8. Holds(table, known)'
  <2>1. table # NoFile
    BY <1>1 DEF NoFile
  <2>2. QED
    BY <1>5, <1>6, <1>7, <2>1 DEF Holds
<1>9. known' \subseteq OwnRecord /\ bak' = NoFile
  BY <1>1, <1>3, <1>5, <1>6
<1>10. QED
  BY <1>1, <1>6, <1>8, <1>9, CalmEnds

\* The backup is as the table.
LEMMA CalmCopy ==
  ASSUME FilesInv, JobsInv, CalmInv, Calm, NEW r \in Request, Copy(r)
  PROVE  CalmInv'
<1>1. pc[r] = "copy" /\ AtPlace(r) /\ Holds(table, known) /\ bak = NoFile /\ table # NoFile /\ table \in 1 .. Len(disk) /\ Len(disk) \in Nat
  BY Alone, Paths DEF Copy, Goto, AtPlace, Holds
<1>2. pc' = [pc EXCEPT ![r] = "lockBak"] /\ UNCHANGED <<table, job, fd, buf, failed, known>>
  BY DEF Copy, Goto
<1>3. bak' = Len(disk) + 1 /\ disk'[bak'] = disk[table] /\ disk'[table] = disk[table]
  BY <1>1, CopyFiles
<1>4. Holds(table, known)' /\ Holds(bak, known)' /\ bak' # table'
  BY <1>1, <1>2, <1>3 DEF Holds, NoFile
<1>5. pc'[r] = "lockBak"
  BY <1>2 DEF JobsInv
<1>6. AtPlace(r)'
  BY <1>4, <1>5 DEF AtPlace
<1>7. QED
  BY <1>1, <1>2, <1>6, CalmGoes

\* The lines are those of the table.
LEMMA CalmReadLines ==
  ASSUME FilesInv, JobsInv, CalmInv, Calm, NEW r \in Request, ReadLines(r)
  PROVE  CalmInv'
<1>1. pc[r] = "readLines" /\ AtPlace(r) /\ Holds(table, known) /\ Holds(bak, known) /\ bak # table /\ table # NoFile
  BY Alone DEF ReadLines, Goto, AtPlace, Holds
<1>2. pc' = [pc EXCEPT ![r] = "delete"] /\ buf' = [buf EXCEPT ![r] = disk[table].lines] /\ UNCHANGED <<files, failed, known>>
  BY <1>1 DEF ReadLines, Goto
<1>3. pc'[r] = "delete" /\ buf'[r] = disk[table].lines
  BY <1>2 DEF JobsInv, FilesInv
<1>4. Holds(table, known)' /\ Holds(bak, known)' /\ bak' # table' /\ Exact(buf[r], known)'
  BY <1>1, <1>2, <1>3 DEF Holds, files
<1>5. AtPlace(r)'
  BY <1>3, <1>4 DEF AtPlace
<1>6. QED
  BY <1>1, <1>2, <1>5, CalmGoes

\* The table goes, the backup has it all.
LEMMA CalmDelete ==
  ASSUME FilesInv, JobsInv, CalmInv, Calm, NEW r \in Request, Delete(r)
  PROVE  CalmInv'
<1>1. pc[r] = "delete" /\ AtPlace(r) /\ Holds(bak, known) /\ Exact(buf[r], known) /\ known \subseteq OwnRecord
      /\ buf[r] \in Seq(Line)
  BY Alone DEF Delete, AtPlace, FilesInv
<1>2. Seen(r, buf[r]) = {buf[r]} /\ ~HasBlank(buf[r])
  BY <1>1, ExactSeen
<1>3. /\ pc' = [pc EXCEPT ![r] = "rewrite"] /\ buf' = [buf EXCEPT ![r] = WithTokens(buf[r], job[r].user, job[r].token)]
      /\ table' = NoFile /\ UNCHANGED <<disk, bak, job, failed, known>>
  BY <1>2 DEF Delete, Goto
<1>4. pc'[r] = "rewrite" /\ buf'[r] = WithTokens(buf[r], job[r].user, job[r].token)
  BY <1>3 DEF JobsInv, FilesInv
<1>5. Exact(WithTokens(buf[r], job[r].user, job[r].token), Saved(r))
  BY <1>1, SavedExact DEF SavePlaces
<1>6. Saved(r)' = Saved(r) /\ Holds(bak, known)' /\ bak' # table'
  BY <1>1, <1>3 DEF Saved, Holds
<1>7. Exact(buf[r], Saved(r))'
  BY <1>4, <1>5, <1>6
<1>8. AtPlace(r)'
  BY <1>3, <1>4, <1>6, <1>7 DEF AtPlace
<1>9. QED
  BY <1>1, <1>3, <1>8, CalmGoes

\* The new table is another file than the backup.
LEMMA CalmCreate ==
  ASSUME FilesInv, JobsInv, CalmInv, Calm, NEW r \in Request, Create(r)
  PROVE  CalmInv'
<1>1. pc[r] = "rewrite" /\ AtPlace(r) /\ Holds(bak, known) /\ Exact(buf[r], Saved(r)) /\ table = NoFile
      /\ bak \in 1 .. Len(disk) /\ Len(disk) \in Nat
  BY Alone, Paths DEF Create, Goto, AtPlace, Holds
<1>2. pc' = [pc EXCEPT ![r] = "fill"] /\ OpenToWrite(r) /\ UNCHANGED <<bak, job, buf, failed, known>>
  BY DEF Create, Goto
<1>3. table' = Len(disk) + 1 /\ fd' = [fd EXCEPT ![r] = table'] /\ disk'[bak] = disk[bak]
  <2>1. bak # table
    BY <1>1 DEF NoFile
  <2>2. QED
    BY <1>1, <1>2, <2>1, Opened
<1>4. pc'[r] = "fill" /\ fd'[r] = table' /\ table' # NoFile /\ bak' # table' /\ disk'[table'].lines = << >>
  <2>1. disk'[table'] = File(<< >>, FALSE)
    BY <1>2, Opened
  <2>2. QED
    BY <1>1, <1>2, <1>3, <2>1 DEF JobsInv, FilesInv, NoFile, File
<1>5. Saved(r)' = Saved(r) /\ Holds(bak, known)' /\ Exact(buf[r], Saved(r))'
  BY <1>1, <1>2, <1>3 DEF Saved, Holds
<1>6. AtPlace(r)'
  BY <1>4, <1>5 DEF AtPlace
<1>7. QED
  BY <1>1, <1>2, <1>6, CalmGoes

\* The new table has the lines with the new token.
LEMMA CalmFill ==
  ASSUME FilesInv, JobsInv, CalmInv, Calm, NEW r \in Request, Fill(r)
  PROVE  CalmInv'
<1>1. pc[r] = "fill" /\ AtPlace(r) /\ Holds(bak, known) /\ bak # table /\ Exact(buf[r], Saved(r)) /\ table # NoFile /\ fd[r] = table
      /\ bak \in 1 .. Len(disk)
  BY Alone, Paths DEF Fill, Goto, AtPlace, Holds
<1>2. pc' = [pc EXCEPT ![r] = "deleteBak"] /\ WriteAll(r, FALSE) /\ UNCHANGED <<table, bak, job, fd, buf, failed, known>>
  BY DEF Fill, Goto
<1>3. disk[table].lines = << >>
  BY <1>1 DEF AtPlace
<1>4. disk'[table].lines = buf[r] /\ disk'[bak] = disk[bak]
  BY <1>1, <1>2, <1>3, WriteAllFiles
<1>5. pc'[r] = "deleteBak" /\ Saved(r)' = Saved(r)
  BY <1>2 DEF JobsInv, Saved
<1>6. Holds(bak, known)' /\ Holds(table, Saved(r))'
  BY <1>1, <1>2, <1>4, <1>5 DEF Holds
<1>7. AtPlace(r)'
  BY <1>1, <1>2, <1>5, <1>6 DEF AtPlace
<1>8. QED
  BY <1>1, <1>2, <1>7, CalmGoes

\* The backup goes, the table is as expected.
LEMMA CalmDeleteBak ==
  ASSUME FilesInv, JobsInv, CalmInv, Calm, NEW r \in Request, DeleteBak(r)
  PROVE  CalmInv'
<1>1. pc[r] = "deleteBak" /\ Holds(table, Saved(r)) /\ known \subseteq OwnRecord
  BY Alone DEF DeleteBak, AtPlace
<1>2. known' = Saved(r) /\ bak' = NoFile /\ End(r, TRUE) /\ UNCHANGED <<disk, table>>
  BY DEF DeleteBak, Expect, Saved
<1>3. known' \subseteq OwnRecord
  BY <1>1, <1>2, SavedRecords DEF SavePlaces
<1>4. Holds(table, known)'
  BY <1>1, <1>2 DEF Holds
<1>5. QED
  BY <1>1, <1>2, <1>3, <1>4, CalmEnds

\* A user who is not in the table ends the update; otherwise its lines are prepared.
LEMMA CalmReadTable ==
  ASSUME FilesInv, JobsInv, CalmInv, Calm, NEW r \in Request, ReadTable(r)
  PROVE  CalmInv'
<1>1. pc[r] = "readTable" /\ AtPlace(r) /\ Holds(table, known) /\ bak = NoFile /\ known \subseteq OwnRecord
      /\ table # NoFile /\ Exact(disk[table].lines, known) /\ table \in 1 .. Len(disk) /\ disk \in Seq(FileType)
  BY Alone, Paths DEF ReadTable, AtPlace, Holds
<1> DEFINE lines == disk[table].lines
<1>2. lines \in Seq(Line)
  BY <1>1, Contents
<1>20. \/ ~Has(lines, job[r].user) /\ End(r, TRUE) /\ UNCHANGED <<files, known>>
       \/ /\ Has(lines, job[r].user)
          /\ Goto(r, "readTable", "truncate")
          /\ buf' = [buf EXCEPT ![r] = Updated(r, lines)]
          /\ UNCHANGED <<files, job, fd, failed, known>>
  <2>1. /\ Seen(r, lines) = {lines} /\ ~HasBlank(lines)
        /\ \A i \in DOMAIN lines : lines[i] \in OwnRecord
    <3> HIDE DEF lines
    <3>1. QED
      BY <1>1, <1>2, ExactSeen DEF lines
  <2>2. \A i \in DOMAIN lines : ~LacksToken(r, lines[i]) /\ ~LacksMore(r, lines[i])
    BY <2>1 DEF LacksToken, LacksMore, OwnRecord
  <2>3. (IF table = NoFile THEN << >> ELSE disk[table].lines) = lines
    BY <1>1
  <2>4. QED
    BY <2>1, <2>2, <2>3 DEF ReadTable, Updated
<1>3. CASE ~Has(lines, job[r].user)
  <2>1. End(r, TRUE) /\ UNCHANGED <<files, known>>
    BY <1>3, <1>20
  <2>2. Holds(table, known)' /\ bak' = NoFile /\ known' \subseteq OwnRecord
    BY <1>1, <2>1 DEF Holds, files
  <2>3. QED
    BY <1>1, <2>1, <2>2, CalmEnds
<1>4. CASE Has(lines, job[r].user)
  <2>1. /\ pc' = [pc EXCEPT ![r] = "truncate"] /\ buf' = [buf EXCEPT ![r] = Updated(r, lines)]
        /\ UNCHANGED <<files, job, fd, failed, known>>
    BY <1>4, <1>20 DEF Goto
  <2>2. pc'[r] = "truncate" /\ buf'[r] = Updated(r, lines)
    BY <2>1 DEF JobsInv, FilesInv
  <2> HIDE DEF lines
  <2>3. Exact(Updated(r, lines), Rewritten(r))
    BY <1>1, <1>2, RewrittenExact DEF lines
  <2>4. Rewritten(r)' = Rewritten(r) /\ Holds(table, known)' /\ bak' = NoFile
    BY <1>1, <2>1 DEF Rewritten, Changed, Of, Holds, files
  <2>5. Exact(buf[r], Rewritten(r))'
    BY <2>2, <2>3, <2>4
  <2>6. AtPlace(r)'
    BY <2>2, <2>4, <2>5 DEF AtPlace
  <2>7. QED
    BY <1>1, <2>1, <2>6, CalmGoes
<1>5. QED
  BY <1>3, <1>4

\* The table is truncated, in place.
LEMMA CalmTruncate ==
  ASSUME FilesInv, JobsInv, CalmInv, Calm, NEW r \in Request, Truncate(r)
  PROVE  CalmInv'
<1>1. pc[r] = "truncate" /\ Holds(table, known) /\ bak = NoFile /\ table # NoFile /\ Exact(buf[r], Rewritten(r))
  BY Alone DEF Truncate, Goto, AtPlace, Holds
<1>2. pc' = [pc EXCEPT ![r] = "overwrite"] /\ OpenToWrite(r) /\ UNCHANGED <<bak, job, buf, failed, known>>
  BY DEF Truncate, Goto
<1>3. table' = table /\ fd' = [fd EXCEPT ![r] = table']
  BY <1>1, <1>2, Opened
<1>4. pc'[r] = "overwrite" /\ fd'[r] = table' /\ Rewritten(r)' = Rewritten(r) /\ disk'[table'].lines = << >>
  <2>1. disk'[table'] = File(<< >>, FALSE)
    BY <1>2, Opened
  <2>2. QED
    BY <1>2, <1>3, <2>1 DEF JobsInv, FilesInv, Rewritten, Changed, Of, File
<1>5. Exact(buf[r], Rewritten(r))'
  BY <1>1, <1>2, <1>4
<1>6. AtPlace(r)'
  BY <1>1, <1>2, <1>3, <1>4, <1>5 DEF AtPlace
<1>7. QED
  BY <1>1, <1>2, <1>6, CalmGoes

\* The table gets the lines with the changed record.
LEMMA CalmOverwrite ==
  ASSUME FilesInv, JobsInv, CalmInv, Calm, NEW r \in Request, Overwrite(r)
  PROVE  CalmInv'
<1>1. pc[r] = "overwrite" /\ Exact(buf[r], Rewritten(r)) /\ known \subseteq OwnRecord /\ bak = NoFile /\ fd[r] = table /\ table # NoFile
  BY Alone DEF Overwrite, AtPlace
<1>2. known' = Rewritten(r) /\ End(r, TRUE) /\ WriteAll(r, TRUE) /\ UNCHANGED <<table, bak>>
  BY DEF Overwrite, Expect, Rewritten
<1>3. disk[table].lines = << >>
  BY <1>1, Alone DEF AtPlace
<1>4. disk'[table].lines = buf[r]
  BY <1>1, <1>2, <1>3, WriteAllFiles
<1>5. Holds(table, known)'
  BY <1>1, <1>2, <1>4 DEF Holds
<1>6. known' \subseteq OwnRecord
  BY <1>1, <1>2, SavedRecords
<1>7. QED
  BY <1>1, <1>2, <1>5, <1>6, CalmEnds

\* A request that comes when another is under way ends the history.
LEMMA CalmReceive ==
  ASSUME FilesInv, JobsInv, CalmInv, Calm, NEW r \in Request, Receive(r)
  PROVE  CalmInv'
<1>1. CASE \E q \in Request : pc[q] # "idle"
  BY <1>1 DEF Receive, CalmInv, Calm
<1>2. CASE \A q \in Request : pc[q] = "idle"
  <2>1. Busy = {} /\ Holds(table, known) /\ bak = NoFile /\ known \subseteq OwnRecord /\ failed = {}
    BY <1>2 DEF Busy, CalmInv
  <2>2. known' = known /\ UNCHANGED <<disk, table, bak, fd, buf>> /\ failed' = failed \ {r}
    BY <1>2 DEF Receive, files
  <2>3. PICK to \in {"open", "copy", "readTable"} : pc' = [pc EXCEPT ![r] = to]
    BY RequestAssumption DEF Receive, FirstStep
  <2>4. pc'[r] = to /\ \A q \in Request \ {r} : pc'[q] = "idle"
    BY <1>2, <2>3 DEF JobsInv
  <2>5. Busy' = {r}
    BY <2>4 DEF Busy
  <2>6. Holds(table, known)' /\ bak' = NoFile
    BY <2>1, <2>2 DEF Holds
  <2>7. AtPlace(r)'
    BY <2>4, <2>6 DEF AtPlace
  <2>8. QED
    BY <2>1, <2>2, <2>5, <2>7 DEF CalmInv
<1>3. QED
  BY <1>1, <1>2

-----------------------------------------------------------------------------
(* All steps *)

\* The history that has ended does not come back.
LEMMA LostStaysLost ==
  ASSUME ~Calm, [Next]_vars
  PROVE  ~Calm'
<1>1. known = Lost
  BY DEF Calm
<1>2. CASE Crash
  BY <1>2 DEF Crash, Calm
<1>3. ASSUME NEW r \in Request, Receive(r) PROVE ~Calm'
  BY <1>1, <1>3 DEF Receive, Calm
<1>4. ASSUME NEW r \in Request, Step(r) PROVE ~Calm'
  <2>1. CASE Open(r) \/ Scan(r) \/ OpenToAppend(r) \/ LockBak(r) \/ ReadTable(r)
    BY <1>1, <2>1 DEF Open, Scan, OpenToAppend, LockBak, OpenAndLock, ReadTable, Throws, Calm
  <2>2. CASE Copy(r) \/ ReadLines(r) \/ Delete(r) \/ Create(r) \/ Fill(r) \/ Truncate(r)
    BY <1>1, <2>2 DEF Copy, ReadLines, Delete, Create, Fill, Truncate, Calm
  <2>3. CASE AppendNewline(r)
    BY <1>1, <2>3 DEF AppendNewline, Calm
  <2>4. CASE AppendColumn(r) \/ AppendToken(r) \/ DeleteBak(r) \/ Overwrite(r)
    BY <1>1, <2>4 DEF AppendColumn, AppendToken, DeleteBak, Overwrite, Expect, Calm
  <2>5. QED
    BY <1>4, <2>1, <2>2, <2>3, <2>4 DEF Step
<1>5. CASE UNCHANGED vars
  BY <1>1, <1>5 DEF vars, Calm
<1>6. QED
  BY <1>2, <1>3, <1>4, <1>5 DEF Next

\* Each step of a request that has the table for itself
LEMMA StepCalm ==
  ASSUME FilesInv, JobsInv, CalmInv, Calm, NEW r \in Request, Step(r)
  PROVE  CalmInv'
<1>1. CASE Open(r) \/ Scan(r) \/ OpenToAppend(r) \/ AppendNewline(r) \/ AppendColumn(r) \/ AppendToken(r)
  BY <1>1, CalmOpen, CalmScan, CalmOpenToAppend, CalmAppendNewline, CalmColumn, CalmToken
<1>2. CASE Copy(r) \/ LockBak(r) \/ ReadLines(r) \/ Delete(r)
  BY <1>2, CalmCopy, CalmLockBak, CalmReadLines, CalmDelete
<1>3. CASE Create(r) \/ Fill(r) \/ DeleteBak(r)
  BY <1>3, CalmCreate, CalmFill, CalmDeleteBak
<1>4. CASE ReadTable(r) \/ Truncate(r) \/ Overwrite(r)
  BY <1>4, CalmReadTable, CalmTruncate, CalmOverwrite
<1>5. QED
  BY <1>1, <1>2, <1>3, <1>4 DEF Step

\* A step, a crash or a new request: the history is kept up to date or ends.
LEMMA NextCalm ==
  ASSUME FilesInv, JobsInv, CalmInv, [Next]_vars
  PROVE  CalmInv'
<1>1. CASE ~Calm
  <2>1. ~Calm'
    BY <1>1, LostStaysLost
  <2>2. QED
    BY <2>1 DEF CalmInv
<1>2. CASE Calm
  <2>1. CASE Crash
    BY <2>1 DEF Crash, CalmInv, Calm
  <2>2. ASSUME NEW r \in Request, Receive(r) PROVE CalmInv'
    BY <1>2, <2>2, CalmReceive
  <2>3. ASSUME NEW r \in Request, Step(r) PROVE CalmInv'
    BY <1>2, <2>3, StepCalm
  <2>4. CASE UNCHANGED vars
    <3>1. /\ UNCHANGED <<disk, table, bak, pc, job, fd, buf, failed, known>>
          /\ Busy' = Busy /\ Users(known)' = Users(known)
      BY <2>4 DEF vars, files, Busy, Users
    <3>2. \A r \in Request : Saved(r)' = Saved(r) /\ Rewritten(r)' = Rewritten(r) /\ Begun(r)' = Begun(r)
      BY <3>1 DEF Saved, Rewritten, Changed, Of, Begun, Prefix
    <3>3. Holds(table, known)' = Holds(table, known)
      BY <3>1 DEF Holds
    <3>4. ASSUME NEW r \in Request, AtPlace(r) PROVE AtPlace(r)'
      BY <3>1, <3>2, <3>4 DEF AtPlace, Holds
    <3>5. QED
      BY <3>1, <3>3, <3>4 DEF CalmInv, Calm, Busy
  <2>5. QED
    BY <2>1, <2>2, <2>3, <2>4 DEF Next
<1>3. QED
  BY <1>1, <1>2

\* At the start the table has one record for each initial user.
LEMMA InitCalm == Init => CalmInv
<1> SUFFICES ASSUME Init PROVE CalmInv
  OBVIOUS
<1>1. PICK v \in Version, eol \in BOOLEAN :
        /\ disk = << File([i \in DOMAIN InitialUsers |-> InitialLine(i, v)], eol) >>
        /\ known = {InitialLine(i, v) : i \in DOMAIN InitialUsers}
  BY InitialFile
<1> DEFINE lines == [i \in DOMAIN InitialUsers |-> InitialLine(i, v)]
           f == File(lines, eol)
<1>2. \A i \in DOMAIN InitialUsers : InitialLine(i, v) \in OwnRecord /\ InitialLine(i, v).user = InitialUsers[i]
  BY InitialLines
<1>3. known \subseteq OwnRecord
  BY <1>1, <1>2
<1>4. Exact(lines, known)
  <2>1. /\ DOMAIN lines = DOMAIN InitialUsers
        /\ \A i \in DOMAIN lines : lines[i] = InitialLine(i, v) /\ lines[i].user = InitialUsers[i]
    BY <1>2
  <2>2. \A i, j \in DOMAIN lines : lines[i].user = lines[j].user => i = j
    BY <2>1, RequestAssumption
  <2> HIDE DEF lines
  <2>3. QED
    BY <1>1, <2>1, <2>2 DEF Exact
<1>5. f.lines = lines
  BY DEF File
<1> HIDE DEF f, lines
<1>6. disk = <<f>>
  BY <1>1 DEF f, lines
<1>7. disk[1].lines = lines /\ table = 1 /\ bak = NoFile /\ failed = {} /\ \A r \in Request : pc[r] = "idle"
  BY <1>5, <1>6 DEF Init
<1>8. Holds(table, known)
  BY <1>4, <1>7 DEF Holds, NoFile
<1>9. Busy = {}
  BY <1>7 DEF Busy
<1>10. QED
  BY <1>3, <1>7, <1>8, <1>9 DEF CalmInv

-----------------------------------------------------------------------------
(* Operations that do not overlap in writing the table *)

\* A lock is held once, and a signup that appends holds that of the file it appends to.
LockInv ==
  /\ \A q, r \in Request : q # r /\ locked[r] # NoFile => locked[q] # locked[r]
  /\ \A r \in Request : pc[r] \in {"newline", "write"} => fd[r] = locked[r]

\* No line is torn.
Sound(lines) == \A i \in DOMAIN lines : lines[i] # Torn

\* The next column of a signup continues what it has begun: the last line, if any, is its own.
Continues(r) ==
  /\ job[r].written = 0 => disk[fd[r]].lines = << >> \/ disk[fd[r]].eol
  /\ job[r].written > 0 =>
       /\ disk[fd[r]].lines # << >> /\ ~disk[fd[r]].eol
       /\ disk[fd[r]].lines[Len(disk[fd[r]].lines)] = Prefix(r, job[r].written)

\* What an operation that writes finds in its file
Undisturbed(r) ==
  /\ pc[r] = "write" => Continues(r)
  /\ pc[r] \in {"fill", "overwrite"} => disk[fd[r]].lines = << >>

(***************************************************************************)
(* As long as no operation that rewrites the table overlaps another that   *)
(* writes it, each of them finds its file as it has left it, and so no     *)
(* line is torn.                                                           *)
(***************************************************************************)
ApartInv ==
  /\ apart \in BOOLEAN
  /\ apart =>
       /\ \A f \in 1 .. Len(disk) : Sound(disk[f].lines)
       /\ \A r \in Request : Sound(buf[r])
       /\ \A q, r \in Request : q # r /\ pc[q] # "idle" /\ pc[r] # "idle" => ~Clash(job[q].kind, job[r].kind)
       /\ \A r \in Request : Undisturbed(r)

\* A request ends and holds no lock, or keeps its locks, or it takes one that is free.
LEMMA LockStep ==
  ASSUME FilesInv, JobsInv, LockInv, NEW r \in Request, Step(r)
  PROVE  LockInv'
<1>1. locked \in [Request -> 0 .. Len(disk)] /\ fd \in [Request -> 0 .. Len(disk)] /\ pc \in [Request -> States]
  BY DEF FilesInv, JobsInv
<1>2. CASE \E ok : End(r, ok)
  BY <1>1, <1>2 DEF End, LockInv
<1>3. CASE \E from, f, to : f # NoFile /\ CanLock(f) /\ Goto(r, from, to)
                            /\ fd' = [fd EXCEPT ![r] = f] /\ locked' = [locked EXCEPT ![r] = f]
  BY <1>1, <1>3 DEF LockInv, CanLock, Goto
<1>4. CASE /\ locked'[r] \in {NoFile, locked[r]} /\ pc'[r] \notin {"newline", "write"}
           /\ \A q \in Request \ {r} : locked'[q] = locked[q] /\ fd'[q] = fd[q] /\ pc'[q] = pc[q]
  BY <1>4 DEF LockInv
<1>5. CASE UNCHANGED <<fd, locked>> /\ pc[r] \in {"newline", "write"} /\ \A q \in Request \ {r} : pc'[q] = pc[q]
  BY <1>5 DEF LockInv
<1>6. CASE Open(r) \/ OpenToAppend(r) \/ LockBak(r)
  <2>1. \E from, f, to : OpenAndLock(r, from, f, to)
    BY <1>6 DEF Open, OpenToAppend, LockBak
  <2>2. QED
    BY <1>2, <1>3, <2>1 DEF OpenAndLock, Throws, CanLock
<1>7. CASE Scan(r)
  <2>1. (\E ok : End(r, ok)) \/ (Goto(r, "scan", "append") /\ UNCHANGED <<files>> /\ fd' = [fd EXCEPT ![r] = NoFile]
                              /\ locked' = [locked EXCEPT ![r] = NoFile])
    BY <1>7, Zenon DEF Scan, Throws, files
  <2>2. QED
    BY <1>1, <1>2, <1>4, <2>1 DEF Goto
<1>8. CASE AppendNewline(r) \/ AppendColumn(r)
  BY <1>1, <1>5, <1>8 DEF AppendNewline, AppendColumn, Goto
<1>9. CASE AppendToken(r) \/ DeleteBak(r) \/ Overwrite(r)
  BY <1>2, <1>9 DEF AppendToken, DeleteBak, Overwrite
<1>10. CASE Copy(r) \/ ReadLines(r) \/ Fill(r)
  BY <1>1, <1>4, <1>10 DEF Copy, ReadLines, Fill, Goto
<1>11. CASE Create(r) \/ Truncate(r)
  <2>1. fd' = [fd EXCEPT ![r] = table']
    BY <1>11, Opened DEF Create, Truncate
  <2>2. QED
    BY <1>1, <1>4, <1>11, <2>1 DEF Create, Truncate, Goto
<1>12. CASE Delete(r)
  <2>1. (\E ok : End(r, ok)) \/ (Goto(r, "delete", "rewrite") /\ UNCHANGED fd /\ locked' = [locked EXCEPT ![r] = NoFile])
    BY <1>12, Zenon DEF Delete
  <2>2. QED
    BY <1>1, <1>2, <1>4, <2>1 DEF Goto
<1>13. CASE ReadTable(r)
  <2>1. (\E ok : End(r, ok)) \/ (Goto(r, "readTable", "truncate") /\ UNCHANGED <<fd, locked>>)
    BY <1>13, Zenon DEF ReadTable, Throws
  <2>2. QED
    BY <1>1, <1>2, <1>4, <2>1 DEF Goto
<1>14. QED
  BY <1>6, <1>7, <1>8, <1>9, <1>10, <1>11, <1>12, <1>13 DEF Step

\* Locks are kept by all steps.
LEMMA NextLock ==
  ASSUME FilesInv, JobsInv, LockInv, [Next]_vars
  PROVE  LockInv'
<1>1. CASE Crash
  BY <1>1 DEF Crash, LockInv
<1>2. ASSUME NEW r \in Request, Receive(r) PROVE LockInv'
  <2>1. UNCHANGED <<fd, locked>> /\ \E to \in {"open", "copy", "readTable"} : pc' = [pc EXCEPT ![r] = to]
    BY <1>2, RequestAssumption DEF Receive, FirstStep
  <2>2. \A q \in Request : pc'[q] = pc[q] \/ pc'[q] \in {"open", "copy", "readTable"}
    BY <2>1 DEF JobsInv
  <2>3. QED
    BY <2>1, <2>2 DEF LockInv
<1>3. ASSUME NEW r \in Request, Step(r) PROVE LockInv'
  BY <1>3, LockStep
<1>4. CASE UNCHANGED vars
  BY <1>4 DEF vars, LockInv
<1>5. QED
  BY <1>1, <1>2, <1>3, <1>4 DEF Next

\* Whoever has a line in old has one in new.
Extends(new, old) ==
  /\ DOMAIN old \subseteq DOMAIN new
  /\ \A i \in DOMAIN old : \A u : Of(old[i], u) => Of(new[i], u)

\* The lines get one more.
LEMMA ExtendsByOne ==
  ASSUME NEW old \in Seq(Line), NEW l \in Line, l # Torn
  PROVE  /\ Append(old, l) \in Seq(Line) /\ Append(old, l) # << >>
         /\ Len(Append(old, l)) = Len(old) + 1 /\ Append(old, l)[Len(old) + 1] = l
         /\ Extends(Append(old, l), old)
         /\ Sound(old) => Sound(Append(old, l))
<1> DEFINE new == Append(old, l)
<1>1. /\ new \in Seq(Line) /\ Len(new) = Len(old) + 1 /\ new[Len(old) + 1] = l
      /\ \A i \in 1 .. Len(old) : new[i] = old[i]
  BY AddLine
<1>2. Len(old) \in Nat /\ DOMAIN old = 1 .. Len(old) /\ DOMAIN new = 1 .. Len(old) + 1
  BY <1>1, LenProperties
<1> HIDE DEF new
<1>3. new # << >>
  BY <1>1, <1>2, EmptySeq
<1>4. Extends(new, old)
  BY <1>1, <1>2 DEF Extends
<1>5. Sound(old) => Sound(new)
  BY <1>1, <1>2 DEF Sound
<1>6. QED
  BY <1>1, <1>3, <1>4, <1>5 DEF new

\* A column continues what the signup has begun, and tears nothing.
LEMMA ColumnLines ==
  ASSUME FilesInv, JobsInv, NEW r \in Request, AppendColumn(r) \/ AppendToken(r), Continues(r)
  PROVE  /\ disk'[fd[r]].lines # << >> /\ ~disk'[fd[r]].eol
         /\ disk'[fd[r]].lines[Len(disk'[fd[r]].lines)] = Prefix(r, job[r].written + 1)
         /\ Extends(disk'[fd[r]].lines, disk[fd[r]].lines)
         /\ Sound(disk[fd[r]].lines) => Sound(disk'[fd[r]].lines)
<1> DEFINE old == disk[fd[r]].lines
           new == disk'[fd[r]].lines
           n == job[r].written
           p == Prefix(r, n)
           q == Prefix(r, n + 1)
<1>1. disk[fd[r]] \in FileType /\ job[r] \in Job /\ disk'[fd[r]] = WithColumn(r, disk[fd[r]])
  BY ColumnDisk
<1>2. old \in Seq(Line) /\ n \in 0 .. 6
  BY <1>1 DEF FileType, Job
<1>3. /\ q \in Line /\ q # Torn /\ (n = 0 => q = Blank)
      /\ (n >= 1 => q \in OwnLine /\ q.user = job[r].user)
      /\ p \in Line /\ (p = Blank \/ (p \in OwnLine /\ p.user = job[r].user))
  BY <1>1, <1>2, PrefixFacts
<1>4. /\ disk'[fd[r]].eol = FALSE
      /\ old = << >> \/ disk[fd[r]].eol => new = Append(old, Blank)
      /\ old # << >> /\ ~disk[fd[r]].eol =>
           /\ Len(old) \in 1 .. Len(old)
           /\ new = [old EXCEPT ![Len(old)] = IF n > 0 /\ old[Len(old)] = p THEN q ELSE Torn]
  <2> DEFINE file == disk[fd[r]]
  <2>1. /\ WithColumn(r, file).eol = FALSE
        /\ file.lines = << >> \/ file.eol => WithColumn(r, file).lines = Append(file.lines, Blank)
        /\ file.lines # << >> /\ ~file.eol =>
             /\ Len(file.lines) \in 1 .. Len(file.lines)
             /\ WithColumn(r, file).lines =
                  [file.lines EXCEPT ![Len(file.lines)] =
                      IF n > 0 /\ file.lines[Len(file.lines)] = p THEN q ELSE Torn]
    <3> HIDE DEF file
    <3>1. file \in FileType /\ job[r] \in Job
      BY <1>1 DEF file
    <3>2. QED
      BY <3>1, ColumnFile, Zenon
  <2>2. QED
    BY <1>1, <2>1, Zenon
<1>5. /\ n = 0 => old = << >> \/ disk[fd[r]].eol
      /\ n > 0 => old # << >> /\ ~disk[fd[r]].eol /\ old[Len(old)] = p
  BY DEF Continues
<1> HIDE DEF p, q, old, new
<1>6. CASE n = 0
  <2>1. new = Append(old, q)
    BY <1>3, <1>4, <1>5, <1>6
  <2>2. /\ new # << >> /\ Len(new) = Len(old) + 1 /\ new[Len(old) + 1] = q
        /\ Extends(new, old) /\ (Sound(old) => Sound(new))
    BY <1>2, <1>3, <2>1, ExtendsByOne
  <2>3. QED
    BY <1>4, <2>2 DEF new, old, q
<1>7. CASE n > 0
  <2>1. new = [old EXCEPT ![Len(old)] = q] /\ Len(old) \in 1 .. Len(old) /\ old[Len(old)] = p
    BY <1>4, <1>5, <1>7
  <2>2. /\ new \in Seq(Line) /\ Len(new) = Len(old) /\ new[Len(old)] = q
        /\ \A j \in 1 .. Len(old) : j # Len(old) => new[j] = old[j]
    BY <1>2, <1>3, <2>1, NewLine
  <2>3. DOMAIN new = 1 .. Len(old) /\ DOMAIN old = 1 .. Len(old) /\ Len(new) # 0
    <3>1. Len(old) \in Nat /\ DOMAIN old = 1 .. Len(old) /\ DOMAIN new = 1 .. Len(new)
      BY <1>2, <2>2, LenProperties
    <3>2. Len(old) # 0
      BY <2>1, <3>1
    <3>3. QED
      BY <2>2, <3>1, <3>2, Zenon
  <2>4. \A u : Of(p, u) => Of(q, u)
    BY <1>2, <1>3, <1>7, RecordFacts DEF Of
  <2>5. Extends(new, old)
    BY <2>1, <2>2, <2>3, <2>4 DEF Extends
  <2>6. Sound(old) => Sound(new)
    BY <1>3, <2>2, <2>3 DEF Sound
  <2>7. new # << >>
    BY <2>3, EmptySeq
  <2>8. QED
    BY <1>4, <2>2, <2>5, <2>6, <2>7 DEF new, old, q
<1>8. QED
  BY <1>2, <1>6, <1>7

\* A newline or a blank line tears nothing, and a new line can begin.
LEMMA NewlineLines ==
  ASSUME FilesInv, JobsInv, NEW r \in Request, AppendNewline(r)
  PROVE  /\ fd[r] \in 1 .. Len(disk) /\ Len(disk') = Len(disk)
         /\ \A i \in 1 .. Len(disk) : i # fd[r] => disk'[i] = disk[i]
         /\ disk'[fd[r]].lines = << >> \/ disk'[fd[r]].eol
         /\ Extends(disk'[fd[r]].lines, disk[fd[r]].lines)
         /\ Sound(disk[fd[r]].lines) => Sound(disk'[fd[r]].lines)
<1>1. Len(disk) \in Nat /\ fd[r] \in 1 .. Len(disk) /\ disk \in Seq(FileType)
  BY Unchanged DEF FilesInv, FilePlaces, AppendNewline, Goto, NoFile
<1> DEFINE old == disk[fd[r]].lines
           lines == IF old # << >> /\ disk[fd[r]].eol THEN Append(old, Blank) ELSE old
           new == File(lines, old # << >>)
<1>2. old \in Seq(Line) /\ Blank \in Line /\ Blank # Torn
  BY <1>1, Contents, RecordFacts DEF Line
<1>3. /\ Append(old, Blank) \in Seq(Line) /\ Extends(Append(old, Blank), old)
      /\ Sound(old) => Sound(Append(old, Blank))
  BY <1>2, ExtendsByOne
<1>4. Extends(old, old)
  BY DEF Extends
<1>5. lines \in Seq(Line) /\ Extends(lines, old) /\ (Sound(old) => Sound(lines)) /\ (old = << >> => lines = << >>)
  BY <1>2, <1>3, <1>4
<1>6. disk' = [disk EXCEPT ![fd[r]] = new]
  BY DEF AppendNewline
<1> HIDE DEF lines
<1>7. new \in FileType /\ new.lines = lines /\ (old # << >> => new.eol)
  BY <1>5, FileFacts DEF File
<1> HIDE DEF new
<1>8. /\ Len(disk') = Len(disk) /\ disk'[fd[r]] = new
      /\ \A i \in 1 .. Len(disk) : i # fd[r] => disk'[i] = disk[i]
  BY <1>1, <1>6, <1>7, NewContent
<1>9. QED
  BY <1>1, <1>5, <1>7, <1>8

\* Who is in the files is in the files that extend them.
LEMMA ExtendsHas ==
  ASSUME NEW old, NEW new, Extends(new, old), NEW u, Has(old, u)
  PROVE  Has(new, u)
BY DEF Extends, Has

\* A request whose file stays as it is finds it as it has left it.
LEMMA StaysUndisturbed ==
  ASSUME NEW q \in Request, Undisturbed(q), pc'[q] = pc[q], fd'[q] = fd[q], job'[q] = job[q],
         pc[q] \in {"write", "fill", "overwrite"} => disk'[fd[q]] = disk[fd[q]]
  PROVE  Undisturbed(q)'
<1>1. \A n : Prefix(q, n)' = Prefix(q, n)
  BY DEF Prefix
<1>2. CASE pc[q] = "write"
  <2>1. Continues(q)
    BY <1>2 DEF Undisturbed
  <2>2. Prefix(q, job[q].written)' = Prefix(q, job[q].written)
    BY DEF Prefix
  <2>3. Continues(q)'
    BY <1>2, <2>1, <2>2 DEF Continues
  <2>4. QED
    BY <1>2, <2>3 DEF Undisturbed
<1>3. CASE pc[q] # "write"
  BY <1>3 DEF Undisturbed
<1>4. QED
  BY <1>2, <1>3

\* Who has the file of an operation that writes, and what others write meanwhile
LEMMA WritesApart ==
  ASSUME FilesInv, JobsInv, LockInv, ApartInv, apart, NEW r \in Request, NEW q \in Request, q # r,
         pc[q] \in {"write", "fill", "overwrite"}, pc[r] # "idle"
  PROVE  /\ job[r].kind \notin Rewriters
         /\ pc[r] \in {"newline", "write"} => pc[q] = "write" /\ fd[q] # fd[r]
         /\ fd[q] \in 1 .. Len(disk)
<1>1. job[q].kind \in Writers /\ (pc[q] # "write" => job[q].kind \in Rewriters) /\ pc[q] # "idle"
  BY DEF JobsInv, SavePlaces, Writers, Rewriters
<1>2. ~Clash(job[q].kind, job[r].kind)
  BY <1>1 DEF ApartInv
<1>3. job[r].kind \notin Rewriters
  BY <1>1, <1>2 DEF Clash, Writers
<1>4. fd[q] \in 1 .. Len(disk)
  BY Unchanged DEF FilesInv, FilePlaces, NoFile
<1>5. ASSUME pc[r] \in {"newline", "write"} PROVE pc[q] = "write" /\ fd[q] # fd[r]
  <2>1. job[r].kind = "signup" /\ job[r].kind \in Writers
    BY <1>5 DEF JobsInv, Writers
  <2>2. job[q].kind \notin Rewriters
    BY <1>1, <1>2, <2>1 DEF Clash
  <2>3. pc[q] = "write"
    BY <1>1, <2>2
  <2>4. fd[q] = locked[q] /\ fd[r] = locked[r]
    BY <1>5, <2>3 DEF LockInv
  <2>5. QED
    BY <1>4, <2>3, <2>4 DEF LockInv, NoFile
<1>6. QED
  BY <1>3, <1>4, <1>5

\* A step of r that leaves the others alone keeps the invariant if it does so for r itself.
LEMMA ApartStep ==
  ASSUME FilesInv, JobsInv, LockInv, ApartInv, apart, NEW r \in Request, pc[r] # "idle",
         JobsInv', UNCHANGED apart,
         \A q \in Request \ {r} : pc'[q] = pc[q] /\ fd'[q] = fd[q] /\ job'[q] = job[q] /\ buf'[q] = buf[q],
         pc'[r] # "idle" => job'[r].kind = job[r].kind,
         \A f \in 1 .. Len(disk') : Sound(disk'[f].lines),
         Sound(buf'[r]),
         \A q \in Request \ {r} : pc[q] \in {"write", "fill", "overwrite"} => disk'[fd[q]] = disk[fd[q]],
         Undisturbed(r)'
  PROVE  ApartInv'
<1>1. \A q \in Request : Undisturbed(q)'
  BY StaysUndisturbed DEF ApartInv
<1>2. \A q \in Request : Sound(buf'[q])
  BY DEF ApartInv
<1>3. \A p, q \in Request : p # q /\ pc'[p] # "idle" /\ pc'[q] # "idle" => ~Clash(job'[p].kind, job'[q].kind)
  BY DEF ApartInv
<1>4. QED
  BY <1>1, <1>2, <1>3 DEF ApartInv, Sound

\* Steps that change no file
LEMMA ApartQuiet ==
  ASSUME FilesInv, JobsInv, LockInv, ApartInv, apart, NEW r \in Request, JobsInv',
         Open(r) \/ Scan(r) \/ OpenToAppend(r) \/ LockBak(r) \/ ReadLines(r) \/ Delete(r) \/ DeleteBak(r) \/ ReadTable(r)
  PROVE  ApartInv'
<1> DEFINE B == {<< >>, buf[r], disk[table].lines, WithTokens(buf[r], job[r].user, job[r].token)}
<1>1. /\ pc[r] # "idle" /\ UNCHANGED disk /\ UNCHANGED apart
      /\ \/ End(r, TRUE) \/ End(r, FALSE)
         \/ /\ \E to \in {"scan", "append", "newline", "readLines", "delete", "rewrite", "truncate"} : pc' = [pc EXCEPT ![r] = to]
            /\ (\E f : fd' = [fd EXCEPT ![r] = f]) \/ UNCHANGED fd
            /\ UNCHANGED job
            /\ \/ UNCHANGED buf
               \/ pc[r] = "readLines" /\ buf' = [buf EXCEPT ![r] = IF table = NoFile THEN << >> ELSE disk[table].lines]
               \/ pc[r] = "delete" /\ buf' = [buf EXCEPT ![r] = WithTokens(buf[r], job[r].user, job[r].token)]
               \/ pc[r] = "readTable" /\ buf' = [buf EXCEPT ![r] = Updated(r, IF table = NoFile THEN << >> ELSE disk[table].lines)]
  <2>1. CASE Open(r) \/ OpenToAppend(r) \/ LockBak(r)
    BY <2>1, Zenon DEF Open, OpenToAppend, LockBak, OpenAndLock, Throws, Goto, End, files
  <2>2. CASE Scan(r)
    BY <2>2, Zenon DEF Scan, Throws, Goto, End, files
  <2>3. CASE ReadLines(r)
    BY <2>3 DEF ReadLines, Goto, files
  <2>4. CASE Delete(r)
    BY <2>4, Zenon DEF Delete, Goto, End
  <2>5. CASE DeleteBak(r)
    BY <2>5, Zenon DEF DeleteBak, End
  <2>6. CASE ReadTable(r)
    BY <2>6, Zenon DEF ReadTable, Throws, Goto, End, files, Updated
  <2>7. QED
    BY <2>1, <2>2, <2>3, <2>4, <2>5, <2>6
<1>2. /\ pc \in [Request -> States] /\ job \in [Request -> Job \cup {NoJob}]
      /\ fd \in [Request -> 0 .. Len(disk)] /\ buf \in [Request -> Seq(Line)]
  BY DEF JobsInv, FilesInv
<1>3. \A q \in Request \ {r} : pc'[q] = pc[q] /\ fd'[q] = fd[q] /\ job'[q] = job[q] /\ buf'[q] = buf[q]
  BY <1>1, <1>2 DEF End
<1>4. /\ pc'[r] # "idle" => job'[r].kind = job[r].kind
      /\ pc'[r] \notin {"write", "fill", "overwrite"}
  BY <1>1, <1>2 DEF End
<1>5. /\ disk \in Seq(FileType) /\ Len(disk) \in Nat /\ table \in 0 .. Len(disk)
      /\ Sound(buf[r]) /\ Sound(<< >>) /\ \A f \in 1 .. Len(disk) : Sound(disk[f].lines)
  BY Unchanged DEF FilesInv, ApartInv, Sound
<1> DEFINE lines == IF table = NoFile THEN << >> ELSE disk[table].lines
<1>6. lines \in Seq(Line) /\ Sound(lines)
  BY <1>5, Contents, FileFacts DEF NoFile
<1> HIDE DEF lines
<1>7. ASSUME pc[r] = "delete" PROVE Sound(WithTokens(buf[r], job[r].user, job[r].token))
  <2>1. job[r].user \in User /\ job[r].token \in Secret(job[r].user)
    BY <1>7, JobOf DEF JobsInv, Job, SavePlaces
  <2>2. QED
    BY <1>2, <1>5, <2>1, TokenLines DEF Sound
<1>8. ASSUME pc[r] = "readTable" PROVE Sound(Updated(r, lines))
  BY <1>1, <1>6, UpdatedLines DEF Sound
<1>9. Sound(buf'[r])
  BY <1>1, <1>2, <1>5, <1>6, <1>7, <1>8 DEF End, lines
<1>10. Undisturbed(r)'
  BY <1>4 DEF Undisturbed
<1>11. QED
  BY <1>1, <1>3, <1>4, <1>5, <1>9, <1>10, ApartStep

\* The backup is as the table.
LEMMA ApartCopy ==
  ASSUME FilesInv, JobsInv, LockInv, ApartInv, apart, NEW r \in Request, JobsInv', Copy(r)
  PROVE  ApartInv'
<1>1. /\ Len(disk) <= Len(disk') /\ \A i \in 1 .. Len(disk) : disk'[i] = disk[i]
      /\ table # NoFile /\ bak = NoFile => bak' = Len(disk) + 1 /\ disk'[bak'] = disk[table]
  BY CopyFiles
<1>2. /\ pc[r] = "copy" /\ pc' = [pc EXCEPT ![r] = "lockBak"] /\ UNCHANGED <<job, fd, buf, apart>>
      /\ UNCHANGED disk \/ (table # NoFile /\ bak = NoFile /\ disk' = Append(disk, disk[table]))
  BY DEF Copy, Goto
<1>3. Len(disk) \in Nat /\ disk \in Seq(FileType) /\ table \in 0 .. Len(disk)
  BY Unchanged DEF FilesInv
<1>4. Len(disk') = Len(disk) \/ (Len(disk') = Len(disk) + 1 /\ table \in 1 .. Len(disk) /\ disk'[Len(disk) + 1] = disk[table])
  BY <1>1, <1>2, <1>3, NewFile, Contents DEF NoFile
<1>5. \A f \in 1 .. Len(disk') : Sound(disk'[f].lines)
  BY <1>1, <1>3, <1>4 DEF ApartInv
<1>6. pc'[r] = "lockBak" /\ \A q \in Request \ {r} : pc'[q] = pc[q]
  BY <1>2 DEF JobsInv
<1>7. \A q \in Request \ {r} : pc[q] \in {"write", "fill", "overwrite"} => disk'[fd[q]] = disk[fd[q]]
  BY <1>1, <1>2, WritesApart
<1>8. Undisturbed(r)' /\ Sound(buf'[r])
  BY <1>2, <1>6 DEF Undisturbed, ApartInv
<1>9. QED
  BY <1>2, <1>5, <1>6, <1>7, <1>8, ApartStep

\* A signup writes to a file that nobody else writes.
LEMMA ApartAppend ==
  ASSUME FilesInv, JobsInv, LockInv, ApartInv, apart, NEW r \in Request, JobsInv',
         AppendNewline(r) \/ AppendColumn(r) \/ AppendToken(r)
  PROVE  ApartInv'
<1>1. pc[r] \in {"newline", "write"} /\ (pc[r] = "newline" <=> AppendNewline(r))
  BY Zenon DEF AppendNewline, AppendColumn, AppendToken, Goto
<1>2. pc[r] = "write" => Continues(r)
  BY DEF ApartInv, Undisturbed
<1>3. /\ fd[r] \in 1 .. Len(disk) /\ Len(disk') = Len(disk)
      /\ \A i \in 1 .. Len(disk) : i # fd[r] => disk'[i] = disk[i]
      /\ Sound(disk[fd[r]].lines) => Sound(disk'[fd[r]].lines)
  <2>1. CASE AppendNewline(r)
    BY <2>1, NewlineLines
  <2>2. CASE AppendColumn(r) \/ AppendToken(r)
    BY <1>1, <1>2, <2>2, ColumnDisk, ColumnLines
  <2>3. QED
    BY <2>1, <2>2
<1>4. \A f \in 1 .. Len(disk') : Sound(disk'[f].lines)
  BY <1>3 DEF ApartInv
<1>5. \A q \in Request \ {r} : pc[q] \in {"write", "fill", "overwrite"} => disk'[fd[q]] = disk[fd[q]]
  BY <1>1, <1>3, WritesApart
<1>6. /\ pc \in [Request -> States] /\ job \in [Request -> Job \cup {NoJob}]
      /\ fd \in [Request -> 0 .. Len(disk)] /\ buf \in [Request -> Seq(Line)]
  BY DEF JobsInv, FilesInv
<1>7. UNCHANGED apart
  BY DEF AppendNewline, AppendColumn, AppendToken, End
<1>8. Sound(<< >>) /\ Sound(buf[r])
  BY DEF Sound, ApartInv
<1>9. CASE AppendNewline(r)
  <2>1. pc[r] = "newline" /\ pc' = [pc EXCEPT ![r] = "write"] /\ UNCHANGED <<job, fd, buf>>
    BY <1>9 DEF AppendNewline, Goto
  <2>2. job[r].written = 0 /\ pc'[r] = "write"
    BY <1>6, <2>1 DEF JobsInv
  <2>3. Continues(r)'
    BY <1>9, <2>1, <2>2, NewlineLines DEF Continues
  <2>4. Undisturbed(r)'
    BY <2>2, <2>3 DEF Undisturbed
  <2>5. \A q \in Request \ {r} : pc'[q] = pc[q]
    BY <1>6, <2>1
  <2>6. QED
    BY <1>4, <1>5, <1>7, <1>8, <2>1, <2>4, <2>5, ApartStep
<1>10. CASE AppendColumn(r)
  <2>1. pc[r] = "write" /\ job[r].written < 6 /\ job' = [job EXCEPT ![r].written = job[r].written + 1] /\ UNCHANGED <<pc, fd, buf>>
    BY <1>10 DEF AppendColumn
  <2>2. job[r] \in Job /\ job[r].written \in 0 .. 6
    BY <2>1, JobOf DEF Job
  <2>3. job'[r] = [job[r] EXCEPT !.written = job[r].written + 1] /\ \A q \in Request \ {r} : job'[q] = job[q]
    BY <1>6, <2>1
  <2>4. /\ job'[r].written = job[r].written + 1 /\ job'[r].kind = job[r].kind
        /\ job'[r].user = job[r].user /\ job'[r].password = job[r].password
    BY <2>2, <2>3 DEF Job
  <2>5. Prefix(r, job[r].written)' = Prefix(r, job[r].written + 1)
    BY <2>4 DEF Prefix
  <2>6. /\ disk'[fd[r]].lines # << >> /\ ~disk'[fd[r]].eol
        /\ disk'[fd[r]].lines[Len(disk'[fd[r]].lines)] = Prefix(r, job[r].written + 1)
    BY <1>2, <1>10, <2>1, ColumnLines
  <2>7. Continues(r)'
    BY <2>1, <2>2, <2>4, <2>5, <2>6 DEF Continues
  <2>8. Undisturbed(r)'
    BY <2>1, <2>7 DEF Undisturbed
  <2>9. QED
    BY <1>4, <1>5, <1>7, <1>8, <2>1, <2>3, <2>4, <2>8, ApartStep
<1>11. CASE AppendToken(r)
  <2>1. End(r, TRUE) /\ pc[r] = "write"
    BY <1>11 DEF AppendToken
  <2>2. /\ pc'[r] = "idle" /\ buf'[r] = << >>
        /\ \A q \in Request \ {r} : pc'[q] = pc[q] /\ fd'[q] = fd[q] /\ job'[q] = job[q] /\ buf'[q] = buf[q]
    BY <1>6, <2>1 DEF End
  <2>3. Undisturbed(r)'
    BY <2>2 DEF Undisturbed
  <2>4. QED
    BY <1>4, <1>5, <1>7, <1>8, <2>1, <2>2, <2>3, ApartStep
<1>12. QED
  BY <1>9, <1>10, <1>11

\* An operation that rewrites the table is the only one that writes.
LEMMA ApartRewrite ==
  ASSUME FilesInv, JobsInv, LockInv, ApartInv, apart, NEW r \in Request, JobsInv',
         Create(r) \/ Truncate(r) \/ Fill(r) \/ Overwrite(r)
  PROVE  ApartInv'
<1>1. pc[r] \in {"rewrite", "truncate", "fill", "overwrite"}
  BY Zenon DEF Create, Truncate, Fill, Overwrite, Goto
<1>2. job[r].kind \in Rewriters
  BY <1>1 DEF JobsInv, SavePlaces, Rewriters
<1>3. \A q \in Request \ {r} : pc[q] \notin {"write", "fill", "overwrite"}
  BY <1>1, <1>2, WritesApart
<1>4. /\ pc \in [Request -> States] /\ job \in [Request -> Job \cup {NoJob}] /\ Len(disk) \in Nat
      /\ fd \in [Request -> 0 .. Len(disk)] /\ buf \in [Request -> Seq(Line)]
  BY Unchanged DEF JobsInv, FilesInv
<1>5. UNCHANGED apart
  BY DEF Create, Truncate, Fill, Overwrite, End
<1>6. Sound(<< >>) /\ Sound(buf[r])
  BY DEF Sound, ApartInv
<1>7. CASE Create(r) \/ Truncate(r)
  <2>1. /\ \E to \in {"fill", "overwrite"} : pc' = [pc EXCEPT ![r] = to]
        /\ OpenToWrite(r) /\ UNCHANGED <<job, buf>>
    BY <1>7 DEF Create, Truncate, Goto
  <2>2. /\ fd' = [fd EXCEPT ![r] = table'] /\ disk'[table'] = File(<< >>, FALSE)
        /\ \A i \in 1 .. Len(disk) : i # table => disk'[i] = disk[i]
        /\ table # NoFile => table' = table
        /\ table = NoFile => table' = Len(disk) + 1
    BY <2>1, Opened
  <2>3. disk'[table'].lines = << >>
    BY <2>2 DEF File
  <2>4. Len(disk') = IF table = NoFile THEN Len(disk) + 1 ELSE Len(disk)
    <3>1. disk \in Seq(FileType) /\ File(<< >>, FALSE) \in FileType /\ table \in 0 .. Len(disk)
      BY FileFacts DEF FilesInv
    <3> DEFINE f == File(<< >>, FALSE)
    <3>2. f \in FileType /\ (table = NoFile => disk' = Append(disk, f)) /\ (table # NoFile => disk' = [disk EXCEPT ![table] = f])
      BY <2>1, <3>1 DEF OpenToWrite
    <3> HIDE DEF f
    <3>3. QED
      BY <1>4, <3>1, <3>2, NewFile, NewContent DEF NoFile
  <2>5. \A f \in 1 .. Len(disk') : f = table' \/ (f \in 1 .. Len(disk) /\ disk'[f] = disk[f])
    <3>1. CASE table = NoFile
      <4>1. \A f \in 1 .. Len(disk) + 1 : f = Len(disk) + 1 \/ (f \in 1 .. Len(disk) /\ f # table)
        BY <1>4, <3>1 DEF NoFile
      <4>2. QED
        BY <2>2, <2>4, <3>1, <4>1
    <3>2. CASE table # NoFile
      BY <2>2, <2>4, <3>2
    <3>3. QED
      BY <3>1, <3>2
  <2>6. \A f \in 1 .. Len(disk') : Sound(disk'[f].lines)
    BY <1>6, <2>3, <2>5 DEF ApartInv
  <2>7. /\ pc'[r] \in {"fill", "overwrite"} /\ fd'[r] = table'
        /\ \A q \in Request \ {r} : pc'[q] = pc[q] /\ fd'[q] = fd[q]
    BY <1>4, <2>1, <2>2
  <2>8. Undisturbed(r)'
    BY <2>3, <2>7 DEF Undisturbed
  <2>9. QED
    BY <1>1, <1>3, <1>5, <1>6, <2>1, <2>6, <2>7, <2>8, ApartStep
<1>8. CASE Fill(r) \/ Overwrite(r)
  <2>1. pc[r] \in {"fill", "overwrite"} /\ \E eol \in BOOLEAN : WriteAll(r, eol)
    BY <1>8 DEF Fill, Overwrite, Goto
  <2>2. fd[r] # NoFile /\ fd[r] \in 1 .. Len(disk)
    BY <1>4, <2>1 DEF FilesInv, FilePlaces, NoFile
  <2>3. disk[fd[r]].lines = << >>
    BY <2>1 DEF ApartInv, Undisturbed
  <2>4. /\ Len(disk') = Len(disk) /\ disk'[fd[r]].lines = buf[r]
        /\ \A i \in 1 .. Len(disk) : i # fd[r] => disk'[i] = disk[i]
    BY <2>1, <2>2, <2>3, WriteAllFiles
  <2>5. \A f \in 1 .. Len(disk') : Sound(disk'[f].lines)
    BY <1>6, <2>4 DEF ApartInv
  <2>6. /\ pc'[r] \in {"idle", "deleteBak"} /\ buf'[r] \in {<< >>, buf[r]} /\ (pc'[r] # "idle" => job'[r] = job[r])
        /\ \A q \in Request \ {r} : pc'[q] = pc[q] /\ fd'[q] = fd[q] /\ job'[q] = job[q] /\ buf'[q] = buf[q]
    BY <1>4, <1>8 DEF Fill, Overwrite, End, Goto
  <2>7. Undisturbed(r)' /\ Sound(buf'[r])
    BY <1>6, <2>6 DEF Undisturbed
  <2>8. QED
    BY <1>1, <1>3, <1>5, <2>5, <2>6, <2>7, ApartStep
<1>9. QED
  BY <1>7, <1>8

\* All steps keep operations that do not overlap apart.
LEMMA NextApart ==
  ASSUME FilesInv, JobsInv, LockInv, ApartInv, JobsInv', [Next]_vars
  PROVE  ApartInv'
<1>1. CASE Crash
  <2>1. /\ UNCHANGED <<disk, apart>> /\ \A q \in Request : pc'[q] = "idle" /\ buf'[q] = << >>
    BY <1>1 DEF Crash, files
  <2>2. \A q \in Request : Undisturbed(q)' /\ Sound(buf'[q])
    BY <2>1 DEF Undisturbed, Sound
  <2>3. QED
    BY <2>1, <2>2 DEF ApartInv, Sound
<1>2. ASSUME NEW r \in Request, Receive(r) PROVE ApartInv'
  <2>1. PICK k \in Kind, u \in User : \E p \in Secret(u), t \in Secret(u) \cup {NoToken} :
          /\ job' = [job EXCEPT ![r] = [kind |-> k, user |-> u, password |-> p, token |-> t, written |-> 0]]
          /\ apart' = (apart /\ \A q \in Request : pc[q] # "idle" => ~Clash(k, job[q].kind))
          /\ pc' = [pc EXCEPT ![r] = FirstStep(k)]
    BY <1>2 DEF Receive
  <2>2. pc[r] = "idle" /\ UNCHANGED <<disk, fd, buf>> /\ apart' \in BOOLEAN
    BY <1>2, <2>1 DEF Receive, files
  <2>3. /\ job'[r].kind = k /\ pc'[r] \in {"open", "copy", "readTable"}
        /\ \A q \in Request \ {r} : job'[q] = job[q] /\ pc'[q] = pc[q]
    <3>1. FirstStep(k) \in {"open", "copy", "readTable"}
      BY RequestAssumption DEF FirstStep
    <3>2. QED
      BY <2>1, <3>1 DEF JobsInv
  <2>4. ASSUME apart' PROVE apart /\ \A q \in Request : pc[q] # "idle" => ~Clash(k, job[q].kind)
    BY <2>1, <2>4
  <2>5. ASSUME apart', NEW q \in Request PROVE Undisturbed(q)'
    <3>1. CASE q = r
      BY <2>3, <3>1 DEF Undisturbed
    <3>2. CASE q # r
      BY <2>2, <2>3, <2>4, <2>5, <3>2, StaysUndisturbed DEF ApartInv
    <3>3. QED
      BY <3>1, <3>2
  <2>6. ASSUME apart', NEW p \in Request, NEW q \in Request, p # q, pc'[p] # "idle", pc'[q] # "idle"
        PROVE  ~Clash(job'[p].kind, job'[q].kind)
    <3>1. CASE p = r
      BY <2>3, <2>4, <2>6, <3>1
    <3>2. CASE q = r
      BY <2>3, <2>4, <2>6, <3>2 DEF Clash
    <3>3. CASE p # r /\ q # r
      BY <2>3, <2>4, <2>6, <3>3 DEF ApartInv
    <3>4. QED
      BY <3>1, <3>2, <3>3
  <2>7. apart' => apart
    BY <2>4
  <2>8. QED
    BY <2>2, <2>5, <2>6, <2>7 DEF ApartInv, Sound
<1>3. ASSUME NEW r \in Request, Step(r) PROVE ApartInv'
  <2>1. CASE apart
    BY <1>3, <2>1, ApartQuiet, ApartCopy, ApartAppend, ApartRewrite DEF Step
  <2>2. CASE ~apart
    <3>1. UNCHANGED apart
      BY <1>3, Zenon DEF Step, Open, Scan, OpenToAppend, AppendNewline, AppendColumn, AppendToken, Copy, LockBak, ReadLines,
         Delete, Create, Fill, DeleteBak, ReadTable, Truncate, Overwrite, OpenAndLock, Throws, End
    <3>2. QED
      BY <2>2, <3>1 DEF ApartInv
  <2>3. QED
    BY <2>1, <2>2
<1>4. CASE UNCHANGED vars
  <2>1. \A q \in Request : Undisturbed(q)' = Undisturbed(q)
    BY <1>4 DEF vars, files, Undisturbed, Continues, Prefix
  <2>2. QED
    BY <1>4, <2>1 DEF vars, files, ApartInv, Sound
<1>5. QED
  BY <1>1, <1>2, <1>3, <1>4 DEF Next

\* At the start nothing is under way and no line is torn.
LEMMA InitApart == Init => LockInv /\ ApartInv
<1> SUFFICES ASSUME Init PROVE LockInv /\ ApartInv
  OBVIOUS
<1>1. PICK v \in Version, eol \in BOOLEAN : disk = << File([i \in DOMAIN InitialUsers |-> InitialLine(i, v)], eol) >>
  BY InitialFile
<1> DEFINE lines == [i \in DOMAIN InitialUsers |-> InitialLine(i, v)]
           f == File(lines, eol)
<1>2. \A i \in DOMAIN lines : lines[i] # Torn
  BY InitialLines, RecordFacts
<1>3. f.lines = lines
  BY DEF File
<1>4. Sound(f.lines)
  <2> HIDE DEF f, lines
  <2>1. QED
    BY <1>2, <1>3 DEF Sound
<1> HIDE DEF f, lines
<1>5. disk = <<f>>
  BY <1>1 DEF f, lines
<1>6. \A i \in 1 .. Len(disk) : Sound(disk[i].lines)
  BY <1>4, <1>5
<1>7. apart = TRUE /\ \A r \in Request : pc[r] = "idle" /\ buf[r] = << >> /\ locked[r] = NoFile
  BY DEF Init
<1>8. \A r \in Request : Undisturbed(r) /\ Sound(buf[r])
  BY <1>7 DEF Undisturbed, Sound
<1>9. QED
  BY <1>6, <1>7, <1>8 DEF LockInv, ApartInv

\* Then every line of a user is the user's own.
LEMMA FormsOwn == FilesInv /\ ApartInv => OwnRecords
<1> SUFFICES ASSUME FilesInv, ApartInv, apart, NEW f \in DOMAIN disk, NEW i \in DOMAIN disk[f].lines
             PROVE  Own(disk[f].lines[i])
  BY DEF OwnRecords
<1>1. disk[f].lines[i] \in Line
  BY Records
<1>2. f \in 1 .. Len(disk)
  BY LenProperties DEF FilesInv
<1>3. disk[f].lines[i] # Torn
  BY <1>2 DEF ApartInv, Sound
<1>4. QED
  BY <1>1, <1>3 DEF Line, OwnLine, Own

\* The inductive invariant: the form of the files and of the jobs, the locks, what operations that
\* do not overlap find, and what calm means.
IInv == FilesInv /\ JobsInv /\ LockInv /\ ApartInv /\ CalmInv

(***************************************************************************)
(* It holds in all states of the table and its requests, whatever the      *)
(* numbers: files of lines that may be torn, each line that is not torn    *)
(* with secrets of its own user, in every interleaving and with crashes    *)
(* between any two writes (User.java, ReadAndWrite.java).                  *)
(***************************************************************************)
THEOREM Invariance == Spec => []IInv
<1>1. Init => IInv
  BY InitFiles, InitApart, InitCalm DEF IInv
<1>2. IInv /\ [Next]_vars => IInv'
  <2> SUFFICES ASSUME FilesInv, JobsInv, LockInv, ApartInv, CalmInv, [Next]_vars PROVE IInv'
    BY DEF IInv
  <2>1. FilesInv' /\ JobsInv'
    BY NextFiles
  <2>2. LockInv' /\ ApartInv'
    BY <2>1, NextLock, NextApart
  <2>3. CalmInv'
    BY NextCalm
  <2>4. QED
    BY <2>1, <2>2, <2>3 DEF IInv
<1>3. QED
  BY <1>1, <1>2, PTL DEF Spec

\* All variables keep their types: paths lead to files that exist, stored secrets are encrypted.
THEOREM TypeCorrect == Spec => []TypeOK
<1>1. IInv => TypeOK
  BY FormsTypes DEF IInv, ApartInv
<1>2. QED
  BY <1>1, Invariance, PTL

(***************************************************************************)
(* As long as no save, reset or update overlaps another operation that     *)
(* writes the table, no line is torn and each has the password and the     *)
(* token of its own user: overlapping signups, whoever reads and crashes   *)
(* between the columns of a record mix nothing (User.java:193-226).        *)
(***************************************************************************)
THEOREM SecretsStayWithTheirUsers == Spec => []OwnRecords
<1>1. IInv => OwnRecords
  BY FormsOwn DEF IInv
<1>2. QED
  BY <1>1, Invariance, PTL

\* Between two requests of a calm history the table has the expected records, each once.
LEMMA CalmIsExact == IInv => CalmTable
<1> SUFFICES ASSUME IInv, Calm, \A r \in Request : pc[r] = "idle"
             PROVE  /\ table # NoFile /\ bak = NoFile
                    /\ {disk[table].lines[i] : i \in DOMAIN disk[table].lines} = known
                    /\ Len(disk[table].lines) = Cardinality(known)
  BY DEF CalmTable
<1>1. Busy = {}
  BY DEF Busy
<1>2. Holds(table, known) /\ bak = NoFile
  BY <1>1 DEF IInv, CalmInv
<1>3. table # NoFile /\ Exact(disk[table].lines, known)
  BY <1>2 DEF Holds
<1>4. disk[table].lines \in Seq(Line)
  BY <1>3, Paths, Contents DEF IInv
<1>5. QED
  BY <1>2, <1>3, <1>4, ExactLength

(***************************************************************************)
(* Requests that come one after the other do what they should: signup adds *)
(* one record, save, reset and update change the user's, and no backup is  *)
(* left behind.                                                            *)
(***************************************************************************)
THEOREM TheTableIsExact == Spec => []CalmTable
<1>1. QED
  BY CalmIsExact, Invariance, PTL

\* A request that has the table for itself ends without an exception: no lock, no blank line.
THEOREM RequestsSucceed == Spec => []CalmRequestsSucceed
<1>1. IInv => CalmRequestsSucceed
  BY DEF IInv, CalmInv, CalmRequestsSucceed
<1>2. QED
  BY <1>1, Invariance, PTL

\* A file with the expected records has all users.
LEMMA HoldsAll ==
  ASSUME NEW f, Holds(f, known), known \subseteq OwnRecord
  PROVE  Complete(f)
BY ExactHas DEF Holds, Complete

\* So does a table to which a signup has begun to append.
LEMMA BegunHasAll ==
  ASSUME JobsInv, NEW r \in Request, pc[r] = "write", Begun(r), table # NoFile, known \subseteq OwnRecord
  PROVE  Complete(table)
<1>1. PICK old \in Seq(Line) :
        /\ Exact(old, known)
        /\ job[r].written = 0 => disk[table].lines = old
        /\ job[r].written > 0 => disk[table].lines = Append(old, Prefix(r, job[r].written))
  BY DEF Begun
<1> DEFINE l == Prefix(r, job[r].written)
           lines == disk[table].lines
<1>2. l \in Line /\ l # Torn /\ job[r].written \in 0 .. 6
  BY JobOf, PrefixFacts DEF Job
<1> HIDE DEF l, lines
<1>3. Extends(Append(old, l), old)
  BY <1>2, ExtendsByOne
<1>4. Extends(lines, old)
  BY <1>1, <1>2, <1>3 DEF Extends, l, lines
<1>5. \A u \in Users(known) : Has(lines, u)
  BY <1>1, <1>4, ExactHas, ExtendsHas
<1>6. QED
  BY <1>5 DEF Complete, lines

\* At each place of ReadAndWrite.write the table or the backup has all users.
LEMMA CalmIsRecoverable == IInv => SaveIsRecoverable
<1> SUFFICES ASSUME IInv, Calm,
                    \A r \in Request : pc[r] # "idle" => job[r].kind \in {"login", "read", "signup", "save"}
             PROVE  Complete(table) \/ Complete(bak)
  BY DEF SaveIsRecoverable
<1>1. known \subseteq OwnRecord /\ CalmInv /\ JobsInv
  BY DEF IInv, CalmInv
<1>2. CASE Busy = {}
  BY <1>1, <1>2, HoldsAll DEF CalmInv
<1>3. CASE \E r \in Request : pc[r] # "idle"
  <2>1. PICK r \in Request : pc[r] # "idle"
    BY <1>3
  <2>2. AtPlace(r)
    BY <1>1, <2>1, Alone
  <2>3. pc[r] # "overwrite"
    BY <1>1, <2>1 DEF JobsInv
  <2>4. CASE pc[r] # "write"
    <3>1. Holds(table, known) \/ Holds(bak, known)
      BY <2>2, <2>3, <2>4 DEF AtPlace
    <3>2. QED
      BY <1>1, <3>1, HoldsAll
  <2>5. CASE pc[r] = "write"
    BY <1>1, <2>1, <2>2, <2>5, BegunHasAll DEF AtPlace
  <2>6. QED
    BY <2>4, <2>5
<1>4. QED
  BY <1>2, <1>3 DEF Busy

(***************************************************************************)
(* If the server stops in the middle of a ReadAndWrite.write that has the  *)
(* table for itself, the table or its backup has all users.                *)
(***************************************************************************)
THEOREM SavesAreRecoverable == Spec => []SaveIsRecoverable
<1>1. QED
  BY CalmIsRecoverable, Invariance, PTL

-----------------------------------------------------------------------------
(* What is lost, and what is not, when requests overlap *)

\* Nothing that rewrites the table is or has been under way, and everybody is in it.
NobodyLost ==
  /\ apart
  /\ \A r \in Request : pc[r] \in {"idle", "open", "scan", "append", "newline", "write"}
  /\ table # NoFile
  /\ \A i \in DOMAIN InitialUsers : Has(disk[table].lines, InitialUsers[i])

\* A step of login, read or signup changes the table only by adding to it.
LEMMA StepLosesNobody ==
  ASSUME FilesInv, JobsInv, ApartInv, NobodyLost, NEW r \in Request, Step(r)
  PROVE  NobodyLost'
<1>1. pc \in [Request -> States] /\ pc[r] \in {"idle", "open", "scan", "append", "newline", "write"}
  BY DEF JobsInv, NobodyLost
<1>2. Open(r) \/ Scan(r) \/ OpenToAppend(r) \/ AppendNewline(r) \/ AppendColumn(r) \/ AppendToken(r)
  BY <1>1 DEF Step, Copy, LockBak, ReadLines, Delete, Create, Fill, DeleteBak, ReadTable, Truncate,
              Overwrite, OpenAndLock, Goto
<1>3. CASE Open(r) \/ Scan(r) \/ OpenToAppend(r)
  <2>1. /\ UNCHANGED <<disk, table, apart>>
        /\ \E to \in {"idle", "scan", "append", "newline"} : pc' = [pc EXCEPT ![r] = to]
    BY <1>3, Zenon DEF Open, Scan, OpenToAppend, OpenAndLock, Throws, End, Goto, files
  <2>2. QED
    BY <1>1, <2>1 DEF NobodyLost
<1>4. CASE AppendNewline(r) \/ AppendColumn(r) \/ AppendToken(r)
  <2>1. /\ fd[r] \in 1 .. Len(disk)
        /\ \A i \in 1 .. Len(disk) : i # fd[r] => disk'[i] = disk[i]
        /\ Extends(disk'[fd[r]].lines, disk[fd[r]].lines)
    <3>1. CASE AppendNewline(r)
      BY <3>1, NewlineLines
    <3>2. CASE AppendColumn(r) \/ AppendToken(r)
      <4>1. pc[r] = "write"
        BY <3>2, ColumnDisk
      <4>2. Continues(r)
        BY <4>1 DEF ApartInv, Undisturbed, NobodyLost
      <4>3. QED
        BY <3>2, <4>2, ColumnDisk, ColumnLines
    <3>3. QED
      BY <1>4, <3>1, <3>2
  <2>2. /\ UNCHANGED <<table, apart>>
        /\ \E to \in {"idle", "write"} : pc' = [pc EXCEPT ![r] = to]
    <3>1. CASE AppendNewline(r) \/ AppendToken(r)
      BY <3>1, Zenon DEF AppendNewline, AppendToken, End, Goto
    <3>2. CASE AppendColumn(r)
      <4>1. UNCHANGED <<table, apart, pc>> /\ pc[r] = "write"
        BY <3>2 DEF AppendColumn
      <4>2. pc' = [pc EXCEPT ![r] = "write"]
        BY <1>1, <4>1
      <4>3. QED
        BY <4>1, <4>2
    <3>3. QED
      BY <1>4, <3>1, <3>2
  <2>3. ASSUME NEW i \in DOMAIN InitialUsers PROVE Has(disk'[table].lines, InitialUsers[i])
    <3>1. Has(disk[table].lines, InitialUsers[i]) /\ table \in 1 .. Len(disk)
      BY Paths DEF NobodyLost
    <3>2. CASE table = fd[r]
      BY <2>1, <3>1, <3>2, ExtendsHas
    <3>3. CASE table # fd[r]
      BY <2>1, <3>1, <3>3
    <3>4. QED
      BY <3>2, <3>3
  <2>4. QED
    BY <1>1, <2>2, <2>3 DEF NobodyLost
<1>5. QED
  BY <1>2, <1>3, <1>4

\* Everybody is in the table at the start.
LEMMA InitiallyNobodyLost == Init => NobodyLost
<1> SUFFICES ASSUME Init PROVE NobodyLost
  OBVIOUS
<1>1. PICK v \in Version, eol \in BOOLEAN :
        disk = << File([i \in DOMAIN InitialUsers |-> InitialLine(i, v)], eol) >>
  BY InitialFile, Zenon
<1>2. disk[1].lines = [i \in DOMAIN InitialUsers |-> InitialLine(i, v)]
  BY <1>1 DEF File
<1>3. \A i \in DOMAIN InitialUsers :
        InitialLine(i, v) \in OwnRecord /\ InitialLine(i, v).user = InitialUsers[i]
  BY InitialLines
<1>4. \A i \in DOMAIN InitialUsers : Has(disk[1].lines, InitialUsers[i])
  BY <1>2, <1>3, RecordFacts DEF Has, Of
<1>5. table = 1 /\ apart = TRUE /\ \A r \in Request : pc[r] = "idle"
  BY DEF Init
<1>6. QED
  BY <1>4, <1>5 DEF NobodyLost, NoFile

(***************************************************************************)
(* login, read and signup lose nobody, however they overlap and wherever   *)
(* the server crashes; it takes ReadAndWrite.write, resetPassword or       *)
(* updateUserInformation to lose a user.                                   *)
(***************************************************************************)
THEOREM LostByRewritingOnly == Spec => []AppendsLoseNobody
<1> DEFINE Inv == Kind \cap {"save", "reset", "update"} = {} => NobodyLost
<1>1. Init => Inv
  BY InitiallyNobodyLost
<1>2. FilesInv /\ JobsInv /\ ApartInv /\ Inv /\ [Next]_vars => Inv'
  <2> SUFFICES ASSUME FilesInv, JobsInv, ApartInv, NobodyLost, Kind \cap {"save", "reset", "update"} = {},
                      [Next]_vars
               PROVE  NobodyLost'
    OBVIOUS
  <2>1. ASSUME NEW r \in Request, Receive(r) PROVE NobodyLost'
    <3>1. UNCHANGED <<disk, table>> /\ \E k \in Kind : pc' = [pc EXCEPT ![r] = FirstStep(k)]
      BY <2>1, Zenon DEF Receive, files
    <3>2. \A k \in Kind : FirstStep(k) = "open" /\ k \notin Rewriters
      BY RequestAssumption DEF FirstStep, Rewriters
    <3>3. \A q \in Request : pc[q] # "idle" => job[q].kind \notin Rewriters
      BY DEF NobodyLost, JobsInv, Rewriters
    <3>4. \A k \in Kind : \A q \in Request : pc[q] # "idle" => ~Clash(k, job[q].kind)
      BY <3>2, <3>3 DEF Clash
    <3>5. apart'
      BY <2>1, <3>4 DEF Receive, NobodyLost
    <3>6. QED
      BY <3>1, <3>2, <3>5 DEF NobodyLost, JobsInv
  <2>2. ASSUME NEW r \in Request, Step(r) PROVE NobodyLost'
    BY <2>2, StepLosesNobody
  <2>3. CASE Crash
    BY <2>3 DEF Crash, NobodyLost, files
  <2>4. CASE UNCHANGED vars
    BY <2>4 DEF vars, NobodyLost, files
  <2>5. QED
    BY <2>1, <2>2, <2>3, <2>4 DEF Next
<1>3. IInv => FilesInv /\ JobsInv /\ ApartInv
  BY DEF IInv
<1>4. Inv => AppendsLoseNobody
  BY DEF AppendsLoseNobody, NobodyLost
<1> HIDE DEF Inv
<1>5. QED
  BY <1>1, <1>2, <1>3, <1>4, Invariance, PTL DEF Spec

=============================================================================
