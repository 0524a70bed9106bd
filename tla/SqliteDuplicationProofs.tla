------------------------ MODULE SqliteDuplicationProofs ------------------------
(***************************************************************************)
(* Proofs about SqliteDuplication, for any number of writers, commits and      *)
(* files, when one process only duplicates the session (OneDuplicator).  With   *)
(* two of them an answer Ok does not stay true.                              *)
(***************************************************************************)
EXTENDS SqliteDuplication, SequenceTheorems, TLAPS

OneDuplicator == \A p, q \in Duplicator : p = q

Steps == {"none"} \cup Unpublished \cup Published
HasFile == {"identity", "validate", "publish"}

Jobs == [step : Steps, loaded : Nat, file : Nat]
Answers == [kind : {"none", "ok", "error", "uncleaned", "died"}, version : Nat]

File == [version : Nat, own : BOOLEAN]

DuplicationType ==
    /\ version \in Nat
    /\ dir \in BOOLEAN
    /\ files \in Seq(File)
    /\ tmp \in {NoFile} \cup 1..Len(files) /\ db \in {NoFile} \cup 1..Len(files)
    /\ job \in [Process -> Jobs] /\ told \in [Process -> Answers]

(* The names are in the directory, and those of two files. *)
NamesInv ==
    /\ ~dir => tmp = NoFile /\ db = NoFile
    /\ tmp # NoFile => tmp # db
    /\ \A p \in Process \ Duplicator : At(p, "none") /\ told[p].kind = "none"
    /\ dir => Duplicator # {}

(* How far a duplication has come. *)
JobInv(p) ==
    /\ job[p].step \in Unpublished => db = NoFile
    /\ job[p].step \in HasFile => tmp # NoFile /\ job[p].file = tmp
    /\ At(p, "publish") => files[tmp] = [version |-> job[p].loaded, own |-> TRUE]
    /\ job[p].step \in Published =>
          db # NoFile /\ files[db] = [version |-> job[p].loaded, own |-> TRUE]

(* What remains of the duplications that ended. *)
EndInv(p) ==
    /\ told[p].kind = "ok" => db # NoFile /\ files[db] = [version |-> told[p].version, own |-> TRUE]
    /\ At(p, "none") /\ dir /\ db = NoFile => told[p].kind \in {"uncleaned", "died"}

DupInv ==
    /\ DuplicationType /\ NamesInv
    /\ db # NoFile => files[db].own
    /\ \A p \in Duplicator : JobInv(p) /\ EndInv(p)

(* The initial states satisfy the invariant. *)
LEMMA InitInv == Init => DupInv
<1> SUFFICES ASSUME Init PROVE DupInv
    OBVIOUS
<1> USE DuplicationAssumption
<1>1. NoJob \in Jobs /\ [kind |-> "none", version |-> 0] \in Answers
    BY DEF NoJob, Jobs, Answers, Steps
<1>2. job \in [Process -> Jobs] /\ told \in [Process -> Answers]
    BY <1>1 DEF Init
<1>3. DuplicationType
  <2>1. <<>> \in Seq(File)
    OBVIOUS
  <2> QED
    BY <1>2, <2>1 DEF Init, DuplicationType, NoFile
<1>4. \A p \in Process : job[p] = NoJob /\ told[p].kind = "none"
    BY DEF Init
<1>5. NamesInv
    BY <1>4 DEF Init, NamesInv, At, NoJob
<1>6. \A p \in Duplicator : JobInv(p) /\ EndInv(p)
    BY <1>4 DEF Init, JobInv, EndInv, At, NoJob, Unpublished, Published, HasFile
<1> QED
    BY <1>3, <1>5, <1>6 DEF Init, DupInv

(* A call that goes on keeps the type of job, and only its own job changes. *)
LEMMA GoesOn ==
    ASSUME job \in [Process -> Jobs], NEW p \in Process, NEW s \in Steps, Goto(p, s)
    PROVE  /\ job' \in [Process -> Jobs]
           /\ job'[p] = [job[p] EXCEPT !.step = s]
           /\ \A q \in Process \ {p} : job'[q] = job[q]
BY DEF Goto, Jobs

(* The same of a call that ends. *)
LEMMA CallEnds ==
    ASSUME job \in [Process -> Jobs], told \in [Process -> Answers], NEW p \in Process,
           NEW k \in {"ok", "error", "uncleaned", "died"}, NEW v \in Nat, EndJob(p, k, v)
    PROVE  /\ job' \in [Process -> Jobs] /\ told' \in [Process -> Answers]
           /\ job'[p] = NoJob /\ told'[p] = [kind |-> k, version |-> v]
           /\ \A q \in Process \ {p} : job'[q] = job[q] /\ told'[q] = told[q]
<1>1. NoJob \in Jobs
    BY DEF NoJob, Jobs, Steps
<1>2. [kind |-> k, version |-> v] \in Answers
    BY DEF Answers
<1> QED
    BY <1>1, <1>2 DEF EndJob

(* A call that ends unsuccessfully with the guard armed leaves either nothing or
   its files, and says so. *)
LEMMA ArmedStep ==
    ASSUME DupInv, OneDuplicator, NEW p \in Duplicator, job[p].step \in Unpublished,
           UNCHANGED source, ReturnErrorArmed(p)
    PROVE  DupInv'
<1> USE DuplicationAssumption
<1>0. p \in Process /\ db = NoFile /\ UNCHANGED files
    BY DEF DupInv, JobInv, ReturnErrorArmed
<1>1. \E k \in {"error", "uncleaned"} : EndJob(p, k, 0) /\ (k = "error" => ~dir')
    BY DEF ReturnErrorArmed, RemoveDirectory
<1>2. /\ db' = NoFile /\ (tmp' = NoFile \/ tmp' = tmp)
      /\ (dir' = FALSE /\ tmp' = NoFile) \/ dir' = dir
    BY <1>0 DEF ReturnErrorArmed, RemoveDirectory
<1>9. PICK k \in {"error", "uncleaned"} : EndJob(p, k, 0) /\ (k = "error" => ~dir')
    BY <1>1
<1>8. job \in [Process -> Jobs] /\ told \in [Process -> Answers]
    BY DEF DupInv, DuplicationType
<1>7. /\ job' \in [Process -> Jobs] /\ told' \in [Process -> Answers]
      /\ job'[p] = NoJob /\ told'[p] = [kind |-> k, version |-> 0]
      /\ \A q \in Process \ {p} : job'[q] = job[q] /\ told'[q] = told[q]
    BY <1>0, <1>8, <1>9, CallEnds
<1>3. DuplicationType'
    BY <1>0, <1>2, <1>7 DEF DupInv, DuplicationType, source
<1>4. /\ job'[p] = NoJob /\ \A q \in Process \ {p} : job'[q] = job[q] /\ told'[q] = told[q]
      /\ told'[p].kind \in {"error", "uncleaned"}
      /\ told'[p].kind = "error" => ~dir'
    BY <1>7, <1>9
<1>5. NamesInv'
    BY <1>0, <1>2, <1>4 DEF DupInv, NamesInv, At
<1>6. \A q \in Duplicator : JobInv(q)' /\ EndInv(q)'
    BY <1>0, <1>2, <1>4
    DEF OneDuplicator, JobInv, EndInv, At, NoJob, Unpublished, Published, HasFile
<1> QED
    BY <1>2, <1>3, <1>5, <1>6 DEF DupInv

(* A call that ends after it has published leaves what it has published. *)
LEMMA PublishedEnd ==
    ASSUME DupInv, OneDuplicator, NEW p \in Duplicator, job[p].step \in Published,
           UNCHANGED <<source, destination>>, NEW k \in {"ok", "error"}, NEW v \in Nat,
           EndJob(p, k, v), k = "ok" => v = job[p].loaded
    PROVE  DupInv'
<1> USE DuplicationAssumption
<1>0. /\ p \in Process /\ db # NoFile
      /\ files[db] = [version |-> job[p].loaded, own |-> TRUE]
      /\ UNCHANGED <<version, dir, tmp, db, files>>
    BY DEF DupInv, JobInv, source, destination
<1>8. job \in [Process -> Jobs] /\ told \in [Process -> Answers]
    BY DEF DupInv, DuplicationType
<1>7. /\ job' \in [Process -> Jobs] /\ told' \in [Process -> Answers]
      /\ job'[p] = NoJob /\ told'[p] = [kind |-> k, version |-> v]
      /\ \A q \in Process \ {p} : job'[q] = job[q] /\ told'[q] = told[q]
    BY <1>0, <1>8, CallEnds
<1>1. DuplicationType'
    BY <1>0, <1>7 DEF DupInv, DuplicationType
<1>2. /\ job'[p] = NoJob /\ \A q \in Process \ {p} : job'[q] = job[q] /\ told'[q] = told[q]
      /\ told'[p].kind = k /\ told'[p].version = v
    BY <1>7
<1>3. NamesInv'
    BY <1>0, <1>2 DEF DupInv, NamesInv, At
<1>4. \A q \in Duplicator : q = p
    BY DEF OneDuplicator
<1>5. JobInv(p)'
    BY <1>2 DEF JobInv, At, NoJob, Unpublished, Published, HasFile
<1>6. EndInv(p)'
  <2>1. db' # NoFile /\ files'[db'] = [version |-> job[p].loaded, own |-> TRUE]
    BY <1>0
  <2>2. told'[p].kind = "ok" => told'[p].version = job[p].loaded
    BY <1>2
  <2> QED
    BY <2>1, <2>2 DEF EndInv
<1>9. db' # NoFile => files'[db'].own
    BY <1>0
<1> QED
    BY <1>1, <1>3, <1>4, <1>5, <1>6, <1>9 DEF DupInv

(* A step of the call that is not its last one *)
LEMMA CallStep ==
    ASSUME DupInv, OneDuplicator, NEW p \in Duplicator, Duplicate(p)
    PROVE  DupInv'
<1> USE DuplicationAssumption
<1>0. /\ p \in Process /\ DuplicationType /\ NamesInv /\ JobInv(p) /\ EndInv(p)
      /\ \A q \in Duplicator : q = p
      /\ job[p] \in Jobs
    BY DEF DupInv, OneDuplicator, DuplicationType
<1>1. ASSUME Start(p) PROVE DupInv'
  <2>1. /\ job'[p] = [step |-> "create", loaded |-> version, file |-> NoFile]
        /\ \A q \in Process \ {p} : job'[q] = job[q]
        /\ UNCHANGED <<version, dir, tmp, db, files, told>> /\ ~dir
    BY <1>0, <1>1 DEF Start, source, destination, DuplicationType
  <2>2. DuplicationType'
    <3>1. [step |-> "create", loaded |-> version, file |-> NoFile] \in Jobs
        BY <1>0 DEF DuplicationType, Jobs, Steps, Unpublished, NoFile
    <3>2. job' \in [Process -> Jobs]
        BY <1>0, <1>1, <3>1 DEF Start, DuplicationType
    <3> QED
        BY <1>0, <2>1, <3>2 DEF DuplicationType
  <2>3. NamesInv'
    BY <1>0, <2>1 DEF NamesInv, At
  <2>4. JobInv(p)' /\ EndInv(p)'
    BY <1>0, <2>1 DEF JobInv, EndInv, NamesInv, At, Unpublished, Published, HasFile
  <2> QED
    BY <1>0, <2>1, <2>2, <2>3, <2>4 DEF DupInv
<1>2. ASSUME CreateDirectory(p) PROVE DupInv'
  <2>0. job' \in [Process -> Jobs]
    BY <1>0, <1>2, GoesOn DEF CreateDirectory, DuplicationType, Steps, Unpublished, Published
  <2>1. /\ job'[p] = [job[p] EXCEPT !.step = "revalidate"] /\ At(p, "create")
        /\ \A q \in Process \ {p} : job'[q] = job[q]
        /\ UNCHANGED <<version, tmp, db, files, told>> /\ dir' = TRUE
    BY <1>0, <1>2 DEF CreateDirectory, Goto, source, DuplicationType
  <2>2. DuplicationType'
    BY <1>0, <2>0, <2>1 DEF DuplicationType
  <2>3. NamesInv'
    BY <1>0, <2>1 DEF NamesInv, At
  <2>4. JobInv(p)' /\ EndInv(p)'
    BY <1>0, <2>1 DEF JobInv, EndInv, NamesInv, At, Unpublished, Published, HasFile
  <2> QED
    BY <1>0, <2>1, <2>2, <2>3, <2>4 DEF DupInv
<1>3. ASSUME Revalidate(p), owner = p PROVE DupInv'
  <2>0. job' \in [Process -> Jobs]
    BY <1>0, <1>3, GoesOn DEF Revalidate, DuplicationType, Steps, Unpublished, Published
  <2>1. /\ job'[p] = [job[p] EXCEPT !.step = "copy"] /\ At(p, "revalidate")
        /\ \A q \in Process \ {p} : job'[q] = job[q]
        /\ UNCHANGED <<version, dir, tmp, db, files, told>>
    BY <1>0, <1>3 DEF Revalidate, Goto, source, destination, DuplicationType
  <2>2. DuplicationType'
    BY <1>0, <2>0, <2>1 DEF DuplicationType
  <2>3. NamesInv'
    BY <1>0, <2>1 DEF NamesInv, At
  <2>4. JobInv(p)' /\ EndInv(p)'
    BY <1>0, <2>1 DEF JobInv, EndInv, NamesInv, At, Unpublished, Published, HasFile
  <2> QED
    BY <1>0, <2>1, <2>2, <2>3, <2>4 DEF DupInv
<1>4. ASSUME Copy(p), dir PROVE DupInv'
  <2>1. /\ job'[p] = [job[p] EXCEPT !.step = "identity", !.file = tmp'] /\ At(p, "copy")
        /\ \A q \in Process \ {p} : job'[q] = job[q]
        /\ UNCHANGED <<version, dir, db, told>> /\ db = NoFile
    BY <1>0, <1>4 DEF Copy, source, destination, DuplicationType, JobInv, At, Unpublished
  <2>2. files' \in Seq(File)
        /\ tmp' \in 1..Len(files')
    <3>1. [version |-> version, own |-> FALSE] \in File
        BY <1>0 DEF DuplicationType, File
    <3>2. CASE tmp # NoFile
        <4>1. tmp \in 1..Len(files) /\ files \in Seq(File)
            BY <1>0, <3>2 DEF DuplicationType
        <4>2. tmp' = tmp /\ files' = [files EXCEPT ![tmp] = [version |-> version, own |-> FALSE]]
            BY <1>4, <3>2 DEF Copy
        <4> QED
            BY <3>1, <4>1, <4>2, ExceptSeq
    <3>3. CASE tmp = NoFile
        <4>1. tmp' = Len(files) + 1 /\ files' = Append(files, [version |-> version, own |-> FALSE])
            BY <1>4, <3>3 DEF Copy
        <4>2. files \in Seq(File)
            BY <1>0 DEF DuplicationType
        <4> QED
            BY <3>1, <4>1, <4>2, AppendProperties
    <3> QED
        BY <3>2, <3>3
  <2>3. job' \in [Process -> Jobs]
    <3>1. job' = [job EXCEPT ![p] = [job[p] EXCEPT !.step = "identity", !.file = tmp']]
        BY <1>4 DEF Copy
    <3>2. [job[p] EXCEPT !.step = "identity", !.file = tmp'] \in Jobs
        <4>1. tmp' \in Nat
            BY <1>0, <2>2, LenProperties DEF DuplicationType
        <4> QED
            BY <1>0, <4>1 DEF Jobs, Steps, Unpublished
    <3> QED
        BY <1>0, <3>1, <3>2 DEF DuplicationType
  <2>4. DuplicationType'
    BY <1>0, <2>1, <2>2, <2>3 DEF DuplicationType
  <2>5. NamesInv'
    BY <1>0, <1>4, <2>1, <2>2 DEF NamesInv, At, NoFile
  <2>6. JobInv(p)' /\ EndInv(p)'
    BY <1>0, <2>1, <2>2
    DEF JobInv, EndInv, NamesInv, At, Unpublished, Published, HasFile, NoFile
  <2> QED
    BY <1>0, <2>1, <2>4, <2>5, <2>6 DEF DupInv
<1>5. ASSUME ChangeIdentity(p) PROVE DupInv'
  <2>0. job' \in [Process -> Jobs]
    BY <1>0, <1>5, GoesOn DEF ChangeIdentity, DuplicationType, Steps, Unpublished, Published
  <2>1. /\ job'[p] = [job[p] EXCEPT !.step = "validate"] /\ At(p, "identity")
        /\ \A q \in Process \ {p} : job'[q] = job[q]
        /\ UNCHANGED <<version, dir, tmp, db, told>> /\ db = NoFile
    BY <1>0, <1>5
    DEF ChangeIdentity, Goto, source, DuplicationType, JobInv, At, Unpublished
  <2>2. files' \in Seq(File) /\ Len(files') = Len(files)
    <3>1. job[p].file = tmp /\ tmp \in 1..Len(files)
        BY <1>0, <2>1 DEF JobInv, DuplicationType, At, HasFile
    <3>2. files[tmp] \in File
        BY <1>0, <3>1, ElementOfSeq DEF DuplicationType
    <3>3. [files[tmp] EXCEPT !.own = TRUE] \in File
        BY <3>2 DEF File
    <3>4. files' = [files EXCEPT ![tmp] = [files[tmp] EXCEPT !.own = TRUE]]
        BY <1>5, <3>1 DEF ChangeIdentity
    <3> QED
        BY <1>0, <3>1, <3>3, <3>4, ExceptSeq DEF DuplicationType
  <2>3. DuplicationType'
    BY <1>0, <2>0, <2>1, <2>2 DEF DuplicationType
  <2>4. NamesInv'
    BY <1>0, <2>1 DEF NamesInv, At
  <2>5. JobInv(p)' /\ EndInv(p)'
    BY <1>0, <2>1 DEF JobInv, EndInv, NamesInv, At, Unpublished, Published, HasFile
  <2> QED
    BY <1>0, <2>1, <2>3, <2>4, <2>5 DEF DupInv
<1>6. ASSUME Validate(p), files[job[p].file] = [version |-> job[p].loaded, own |-> TRUE]
      PROVE  DupInv'
  <2>0. job' \in [Process -> Jobs]
    BY <1>0, <1>6, GoesOn DEF Validate, DuplicationType, Steps, Unpublished, Published
  <2>1. /\ job'[p] = [job[p] EXCEPT !.step = "publish"] /\ At(p, "validate")
        /\ \A q \in Process \ {p} : job'[q] = job[q]
        /\ UNCHANGED <<version, dir, tmp, db, files, told>>
    BY <1>0, <1>6 DEF Validate, Goto, source, destination, DuplicationType
  <2>2. DuplicationType'
    BY <1>0, <2>0, <2>1 DEF DuplicationType
  <2>3. NamesInv'
    BY <1>0, <2>1 DEF NamesInv, At
  <2>4. JobInv(p)' /\ EndInv(p)'
    BY <1>0, <1>6, <2>1 DEF JobInv, EndInv, NamesInv, At, Unpublished, Published, HasFile
  <2> QED
    BY <1>0, <2>1, <2>2, <2>3, <2>4 DEF DupInv
<1>7. ASSUME Publish(p), tmp # NoFile PROVE DupInv'
  <2>0. job' \in [Process -> Jobs]
    BY <1>0, <1>7, GoesOn DEF Publish, DuplicationType, Steps, Unpublished, Published
  <2>1. /\ job'[p] = [job[p] EXCEPT !.step = "verify"] /\ At(p, "publish")
        /\ \A q \in Process \ {p} : job'[q] = job[q]
        /\ db' = tmp /\ tmp' = NoFile
        /\ UNCHANGED <<version, dir, files, told>> /\ db = NoFile
    BY <1>0, <1>7
    DEF Publish, Goto, source, destination, DuplicationType, JobInv, At, Unpublished
  <2>2. DuplicationType'
    BY <1>0, <2>0, <2>1 DEF DuplicationType
  <2>3. files[tmp] = [version |-> job[p].loaded, own |-> TRUE]
    BY <1>0, <2>1 DEF JobInv
  <2>4. NamesInv'
    BY <1>0, <2>1 DEF NamesInv, At
  <2>5. JobInv(p)' /\ EndInv(p)'
    BY <1>0, <1>7, <2>1, <2>3
    DEF JobInv, EndInv, NamesInv, At, Unpublished, Published, HasFile
  <2> QED
    BY <1>0, <2>1, <2>2, <2>3, <2>4, <2>5 DEF DupInv
<1>8. ASSUME VerifyPublished(p), db # NoFile /\ files[db].own PROVE DupInv'
  <2>0. job' \in [Process -> Jobs]
    BY <1>0, <1>8, GoesOn DEF VerifyPublished, DuplicationType, Steps, Unpublished, Published
  <2>1. /\ job'[p] = [job[p] EXCEPT !.step = "source"] /\ At(p, "verify")
        /\ \A q \in Process \ {p} : job'[q] = job[q]
        /\ UNCHANGED <<version, dir, tmp, db, files, told>>
    BY <1>0, <1>8 DEF VerifyPublished, Goto, source, destination, DuplicationType
  <2>2. DuplicationType'
    BY <1>0, <2>0, <2>1 DEF DuplicationType
  <2>3. NamesInv'
    BY <1>0, <2>1 DEF NamesInv, At
  <2>4. JobInv(p)' /\ EndInv(p)'
    BY <1>0, <2>1 DEF JobInv, EndInv, NamesInv, At, Unpublished, Published, HasFile
  <2> QED
    BY <1>0, <1>8, <2>1, <2>2, <2>3, <2>4 DEF DupInv
<1>9. ASSUME UNCHANGED source, job[p].step \in Unpublished, ReturnErrorArmed(p) PROVE DupInv'
    BY <1>9, ArmedStep
<1>10. ASSUME UNCHANGED source, job[p].step \in Published, ReturnErrorDisarmed(p) PROVE DupInv'
    BY <1>10, PublishedEnd DEF ReturnErrorDisarmed
<1>11. ASSUME VerifySource(p) PROVE DupInv'
  <2>1. job[p].step \in Published /\ UNCHANGED <<source, destination>> /\ job[p].loaded \in Nat
    BY <1>0, <1>11 DEF VerifySource, At, Published, Jobs
  <2>2. CASE EndJob(p, "ok", job[p].loaded)
    BY <2>1, <2>2, PublishedEnd
  <2>3. CASE EndJob(p, "error", 0)
    BY <2>1, <2>3, PublishedEnd
  <2> QED
    BY <1>11, <2>2, <2>3 DEF VerifySource
<1> QED
    BY <1>1, <1>2, <1>3, <1>4, <1>5, <1>6, <1>7, <1>8, <1>9, <1>10, <1>11
    DEF Duplicate, Revalidate, Copy, Validate, Publish, VerifyPublished, DuplicateFails, At,
        Unpublished, Published

(* A process that dies leaves its files, and is remembered to have died. *)
LEMMA DeathStep ==
    ASSUME DupInv, OneDuplicator, NEW p \in Duplicator, Dies(p)
    PROVE  DupInv'
<1> USE DuplicationAssumption
<1>0. /\ p \in Process /\ DuplicationType /\ NamesInv /\ JobInv(p) /\ EndInv(p)
      /\ \A q \in Duplicator : q = p
      /\ UNCHANGED <<version, dir, tmp, db, files>>
    BY DEF DupInv, OneDuplicator, Dies, destination
<1>1. /\ job'[p] = NoJob /\ \A q \in Process \ {p} : job'[q] = job[q] /\ told'[q] = told[q]
      /\ told'[p].kind = "died" /\ job' \in [Process -> Jobs] /\ told' \in [Process -> Answers]
  <2>1. EndJob(p, "died", 0) /\ job \in [Process -> Jobs] /\ told \in [Process -> Answers]
    BY <1>0 DEF Dies, DuplicationType
  <2>2. told'[p] = [kind |-> "died", version |-> 0] /\ job'[p] = NoJob
    BY <1>0, <2>1, CallEnds
  <2>3. job' \in [Process -> Jobs] /\ told' \in [Process -> Answers]
    BY <1>0, <2>1, CallEnds
  <2>4. \A q \in Process \ {p} : job'[q] = job[q] /\ told'[q] = told[q]
    BY <1>0, <2>1, CallEnds
  <2> QED
    BY <2>2, <2>3, <2>4
<1>2. DuplicationType'
    BY <1>0, <1>1 DEF DuplicationType
<1>3. NamesInv'
    BY <1>0, <1>1 DEF NamesInv, At
<1>4. JobInv(p)' /\ EndInv(p)'
    BY <1>0, <1>1 DEF JobInv, EndInv, At, NoJob, Unpublished, Published, HasFile
<1> QED
    BY <1>0, <1>2, <1>3, <1>4 DEF DupInv

(* The writers of the source touch neither the destination nor a duplication. *)
LEMMA SourceStep ==
    ASSUME DupInv, UNCHANGED <<destination, job, told>>, version' \in Nat
    PROVE  DupInv'
BY DEF DupInv, destination, DuplicationType, NamesInv, JobInv, EndInv, At

(* The invariant is inductive when one process duplicates. *)
LEMMA Step ==
    ASSUME OneDuplicator, DupInv, [Next]_vars
    PROVE  DupInv'
<1>1. ASSUME \E p \in Process : Acquire(p) PROVE DupInv'
    BY <1>1, SourceStep DEF Acquire, DupInv, DuplicationType
<1>2. ASSUME LeaseExpires \/ SourceCommits PROVE DupInv'
    BY <1>2, SourceStep DEF LeaseExpires, SourceCommits, DupInv, DuplicationType
<1>3. CASE UNCHANGED vars
    BY <1>3, SourceStep DEF vars, source, DupInv, DuplicationType
<1> QED
    BY <1>1, <1>2, <1>3, CallStep, DeathStep DEF Next

(* The invariant holds of every reachable state. *)
THEOREM Invariance == ASSUME OneDuplicator PROVE Spec => []DupInv
<1>1. DupInv /\ [Next]_vars => DupInv'
    BY Step
<1> QED
    BY InitInv, <1>1, PTL DEF Spec

(* What is published is whole, and is what its duplication loaded. *)
THEOREM PublicationIsSound == ASSUME OneDuplicator PROVE Spec => []PublishedIsSound
<1>1. ASSUME DupInv PROVE PublishedIsSound
  <2>1. \A p \in Process : job[p].step \in Published => p \in Duplicator
    BY <1>1 DEF DupInv, NamesInv, At, Published
  <2>2. ASSUME db # NoFile, NEW p \in Process, job[p].step \in Published
        PROVE  files[db].version = job[p].loaded
    <3>1. JobInv(p)
        BY <1>1, <2>1, <2>2 DEF DupInv
    <3>2. files[db] = [version |-> job[p].loaded, own |-> TRUE]
        BY <2>2, <3>1 DEF JobInv
    <3> QED
        BY <3>2
  <2>3. db # NoFile => files[db].own
    BY <1>1, Zenon DEF DupInv
  <2>4. db # NoFile =>
            \A p \in Process : job[p].step \in Published => files[db].version = job[p].loaded
    BY <2>2
  <2> QED
    BY <2>3, <2>4, Zenon DEF PublishedIsSound
<1> QED
    BY Invariance, <1>1, PTL

(* A duplicate that was answered Ok stays as it was answered. *)
THEOREM DuplicateStays == ASSUME OneDuplicator PROVE Spec => []AnsweredDuplicateStays
<1>1. DupInv => AnsweredDuplicateStays
    BY DEF DupInv, NamesInv, EndInv, AnsweredDuplicateStays
<1> QED
    BY Invariance, <1>1, PTL

(* Only a call whose guard could not clean up leaves files behind. *)
THEOREM OthersCleanUp == ASSUME OneDuplicator PROVE Spec => []OnlyInterruptedCallsLeaveFiles
<1>1. DupInv => OnlyInterruptedCallsLeaveFiles
    BY DuplicationAssumption DEF DupInv, NamesInv, EndInv, OnlyInterruptedCallsLeaveFiles
<1> QED
    BY Invariance, <1>1, PTL
=============================================================================
