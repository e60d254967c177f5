-------------------------- MODULE ReleaseWorkflowProofs ------------------------
(***************************************************************************)
(* What the releases of ReleaseWorkflow are, for any runs, versions and    *)
(* commits and any number of builds.                                       *)
(***************************************************************************)
EXTENDS ReleaseWorkflow, TLAPS

Vouched == {"gate", "copy", "verify", "upload"}
AfterBuild == Checks \cup Vouched
ReleaseSteps == {"release", "release_queued", "release_failed", "succeeded"}

\* Of the runs of a ref one is in progress.
Alone == \A r, q \in Run :
    ref[r] = ref[q] /\ step[r] \in Running /\ step[q] \in Running => r = q

\* What a run has done by the step it is at.
Built == \A r \in Run :
    /\ digest[r] # None => digest[r][1] = r
    /\ IF step[r] = "none" THEN digest[r] = None ELSE builds # 0
    /\ step[r] \in AfterBuild => digest[r] # None
    /\ step[r] \in {"build"} \cup AfterBuild => (ref[r] \in Final => commit[r] \in Main)
Vetted == \A r \in Run :
    /\ step[r] \in {"pull", "sign"} \cup Vouched => <<"scan", digest[r]>> \in passed
    /\ step[r] \in {"sign"} \cup Vouched => <<"pull", digest[r]>> \in passed
    /\ step[r] \in Vouched => <<"sign", digest[r]>> \in passed

\* What its version tag is meanwhile.
Tagged == \A r \in Run :
    /\ step[r] = "copy" => tags[ref[r]] = None
    /\ step[r] \in {"verify", "upload"} => tags[ref[r]] = digest[r]
    /\ step[r] \in ReleaseSteps => artifact[r] # None /\ artifact[r] = tags[ref[r]]

\* What is published.
Published == \A f \in Ref :
    /\ \A file \in File : assets[f][file] \in {None, tags[f]}
    /\ tags[f] # None => /\ digest[tags[f][1]] # None
                         /\ \A c \in Checks : <<c, tags[f]>> \in passed
                         /\ f \in Final => commit[tags[f][1]] \in Main

IInv == TypeOK /\ Alone /\ Built /\ Vetted /\ Tagged /\ Published

\* What a step leaves of the other runs.
LEMMA GoElsewhere ==
    ASSUME TypeOK, NEW r \in Run, NEW from, NEW to \in Step, Go(r, from, to)
    PROVE  /\ step' \in [Run -> Step] /\ step[r] = from /\ step'[r] = to
           /\ \A q \in Run \ {r} : step'[q] = step[q]
BY DEF TypeOK, Go

\* Cancelling moves no run that is in progress.
LEMMA CancelElsewhere ==
    ASSUME TypeOK, NEW f, NEW r \in Run, NEW to \in Step, step' = [CancelPending(f) EXCEPT ![r] = to]
    PROVE  /\ step' \in [Run -> Step] /\ step'[r] = to
           /\ \A q \in Run \ {r} :
                  \/ step'[q] = step[q]
                  \/ step[q] = "publish_queued" /\ step'[q] = "publish_failed"
                  \/ step[q] = "release_queued" /\ step'[q] = "release_failed"
BY DEF TypeOK, CancelPending, Step, Ended, Queued

\* Writing assets leaves the other releases alone.
LEMMA AssetsElsewhere ==
    ASSUME TypeOK, NEW r \in Run, step[r] # "none", NEW files, NEW gone, assets' = Assets(r, files, gone)
    PROVE  /\ assets' \in [Ref -> [File -> Digest \cup {None}]]
           /\ \A f \in Ref, file \in File :
                  assets'[f][file] \in {None, assets[f][file]} \/ (f = ref[r] /\ assets'[f][file] = artifact[r])
<1> DEFINE some == [file \in File |-> IF file \in files THEN artifact[r]
                                      ELSE IF file \in gone THEN None ELSE assets[ref[r]][file]]
<1>1. /\ ref[r] \in Ref /\ artifact[r] \in Digest \cup {None}
      /\ assets[ref[r]] \in [File -> Digest \cup {None}]
  BY DEF TypeOK
<1>2. some \in [File -> Digest \cup {None}]
  BY <1>1
<1>3. assets' = [assets EXCEPT ![ref[r]] = some]
  BY DEF Assets
<1>4. \A file \in File : some[file] \in {artifact[r], None, assets[ref[r]][file]}
  OBVIOUS
<1> HIDE DEF some
<1>5. /\ assets' \in [Ref -> [File -> Digest \cup {None}]] /\ assets'[ref[r]] = some
      /\ \A f \in Ref \ {ref[r]} : assets'[f] = assets[f]
  BY <1>1, <1>2, <1>3 DEF TypeOK
<1>6. ASSUME NEW f \in Ref, NEW file \in File
      PROVE  assets'[f][file] \in {None, assets[f][file]} \/ (f = ref[r] /\ assets'[f][file] = artifact[r])
  <2>1. CASE f = ref[r]
    BY <1>4, <1>5, <2>1
  <2>2. CASE f # ref[r]
    BY <1>5, <2>2
  <2>3. QED
    BY <2>1, <2>2
<1>7. QED
  BY <1>5, <1>6

\* Of its group nobody else is in progress, so its checks stay true until it ends.
LEMMA StartKeeps == ASSUME IInv, NEW r \in Run, Start(r) PROVE IInv'
<1> USE DEF IInv
<1>1. /\ step' \in [Run -> Step]
      /\ \/ step[r] = "publish_queued" /\ step'[r] = "check"
         \/ step[r] = "release_queued" /\ step'[r] = "release"
      /\ \A q \in Run \ {r} : step'[q] = step[q]
      /\ \A q \in Run : ref[q] = ref[r] => step[q] \notin Running
  BY DEF Start, TypeOK, Queued, Step, Running, PublishSteps
<1>2. /\ ref' = ref /\ commit' = commit /\ digest' = digest /\ artifact' = artifact /\ tags' = tags
      /\ passed' = passed /\ public' = public /\ assets' = assets /\ builds' = builds /\ restarted' = restarted
  BY DEF Start, origin, outputs, published, history
<1>3. TypeOK'
  BY <1>1, <1>2, WorkflowAssumption DEF TypeOK, Built, Digest, AfterBuild, Vouched, Checks
<1>4. Alone'
  BY <1>1, <1>2 DEF TypeOK, Alone, Running, PublishSteps, Checks
<1>5. Built'
  BY <1>1, <1>2, <1>3, WorkflowAssumption DEF TypeOK, Built, Checks, Vouched, AfterBuild, Digest
<1>6. Vetted'
  BY <1>1, <1>2, <1>3 DEF TypeOK, Built, Vetted, Checks, Vouched, AfterBuild
<1>7. Tagged'
  BY <1>1, <1>2, <1>3, WorkflowAssumption DEF TypeOK, Alone, Built, Tagged, ReleaseSteps, AfterBuild, Vouched, Running, PublishSteps, Checks
<1>8. Published'
  BY <1>1, <1>2, <1>3, WorkflowAssumption DEF TypeOK, Built, Vetted, Tagged, Published, ReleaseSteps, AfterBuild, Vouched, Checks
<1>9. QED
  BY <1>3, <1>4, <1>5, <1>6, <1>7, <1>8

\* A final version of a commit off the default branch stops here.
LEMMA CheckKeeps == ASSUME IInv, NEW r \in Run, Check(r) PROVE IInv'
<1> USE DEF IInv
<1>1. /\ step' \in [Run -> Step] /\ step[r] = "check" /\ step'[r] = "build"
      /\ \A q \in Run \ {r} : step'[q] = step[q]
  BY GoElsewhere DEF Check, Step, Running, PublishSteps, Checks, Ended
<1>2. /\ ref' = ref /\ commit' = commit /\ digest' = digest /\ artifact' = artifact /\ tags' = tags
      /\ passed' = passed /\ public' = public /\ assets' = assets /\ builds' = builds /\ restarted' = restarted
      /\ ref[r] \in Final => commit[r] \in Main
  BY DEF Check, origin, outputs, published, history
<1>3. TypeOK'
  BY <1>1, <1>2, WorkflowAssumption DEF TypeOK, Built, Digest, AfterBuild, Vouched, Checks
<1>4. Alone'
  BY <1>1, <1>2 DEF TypeOK, Alone, Running, PublishSteps, Checks
<1>5. Built'
  BY <1>1, <1>2, <1>3, WorkflowAssumption DEF TypeOK, Built, Checks, Vouched, AfterBuild, Digest
<1>6. Vetted'
  BY <1>1, <1>2, <1>3 DEF TypeOK, Built, Vetted, Checks, Vouched, AfterBuild
<1>7. Tagged'
  BY <1>1, <1>2, <1>3, WorkflowAssumption DEF TypeOK, Alone, Built, Tagged, ReleaseSteps, AfterBuild, Vouched, Running, PublishSteps, Checks
<1>8. Published'
  BY <1>1, <1>2, <1>3, WorkflowAssumption DEF TypeOK, Built, Vetted, Tagged, Published, ReleaseSteps, AfterBuild, Vouched, Checks
<1>9. QED
  BY <1>3, <1>4, <1>5, <1>6, <1>7, <1>8

\* A digest of this run and this build: nothing was published under it.
LEMMA BuildKeeps == ASSUME IInv, NEW r \in Run, Build(r) PROVE IInv'
<1> USE DEF IInv
<1>1. /\ step' \in [Run -> Step] /\ step[r] = "build" /\ step'[r] = "scan"
      /\ \A q \in Run \ {r} : step'[q] = step[q]
  BY GoElsewhere DEF Build, Step, Running, PublishSteps, Checks, Ended, After
<1>2. /\ ref' = ref /\ commit' = commit /\ artifact' = artifact /\ tags' = tags /\ passed' = passed
      /\ public' = public /\ assets' = assets /\ builds' = builds /\ restarted' = restarted
      /\ digest' = [digest EXCEPT ![r] = <<r, builds>>]
  BY DEF Build, origin, outputs, published, history
<1>3. TypeOK'
  BY <1>1, <1>2, WorkflowAssumption DEF TypeOK, Built, Digest, AfterBuild, Vouched, Checks
<1>4. Alone'
  BY <1>1, <1>2 DEF TypeOK, Alone, Running, PublishSteps, Checks
<1>5. Built'
  BY <1>1, <1>2, <1>3, WorkflowAssumption DEF TypeOK, Built, Checks, Vouched, AfterBuild, Digest
<1>6. Vetted'
  BY <1>1, <1>2, <1>3 DEF TypeOK, Built, Vetted, Checks, Vouched, AfterBuild
<1>7. Tagged'
  BY <1>1, <1>2, <1>3, WorkflowAssumption DEF TypeOK, Alone, Built, Tagged, ReleaseSteps, AfterBuild, Vouched, Running, PublishSteps, Checks
<1>8. Published'
  <2>1. <<r, builds>> \in Digest /\ <<r, builds>> # None
    BY <1>1, WorkflowAssumption DEF TypeOK, Built, Digest
  <2>2. \A q \in Run : digest[q] # None => digest'[q] # None
    BY <1>2, <2>1 DEF TypeOK
  <2>3. \A f \in Ref : tags[f] # None => tags[f][1] \in Run
    BY DEF TypeOK, Digest
  <2>4. QED
    BY <1>2, <2>2, <2>3 DEF Published
<1>9. QED
  BY <1>3, <1>4, <1>5, <1>6, <1>7, <1>8

\* Past the gate, the tag does not exist and nobody else can make it.
LEMMA GateKeeps == ASSUME IInv, NEW r \in Run, Gate(r) PROVE IInv'
<1> USE DEF IInv
<1>1. /\ step' \in [Run -> Step] /\ step[r] = "gate" /\ step'[r] = "copy"
      /\ \A q \in Run \ {r} : step'[q] = step[q]
  BY GoElsewhere DEF Gate, Step, Running, PublishSteps, Checks, Ended
<1>2. /\ ref' = ref /\ commit' = commit /\ digest' = digest /\ artifact' = artifact /\ tags' = tags
      /\ passed' = passed /\ public' = public /\ assets' = assets /\ builds' = builds /\ restarted' = restarted
      /\ tags[ref[r]] = None
  BY DEF Gate, origin, outputs, published, history, Answers
<1>3. TypeOK'
  BY <1>1, <1>2, WorkflowAssumption DEF TypeOK, Built, Digest, AfterBuild, Vouched, Checks
<1>4. Alone'
  BY <1>1, <1>2 DEF TypeOK, Alone, Running, PublishSteps, Checks
<1>5. Built'
  BY <1>1, <1>2, <1>3, WorkflowAssumption DEF TypeOK, Built, Checks, Vouched, AfterBuild, Digest
<1>6. Vetted'
  BY <1>1, <1>2, <1>3 DEF TypeOK, Built, Vetted, Checks, Vouched, AfterBuild
<1>7. Tagged'
  BY <1>1, <1>2, <1>3, WorkflowAssumption DEF TypeOK, Alone, Built, Tagged, ReleaseSteps, AfterBuild, Vouched, Running, PublishSteps, Checks
<1>8. Published'
  BY <1>1, <1>2, <1>3, WorkflowAssumption DEF TypeOK, Built, Vetted, Tagged, Published, ReleaseSteps, AfterBuild, Vouched, Checks
<1>9. QED
  BY <1>3, <1>4, <1>5, <1>6, <1>7, <1>8

\* The tag is made once, of a digest that passed every check.
LEMMA CopyKeeps == ASSUME IInv, NEW r \in Run, Copy(r) PROVE IInv'
<1> USE DEF IInv
<1>1. /\ step' \in [Run -> Step] /\ step[r] = "copy" /\ step'[r] = "verify"
      /\ \A q \in Run \ {r} : step'[q] = step[q]
  BY GoElsewhere DEF Copy, Step, Running, PublishSteps, Checks, Ended
<1>2. /\ ref' = ref /\ commit' = commit /\ digest' = digest /\ artifact' = artifact /\ passed' = passed
      /\ public' = public /\ assets' = assets /\ builds' = builds /\ restarted' = restarted
      /\ tags' = [tags EXCEPT ![ref[r]] = digest[r]]
  BY DEF Copy, origin, outputs, published, history
<1>3. TypeOK'
  BY <1>1, <1>2, WorkflowAssumption DEF TypeOK, Built, Digest, AfterBuild, Vouched, Checks
<1>4. Alone'
  BY <1>1, <1>2 DEF TypeOK, Alone, Running, PublishSteps, Checks
<1>5. Built'
  BY <1>1, <1>2, <1>3, WorkflowAssumption DEF TypeOK, Built, Checks, Vouched, AfterBuild, Digest
<1>6. Vetted'
  BY <1>1, <1>2, <1>3 DEF TypeOK, Built, Vetted, Checks, Vouched, AfterBuild
<1>7. Tagged'
  BY <1>1, <1>2, <1>3, WorkflowAssumption DEF TypeOK, Alone, Built, Tagged, ReleaseSteps, AfterBuild, Vouched, Running, PublishSteps, Checks
<1>8. Published'
  <2>1. /\ ref[r] \in Ref /\ tags[ref[r]] = None /\ digest[r] # None /\ digest[r][1] = r
        /\ \A c \in Checks : <<c, digest[r]>> \in passed
        /\ ref[r] \in Final => commit[r] \in Main
    BY <1>1 DEF TypeOK, Built, Vetted, Tagged, Checks, Vouched, AfterBuild
  <2>2. /\ tags'[ref[r]] = digest[r]
        /\ \A f \in Ref \ {ref[r]} : tags'[f] = tags[f]
    BY <1>2, <2>1 DEF TypeOK
  <2>3. QED
    BY <1>2, <2>1, <2>2 DEF Published
<1>9. QED
  BY <1>3, <1>4, <1>5, <1>6, <1>7, <1>8

\* Steps that change no output of the workflow.
LEMMA VerifyKeeps == ASSUME IInv, NEW r \in Run, Verify(r) PROVE IInv'
<1> USE DEF IInv
<1>1. /\ step' \in [Run -> Step] /\ step[r] = "verify" /\ step'[r] = "upload"
      /\ \A q \in Run \ {r} : step'[q] = step[q]
  BY GoElsewhere DEF Verify, Step, Running, PublishSteps, Checks, Ended
<1>2. /\ ref' = ref /\ commit' = commit /\ digest' = digest /\ artifact' = artifact /\ tags' = tags
      /\ passed' = passed /\ public' = public /\ assets' = assets /\ builds' = builds /\ restarted' = restarted
  BY DEF Verify, origin, outputs, published, history
<1>3. TypeOK'
  BY <1>1, <1>2, WorkflowAssumption DEF TypeOK, Built, Digest, AfterBuild, Vouched, Checks
<1>4. Alone'
  BY <1>1, <1>2 DEF TypeOK, Alone, Running, PublishSteps, Checks
<1>5. Built'
  BY <1>1, <1>2, <1>3, WorkflowAssumption DEF TypeOK, Built, Checks, Vouched, AfterBuild, Digest
<1>6. Vetted'
  BY <1>1, <1>2, <1>3 DEF TypeOK, Built, Vetted, Checks, Vouched, AfterBuild
<1>7. Tagged'
  BY <1>1, <1>2, <1>3, WorkflowAssumption DEF TypeOK, Alone, Built, Tagged, ReleaseSteps, AfterBuild, Vouched, Running, PublishSteps, Checks
<1>8. Published'
  BY <1>1, <1>2, <1>3, WorkflowAssumption DEF TypeOK, Built, Vetted, Tagged, Published, ReleaseSteps, AfterBuild, Vouched, Checks
<1>9. QED
  BY <1>3, <1>4, <1>5, <1>6, <1>7, <1>8

\* What the release job takes is what the tag names.
LEMMA UploadKeeps == ASSUME IInv, NEW r \in Run, Upload(r) PROVE IInv'
<1> USE DEF IInv
<1>1. /\ step' \in [Run -> Step] /\ step[r] = "upload" /\ step'[r] = "release"
      /\ \A q \in Run \ {r} : step'[q] = step[q]
  BY GoElsewhere DEF Upload, Step, Running, PublishSteps, Checks, Ended
<1>2. /\ ref' = ref /\ commit' = commit /\ digest' = digest /\ tags' = tags /\ passed' = passed
      /\ public' = public /\ assets' = assets /\ builds' = builds /\ restarted' = restarted
      /\ artifact' = [artifact EXCEPT ![r] = digest[r]]
  BY DEF Upload, origin, outputs, published, history
<1>3. TypeOK'
  BY <1>1, <1>2, WorkflowAssumption DEF TypeOK, Built, Digest, AfterBuild, Vouched, Checks
<1>4. Alone'
  BY <1>1, <1>2 DEF TypeOK, Alone, Running, PublishSteps, Checks
<1>5. Built'
  BY <1>1, <1>2, <1>3, WorkflowAssumption DEF TypeOK, Built, Checks, Vouched, AfterBuild, Digest
<1>6. Vetted'
  BY <1>1, <1>2, <1>3 DEF TypeOK, Built, Vetted, Checks, Vouched, AfterBuild
<1>7. Tagged'
  BY <1>1, <1>2, <1>3, WorkflowAssumption DEF TypeOK, Alone, Built, Tagged, ReleaseSteps, AfterBuild, Vouched, Running, PublishSteps, Checks
<1>8. Published'
  BY <1>1, <1>2, <1>3, WorkflowAssumption DEF TypeOK, Built, Vetted, Tagged, Published, ReleaseSteps, AfterBuild, Vouched, Checks
<1>9. QED
  BY <1>3, <1>4, <1>5, <1>6, <1>7, <1>8

\* Every file is of the artifact, which is what the tag names.
LEMMA ReleaseKeeps == ASSUME IInv, NEW r \in Run, Release(r) PROVE IInv'
<1> USE DEF IInv
<1>1. /\ step' \in [Run -> Step] /\ step[r] = "release" /\ step'[r] = "succeeded"
      /\ \A q \in Run \ {r} : step'[q] = step[q]
  BY GoElsewhere DEF Release, Step, Running, PublishSteps, Checks, Ended
<1>2. /\ ref' = ref /\ commit' = commit /\ digest' = digest /\ artifact' = artifact /\ tags' = tags
      /\ passed' = passed /\ public' = public /\ builds' = builds /\ restarted' = restarted
      /\ assets' \in [Ref -> [File -> Digest \cup {None}]]
      /\ \A f \in Ref, file \in File : \/ assets'[f][file] \in {None, assets[f][file]}
                                       \/ f = ref[r] /\ assets'[f][file] = artifact[r]
  BY <1>1, AssetsElsewhere DEF Release, origin, outputs, published, history
<1>3. TypeOK'
  BY <1>1, <1>2, WorkflowAssumption DEF TypeOK, Built, Digest, AfterBuild, Vouched, Checks
<1>4. Alone'
  BY <1>1, <1>2 DEF TypeOK, Alone, Running, PublishSteps, Checks
<1>5. Built'
  BY <1>1, <1>2, <1>3, WorkflowAssumption DEF TypeOK, Built, Checks, Vouched, AfterBuild, Digest
<1>6. Vetted'
  BY <1>1, <1>2, <1>3 DEF TypeOK, Built, Vetted, Checks, Vouched, AfterBuild
<1>7. Tagged'
  BY <1>1, <1>2, <1>3, WorkflowAssumption DEF TypeOK, Alone, Built, Tagged, ReleaseSteps, AfterBuild, Vouched, Running, PublishSteps, Checks
<1>8. Published'
  <2>1. artifact[r] = tags[ref[r]]
    BY <1>1 DEF Tagged, ReleaseSteps
  <2>2. QED
    BY <1>2, <2>1 DEF Published
<1>9. QED
  BY <1>3, <1>4, <1>5, <1>6, <1>7, <1>8

\* So are some of them; the others are what they were, or gone.
LEMMA ReleasePartlyKeeps == ASSUME IInv, NEW r \in Run, ReleasePartly(r) PROVE IInv'
<1> USE DEF IInv
<1>1. /\ step' \in [Run -> Step] /\ step[r] = "release" /\ step'[r] = "release_failed"
      /\ \A q \in Run \ {r} : step'[q] = step[q]
  BY GoElsewhere DEF ReleasePartly, Step, Running, PublishSteps, Checks, Ended
<1>2. /\ ref' = ref /\ commit' = commit /\ digest' = digest /\ artifact' = artifact /\ tags' = tags
      /\ passed' = passed /\ public' = public /\ builds' = builds /\ restarted' = restarted
      /\ assets' \in [Ref -> [File -> Digest \cup {None}]]
      /\ \A f \in Ref, file \in File : \/ assets'[f][file] \in {None, assets[f][file]}
                                       \/ f = ref[r] /\ assets'[f][file] = artifact[r]
  BY <1>1, AssetsElsewhere DEF ReleasePartly, origin, outputs, published, history
<1>3. TypeOK'
  BY <1>1, <1>2, WorkflowAssumption DEF TypeOK, Built, Digest, AfterBuild, Vouched, Checks
<1>4. Alone'
  BY <1>1, <1>2 DEF TypeOK, Alone, Running, PublishSteps, Checks
<1>5. Built'
  BY <1>1, <1>2, <1>3, WorkflowAssumption DEF TypeOK, Built, Checks, Vouched, AfterBuild, Digest
<1>6. Vetted'
  BY <1>1, <1>2, <1>3 DEF TypeOK, Built, Vetted, Checks, Vouched, AfterBuild
<1>7. Tagged'
  BY <1>1, <1>2, <1>3, WorkflowAssumption DEF TypeOK, Alone, Built, Tagged, ReleaseSteps, AfterBuild, Vouched, Running, PublishSteps, Checks
<1>8. Published'
  <2>1. artifact[r] = tags[ref[r]]
    BY <1>1 DEF Tagged, ReleaseSteps
  <2>2. QED
    BY <1>2, <2>1 DEF Published
<1>9. QED
  BY <1>3, <1>4, <1>5, <1>6, <1>7, <1>8

\* A run that stopped leaves what it has done.
LEMMA FailKeeps == ASSUME IInv, NEW r \in Run, Fail(r) PROVE IInv'
<1> USE DEF IInv
<1>1. /\ step' \in [Run -> Step] /\ step[r] \in PublishSteps /\ step'[r] = "publish_failed"
      /\ \A q \in Run \ {r} : step'[q] = step[q]
  BY GoElsewhere DEF Fail, Step, Ended
<1>2. /\ ref' = ref /\ commit' = commit /\ digest' = digest /\ artifact' = artifact /\ tags' = tags
      /\ passed' = passed /\ public' = public /\ assets' = assets /\ builds' = builds /\ restarted' = restarted
  BY DEF Fail, origin, outputs, published, history
<1>3. TypeOK'
  BY <1>1, <1>2, WorkflowAssumption DEF TypeOK, Built, Digest, AfterBuild, Vouched, Checks, PublishSteps
<1>4. Alone'
  BY <1>1, <1>2 DEF TypeOK, Alone, Running, PublishSteps, Checks
<1>5. Built'
  BY <1>1, <1>2, <1>3, WorkflowAssumption DEF TypeOK, Built, Checks, Vouched, AfterBuild, Digest, PublishSteps
<1>6. Vetted'
  BY <1>1, <1>2, <1>3 DEF TypeOK, Built, Vetted, Checks, Vouched, AfterBuild
<1>7. Tagged'
  BY <1>1, <1>2, <1>3, WorkflowAssumption DEF TypeOK, Alone, Built, Tagged, ReleaseSteps, AfterBuild, Vouched, Running, PublishSteps, Checks
<1>8. Published'
  BY <1>1, <1>2, <1>3, WorkflowAssumption DEF TypeOK, Built, Vetted, Tagged, Published, ReleaseSteps, AfterBuild, Vouched, Checks
<1>9. QED
  BY <1>3, <1>4, <1>5, <1>6, <1>7, <1>8

\* One more check of this digest is on record.
LEMMA PassCheckKeeps == ASSUME IInv, NEW r \in Run, PassCheck(r) PROVE IInv'
<1> USE DEF IInv
<1>1. /\ step' \in [Run -> Step]
      /\ \/ step[r] = "scan" /\ step'[r] = "pull"
         \/ step[r] = "pull" /\ step'[r] = "sign"
         \/ step[r] = "sign" /\ step'[r] = "gate"
      /\ \A q \in Run \ {r} : step'[q] = step[q]
  BY GoElsewhere DEF PassCheck, Checks, After, Step, Running, PublishSteps
<1>2. /\ ref' = ref /\ commit' = commit /\ digest' = digest /\ artifact' = artifact /\ tags' = tags
      /\ public' = public /\ assets' = assets /\ builds' = builds /\ restarted' = restarted
      /\ passed' = passed \cup {<<step[r], digest[r]>>}
  BY DEF PassCheck, origin, outputs, published, history
<1>3. TypeOK'
  BY <1>1, <1>2, WorkflowAssumption DEF TypeOK, Built, Digest, AfterBuild, Vouched, Checks
<1>4. Alone'
  BY <1>1, <1>2 DEF TypeOK, Alone, Running, PublishSteps, Checks
<1>5. Built'
  BY <1>1, <1>2, <1>3, WorkflowAssumption DEF TypeOK, Built, Checks, Vouched, AfterBuild, Digest
<1>6. Vetted'
  BY <1>1, <1>2, <1>3 DEF TypeOK, Built, Vetted, Checks, Vouched, AfterBuild
<1>7. Tagged'
  BY <1>1, <1>2, <1>3, WorkflowAssumption DEF TypeOK, Alone, Built, Tagged, ReleaseSteps, AfterBuild, Vouched, Running, PublishSteps, Checks
<1>8. Published'
  BY <1>1, <1>2, <1>3, WorkflowAssumption DEF TypeOK, Built, Vetted, Tagged, Published, ReleaseSteps, AfterBuild, Vouched, Checks
<1>9. QED
  BY <1>3, <1>4, <1>5, <1>6, <1>7, <1>8

\* A new run has done nothing.
LEMMA PushTagKeeps == ASSUME IInv, NEW r \in Run, PushTag(r) PROVE IInv'
<1> USE DEF IInv
<1>0. PICK name \in Ref, sha \in Commit :
           /\ ref' = [ref EXCEPT ![r] = name] /\ commit' = [commit EXCEPT ![r] = sha]
           /\ step' = [CancelPending(name) EXCEPT ![r] = "publish_queued"]
  BY DEF PushTag
<1>1. /\ step' \in [Run -> Step] /\ step[r] = "none" /\ step'[r] = "publish_queued"
      /\ \A q \in Run \ {r} : \/ step'[q] = step[q]
                              \/ step[q] = "publish_queued" /\ step'[q] = "publish_failed"
                              \/ step[q] = "release_queued" /\ step'[q] = "release_failed"
  BY <1>0, CancelElsewhere DEF PushTag, Step, Queued
<1>2. /\ digest' = digest /\ artifact' = artifact /\ tags' = tags /\ passed' = passed
      /\ public' = public /\ assets' = assets /\ restarted' = restarted
      /\ builds < MaxBuilds /\ builds' = builds + 1
      /\ ref' = [ref EXCEPT ![r] = name] /\ commit' = [commit EXCEPT ![r] = sha]
  BY <1>0 DEF PushTag, AddBuild, outputs, published
<1>3. TypeOK'
  BY <1>1, <1>2, WorkflowAssumption DEF TypeOK, Built, Digest, AfterBuild, Vouched, Checks
<1>4. Alone'
  BY <1>1, <1>2 DEF TypeOK, Alone, Running, PublishSteps, Checks
<1>5. Built'
  BY <1>1, <1>2, <1>3, WorkflowAssumption DEF TypeOK, Built, Checks, Vouched, AfterBuild, Digest
<1>6. Vetted'
  BY <1>1, <1>2, <1>3 DEF TypeOK, Built, Vetted, Checks, Vouched, AfterBuild
<1>7. Tagged'
  BY <1>1, <1>2, <1>3, WorkflowAssumption DEF TypeOK, Alone, Built, Tagged, ReleaseSteps, AfterBuild, Vouched, Running, PublishSteps, Checks
<1>8. Published'
  <2>1. \A f \in Ref : tags[f] # None => tags[f][1] \in Run \ {r}
    BY <1>1 DEF TypeOK, Digest, Built, Published
  <2>2. \A q \in Run \ {r} : commit'[q] = commit[q]
    BY <1>2 DEF TypeOK
  <2>3. QED
    BY <1>2, <2>1, <2>2 DEF Published
<1>9. QED
  BY <1>3, <1>4, <1>5, <1>6, <1>7, <1>8

\* A re-run keeps the outputs of the jobs that succeeded, or starts over.
LEMMA RerunFailedKeeps == ASSUME IInv, NEW r \in Run, RerunFailed(r) PROVE IInv'
<1> USE DEF IInv
<1>0. PICK job \in Queued : Requeue(r, job) /\ job = (IF step[r] = "publish_failed" THEN "publish_queued" ELSE "release_queued") /\ restarted' = restarted
  BY DEF RerunFailed, Queued
<1>1. /\ step' \in [Run -> Step] /\ step[r] \in {"publish_failed", "release_failed"}
      /\ step'[r] = IF step[r] = "publish_failed" THEN "publish_queued" ELSE "release_queued"
      /\ \A q \in Run \ {r} : \/ step'[q] = step[q]
                              \/ step[q] = "publish_queued" /\ step'[q] = "publish_failed"
                              \/ step[q] = "release_queued" /\ step'[q] = "release_failed"
  BY <1>0, CancelElsewhere DEF RerunFailed, Requeue, Step, Queued
<1>2. /\ ref' = ref /\ commit' = commit /\ digest' = digest /\ artifact' = artifact /\ tags' = tags
      /\ passed' = passed /\ public' = public /\ assets' = assets /\ restarted' = restarted
      /\ builds' = builds \/ (builds < MaxBuilds /\ builds' = builds + 1)
  BY <1>0 DEF Requeue, AddBuild, origin, outputs, published
<1>3. TypeOK'
  BY <1>1, <1>2, WorkflowAssumption DEF TypeOK, Built, Digest, AfterBuild, Vouched, Checks
<1>4. Alone'
  BY <1>1, <1>2 DEF TypeOK, Alone, Running, PublishSteps, Checks
<1>5. Built'
  BY <1>1, <1>2, <1>3, WorkflowAssumption DEF TypeOK, Built, Checks, Vouched, AfterBuild, Digest
<1>6. Vetted'
  BY <1>1, <1>2, <1>3 DEF TypeOK, Built, Vetted, Checks, Vouched, AfterBuild
<1>7. Tagged'
  BY <1>1, <1>2, <1>3, WorkflowAssumption DEF TypeOK, Alone, Built, Tagged, ReleaseSteps, AfterBuild, Vouched, Running, PublishSteps, Checks
<1>8. Published'
  BY <1>1, <1>2, <1>3, WorkflowAssumption DEF TypeOK, Built, Vetted, Tagged, Published, ReleaseSteps, AfterBuild, Vouched, Checks
<1>9. QED
  BY <1>3, <1>4, <1>5, <1>6, <1>7, <1>8

\* The release job is done again with the artifact there is.
LEMMA RerunReleaseJobKeeps == ASSUME IInv, NEW r \in Run, RerunReleaseJob(r) PROVE IInv'
<1> USE DEF IInv
<1>0. PICK job \in Queued : Requeue(r, job) /\ job = "release_queued" /\ restarted' = restarted
  BY DEF RerunReleaseJob, Queued
<1>1. /\ step' \in [Run -> Step] /\ step[r] \in {"succeeded", "release_failed"}
      /\ step'[r] = "release_queued"
      /\ \A q \in Run \ {r} : \/ step'[q] = step[q]
                              \/ step[q] = "publish_queued" /\ step'[q] = "publish_failed"
                              \/ step[q] = "release_queued" /\ step'[q] = "release_failed"
  BY <1>0, CancelElsewhere DEF RerunReleaseJob, Requeue, Step, Queued
<1>2. /\ ref' = ref /\ commit' = commit /\ digest' = digest /\ artifact' = artifact /\ tags' = tags
      /\ passed' = passed /\ public' = public /\ assets' = assets /\ restarted' = restarted
      /\ builds' = builds
  BY <1>0 DEF Requeue, origin, outputs, published
<1>3. TypeOK'
  BY <1>1, <1>2, WorkflowAssumption DEF TypeOK, Built, Digest, AfterBuild, Vouched, Checks
<1>4. Alone'
  BY <1>1, <1>2 DEF TypeOK, Alone, Running, PublishSteps, Checks
<1>5. Built'
  BY <1>1, <1>2, <1>3, WorkflowAssumption DEF TypeOK, Built, Checks, Vouched, AfterBuild, Digest
<1>6. Vetted'
  BY <1>1, <1>2, <1>3 DEF TypeOK, Built, Vetted, Checks, Vouched, AfterBuild
<1>7. Tagged'
  BY <1>1, <1>2, <1>3, WorkflowAssumption DEF TypeOK, Alone, Built, Tagged, ReleaseSteps, AfterBuild, Vouched, Running, PublishSteps, Checks
<1>8. Published'
  BY <1>1, <1>2, <1>3, WorkflowAssumption DEF TypeOK, Built, Vetted, Tagged, Published, ReleaseSteps, AfterBuild, Vouched, Checks
<1>9. QED
  BY <1>3, <1>4, <1>5, <1>6, <1>7, <1>8

\* A run is done again from its first job.
LEMMA RerunAllKeeps == ASSUME IInv, NEW r \in Run, RerunAll(r) PROVE IInv'
<1> USE DEF IInv
<1>0. PICK job \in Queued : Requeue(r, job) /\ job = "publish_queued" /\ restarted' = restarted \cup {r}
  BY DEF RerunAll, Queued
<1>1. /\ step' \in [Run -> Step] /\ step[r] \in Ended
      /\ step'[r] = "publish_queued"
      /\ \A q \in Run \ {r} : \/ step'[q] = step[q]
                              \/ step[q] = "publish_queued" /\ step'[q] = "publish_failed"
                              \/ step[q] = "release_queued" /\ step'[q] = "release_failed"
  BY <1>0, CancelElsewhere DEF RerunAll, Requeue, Step, Queued
<1>2. /\ ref' = ref /\ commit' = commit /\ digest' = digest /\ artifact' = artifact /\ tags' = tags
      /\ passed' = passed /\ public' = public /\ assets' = assets /\ restarted' = restarted \cup {r}
      /\ builds' = builds \/ (builds < MaxBuilds /\ builds' = builds + 1)
  BY <1>0 DEF Requeue, AddBuild, origin, outputs, published
<1>3. TypeOK'
  BY <1>1, <1>2, WorkflowAssumption DEF TypeOK, Built, Digest, AfterBuild, Vouched, Checks, Ended
<1>4. Alone'
  BY <1>1, <1>2 DEF TypeOK, Alone, Running, PublishSteps, Checks
<1>5. Built'
  BY <1>1, <1>2, <1>3, WorkflowAssumption DEF TypeOK, Built, Checks, Vouched, AfterBuild, Digest, Ended
<1>6. Vetted'
  BY <1>1, <1>2, <1>3 DEF TypeOK, Built, Vetted, Checks, Vouched, AfterBuild
<1>7. Tagged'
  BY <1>1, <1>2, <1>3, WorkflowAssumption DEF TypeOK, Alone, Built, Tagged, ReleaseSteps, AfterBuild, Vouched, Running, PublishSteps, Checks
<1>8. Published'
  BY <1>1, <1>2, <1>3, WorkflowAssumption DEF TypeOK, Built, Vetted, Tagged, Published, ReleaseSteps, AfterBuild, Vouched, Checks
<1>9. QED
  BY <1>3, <1>4, <1>5, <1>6, <1>7, <1>8

\* No run is touched.
LEMMA MakePublicKeeps == ASSUME IInv, MakePublic PROVE IInv'
BY DEF MakePublic, IInv, TypeOK, Alone, Built, Vetted, Tagged, Published, origin, outputs, history

\* Nothing happens.
LEMMA StutterKeeps == ASSUME IInv, UNCHANGED vars PROVE IInv'
BY DEF vars, IInv, TypeOK, Alone, Built, Vetted, Tagged, Published, origin, outputs, published, history

\* The invariant holds at first, and every step keeps it.
LEMMA InitHolds == Init => IInv
<1> SUFFICES ASSUME Init PROVE IInv
  OBVIOUS
<1>1. TypeOK
  <2>1. builds \in 0..MaxBuilds
    BY WorkflowAssumption DEF Init
  <2>2. QED
    BY <2>1 DEF Init, TypeOK, Step
<1>2. Alone /\ Built /\ Vetted /\ Tagged
  BY DEF Init, Alone, Built, Vetted, Tagged, Running, PublishSteps, Checks, Vouched, AfterBuild, ReleaseSteps
<1>3. Published
  BY DEF Init, Published
<1>4. QED
  BY <1>1, <1>2, <1>3 DEF IInv

\* One lemma for each disjunct.
LEMMA NextKeeps == IInv /\ [Next]_vars => IInv'
<1> SUFFICES ASSUME IInv, [Next]_vars PROVE IInv'
  OBVIOUS
<1>1. ASSUME NEW r \in Run, PushTag(r) \/ Start(r) \/ RerunFailed(r) \/ RerunReleaseJob(r)
                        \/ RerunAll(r)
      PROVE  IInv'
  BY <1>1, PushTagKeeps, StartKeeps, RerunFailedKeeps, RerunReleaseJobKeeps, RerunAllKeeps
<1>2. ASSUME NEW r \in Run, Check(r) \/ Build(r) \/ PassCheck(r) \/ Gate(r) PROVE IInv'
  BY <1>2, CheckKeeps, BuildKeeps, PassCheckKeeps, GateKeeps
<1>3. ASSUME NEW r \in Run, Copy(r) \/ Verify(r) \/ Upload(r) \/ Fail(r) PROVE IInv'
  BY <1>3, CopyKeeps, VerifyKeeps, UploadKeeps, FailKeeps
<1>4. ASSUME NEW r \in Run, Release(r) \/ ReleasePartly(r) PROVE IInv'
  BY <1>4, ReleaseKeeps, ReleasePartlyKeeps
<1>5. QED
  BY <1>1, <1>2, <1>3, <1>4, MakePublicKeeps, StutterKeeps DEF Next

\* The invariant is inductive.
LEMMA InvariantHolds == Spec => []IInv
BY InitHolds, NextKeeps, PTL DEF Spec

(* Whatever is pushed, stopped and re-run, every variable keeps its type: a *)
(* run past its build has a digest, and only digests are published.         *)
THEOREM TypeCorrect == Spec => []TypeOK
<1>1. IInv => TypeOK
  BY DEF IInv
<1>2. QED
  BY <1>1, InvariantHolds, PTL

(* The assets of a release are the image its version tag names, which was   *)
(* scanned, pulled, attested and signed by the run that built it, and a     *)
(* final version was built from the default branch.                         *)
THEOREM ReleaseIsWhatWasCheckedAlways == Spec => []ReleaseIsWhatWasChecked
<1>1. IInv => ReleaseIsWhatWasChecked
  BY DEF IInv, Published, ReleaseIsWhatWasChecked
<1>2. QED
  BY <1>1, InvariantHolds, PTL

(* A version tag is written only by the copy step, and no step of another   *)
(* run of the ref comes between it and the inspection that found none: the  *)
(* tag never names another image.                                           *)
THEOREM VersionTagNeverMovesAlways == Spec => VersionTagNeverMoves
<1>1. IInv /\ [Next]_vars => [\A f \in Ref : tags[f] # None => tags'[f] = tags[f]]_vars
  <2> SUFFICES ASSUME IInv, Next PROVE \A f \in Ref : tags[f] # None => tags'[f] = tags[f]
    OBVIOUS
  <2>1. CASE MakePublic
    BY <2>1 DEF MakePublic
  <2>2. ASSUME NEW r \in Run, Copy(r)
        PROVE  \A f \in Ref : tags[f] # None => tags'[f] = tags[f]
    <3>1. ref[r] \in Ref /\ tags[ref[r]] = None
      BY <2>2 DEF Copy, Go, IInv, TypeOK, Tagged
    <3>2. tags' = [tags EXCEPT ![ref[r]] = digest[r]] /\ tags \in [Ref -> Digest \cup {None}]
      BY <2>2 DEF Copy, IInv, TypeOK
    <3>3. QED
      BY <3>1, <3>2
  <2>3. ASSUME NEW r \in Run,
               \/ PushTag(r) \/ Start(r) \/ Check(r) \/ Build(r) \/ PassCheck(r) \/ Gate(r) \/ Verify(r)
               \/ Upload(r) \/ Release(r) \/ ReleasePartly(r) \/ Fail(r) \/ RerunFailed(r)
               \/ RerunReleaseJob(r) \/ RerunAll(r)
        PROVE  tags' = tags
    BY <2>3 DEF PushTag, Start, Check, Build, PassCheck, Gate, Verify, Upload, Release, ReleasePartly,
       Fail, RerunFailed, RerunReleaseJob, RerunAll, Requeue, published
  <2>4. QED
    BY <2>1, <2>2, <2>3 DEF Next
<1>2. QED
  BY <1>1, InvariantHolds, PTL DEF Spec, VersionTagNeverMoves
================================================================================
