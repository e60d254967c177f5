---------------------------- MODULE ReleaseWorkflow ----------------------------
(***************************************************************************)
(* Releasing: the publish and release jobs of build-and-publish.yml, in    *)
(* runs that are started by pushing a version tag, wait for one another,   *)
(* stop at any step and are re-run, and what they leave in the registry    *)
(* and in the GitHub Release.                                              *)
(*                                                                         *)
(* A git tag may be pushed again, at another commit: that is another run of*)
(* the same ref.  Every build makes a new image, known by its digest.      *)
(***************************************************************************)
EXTENDS Integers, FiniteSets

CONSTANTS
    Run,            \* the runs there may be
    Ref, Final,     \* the git tags vX.Y.Z-rc.N and vX.Y.Z; the latter
    Commit, Main,   \* what can be tagged; what is on the default branch
    MaxBuilds,      \* bound: how many publish jobs are queued
    None

File == {"pak", "checksums"}     \* the signature bundle is one with the pak
Digest == Run \X (1..MaxBuilds)

ASSUME WorkflowAssumption ==
    /\ Final \subseteq Ref /\ Main \subseteq Commit /\ MaxBuilds \in Nat \ {0}
    /\ None \notin Ref \cup Commit \cup Digest

VARIABLES
    ref, commit,    \* GITHUB_REF_NAME and GITHUB_SHA of each run, once it exists
    step,           \* where each run is
    digest,         \* the digest its pak names
    artifact,       \* the digest of the pak in the artifact it uploaded
    tags,           \* the registry: the digest of each version tag
    passed,         \* the <<step, digest>> of the checks, attestations and signatures made
    public,         \* whether the package can be pulled without login
    assets,         \* the digest of each file of each GitHub Release
    builds,         \* how many publish jobs were queued
    restarted       \* history: the runs of which all jobs were re-run

origin == <<ref, commit>>
outputs == <<digest, artifact>>
published == <<tags, passed, public, assets>>
history == <<builds, restarted>>
vars == <<origin, step, outputs, published, history>>

--------------------------------------------------------------------------------
\* The steps of the publish job that look at the image or vouch for it, in order.
After == [build |-> "scan", scan |-> "pull", pull |-> "sign", sign |-> "gate"]
Checks == {"scan", "pull", "sign"}
PublishSteps == {"check", "build", "gate", "copy", "verify", "upload"} \cup Checks
Running == PublishSteps \cup {"release"}
Ended == {"succeeded", "publish_failed", "release_failed"}
Queued == {"publish_queued", "release_queued"}
Step == Running \cup Ended \cup Queued \cup {"none"}

Init ==
    /\ ref = [r \in Run |-> None] /\ commit = [r \in Run |-> None]
    /\ step = [r \in Run |-> "none"]
    /\ digest = [r \in Run |-> None] /\ artifact = [r \in Run |-> None]
    /\ tags = [f \in Ref |-> None] /\ passed = {} /\ public = FALSE
    /\ assets = [f \in Ref |-> [file \in File |-> None]] /\ builds = 0 /\ restarted = {}

\* concurrency: of a group, the runs of one ref, one run is in progress and one
\* waits; a later one takes its place, and it is cancelled.
CancelPending(f) ==
    [r \in Run |-> IF ref[r] # f THEN step[r]
                   ELSE CASE step[r] = "publish_queued" -> "publish_failed"
                          [] step[r] = "release_queued" -> "release_failed"
                          [] OTHER -> step[r]]

AddBuild == builds < MaxBuilds /\ builds' = builds + 1

\* git push origin vX.Y.Z
PushTag(r) ==
    /\ step[r] = "none"
    /\ \E f \in Ref, c \in Commit :
        /\ ref' = [ref EXCEPT ![r] = f] /\ commit' = [commit EXCEPT ![r] = c]
        /\ step' = [CancelPending(f) EXCEPT ![r] = "publish_queued"]
    /\ AddBuild
    /\ UNCHANGED <<outputs, published, restarted>>

\* Mutant: no concurrency group.
StartAtOnce(r) ==
    /\ step[r] \in Queued
    /\ step' = [step EXCEPT ![r] = IF @ = "publish_queued" THEN "check" ELSE "release"]
    /\ UNCHANGED <<origin, outputs, published, history>>

Start(r) ==
    /\ step[r] \in Queued
    /\ \A q \in Run : ref[q] = ref[r] => step[q] \notin Running
    /\ step' = [step EXCEPT ![r] = IF @ = "publish_queued" THEN "check" ELSE "release"]
    /\ UNCHANGED <<origin, outputs, published, history>>

Go(r, from, to) == step[r] = from /\ step' = [step EXCEPT ![r] = to]

\* skopeo inspect of the version tag: it may fail for another reason.
Answers(f) == {IF tags[f] = None THEN "manifest unknown" ELSE "exists", "error"}

\* Refuse a bad tag; fail early if the version tag is already published.
Check(r) ==
    /\ Go(r, "check", "build")
    /\ ref[r] \in Final => commit[r] \in Main
    /\ \E answer \in Answers(ref[r]) : answer # "exists"
    /\ UNCHANGED <<origin, outputs, published, history>>

\* Mutant: the digest is not made an output.
BuildWithoutOutput(r) ==
    /\ Go(r, "build", After["build"])
    /\ UNCHANGED <<origin, outputs, published, history>>

\* mp-build pushes the image and writes its digest into the pak.
Build(r) ==
    /\ Go(r, "build", After["build"])
    /\ digest' = [digest EXCEPT ![r] = <<r, builds>>]
    /\ UNCHANGED <<origin, artifact, published, history>>

\* The vulnerability gate; the anonymous pull; the attestations and signatures.
PassCheck(r) ==
    /\ step[r] \in Checks /\ Go(r, step[r], After[step[r]])
    /\ step[r] = "pull" => public
    /\ passed' = passed \cup {<<step[r], digest[r]>>}
    /\ UNCHANGED <<origin, outputs, tags, public, assets, history>>

\* Mutant: the gate goes on when it cannot tell, like the check.
GateUnlessExists(r) ==
    /\ Go(r, "gate", "copy")
    /\ \E answer \in Answers(ref[r]) : answer # "exists"
    /\ UNCHANGED <<origin, outputs, published, history>>

\* Add the immutable version tag: inspect, copy, inspect again.
Gate(r) ==
    /\ Go(r, "gate", "copy")
    /\ \E answer \in Answers(ref[r]) : answer = "manifest unknown"
    /\ UNCHANGED <<origin, outputs, published, history>>

Copy(r) ==
    /\ Go(r, "copy", "verify")
    /\ tags' = [tags EXCEPT ![ref[r]] = digest[r]]
    /\ UNCHANGED <<origin, outputs, passed, public, assets, history>>

Verify(r) ==
    /\ Go(r, "verify", "upload")
    /\ tags[ref[r]] = digest[r]
    /\ UNCHANGED <<origin, outputs, published, history>>

\* upload-artifact: the end of the publish job.
Upload(r) ==
    /\ Go(r, "upload", "release")
    /\ artifact' = [artifact EXCEPT ![r] = digest[r]]
    /\ UNCHANGED <<origin, digest, published, history>>

\* gh release create, or upload --clobber if that failed: every file, or some of
\* them if that fails too, the one being replaced already gone.
Assets(r, files, gone) ==
    [assets EXCEPT ![ref[r]] = [file \in File |-> IF file \in files THEN artifact[r]
                                                 ELSE IF file \in gone THEN None ELSE @[file]]]

Release(r) ==
    /\ Go(r, "release", "succeeded")
    /\ assets' = Assets(r, File, {})
    /\ UNCHANGED <<origin, outputs, tags, passed, public, history>>

ReleasePartly(r) ==
    /\ Go(r, "release", "release_failed")
    /\ \E files \in SUBSET File : \E gone \in SUBSET (File \ files) :
           Cardinality(gone) <= 1 /\ assets' = Assets(r, files, gone)
    /\ UNCHANGED <<origin, outputs, tags, passed, public, history>>

\* A step of the publish job fails, or the runner stops before or after it.
Fail(r) ==
    /\ step[r] \in PublishSteps /\ Go(r, step[r], "publish_failed")
    /\ UNCHANGED <<origin, outputs, published, history>>

Requeue(r, job) ==
    /\ step' = [CancelPending(ref[r]) EXCEPT ![r] = job]
    /\ IF job = "publish_queued" THEN AddBuild ELSE UNCHANGED builds
    /\ UNCHANGED <<origin, outputs, published>>

\* Mutant: one job, so that everything is done again.
RerunFromTheStart(r) ==
    /\ step[r] \in {"publish_failed", "release_failed"}
    /\ Requeue(r, "publish_queued") /\ UNCHANGED restarted

\* "Re-run failed jobs": the release job takes the artifact of the publish job.
RerunFailed(r) ==
    /\ step[r] \in {"publish_failed", "release_failed"}
    /\ Requeue(r, IF step[r] = "publish_failed" THEN "publish_queued" ELSE "release_queued")
    /\ UNCHANGED restarted

\* Re-run of one job, the release job, even of a run that succeeded.
RerunReleaseJob(r) ==
    /\ step[r] \in {"succeeded", "release_failed"}
    /\ Requeue(r, "release_queued") /\ UNCHANGED restarted

\* "Re-run all jobs", or the publish job and those that need it.
RerunAll(r) ==
    /\ step[r] \in Ended
    /\ Requeue(r, "publish_queued")
    /\ restarted' = restarted \cup {r}

\* A package that is public stays so.
MakePublic ==
    /\ public' = TRUE
    /\ UNCHANGED <<origin, step, outputs, tags, passed, assets, history>>

Next ==
    \/ MakePublic
    \/ \E r \in Run : \/ PushTag(r) \/ Start(r) \/ Check(r) \/ Build(r) \/ PassCheck(r)
                      \/ Gate(r) \/ Copy(r) \/ Verify(r) \/ Upload(r)
                      \/ Release(r) \/ ReleasePartly(r) \/ Fail(r)
                      \/ RerunFailed(r) \/ RerunReleaseJob(r) \/ RerunAll(r)

Spec == Init /\ [][Next]_vars

\* Runners run what is queued; a release job that failed is re-run until it
\* succeeds, which it does in the end.
Progress(r) == \/ Start(r) \/ Check(r) \/ Build(r) \/ PassCheck(r) \/ Gate(r) \/ Copy(r)
               \/ Verify(r) \/ Upload(r) \/ Fail(r)
CompleteRelease(r) == step[r] = "release_failed" /\ RerunFailed(r)
FairSpec == Spec /\ \A r \in Run : /\ WF_vars(Progress(r)) /\ WF_vars(CompleteRelease(r))
                                   /\ SF_vars(Release(r))
--------------------------------------------------------------------------------
TypeOK ==
    /\ ref \in [Run -> Ref \cup {None}] /\ commit \in [Run -> Commit \cup {None}]
    /\ step \in [Run -> Step]
    /\ \A r \in Run : step[r] # "none" => ref[r] \in Ref /\ commit[r] \in Commit
    /\ digest \in [Run -> Digest \cup {None}] /\ artifact \in [Run -> Digest \cup {None}]
    /\ tags \in [Ref -> Digest \cup {None}] /\ passed \subseteq Checks \X Digest
    /\ public \in BOOLEAN /\ builds \in 0..MaxBuilds /\ restarted \subseteq Run
    /\ assets \in [Ref -> [File -> Digest \cup {None}]]

(* "Version tags are immutable": once published, a version tag names the    *)
(* same image, whoever pushes the git tag again or re-runs what.            *)
VersionTagNeverMoves == [][\A f \in Ref : tags[f] # None => tags'[f] = tags[f]]_vars

(* What is released under a version is the image its version tag names; it  *)
(* was scanned, pulled without login, attested and signed, and that of a    *)
(* final version was built from the default branch.                         *)
ReleaseIsWhatWasChecked ==
    \A f \in Ref :
        /\ \A file \in File : assets[f][file] \in {None, tags[f]}
        /\ tags[f] # None => /\ \A c \in Checks : <<c, tags[f]>> \in passed
                             /\ f \in Final => commit[tags[f][1]] \in Main

(* A run that got as far as the release job can be completed by re-running  *)
(* what failed, whatever stopped it and whatever else is pushed or re-run,  *)
(* unless all its jobs were re-run: then its version tag is in its way.     *)
ReleaseCanBeCompleted ==
    \A r \in Run :
        step[r] = "release" ~>
            r \in restarted \/ \E f \in Ref : f = ref[r] /\ \A file \in File : assets[f][file] = artifact[r]
================================================================================
