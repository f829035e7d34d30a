---------------------------- MODULE MCSandboxRun ----------------------------
(***************************************************************************)
(* Small instances of SandboxRun for TLC.                                  *)
(***************************************************************************)
EXTENDS SandboxRun, TLC

CONSTANTS p1, p2, art, sha, img, imgId, otherImgId

\* One git snapshot; its subject fields are fingerprints or object names
Repo == [k \in SubjectFields |-> sha] @@ [kind |-> "git_commit"]

\* A plain directory: no commit, no tree
Directory ==
    [k \in SubjectFields |-> IF k \in {"commit", "tree_hash"} THEN NULL ELSE sha]
    @@ [kind |-> "filesystem"]

Snapshots == {Repo}
MixedSnapshots == {Repo, Directory}
WarnVerdict == [s \in MixedSnapshots |-> "warn"]
Policy == "1"
Sha == {sha}
Refs == {img}
Ids == {imgId, otherImgId}
OneId == {imgId}

(***************************************************************************)
(* Artifacts: a draft, the approved form of it, and lookalikes             *)
(***************************************************************************)
RepoGate ==
    [subject |-> [k \in SubjectFields |-> sha] @@ [binding_kind |-> "snapshot_bound"],
     policy_version |-> Policy, verdict |-> "warn"]
Argv == <<"test">>
Draft == AuthorizationDraft(RepoGate, Argv, 1, [ref |-> img, id |-> imgId])
Approved == [Draft EXCEPT !.approved = TRUE, !.signed = TRUE]
Legacy == [Approved EXCEPT !.version = "0.2-draft", !.scope = ExpectedScope("0.2-draft", RepoGate),
                           !.subject = ExpectedSubject("0.2-draft", RepoGate)]
Unbound == [Approved EXCEPT !.image = NULL]
OtherArgv == [Approved EXCEPT !.argv = <<"other">>]

OneArtifact == {Approved}
AllArtifacts == {Draft, Approved, Legacy, Unbound, OtherArgv}

(***************************************************************************)
(* Command lines                                                           *)
(***************************************************************************)
Real == [path |-> art, runner |-> "docker", dry_run |-> FALSE, fail_on_gate |-> "block",
         argv |-> Argv, image |-> img, profile |-> "locked-down", approval |-> "none",
         preserve |-> FALSE]
DryRun == [Real EXCEPT !.dry_run = TRUE]
Fake == [Real EXCEPT !.runner = "fake"]
NoThreshold == [Real EXCEPT !.fail_on_gate = NULL]
Strict == [Real EXCEPT !.fail_on_gate = "warn"]
NoArtifact == [Real EXCEPT !.path = NULL]
FakeNoArtifact == [Fake EXCEPT !.path = NULL, !.fail_on_gate = NULL]
NoCommand == [DryRun EXCEPT !.path = NULL, !.argv = <<>>, !.fail_on_gate = NULL]
Refused == [Real EXCEPT !.approval = "refused"]
Preserving == [Real EXCEPT !.preserve = TRUE]
InspectOnly == [Real EXCEPT !.profile = "inspect-only"]
UnpinnedImage == [Real EXCEPT !.image = "latest"]

OneRequest == {Real}
RacingRequests == {Real, Fake, DryRun}
AllRequests == {Real, DryRun, Fake, NoThreshold, Strict, NoArtifact, FakeNoArtifact, NoCommand,
                Refused, Preserving, InspectOnly, UnpinnedImage}

\* The owner rewrites the artifact only while two real invocations race for it
RewritesAreRaces == file[art].stamp = 0 \/ \A p \in Proc : req[p] = Real

ProcSymmetry == Permutations(Proc)
=============================================================================
