------------------------------ MODULE GateCheck ------------------------------
(***************************************************************************)
(* The gate-check command of cli.py, run several times against a world     *)
(* that changes meanwhile.  A run snapshots the target, scans the copy,    *)
(* reads the external suites, decides, reads the sandbox evidence against  *)
(* that first decision, decides again, looks for an execution              *)
(* authorization (explicit, else discovered), reports and removes its copy.*)
(* Nothing catches an exception on the way, and a removal that fails is    *)
(* not reported.                                                           *)
(*                                                                         *)
(* Between two steps of a run the owner may commit, evidence files may be  *)
(* replaced, time passes, and the Human may approve the decision a former  *)
(* run has emitted.                                                        *)
(***************************************************************************)
EXTENDS EvidenceFiles, Sequences, Functions

CONSTANTS
    Trees,          \* what the target may hold: [commit, kind, tree, checks, ..., tracks_authorization]
    Args,           \* command lines: [argv, explicit, no_discover, fail_on, external, sandbox]
    Files,          \* file contents that may come to stand at an evidence path
    FirstFiles,     \* what stands there at first: functions from EvidencePaths to Files or NULL
    Images,         \* the image bindings a Human may put into an approval (NULL: none)
    MaxClock, MaxRuns, MaxReplaced

EvidencePaths == UNION {Range(a.external) \cup Range(a.sandbox) : a \in Args}

\* parser.error refuses --authorization without a command; None is no exit code; a Git snapshot has a commit
ASSUME GateCheckConstants ==
    /\ {MaxClock, MaxRuns, MaxReplaced} \subseteq Nat
    /\ \A a \in Args : /\ a.explicit => a.argv # NULL
                       /\ {a.external, a.sandbox} \subseteq Seq(EvidencePaths)
    /\ NULL \notin {"authorized", "blocked", "usage", "raised"}
    /\ \A t \in Trees : t.kind = "git_commit" => t.commit # NULL

\* A file stands at its own path; the canonical fingerprint of a report determines its subject; the closed schemas
\* know either repo_commit (a suite) or commit (a sandbox-run report)
ASSUME EvidenceFilesAreFiles ==
    /\ \A f \in Files : f.path \in EvidencePaths /\ f.size \in Nat
    /\ \A first \in FirstFiles : /\ first \in [EvidencePaths -> Files \cup {NULL}]
                                /\ \A p \in EvidencePaths : first[p] # NULL => first[p].path = p
    /\ \A f, g \in {x \in Files : x.report # NULL} : f.report.fp = g.report.fp => f.report.subject = g.report.subject
    /\ \A f \in {x \in Files : x.report # NULL} :
          f.report.shape => ~({"repo_commit", "commit"} \subseteq DOMAIN f.report.subject)

VARIABLES
    tree,           \* the target as it stands
    files,          \* [path -> file or NULL]
    artifact,       \* the authorization file, NULL when absent
    emitted,        \* the last decision a run reported, NULL at first
    approved,       \* the decision the Human approved last, NULL at first
    clock, runs, replaced,
    pc, args, snap, scanned, suites, sandbox, seen, total, baseline, decision,
    auth,           \* NULL, or [artifact, valid, source, at] of the validator's answer
    exit,           \* NULL while running, "authorized" (0), "blocked" or "usage" (2), "raised"
    workspace       \* the copy of the run: "none", "present", "removed", or "left" by a removal that failed

world == <<tree, files, artifact, approved, clock, replaced>>
local == <<args, snap, scanned, suites, sandbox, seen, total, baseline, decision, auth>>
vars == <<world, emitted, runs, pc, local, exit, workspace>>

\* What create_verified_snapshot takes of the target: hashes are injective
Snapshot(t) ==
    [kind |-> t.kind, repo |-> t.repo, commit |-> t.commit, tree |-> t.tree, id |-> t.id,
     manifest |-> t.manifest]

GateFailModes(mode) ==
    CASE mode = "block" -> {"block"} [] mode = "quarantine" -> {"quarantine", "block"}
      [] mode = "warn" -> {"warn", "quarantine", "block"}
      [] mode = "unknown" -> {"unknown", "warn", "quarantine", "block"}

TypeOK ==
    /\ tree \in Trees
    /\ artifact # NULL => artifact.approved
    /\ pc \in {"idle", "snapshot", "scan", "external", "baseline", "sandbox", "decide",
               "authorize", "report"}
    /\ total \in Nat /\ workspace \in {"none", "present", "removed", "left"}
    /\ \A g \in {baseline, decision, emitted, approved} \ {NULL} : g.verdict \in Verdicts
    /\ exit \in {NULL, "authorized", "blocked", "usage", "raised"}

Init ==
    /\ tree \in Trees
    /\ files \in FirstFiles
    /\ artifact = NULL
    /\ emitted = NULL /\ approved = NULL /\ clock = 0 /\ runs = 0 /\ replaced = 0
    /\ pc = "idle" /\ args = NULL /\ snap = NULL /\ scanned = NULL /\ suites = {} /\ sandbox = {}
    /\ seen = {} /\ total = 0 /\ baseline = NULL /\ decision = NULL /\ auth = NULL
    /\ exit = NULL /\ workspace = "none"

(***************************************************************************)
(* The run                                                                 *)
(***************************************************************************)
\* DisposableWorkspace.cleanup swallows an OSError of the removal
cleanup == workspace' \in {"removed", "left"}

Leave(code) ==
    /\ pc' = "idle" /\ exit' = code
    /\ args' = NULL /\ snap' = NULL /\ scanned' = NULL /\ suites' = {} /\ sandbox' = {}
    /\ seen' = {} /\ total' = 0

\* Mutant: a use error forgets the copy
UsageError_Forget == Leave("usage") /\ UNCHANGED workspace

\* Every use error removes the copy before parser.error leaves
UsageError == Leave("usage") /\ cleanup

\* An exception out of any call between the intake and the removal: no clause catches it
Raise ==
    /\ pc \notin {"idle", "snapshot"}
    /\ Leave("raised")
    /\ UNCHANGED <<world, emitted, runs, baseline, decision, auth, workspace>>

\* The argument limits keep the references of one decision within MaxRefs
Start ==
    /\ pc = "idle" /\ runs < MaxRuns
    /\ \E a \in Args : args' = a
    /\ runs' = runs + 1 /\ pc' = "snapshot" /\ exit' = NULL
    /\ snap' = NULL /\ scanned' = NULL /\ suites' = {} /\ sandbox' = {} /\ seen' = {} /\ total' = 0
    /\ baseline' = NULL /\ decision' = NULL /\ auth' = NULL /\ workspace' = "none"
    /\ UNCHANGED <<world, emitted>>

TakeSnapshot ==
    /\ pc = "snapshot"
    /\ \/ /\ snap' = Snapshot(tree) /\ scanned' = tree /\ pc' = "scan"
          /\ workspace' = "present"
          /\ UNCHANGED <<args, suites, sandbox, seen, total, exit>>
       \/ UsageError
    /\ UNCHANGED <<world, emitted, runs, baseline, decision, auth>>

\* scan_verified_snapshot reads the copy only
Scan ==
    /\ pc = "scan" /\ pc' = "external"
    /\ UNCHANGED <<world, emitted, runs, local, exit, workspace>>

\* The path whose turn it is: a set, empty after the last one
Pending(paths, loaded) == {paths[i] : i \in DOMAIN paths \cap {Cardinality(loaded) + 1}}

\* _load_external_suite_evidence, one path at a time

LoadExternal(p) ==
    LET f == files[p]
        suite == validate_external_suite_evidence(f, snap, seen, clock)
    IN /\ suites' = suites \cup {suite}
       /\ seen' = seen \cup ({suite.ref.report_fingerprint} \ {NULL})

ExternalStep ==
    /\ pc = "external"
    /\ \/ /\ Pending(args.external, suites) = {}
          /\ pc' = "baseline" /\ seen' = {}
          /\ UNCHANGED <<args, snap, scanned, suites, sandbox, total, exit, workspace>>
       \/ \E p \in Pending(args.external, suites) :
             \/ files[p] # NULL /\ LoadExternal(p)
                /\ UNCHANGED <<pc, args, snap, scanned, sandbox, total, exit, workspace>>
             \/ files[p] = NULL /\ UsageError
    /\ UNCHANGED <<world, emitted, runs, baseline, decision, auth>>

Baseline ==
    /\ pc = "baseline" /\ pc' = "sandbox"
    /\ baseline' = evaluate_from_scan_envelope(scanned, snap, suites, {})
    /\ UNCHANGED <<world, emitted, runs, args, snap, scanned, suites, sandbox, seen, total, decision, auth, exit, workspace>>

\* _load_sandbox_run_evidence: subject and policy version of the first decision
LoadSandbox(p) ==
    LET f == files[p]
        evidence == validate_sandbox_run_evidence(f, baseline, seen, total + f.size, clock)
    IN /\ sandbox' = sandbox \cup {evidence}
       /\ seen' = seen \cup ({evidence.ref.report_fingerprint} \ {NULL})
       /\ total' = total + f.size

SandboxStep ==
    /\ pc = "sandbox"
    /\ \/ /\ Pending(args.sandbox, sandbox) = {}
          /\ pc' = "decide"
          /\ UNCHANGED <<args, snap, scanned, suites, sandbox, seen, total, exit, workspace>>
       \/ \E p \in Pending(args.sandbox, sandbox) :
             \/ files[p] # NULL /\ LoadSandbox(p)
                /\ UNCHANGED <<pc, args, snap, scanned, suites, exit, workspace>>
             \/ files[p] = NULL /\ UsageError
    /\ UNCHANGED <<world, emitted, runs, baseline, decision, auth>>

\* Mutant: the second evaluation is not given the external suites again
Decision_NoSuites == evaluate_from_scan_envelope(scanned, snap, {}, sandbox)

Decision == evaluate_from_scan_envelope(scanned, snap, suites, sandbox)

Decide ==
    /\ pc = "decide" /\ pc' = "authorize"
    /\ decision' = Decision
    /\ UNCHANGED <<world, emitted, runs, args, snap, scanned, suites, sandbox, seen, total, baseline, auth, exit, workspace>>

\* The validator gets the snapshot of this run and no image identity
Observed(s) == [k \in SubjectFields |->
    CASE k = "repo" -> s.repo [] k = "commit" -> s.commit [] k = "tree_hash" -> s.tree
      [] k = "snapshot_id" -> s.id [] k = "manifest_fingerprint" -> s.manifest]

Validated(source) ==
    [artifact |-> artifact, source |-> source, at |-> clock,
     valid |-> execution_authorized(artifact, decision, args.argv,
                   [observed |-> Observed(snap), ref |-> NULL, id |-> NULL], clock)]

\* discover_execution_authorization and _read_candidate: the tracked paths are those of the snapshot, the
\* candidate is read from the live target
discover == ~scanned.tracks_authorization /\ artifact # NULL

Authorize ==
    /\ pc = "authorize"
    /\ \/ /\ args.explicit /\ artifact # NULL
          /\ auth' = Validated("explicit") /\ pc' = "report"
          /\ UNCHANGED <<args, snap, scanned, suites, sandbox, seen, total, exit, workspace>>
       \/ /\ args.explicit /\ artifact = NULL
          /\ UsageError /\ UNCHANGED auth
       \/ /\ ~args.explicit /\ args.argv # NULL /\ ~args.no_discover /\ discover
          /\ auth' = Validated("discovered") /\ pc' = "report"
          /\ UNCHANGED <<args, snap, scanned, suites, sandbox, seen, total, exit, workspace>>
       \/ /\ ~args.explicit /\ (args.argv = NULL \/ args.no_discover \/ ~discover)
          /\ auth' = NULL /\ pc' = "report"
          /\ UNCHANGED <<args, snap, scanned, suites, sandbox, seen, total, exit, workspace>>
    /\ UNCHANGED <<world, emitted, runs, baseline, decision>>

\* Mutant: only the threshold decides
Authorized_Threshold == auth # NULL /\ decision.verdict \notin GateFailModes(args.fail_on)

\* _build_gate_check_report: a valid authorization and a verdict below the threshold
Authorized == auth # NULL /\ auth.valid /\ decision.verdict \notin GateFailModes(args.fail_on)

Report ==
    /\ pc = "report"
    /\ pc' = "idle" /\ exit' = (IF Authorized THEN "authorized" ELSE "blocked")
    /\ emitted' = decision
    /\ cleanup
    /\ UNCHANGED <<world, runs, local>>

\* The report or the decision cannot be written; one of them may have been
OutputFails ==
    /\ pc = "report"
    /\ Leave("raised")
    /\ emitted' \in {emitted, decision}
    /\ cleanup
    /\ UNCHANGED <<world, runs, baseline, decision, auth>>

Run == Start \/ TakeSnapshot \/ Scan \/ ExternalStep \/ Baseline \/ SandboxStep \/ Decide
       \/ Authorize \/ Report \/ Raise \/ OutputFails

(***************************************************************************)
(* The world                                                               *)
(***************************************************************************)
Commit ==
    /\ \E t \in Trees \ {tree} : tree' = t
    /\ replaced < MaxReplaced /\ replaced' = replaced + 1
    /\ UNCHANGED <<files, artifact, emitted, approved, clock, runs, pc, local, exit, workspace>>

\* A scanner suite or a sandbox run wrote its report, or somebody replaced it
WriteEvidence ==
    /\ \E f \in Files :
          /\ files[f.path] # f
          /\ files' = [files EXCEPT ![f.path] = f]
    /\ replaced < MaxReplaced /\ replaced' = replaced + 1
    /\ UNCHANGED <<tree, artifact, emitted, approved, clock, runs, pc, local, exit, workspace>>

Tick ==
    /\ clock < MaxClock /\ clock' = clock + 1
    /\ UNCHANGED <<tree, files, artifact, emitted, approved, replaced, runs, pc, local, exit, workspace>>

\* The Human approves the exact decision a run emitted, for one command and one tick
Approve ==
    /\ emitted # NULL /\ artifact = NULL
    /\ \E argv \in {a.argv : a \in Args} \ {NULL}, image \in Images :
          artifact' = [AuthorizationDraft(emitted, argv, clock + 1, image)
                          EXCEPT !.approved = TRUE, !.signed = TRUE]
    /\ approved' = emitted
    /\ UNCHANGED <<tree, files, emitted, clock, replaced, runs, pc, local, exit, workspace>>

World == Commit \/ WriteEvidence \/ Tick \/ Approve
Next == Run \/ World

Spec == Init /\ [][Next]_vars

(***************************************************************************)
(* Properties                                                              *)
(***************************************************************************)
Reported == pc = "idle" /\ exit \in {"authorized", "blocked"}

\* Exit 0 means that the Human approved this very decision (evidence references
\* included) for this command and this snapshot, and that the approval had not expired
\* when it was checked, whatever was committed, replaced or approved while the run went on.
ExitZeroIsApproved ==
    Reported /\ exit = "authorized" =>
        /\ approved = decision /\ auth.artifact.based_on = GateReference(decision)
        /\ auth.artifact.argv = args.argv /\ auth.at < auth.artifact.expires
        /\ \A k \in SubjectFields : decision.subject[k] = Observed(snap)[k]
        /\ decision.subject.binding_kind = "snapshot_bound"
        /\ decision.verdict \in {"warn", "allow_limited"}

\* Exit 0 means that all the evidence was usable: every file named on the command line
\* was read and valid for this snapshot, no sandbox run had a problem, every scanner of
\* every suite completed with nothing above a warning.
ExitZeroHasCleanEvidence ==
    Reported /\ exit = "authorized" =>
        /\ {s.path : s \in suites} = Range(args.external) /\ {e.path : e \in sandbox} = Range(args.sandbox)
        /\ \A s \in suites : s.valid /\ \A e \in s.entries : EntryCandidates(e) \subseteq {"warn"}
        /\ \A e \in sandbox : e.valid /\ e.signals = {}
        /\ \A f \in {x \in Files : x.report # NULL} :
              f.report.fp \in {r.report_fingerprint : r \in decision.refs} =>
                 /\ Get(f.report.subject, "repo_commit") \in {NULL, snap.commit}
                 /\ Get(f.report.subject, "commit") \in {NULL, snap.commit}

\* The second evaluation, with the sandbox evidence, never undercuts the first, and its
\* references name every file that was read.
ReturnNeverImproves ==
    decision # NULL =>
        /\ VerdictRank(decision.verdict) >= VerdictRank(baseline.verdict)
        /\ baseline.refs \subseteq decision.refs

\* Evidence handed in twice under two names cannot pass unnoticed: the decision is then
\* beyond what an authorization unlocks.
RepeatedEvidenceRefused ==
    decision # NULL /\ pc = "authorize" =>
        \A x, y \in suites \cup sandbox :
            /\ x.path # y.path /\ {x, y} \in (SUBSET suites) \cup (SUBSET sandbox)
            /\ x.ref.report_fingerprint = y.ref.report_fingerprint /\ x.ref.report_fingerprint # NULL
            => decision.verdict \notin {"warn", "allow_limited"}

\* Whatever the tree carries under the authorization's name counts for nothing: an
\* artifact the snapshot tracks is never discovered.
TrackedNeverDiscovered ==
    auth # NULL /\ auth.source = "discovered" /\ pc = "report" => ~scanned.tracks_authorization

\* main (gate-check), DisposableWorkspace.cleanup: whatever refuses the run on its way, it has tried to remove its
\* copy when it has ended, unless an exception ended it.  A removal that failed leaves the copy, and exit 0 as it is.
CopyAccounted == pc = "idle" /\ exit # "raised" => workspace # "present"

\* Exit 0 is earned: the decision was approved, all its evidence was clean and about this snapshot, and the
\* approval did not come from the target itself (main, _build_gate_check_report).
AuthorizedIsEarned == TypeOK /\ ExitZeroIsApproved /\ ExitZeroHasCleanEvidence /\ TrackedNeverDiscovered

\* Evidence that returns to the gate only adds to the decision, and counts against it when it is handed in twice
\* (the second evaluation of main, _load_sandbox_run_evidence).
ReturnIsSound == ReturnNeverImproves /\ RepeatedEvidenceRefused
=============================================================================
