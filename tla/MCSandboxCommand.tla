-------------------------- MODULE MCSandboxCommand --------------------------
(***************************************************************************)
(* Instances of SandboxCommand for TLC.                                    *)
(***************************************************************************)
EXTENDS SandboxCommand

CONSTANTS id1, id2

MCImageIds == {id1, id2}

(***************************************************************************)
(* Artifacts                                                               *)
(***************************************************************************)
Text(name, has) == [name |-> name, readable |-> TRUE, shape |-> "object", lifecycle |-> {}, has |-> has]
Artifact(root, place, form, text) ==
    [root |-> root, place |-> place, form |-> form, readable |-> TRUE, contents |-> {text}]

Wheel == Artifact("pip_cache", "other", "zip", Text("code", {"network"}))
Packed == Artifact("pip_cache", "other", "zip", Text("code", {"exec", "obfuscation"}))
Manifest == [Text("package_json", {}) EXCEPT !.lifecycle = {{"exec"}}]
Hooked == Artifact("workspace", "node_modules", "package_json", Manifest)
NotAnObject == Artifact("workspace", "node_modules", "package_json", [Manifest EXCEPT !.shape = "not_object"])
Torn == Artifact("pip_cache", "other", "zip", [Text("code", {"exec", "obfuscation"}) EXCEPT !.readable = FALSE])
Source == Artifact("pip_cache", "other", "tar_gz", Text("setup.py", {"backend"}))
Tarball == Artifact("npm_cache", "other", "tgz", [Text("package_json", {}) EXCEPT !.shape = "not_json"])
Unreadable == [Artifact("pip_cache", "dist_info", "text", Text("metadata", {"secret"})) EXCEPT !.readable = FALSE]
Notes == Artifact("workspace", "dist_info", "text", Text("metadata", {"secret", "ip"}))
Helper == Artifact("npm_cache", "other", "text", Text("test_support", {"exec", "env"}))
Image == Artifact("workspace", "other", "binary", Text("code", {"exec"}))
Encrypted == Artifact("npm_cache", "other", "zip", [Text("code", {}) EXCEPT !.shape = "encrypted"])
Hidden == Artifact("npm_cache", "other", "text", Text("code", {"exec", "obfuscation"}))

MCFetched == {Wheel, Packed, Hooked, NotAnObject, Torn, Source, Tarball, Unreadable, Notes, Helper, Image, Encrypted, Hidden}
MCWritten == {Wheel}

(***************************************************************************)
(* Repositories and images                                                 *)
(***************************************************************************)
Script(name) == [name |-> name, shell |-> FALSE]
Empty == [package |-> "absent", npmLock |-> FALSE, scripts |-> {}, setup |-> FALSE, pyproject |-> NULL,
          requirements |-> {}, poetry |-> NULL, uv |-> NULL, tests |-> FALSE, fixtureName |-> FALSE]
Project0 == [backend |-> TRUE, requires |-> {"safe"}, dependencies |-> {}, scripts |-> {}, fixture |-> NULL,
             pytest |-> FALSE]

NodeRepo == [Empty EXCEPT !.package = "scripts", !.npmLock = TRUE,
                          !.scripts = {Script("install"), Script("test"), [name |-> "start", shell |-> TRUE]}]
PythonRepo == [Empty EXCEPT !.pyproject = Project0, !.tests = TRUE]
MixedRepo == [NodeRepo EXCEPT !.requirements = {{}, {"vcs"}}]
LocalRepo == [Empty EXCEPT !.pyproject = [Project0 EXCEPT !.requires = {}, !.pytest = TRUE]]
SourcedRepo == [LocalRepo EXCEPT !.pyproject.dependencies = {"vcs"}]
FixtureRepo == [Empty EXCEPT !.pyproject = [Project0 EXCEPT !.fixture = "python-m-pytest", !.pytest = TRUE, !.requires = {}],
                             !.fixtureName = TRUE]
LockedRepo == [Empty EXCEPT !.setup = TRUE, !.uv = [packages |-> {"registry", "git"}]]
PoetryRepo == [Empty EXCEPT !.poetry = [packages |-> {"default", "registry"}], !.pyproject = [Project0 EXCEPT !.scripts = {"entry", "pytest"}]]

AllRepos == {Empty, NodeRepo, PythonRepo, MixedRepo, LocalRepo, SourcedRepo, FixtureRepo, LockedRepo, PoetryRepo}

Digest == [kind |-> "digest", explicit |-> TRUE, allow |-> FALSE, expected |-> NULL]
Local == [kind |-> "tag", explicit |-> TRUE, allow |-> TRUE, expected |-> id1]
Latest == [Local EXCEPT !.kind = "latest"]

(***************************************************************************)
(* Approval files                                                          *)
(***************************************************************************)
Entry(c) == [object |-> TRUE, legacy |-> FALSE, wellFormed |-> TRUE, shell |-> FALSE, phase |-> c.phase, kind |-> c.kind,
             cwd |-> c.cwd, argv |-> c.argv, env |-> c.env]
Entries(repo) == LET commands == detect_execution_plan(repo) IN [i \in DOMAIN commands |-> Entry(commands[i])]
File(entries) == [readable |-> TRUE, entries |-> entries, contract |-> << >>]
AllOf(repo) == File(Entries(repo))

\* Every way in which the entry for a command can be almost right
Near(entry) ==
    {entry,
     [entry EXCEPT !.phase = IF @ = Phase2 THEN Phase3 ELSE Phase2],
     [entry EXCEPT !.cwd = "./"], [entry EXCEPT !.cwd = "./sub"], [entry EXCEPT !.cwd = "/abs"],
     [entry EXCEPT !.env = "PATH"], [entry EXCEPT !.argv = "pytest"], [entry EXCEPT !.kind = "other"],
     [entry EXCEPT !.shell = TRUE], [entry EXCEPT !.wellFormed = FALSE],
     [entry EXCEPT !.legacy = TRUE], [entry EXCEPT !.object = FALSE]}
Contracts ==
    {<< >>, [docker_image |-> "tag", expected_image_id |-> id1, local_sanctioned_image |-> TRUE],
     [expected_image_id |-> id2], [docker_image |-> "digest"], [network_policy |-> "bridge"], [network_policy |-> "none"],
     [approval_scope |-> "another_repository"], [approval_scope |-> "this_repository"],
     [expires_at |-> "wrong_type"], [expires_at |-> "ok"]}
Unparsable == [File(<< >>) EXCEPT !.readable = FALSE]
Approvals(repo) ==
    {NULL, Unparsable}
    \cup {File(<<entry>>) : entry \in UNION {Near(e) : e \in Range(Entries(repo))}}
    \cup {[AllOf(repo) EXCEPT !.contract = contract] : contract \in Contracts}

(***************************************************************************)
(* Calls                                                                   *)
(***************************************************************************)
Call(repo, approval, image) ==
    [repo |-> repo, vendored |-> {}, approval |-> approval, image |-> image, preflight |-> TRUE, smoke |-> FALSE,
     phase1 |-> TRUE, phase2 |-> TRUE, phase3 |-> TRUE]

ApprovalCalls == {[Call(repo, a, Local) EXCEPT !.vendored = {Wheel}] : repo \in {LocalRepo, NodeRepo}, a \in Approvals(LocalRepo) \cup Approvals(NodeRepo)}
PlanCalls == {[Call(repo, AllOf(repo), Digest) EXCEPT !.vendored = {Wheel}] : repo \in AllRepos}
    \cup {[Call(NodeRepo, AllOf(NodeRepo), Latest) EXCEPT !.vendored = {Wheel}]}
RescanCalls == {Call(PythonRepo, AllOf(PythonRepo), Digest)}
LocalCalls == {Call(LocalRepo, AllOf(LocalRepo), Digest)}
SmokeCalls == {[Call(FixtureRepo, File(<<Entry(Command(Phase3, "test_probe", "python-m-pytest"))>>), Digest)
                    EXCEPT !.smoke = TRUE],
               [Call(NodeRepo, NULL, Digest) EXCEPT !.smoke = TRUE, !.preflight = FALSE]}
AllCalls == ApprovalCalls \cup PlanCalls \cup RescanCalls \cup LocalCalls \cup SmokeCalls

(***************************************************************************)
(* One kind of trouble for each kind of call                               *)
(***************************************************************************)
Abandoned == {i \in DOMAIN containers : containers[i].live /\ i # client}
Unwatched == \A i \in DOMAIN containers : containers[i].did = {}
NothingElse == materialized \in {"not_started", "completed"} /\ pc # "unwinding"
Unread == \E p \in Dynamic : \E r \in Range(phases[p].results) : r.error \/ r.read_error

OneTrouble ==
    /\ retags = 0 \/ inp.smoke
    /\ inp.image.kind = "digest" /\ retags = 0 => tag = id1
    /\ Cardinality(Abandoned) < 2
    /\ \/ inp.smoke /\ ~ Unread /\ written = {}
       \/ inp.vendored # {} /\ files \subseteq {Wheel} /\ Abandoned = {} /\ Unwatched /\ NothingElse /\ ~ Unread
       \/ inp \in RescanCalls /\ Unwatched /\ NothingElse /\ ~ Unread
       \/ inp \in LocalCalls /\ written = {} /\ materialized # "partial"
          /\ Cardinality({i \in DOMAIN containers : containers[i].did # {}}) < 2
=============================================================================
