---------------------------- MODULE SandboxPlan ----------------------------
(***************************************************************************)
(* What "rhd sandbox" decides before any container starts: the commands it *)
(* finds in a repository, the dependency fetch it plans, whether the image *)
(* may be run, and which of the commands an approval file approves.        *)
(*                                                                         *)
(* A repository is abstracted to what the planners tell apart:             *)
(*   package     "absent", "noscripts" or "scripts" (of package.json)      *)
(*   scripts     npm scripts [name, shell]: shell when the text starts one *)
(*   npmLock, setup, tests, fixtureName   a file or directory is there     *)
(*   pyproject   NULL or [backend, requires, dependencies, scripts,        *)
(*               fixture, pytest]                                          *)
(*   requirements  a set of files, each the set of its lines' sources      *)
(*   poetry, uv  NULL or [packages], NULL when they cannot be parsed       *)
(* An argv is one name.  Reports' wording (limitations) is left out.       *)
(***************************************************************************)
EXTENDS PythonValues, Naturals, Sequences, FiniteSets, Functions

CONSTANT ImageIds   \* full image IDs

Phase2 == "phase2_install_probe"
Phase3 == "phase3_runtime_probe"

(***************************************************************************)
(* Commands and their approval keys                                        *)
(***************************************************************************)
Command(phase, kind, argv) == [phase |-> phase, kind |-> kind, cwd |-> ".", argv |-> argv, env |-> "none"]

\* What normalize_repo_cwd makes of a directory; NULL where it raises.  lstrip("./") strips characters.
normalize_repo_cwd(cwd) ==
    CASE cwd \in {".", "./", "..."} -> "."
      [] cwd = "./sub" -> "sub"
      [] cwd \in {"../up", "/abs"} -> NULL
      [] OTHER -> cwd

\* from_mapping(entry): NULL where it raises ValueError
from_mapping(entry) ==
    IF ~ entry.wellFormed \/ entry.shell \/ normalize_repo_cwd(entry.cwd) = NULL
    THEN NULL
    ELSE [phase |-> entry.phase, kind |-> entry.kind, cwd |-> normalize_repo_cwd(entry.cwd),
          argv |-> entry.argv, env |-> entry.env]

\* Mutant: the phase is not part of the key
approval_key_NoPhase(command) == [kind |-> command.kind, cwd |-> command.cwd, argv |-> command.argv, env |-> command.env]
approval_key(command) ==
    [phase |-> command.phase, kind |-> command.kind, cwd |-> command.cwd, argv |-> command.argv, env |-> command.env]

\* The commands the tool can generate, in the order their keys sort
CommandOrder == <<
    Command("phase1_fetch", "dependency_fetch", "npm-ci"),
    Command("phase1_fetch", "dependency_fetch", "npm-install"),
    Command("phase1_fetch", "dependency_fetch", "pip-download-requirements"),
    Command("phase1_fetch", "dependency_fetch", "pip-download"),
    Command(Phase2, "editable_install_probe", "pip-install-editable"),
    Command(Phase2, "install_script_probe", "npm-run-install"),
    Command(Phase2, "install_script_probe", "npm-run-postinstall"),
    Command(Phase2, "install_script_probe", "npm-run-preinstall"),
    Command(Phase2, "install_script_probe", "npm-run-prepare"),
    Command(Phase2, "install_script_probe", "pip-install"),
    Command(Phase3, "runtime_smoke", "entry"),
    Command(Phase3, "runtime_smoke", "npm-start"),
    Command(Phase3, "test_probe", "fixture"),
    Command(Phase3, "test_probe", "npm-test"),
    Command(Phase3, "test_probe", "pytest"),
    Command(Phase3, "test_probe", "python-m-pytest") >>

\* The members of S in the order R, which holds the pairs <<a, b>> with a at or before b
InOrder(S, R) == [k \in 1 .. Cardinality(S) |-> CHOOSE i \in S : Cardinality({j \in S : <<j, i>> \in R}) = k]

\* sorted is stable
Rank(command) == CHOOSE i \in DOMAIN CommandOrder : CommandOrder[i] = command
KeyOrder(commands) ==
    {p \in (DOMAIN commands) \X (DOMAIN commands) :
        LET a == Rank(commands[p[1]])
            b == Rank(commands[p[2]])
        IN a < b \/ (a = b /\ p[1] <= p[2])}
Sorted(commands) ==
    LET order == InOrder(DOMAIN commands, KeyOrder(commands)) IN [k \in DOMAIN order |-> commands[order[k]]]
When(condition, command) == IF condition THEN <<command>> ELSE <<>>

(***************************************************************************)
(* detect_execution_plan                                                   *)
(***************************************************************************)

\* A script whose text launches a shell is skipped, not planned
Planned(repo, name) == repo.package = "scripts" /\ [name |-> name, shell |-> FALSE] \in repo.scripts
NodeCommands(repo) ==
    When(Planned(repo, "preinstall"), Command(Phase2, "install_script_probe", "npm-run-preinstall"))
    \o When(Planned(repo, "install"), Command(Phase2, "install_script_probe", "npm-run-install"))
    \o When(Planned(repo, "postinstall"), Command(Phase2, "install_script_probe", "npm-run-postinstall"))
    \o When(Planned(repo, "prepare"), Command(Phase2, "install_script_probe", "npm-run-prepare"))
    \o When(Planned(repo, "test"), Command(Phase3, "test_probe", "npm-test"))
    \o When(Planned(repo, "start"), Command(Phase3, "runtime_smoke", "npm-start"))

HasPython(repo) ==
    \/ repo.pyproject # NULL
    \/ repo.setup
    \/ repo.poetry # NULL
    \/ repo.uv # NULL
    \/ repo.requirements # {}

NoProject == [backend |-> FALSE, requires |-> NULL, dependencies |-> {}, scripts |-> {}, fixture |-> NULL,
              pytest |-> FALSE]
Project(repo) == IF repo.pyproject = NULL THEN NoProject ELSE repo.pyproject

build_python_install_probe_commands(repo) ==
    IF repo.setup \/ Project(repo).backend
    THEN <<Command(Phase2, "install_script_probe", "pip-install"),
           Command(Phase2, "editable_install_probe", "pip-install-editable")>>
    ELSE <<>>

build_python_project_script_commands(repo) ==
    When("entry" \in Project(repo).scripts, Command(Phase3, "runtime_smoke", "entry"))
    \o When("pytest" \in Project(repo).scripts, Command(Phase3, "test_probe", "pytest"))

\* Only a repository of the fixture's name may declare its own argv; an invalid one is skipped.  "fixture" is any argv
\* that no other probe has.
FixtureArgvs == {"invalid", "fixture", "pytest", "python-m-pytest"}
FixtureDeclared(repo) == repo.fixtureName /\ Project(repo).fixture # NULL
build_controlled_fixture_runtime_probe_commands(repo) ==
    When(Project(repo).fixture # "invalid", Command(Phase3, "test_probe", Project(repo).fixture))

PythonCommands(repo) ==
    build_python_install_probe_commands(repo)
    \o (IF FixtureDeclared(repo)
        THEN build_controlled_fixture_runtime_probe_commands(repo)
        ELSE build_python_project_script_commands(repo))
    \o When(repo.tests \/ Project(repo).pytest, Command(Phase3, "test_probe", "python-m-pytest"))

detect_execution_plan(repo) ==
    Sorted(NodeCommands(repo) \o (IF HasPython(repo) THEN PythonCommands(repo) ELSE <<>>))
detected_languages(repo) ==
    (IF repo.package # "absent" THEN {"node"} ELSE {}) \cup (IF HasPython(repo) THEN {"python"} ELSE {})

(***************************************************************************)
(* build_fetch_plan                                                        *)
(***************************************************************************)
SourceRisks == {"editable", "vcs", "direct_url", "local_path"}
Plan(commands, skipped) == [commands |-> commands, skipped |-> skipped, not_required |-> FALSE]
Nothing == Plan(<<>>, FALSE)
Download == Command("phase1_fetch", "dependency_fetch", "pip-download")

NodeFetch(repo) ==
    IF repo.package = "absent" THEN <<>>
    ELSE <<Command("phase1_fetch", "dependency_fetch", IF repo.npmLock THEN "npm-ci" ELSE "npm-install")>>

unsupported_requirement_reasons(file) == file \cap (SourceRisks \cup {"unreadable"})
RequirementsFetch(repo) ==
    LET usable == {file \in repo.requirements : unsupported_requirement_reasons(file) = {}}
    IN Plan([i \in 1 .. Cardinality(usable) |-> Command("phase1_fetch", "dependency_fetch", "pip-download-requirements")],
            usable # repo.requirements)

\* A package of a lock file is its source, "default" when it states none, or "malformed" when it has no plain name and
\* version.  Poetry's packages of a stated registry are refused, uv's are not.
poetry_package_source_reason == {"registry", "git", "path", "other"}
uv_package_source_reason == {"git", "path", "other"}
LockPlan(lock, refused) ==
    IF lock.packages = NULL THEN Nothing
    ELSE LET specs == lock.packages \ (refused \cup {"malformed"})
         IN Plan(IF specs # {} THEN <<Download>> ELSE <<>>, specs # lock.packages)
build_poetry_lock_fetch_plan(lock) == LockPlan(lock, poetry_package_source_reason)
build_uv_lock_fetch_plan(lock) == LockPlan(lock, uv_package_source_reason)

build_pyproject_build_fetch_plan(repo) ==
    LET requires == Project(repo).requires
    IN IF requires = NULL \/ Project(repo).dependencies \cap SourceRisks # {} THEN Plan(<<>>, TRUE)
       ELSE IF requires = {} THEN [Nothing EXCEPT !.not_required = TRUE]
       ELSE Plan(IF "safe" \in requires THEN <<Download>> ELSE <<>>, "unsafe" \in requires)

PythonFetch(repo) ==
    IF ~ HasPython(repo) \/ repo.requirements # {} THEN RequirementsFetch(repo)
    ELSE IF repo.poetry # NULL /\ repo.uv # NULL THEN Plan(<<>>, TRUE)
    ELSE IF repo.uv # NULL THEN build_uv_lock_fetch_plan(repo.uv)
    ELSE IF repo.poetry # NULL THEN build_poetry_lock_fetch_plan(repo.poetry)
    ELSE build_pyproject_build_fetch_plan(repo)

build_fetch_plan(repo) == [PythonFetch(repo) EXCEPT !.commands = Sorted(NodeFetch(repo) \o @)]

(***************************************************************************)
(* evaluate_image_policy: image is [kind, explicit, allow, expected], kind *)
(* one of "digest", "tag", "latest"; actual is what docker image inspect   *)
(* answers for the reference, NULL when it fails                           *)
(***************************************************************************)
Inspected(image) == image.kind = "tag" /\ image.explicit /\ image.allow /\ image.expected \in ImageIds

evaluate_image_policy(image, actual) ==
    LET local == Inspected(image) /\ actual # NULL /\ actual = image.expected
    IN [allowed |-> image.kind = "digest" \/ local, local_sanctioned |-> local, expected |-> image.expected]

(***************************************************************************)
(* The approval file: NULL, or [readable, entries, contract].  An entry is *)
(* [object, legacy, wellFormed, shell, phase, kind, cwd, argv, env]; a     *)
(* contract is the record of the constraints it states.                    *)
(***************************************************************************)
load_approval_payload(file) ==
    IF ~ file.readable THEN [approvals |-> {}, invalid |-> FALSE, contract |-> << >>]
    ELSE [approvals |-> {e \in Range(file.entries) : e.object /\ ~ e.legacy},
          invalid |-> \E i \in DOMAIN file.entries : ~ file.entries[i].object \/ file.entries[i].legacy,
          contract |-> file.contract]

\* The constraints of the contract that the invocation does not meet
States(contract, field) == Get(contract, field) # NULL
validate_approval_contract(contract, image, policy) ==
    {field \in {"docker_image"} : States(contract, field) /\ contract[field] # image.kind}
    \cup {field \in {"expected_image_id"} : States(contract, field) /\ contract[field] # policy.expected}
    \cup {field \in {"local_sanctioned_image"} :
            States(contract, field) /\ contract[field] # policy.local_sanctioned}
    \cup {field \in {"network_policy"} : States(contract, field) /\ contract[field] # "none"}
    \cup {field \in {"approval_scope"} : States(contract, field) /\ contract[field] # "this_repository"}
    \cup {field \in {"human_review_required", "created_at", "expires_at"} :
            States(contract, field) /\ contract[field] = "wrong_type"}

Marked(commands, keys) ==
    [i \in DOMAIN commands |-> [command |-> commands[i], approved |-> approval_key(commands[i]) \in keys]]

\* A mismatched contract or an unreadable file approves nothing.  The status counts keys, the verdict commands.
apply_approvals(commands, file, image, policy) ==
    IF file = NULL THEN [commands |-> Marked(commands, {}), status |-> "warn", verdict |-> "not_provided"]
    ELSE LET payload == load_approval_payload(file)
             refused == ~ file.readable \/ validate_approval_contract(payload.contract, image, policy) # {}
             parsed == {from_mapping(entry) : entry \in payload.approvals} \ {NULL}
             keys == {approval_key(c) : c \in parsed} \cap {approval_key(c) : c \in Range(commands)}
             marked == Marked(commands, keys)
         IN IF refused
            THEN [commands |-> Marked(commands, {}), status |-> "block", verdict |-> "invalid"]
            ELSE [commands |-> marked,
                  status |-> IF Cardinality(keys) = Len(commands) /\ ~ payload.invalid THEN "pass" ELSE "warn",
                  verdict |-> IF \A i \in DOMAIN marked : marked[i].approved THEN "matched" ELSE "partial"]

approved_commands_for_phase(commands, phase) ==
    LET chosen == {i \in DOMAIN commands : commands[i].command.phase = phase /\ commands[i].approved}
        order == InOrder(chosen, {p \in chosen \X chosen : p[1] <= p[2]})
    IN [k \in DOMAIN order |-> commands[order[k]]]
=============================================================================
