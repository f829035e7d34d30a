------------------------ MODULE SandboxCommandProofs ------------------------
(***************************************************************************)
(* Theorems about run_sandbox for any repository, approval file, artifacts,*)
(* image IDs and number of moves of the tag, and whatever containers do:   *)
(* what runs was approved (RunsAsApproved) and prepared for                *)
(* (RepoCodeIsPrepared), a pass was observed (PassedIsObserved), and       *)
(* success is quiet and clean (EndIsClean).                                *)
(*                                                                         *)
(* The plan's sorting and matching come first, as lemmas about operators;  *)
(* then the inductive invariant, which says what a container that outlives *)
(* its client means for the phase that started it; then one lemma for each *)
(* action.                                                                 *)
(***************************************************************************)
EXTENDS SandboxCommand, FiniteSetTheorems, TLAPS

(***************************************************************************)
(* Ordering and planning                                                   *)
(***************************************************************************)
\* The commands the tool generates.
Generated == Range(CommandOrder)

\* InOrder enumerates a finite set by its members, for any total order on it.
LEMMA InOrderMembers ==
    ASSUME NEW S, IsFiniteSet(S), NEW R,
           \A i \in S : <<i, i>> \in R,
           \A i, j \in S : <<i, j>> \in R \/ <<j, i>> \in R,
           \A i, j \in S : <<i, j>> \in R /\ <<j, i>> \in R => i = j,
           \A i, j, k \in S : <<i, j>> \in R /\ <<j, k>> \in R => <<i, k>> \in R
    PROVE  /\ Cardinality(S) \in Nat
           /\ InOrder(S, R) \in [1 .. Cardinality(S) -> S]
<1> DEFINE n == Cardinality(S)
           D(i) == {j \in S : <<j, i>> \in R}
           pos == [i \in S |-> Cardinality(D(i))]
<1>1. n \in Nat
  BY FS_CardinalityType
<1>2. \A i \in S : IsFiniteSet(D(i)) /\ Cardinality(D(i)) \in 1 .. n
  <2> TAKE i \in S
  <2>1. D(i) \in SUBSET S /\ i \in D(i)
    OBVIOUS
  <2> HIDE DEF D
  <2>2. IsFiniteSet(D(i)) /\ Cardinality(D(i)) <= n
    BY <2>1, FS_Subset
  <2>3. Cardinality(D(i)) \in Nat /\ Cardinality(D(i)) # 0
    BY <2>1, <2>2, FS_CardinalityType, FS_EmptySet
  <2> QED
    BY <1>1, <2>2, <2>3
<1>3. ASSUME NEW i \in S, NEW k \in S, <<i, k>> \in R, Cardinality(D(i)) = Cardinality(D(k))
      PROVE  i = k
  <2>1. D(i) \in SUBSET D(k) /\ k \in D(k)
    BY <1>3
  <2>2. IsFiniteSet(D(k))
    BY <1>2
  <2>3. D(k) = D(i)
    <3> HIDE DEF D
    <3> QED
      BY <2>1, <2>2, <1>3, FS_Subset
  <2>4. k \in D(i)
    BY <2>1, <2>3
  <2> QED
    BY <2>4, <1>3
<1>4. pos \in Injection(S, 1 .. n)
  <2>1. pos \in [S -> 1 .. n]
    BY <1>2
  <2>2. \A i, k \in S : pos[i] = pos[k] => i = k
    BY <1>3
  <2> HIDE DEF pos
  <2> QED
    BY <2>1, <2>2 DEF Injection, IsInjective
<1>5. IsFiniteSet(1 .. n) /\ Cardinality(1 .. n) = n
  BY <1>1, FS_Interval
<1>6. pos \in Surjection(S, 1 .. n)
  <2> HIDE DEF pos
  <2> QED
    BY <1>4, <1>5, FS_Injection
<1>7. \A k \in 1 .. n : \E i \in S : pos[i] = k
  <2> HIDE DEF pos
  <2> QED
    BY <1>6 DEF Surjection
<1>8. \A k \in 1 .. n : \E i \in S : Cardinality({j \in S : <<j, i>> \in R}) = k
  BY <1>7
<1> QED
  BY <1>1, <1>8 DEF InOrder

\* sorted() keeps to the commands it is given.
LEMMA SortedTyped ==
    ASSUME NEW s \in Seq(Generated)
    PROVE  Sorted(s) \in Seq(Generated)
<1> DEFINE S == DOMAIN s
           R == KeyOrder(s)
           order == InOrder(S, R)
<1>1. S = 1 .. Len(s) /\ Len(s) \in Nat /\ \A i \in S : s[i] \in Generated
  OBVIOUS
<1>2. IsFiniteSet(S)
  BY <1>1, FS_Interval
<1>3. \A i \in S : Rank(s[i]) \in Nat
  <2> TAKE i \in S
  <2>1. \E k \in DOMAIN CommandOrder : CommandOrder[k] = s[i]
    BY <1>1 DEF Generated, Range
  <2>2. DOMAIN CommandOrder \subseteq Nat
    BY DEF CommandOrder
  <2> QED
    BY <2>1, <2>2 DEF Rank
<1>4. \A i, j \in S : <<i, j>> \in R <=> Rank(s[i]) < Rank(s[j]) \/ (Rank(s[i]) = Rank(s[j]) /\ i <= j)
  BY DEF KeyOrder
<1>5. S \subseteq Nat
  BY <1>1
<1>6. /\ Cardinality(S) \in Nat
      /\ order \in [1 .. Cardinality(S) -> S]
  <2> HIDE DEF S, R
  <2>1. \A i \in S : <<i, i>> \in R
    BY <1>3, <1>4, <1>5
  <2>2. ASSUME NEW i \in S, NEW j \in S PROVE <<i, j>> \in R \/ <<j, i>> \in R
    <3>1. Rank(s[i]) \in Nat /\ Rank(s[j]) \in Nat /\ i \in Nat /\ j \in Nat
      BY <1>3, <1>5
    <3>2. \/ Rank(s[i]) < Rank(s[j]) \/ (Rank(s[i]) = Rank(s[j]) /\ i <= j)
          \/ Rank(s[j]) < Rank(s[i]) \/ (Rank(s[j]) = Rank(s[i]) /\ j <= i)
      BY <3>1
    <3> QED
      BY <1>4, <3>2
  <2>3. \A i, j \in S : <<i, j>> \in R /\ <<j, i>> \in R => i = j
    BY <1>3, <1>4, <1>5
  <2>4. \A i, j, k \in S : <<i, j>> \in R /\ <<j, k>> \in R => <<i, k>> \in R
    BY <1>3, <1>4, <1>5
  <2> QED
    BY <1>2, <2>1, <2>2, <2>3, <2>4, InOrderMembers
<1>7. Sorted(s) = [k \in DOMAIN order |-> s[order[k]]]
  BY DEF Sorted
<1> HIDE DEF order, S
<1>8. Sorted(s) = [k \in 1 .. Cardinality(S) |-> s[order[k]]]
  BY <1>6, <1>7
<1> QED
  BY <1>1, <1>6, <1>8, SMTT(30)

\* _approved_commands_for_phase picks commands of the phase that are marked approved.
LEMMA ApprovedPicked ==
    ASSUME NEW n \in Nat, NEW commands, DOMAIN commands = 1 .. n, NEW phase
    PROVE  LET picked == approved_commands_for_phase(commands, phase)
           IN \E m \in Nat : /\ picked = [k \in 1 .. m |-> picked[k]]
                             /\ \A k \in 1 .. m : \E i \in 1 .. n :
                                  /\ picked[k] = commands[i]
                                  /\ commands[i].command.phase = phase
                                  /\ commands[i].approved
<1> DEFINE chosen == {i \in 1 .. n : commands[i].command.phase = phase /\ commands[i].approved}
           R == {p \in chosen \X chosen : p[1] <= p[2]}
           order == InOrder(chosen, R)
<1>1. chosen \in SUBSET (1 .. n)
  OBVIOUS
<1>2. IsFiniteSet(chosen)
  BY <1>1, FS_Interval, FS_Subset
<1>3. \A i, j \in chosen : <<i, j>> \in R <=> i <= j
  OBVIOUS
<1>4. chosen \subseteq Nat
  BY <1>1
<1>5. /\ Cardinality(chosen) \in Nat
      /\ order \in [1 .. Cardinality(chosen) -> chosen]
  <2> HIDE DEF chosen, R
  <2>1. /\ \A i \in chosen : <<i, i>> \in R
        /\ \A i, j \in chosen : <<i, j>> \in R \/ <<j, i>> \in R
        /\ \A i, j \in chosen : <<i, j>> \in R /\ <<j, i>> \in R => i = j
    BY <1>3, <1>4
  <2>2. \A i, j, k \in chosen : <<i, j>> \in R /\ <<j, k>> \in R => <<i, k>> \in R
    BY <1>3, <1>4
  <2> QED
    BY <1>2, <2>1, <2>2, InOrderMembers
<1>6. approved_commands_for_phase(commands, phase) = [k \in DOMAIN order |-> commands[order[k]]]
  BY DEF approved_commands_for_phase
<1>7. \A k \in 1 .. Cardinality(chosen) :
          /\ order[k] \in 1 .. n
          /\ commands[order[k]].command.phase = phase
          /\ commands[order[k]].approved
  <2> HIDE DEF order
  <2> QED
    BY <1>5
<1> HIDE DEF order, chosen
<1>8. approved_commands_for_phase(commands, phase) = [k \in 1 .. Cardinality(chosen) |-> commands[order[k]]]
  BY <1>5, <1>6
<1> DEFINE picked == approved_commands_for_phase(commands, phase)
<1>9. picked = [k \in 1 .. Cardinality(chosen) |-> picked[k]]
  BY <1>8
<1>10. \A k \in 1 .. Cardinality(chosen) : picked[k] = commands[order[k]]
  BY <1>8
<1> HIDE DEF picked
<1>11. \A k \in 1 .. Cardinality(chosen) : \E i \in 1 .. n :
         picked[k] = commands[i] /\ commands[i].command.phase = phase /\ commands[i].approved
  BY <1>7, <1>10
<1>12. \E m \in Nat : /\ picked = [k \in 1 .. m |-> picked[k]]
                      /\ \A k \in 1 .. m : \E i \in 1 .. n :
                           picked[k] = commands[i] /\ commands[i].command.phase = phase /\ commands[i].approved
  BY <1>5, <1>9, <1>11
<1> QED
  BY <1>12 DEF picked

\* The commands one by one.
LEMMA Listed ==
    /\ DOMAIN CommandOrder = 1 .. 16
    /\ CommandOrder[1] = Command("phase1_fetch", "dependency_fetch", "npm-ci")
    /\ CommandOrder[2] = Command("phase1_fetch", "dependency_fetch", "npm-install")
    /\ CommandOrder[3] = Command("phase1_fetch", "dependency_fetch", "pip-download-requirements")
    /\ CommandOrder[4] = Command("phase1_fetch", "dependency_fetch", "pip-download")
    /\ CommandOrder[5] = Command(Phase2, "editable_install_probe", "pip-install-editable")
    /\ CommandOrder[6] = Command(Phase2, "install_script_probe", "npm-run-install")
    /\ CommandOrder[7] = Command(Phase2, "install_script_probe", "npm-run-postinstall")
    /\ CommandOrder[8] = Command(Phase2, "install_script_probe", "npm-run-preinstall")
    /\ CommandOrder[9] = Command(Phase2, "install_script_probe", "npm-run-prepare")
    /\ CommandOrder[10] = Command(Phase2, "install_script_probe", "pip-install")
    /\ CommandOrder[11] = Command(Phase3, "runtime_smoke", "entry")
    /\ CommandOrder[12] = Command(Phase3, "runtime_smoke", "npm-start")
    /\ CommandOrder[13] = Command(Phase3, "test_probe", "fixture")
    /\ CommandOrder[14] = Command(Phase3, "test_probe", "npm-test")
    /\ CommandOrder[15] = Command(Phase3, "test_probe", "pytest")
    /\ CommandOrder[16] = Command(Phase3, "test_probe", "python-m-pytest")
BY DEF CommandOrder

\* The commands of the planners are among them.
LEMMA IsGenerated ==
    /\ Command("phase1_fetch", "dependency_fetch", "npm-ci") \in Generated
    /\ Command("phase1_fetch", "dependency_fetch", "npm-install") \in Generated
    /\ Command("phase1_fetch", "dependency_fetch", "pip-download-requirements") \in Generated
    /\ Command("phase1_fetch", "dependency_fetch", "pip-download") \in Generated
    /\ Command(Phase2, "editable_install_probe", "pip-install-editable") \in Generated
    /\ Command(Phase2, "install_script_probe", "npm-run-install") \in Generated
    /\ Command(Phase2, "install_script_probe", "npm-run-postinstall") \in Generated
    /\ Command(Phase2, "install_script_probe", "npm-run-preinstall") \in Generated
    /\ Command(Phase2, "install_script_probe", "npm-run-prepare") \in Generated
    /\ Command(Phase2, "install_script_probe", "pip-install") \in Generated
    /\ Command(Phase3, "runtime_smoke", "entry") \in Generated
    /\ Command(Phase3, "runtime_smoke", "npm-start") \in Generated
    /\ Command(Phase3, "test_probe", "fixture") \in Generated
    /\ Command(Phase3, "test_probe", "npm-test") \in Generated
    /\ Command(Phase3, "test_probe", "pytest") \in Generated
    /\ Command(Phase3, "test_probe", "python-m-pytest") \in Generated
<1>1. \A i \in 1 .. 16 : CommandOrder[i] \in Generated
  BY Listed DEF Generated, Range
<1>2. /\ 1 \in 1 .. 16 /\ 2 \in 1 .. 16 /\ 3 \in 1 .. 16 /\ 4 \in 1 .. 16
      /\ 5 \in 1 .. 16 /\ 6 \in 1 .. 16 /\ 7 \in 1 .. 16 /\ 8 \in 1 .. 16
      /\ 9 \in 1 .. 16 /\ 10 \in 1 .. 16 /\ 11 \in 1 .. 16 /\ 12 \in 1 .. 16
      /\ 13 \in 1 .. 16 /\ 14 \in 1 .. 16 /\ 15 \in 1 .. 16 /\ 16 \in 1 .. 16
  OBVIOUS
<1> QED
  BY <1>1, <1>2, Listed, Zenon

\* Every command the tool can generate runs in the root of the repository.
LEMMA GeneratedInRoot == \A c \in Generated : c.cwd = "."
<1>1. \A i \in 1 .. 16 : CommandOrder[i].cwd = "."
  BY DEF CommandOrder, Command
<1> QED
  BY <1>1, Listed DEF Generated, Range

\* Lists of them: none, one, and one after another.
LEMMA SingleTyped ==
    /\ <<>> \in Seq(Generated)
    /\ \A c \in Generated : <<c>> \in Seq(Generated)
    /\ \A c, d \in Generated : <<c, d>> \in Seq(Generated)
    /\ \A s, t \in Seq(Generated) : s \o t \in Seq(Generated)
OBVIOUS

\* detect_execution_plan plans commands the tool generates, and nothing else.
LEMMA DetectTyped ==
    ASSUME NEW x \in Inputs
    PROVE  detect_execution_plan(x.repo) \in Seq(Generated)
<1> DEFINE repo == x.repo
<1>1. NodeCommands(repo) \in Seq(Generated)
  <2> HIDE DEF repo
  <2>2. /\ When(Planned(repo, "preinstall"), Command(Phase2, "install_script_probe", "npm-run-preinstall")) \in Seq(Generated)
        /\ When(Planned(repo, "install"), Command(Phase2, "install_script_probe", "npm-run-install")) \in Seq(Generated)
        /\ When(Planned(repo, "postinstall"), Command(Phase2, "install_script_probe", "npm-run-postinstall")) \in Seq(Generated)
        /\ When(Planned(repo, "prepare"), Command(Phase2, "install_script_probe", "npm-run-prepare")) \in Seq(Generated)
    BY IsGenerated, SingleTyped, Zenon DEF When
  <2>3. /\ When(Planned(repo, "test"), Command(Phase3, "test_probe", "npm-test")) \in Seq(Generated)
        /\ When(Planned(repo, "start"), Command(Phase3, "runtime_smoke", "npm-start")) \in Seq(Generated)
    BY IsGenerated, SingleTyped, Zenon DEF When
  <2> QED
    BY <2>2, <2>3, SingleTyped, Zenon DEF NodeCommands
<1>2. PythonCommands(repo) \in Seq(Generated)
  <2>1. build_python_install_probe_commands(repo) \in Seq(Generated)
    BY IsGenerated, SingleTyped, Zenon DEF build_python_install_probe_commands
  <2>2. build_python_project_script_commands(repo) \in Seq(Generated)
    <3> HIDE DEF repo
    <3>1. /\ When("entry" \in Project(repo).scripts, Command(Phase3, "runtime_smoke", "entry")) \in Seq(Generated)
          /\ When("pytest" \in Project(repo).scripts, Command(Phase3, "test_probe", "pytest")) \in Seq(Generated)
      BY IsGenerated, SingleTyped, Zenon DEF When
    <3> QED
      BY <3>1 DEF build_python_project_script_commands
  <2>3. ASSUME FixtureDeclared(repo)
        PROVE  build_controlled_fixture_runtime_probe_commands(repo) \in Seq(Generated)
    <3>1. Project(repo).fixture # NULL
      BY <2>3 DEF FixtureDeclared
    <3>2. Project(repo).fixture \in FixtureArgvs
      BY <3>1, SandboxCommandConstants DEF Project, NoProject
    <3>3. Project(repo).fixture # "invalid" => Command(Phase3, "test_probe", Project(repo).fixture) \in Generated
      BY <3>2, IsGenerated DEF FixtureArgvs
    <3> QED
      BY <3>3, SingleTyped, Zenon DEF When, build_controlled_fixture_runtime_probe_commands
  <2>4. When(repo.tests \/ Project(repo).pytest, Command(Phase3, "test_probe", "python-m-pytest")) \in Seq(Generated)
    BY IsGenerated, SingleTyped, Zenon DEF When
  <2> HIDE DEF repo
  <2> QED
    BY <2>1, <2>2, <2>3, <2>4, SingleTyped, Zenon DEF PythonCommands
<1> HIDE DEF repo
<1>3. NodeCommands(repo) \o (IF HasPython(repo) THEN PythonCommands(repo) ELSE <<>>) \in Seq(Generated)
  BY <1>1, <1>2
<1>4. detect_execution_plan(repo) \in Seq(Generated)
  BY <1>3, SortedTyped DEF detect_execution_plan
<1> QED
  BY <1>4 DEF repo

\* What UnfetchedIsSelfContained asks of a repository.
SelfContained(repo) ==
    /\ repo.requirements = {} /\ repo.poetry = NULL /\ repo.uv = NULL
    /\ repo.pyproject # NULL
    /\ repo.pyproject.requires = {} /\ repo.pyproject.dependencies \cap SourceRisks = {}

\* build_fetch_plan plans commands the tool generates, and calls a fetch not required only where nothing is fetched.
LEMMA FetchTyped ==
    ASSUME NEW x \in Inputs
    PROVE  LET fetch == build_fetch_plan(x.repo)
           IN /\ fetch.commands \in Seq(Generated)
              /\ fetch.not_required => SelfContained(x.repo)
<1> DEFINE repo == x.repo
           P(plan0) == /\ plan0 = [commands |-> plan0.commands, skipped |-> plan0.skipped, not_required |-> plan0.not_required]
                       /\ plan0.commands \in Seq(Generated)
                       /\ plan0.not_required => SelfContained(repo)
<1>1. \A c \in Seq(Generated) : \A s : P(Plan(c, s))
  BY DEF Plan
<1>2. Download \in Generated
  BY IsGenerated DEF Download
<1>3. P(RequirementsFetch(repo))
  <2> DEFINE usable == {file \in repo.requirements : unsupported_requirement_reasons(file) = {}}
             g == Command("phase1_fetch", "dependency_fetch", "pip-download-requirements")
             c == [i \in 1 .. Cardinality(usable) |-> g]
  <2>1. IsFiniteSet(repo.requirements) /\ usable \in SUBSET repo.requirements
    BY SandboxCommandConstants
  <2>2. Cardinality(usable) \in Nat
    <3> HIDE DEF usable
    <3> QED
      BY <2>1, FS_Subset, FS_CardinalityType
  <2>3. c \in Seq(Generated)
    <3>1. g \in Generated
      BY IsGenerated
    <3> HIDE DEF g, usable
    <3> QED
      BY <2>2, <3>1
  <2>4. RequirementsFetch(repo) = Plan(c, usable # repo.requirements)
    BY DEF RequirementsFetch
  <2> HIDE DEF c, P
  <2> QED
    BY <1>1, <2>3, <2>4, Zenon
<1>4. ASSUME NEW lock, NEW refused PROVE P(LockPlan(lock, refused))
  <2>1. CASE lock.packages = NULL
    <3>1. LockPlan(lock, refused) = Plan(<<>>, FALSE)
      BY <2>1 DEF LockPlan, Nothing
    <3> HIDE DEF P
    <3> QED
      BY <1>1, <3>1, SingleTyped, Zenon
  <2>2. CASE lock.packages # NULL
    <3> DEFINE specs == lock.packages \ (refused \cup {"malformed"})
               c == IF specs # {} THEN <<Download>> ELSE <<>>
    <3>1. LockPlan(lock, refused) = Plan(c, specs # lock.packages)
      BY <2>2 DEF LockPlan
    <3>2. c \in Seq(Generated)
      BY <1>2
    <3> HIDE DEF P, c, specs
    <3> QED
      BY <1>1, <3>1, <3>2, Zenon
  <2> QED
    BY <2>1, <2>2
<1>5. ASSUME HasPython(repo), repo.requirements = {}, repo.uv = NULL, repo.poetry = NULL
      PROVE  P(build_pyproject_build_fetch_plan(repo))
  <2> DEFINE requires == Project(repo).requires
             c == IF "safe" \in requires THEN <<Download>> ELSE <<>>
  <2>1. CASE requires = NULL \/ Project(repo).dependencies \cap SourceRisks # {}
    <3>1. build_pyproject_build_fetch_plan(repo) = Plan(<<>>, TRUE)
      BY <2>1 DEF build_pyproject_build_fetch_plan
    <3> HIDE DEF P
    <3> QED
      BY <1>1, <3>1, SingleTyped, Zenon
  <2>2. CASE ~ (requires = NULL \/ Project(repo).dependencies \cap SourceRisks # {}) /\ requires = {}
    <3>1. build_pyproject_build_fetch_plan(repo) = [Nothing EXCEPT !.not_required = TRUE]
      BY <2>2 DEF build_pyproject_build_fetch_plan
    <3>2. repo.pyproject # NULL
      BY <2>2 DEF Project, NoProject
    <3>3. SelfContained(repo)
      BY <1>5, <2>2, <3>2 DEF SelfContained, Project
    <3>4. build_pyproject_build_fetch_plan(repo) = [commands |-> <<>>, skipped |-> FALSE, not_required |-> TRUE]
      BY <3>1 DEF Nothing, Plan
    <3> HIDE DEF repo
    <3> QED
      BY <3>3, <3>4
  <2>3. CASE ~ (requires = NULL \/ Project(repo).dependencies \cap SourceRisks # {}) /\ requires # {}
    <3>1. build_pyproject_build_fetch_plan(repo) = Plan(c, "unsafe" \in requires)
      BY <2>3 DEF build_pyproject_build_fetch_plan
    <3>2. c \in Seq(Generated)
      BY <1>2
    <3> HIDE DEF P, c, requires
    <3> QED
      BY <1>1, <3>1, <3>2, Zenon
  <2> QED
    BY <2>1, <2>2, <2>3
<1>6. P(PythonFetch(repo))
  <2>1. P(Plan(<<>>, TRUE))
    <3> HIDE DEF P
    <3> QED
      BY <1>1, SingleTyped, Zenon
  <2> HIDE DEF P, repo
  <2> QED
    BY <1>3, <1>4, <1>5, <2>1, Zenon DEF PythonFetch, build_uv_lock_fetch_plan, build_poetry_lock_fetch_plan
<1>7. NodeFetch(repo) \in Seq(Generated)
  BY IsGenerated, SingleTyped, Zenon DEF NodeFetch
<1>8. NodeFetch(repo) \o PythonFetch(repo).commands \in Seq(Generated)
  BY <1>6, <1>7
<1> DEFINE sorted == Sorted(NodeFetch(repo) \o PythonFetch(repo).commands)
<1>9. sorted \in Seq(Generated)
  BY <1>8, SortedTyped
<1>10. build_fetch_plan(repo) = [PythonFetch(repo) EXCEPT !.commands = sorted]
  BY DEF build_fetch_plan
<1> DEFINE python == PythonFetch(repo)
           fetch == build_fetch_plan(repo)
<1>11. /\ python = [commands |-> python.commands, skipped |-> python.skipped, not_required |-> python.not_required]
       /\ python.not_required => SelfContained(repo)
       /\ fetch = [python EXCEPT !.commands = sorted]
  BY <1>6, <1>10
<1>12. fetch.commands = sorted /\ fetch.not_required = python.not_required
  <2> HIDE DEF python, fetch, sorted
  <2> QED
    BY <1>11
<1> QED
  BY <1>9, <1>11, <1>12

(***************************************************************************)
(* Approval                                                                *)
(***************************************************************************)
\* The command a phase of the repository runs is generated, and the approval file approves it for this invocation.
ApprovedFor(c) ==
    /\ inp.approval # NULL
    /\ inp.approval.readable
    /\ \E i \in DOMAIN inp.approval.entries : Approves(inp.approval.entries[i], c)
    /\ Describes(inp.approval.contract)

\* A contract in which validate_approval_contract finds nothing to refuse describes the invocation.
LEMMA ContractDescribes ==
    ASSUME NEW contract, NEW decided, decided.expected = inp.image.expected,
           validate_approval_contract(contract, inp.image, decided) = {}
    PROVE  Describes(contract)
<1>1. \A field \in {"docker_image", "expected_image_id", "network_policy", "approval_scope"} :
        Get(contract, field) = NULL \/ Get(contract, field) = contract[field]
  BY DEF Get
<1>2. States(contract, "docker_image") => contract["docker_image"] = inp.image.kind
  BY DEF validate_approval_contract
<1>3. States(contract, "expected_image_id") => contract["expected_image_id"] = inp.image.expected
  BY DEF validate_approval_contract
<1>4. States(contract, "network_policy") => contract["network_policy"] = "none"
  BY DEF validate_approval_contract
<1>5. States(contract, "approval_scope") => contract["approval_scope"] = "this_repository"
  BY DEF validate_approval_contract
<1> QED
  BY <1>1, <1>2, <1>3, <1>4, <1>5 DEF Describes, States

\* An entry whose key is the key of a command in the root names exactly that command.
LEMMA KeyApproves ==
    ASSUME NEW entry, entry.object, ~ entry.legacy, NEW c, c.cwd = ".",
           from_mapping(entry) # NULL, approval_key(from_mapping(entry)) = approval_key(c)
    PROVE  Approves(entry, c)
<1> DEFINE e == [phase |-> entry.phase, kind |-> entry.kind, cwd |-> normalize_repo_cwd(entry.cwd),
                 argv |-> entry.argv, env |-> entry.env]
<1>1. entry.wellFormed /\ ~ entry.shell /\ normalize_repo_cwd(entry.cwd) # NULL /\ from_mapping(entry) = e
  BY DEF from_mapping
<1>2. /\ approval_key(e) = [phase |-> e.phase, kind |-> e.kind, cwd |-> e.cwd, argv |-> e.argv, env |-> e.env]
      /\ approval_key(c) = [phase |-> c.phase, kind |-> c.kind, cwd |-> c.cwd, argv |-> c.argv, env |-> c.env]
  BY DEF approval_key
<1>3. /\ e.phase = entry.phase /\ e.kind = entry.kind /\ e.cwd = normalize_repo_cwd(entry.cwd)
      /\ e.argv = entry.argv /\ e.env = entry.env
  OBVIOUS
<1>4. approval_key(e) = approval_key(c)
  BY <1>1
<1> HIDE DEF e
<1>5. e.phase = c.phase /\ e.kind = c.kind /\ e.cwd = c.cwd /\ e.argv = c.argv /\ e.env = c.env
  BY <1>2, <1>4
<1>6. normalize_repo_cwd(entry.cwd) = "."
  BY <1>3, <1>5
<1>7. entry.cwd \in {".", "./", "..."}
  BY <1>1, <1>6 DEF normalize_repo_cwd
<1> QED
  BY <1>1, <1>3, <1>5, <1>7 DEF Approves

\* What _apply_approvals marks as approved is a command that the file approves.
LEMMA MarkedIsApproved ==
    ASSUME NEW commands \in Seq(Generated), NEW decided, decided.expected = inp.image.expected,
           NEW i \in DOMAIN commands,
           apply_approvals(commands, inp.approval, inp.image, decided).commands[i].approved
    PROVE  ApprovedFor(commands[i])
<1> DEFINE file == inp.approval
           payload == load_approval_payload(file)
           refused == ~ file.readable \/ validate_approval_contract(payload.contract, inp.image, decided) # {}
           parsed == {from_mapping(entry) : entry \in payload.approvals} \ {NULL}
           keys == {approval_key(c) : c \in parsed} \cap {approval_key(c) : c \in Range(commands)}
           applied == apply_approvals(commands, file, inp.image, decided)
<1>1. \A ks : Marked(commands, ks)[i].approved <=> approval_key(commands[i]) \in ks
  BY DEF Marked
<1>2. file # NULL /\ ~ refused
  <2>1. file = NULL \/ refused => applied.commands = Marked(commands, {})
    BY DEF apply_approvals
  <2> QED
    BY <1>1, <2>1
<1>3. applied.commands = Marked(commands, keys)
  BY <1>2 DEF apply_approvals
<1>4. approval_key(commands[i]) \in keys
  BY <1>1, <1>3
<1>5. PICK entry \in payload.approvals :
        from_mapping(entry) # NULL /\ approval_key(from_mapping(entry)) = approval_key(commands[i])
  BY <1>4
<1>6. /\ file.readable
      /\ payload.contract = file.contract
      /\ payload.approvals = {e \in Range(file.entries) : e.object /\ ~ e.legacy}
  BY <1>2 DEF load_approval_payload
<1>7. PICK k \in DOMAIN file.entries : file.entries[k] = entry
  BY <1>5, <1>6 DEF Range
<1>8. entry.object /\ ~ entry.legacy
  BY <1>5, <1>6
<1>9. commands[i].cwd = "."
  BY GeneratedInRoot
<1>10. Approves(entry, commands[i])
  BY <1>5, <1>8, <1>9, KeyApproves
<1>11. Describes(file.contract)
  BY <1>2, <1>6, ContractDescribes
<1> QED
  BY <1>2, <1>6, <1>7, <1>10, <1>11 DEF ApprovedFor

(***************************************************************************)
(* The rescan                                                              *)
(***************************************************************************)
\* What the rescan exists to find.
Harmless(a) == a.readable /\ should_scan_file(a) => ~ InstallHook(a) /\ ~ Obfuscated(a)

\* An install hook or obfuscated code is a finding that blocks.
LEMMA HarmIsFound ==
    ASSUME NEW a, a.readable, should_scan_file(a), InstallHook(a) \/ Obfuscated(a)
    PROVE  \E f \in FindingsOf(a) : f.severity = "block"
<1> DEFINE risk == Finding("suspicious_code_pattern", "block")
<1>1. InstallRisk.severity = "block" /\ risk.severity = "block"
  BY DEF InstallRisk, Finding
<1>2. CASE InstallHook(a)
  <2>1. PICK t \in a.contents : t.shape = "object" /\ t.lifecycle # {}
    BY <1>2 DEF InstallHook
  <2>2. InstallRisk \in scan_package_json_text(t)
    BY <2>1 DEF scan_package_json_text
  <2>3. InstallRisk \in scan_package_json(a)
    BY <2>2 DEF scan_package_json
  <2>4. FindingsOf(a) = scan_package_json(a)
    BY <1>2 DEF InstallHook, FindingsOf
  <2> QED
    BY <1>1, <2>3, <2>4
<1>3. CASE Obfuscated(a)
  <2>1. PICK t \in a.contents : t.readable /\ t.name # "package_json" /\ {"exec", "obfuscation"} \subseteq t.has
    BY <1>3 DEF Obfuscated
  <2>2. risk \in record_code_pattern_findings(t, t.has, FALSE)
    BY <2>1 DEF record_code_pattern_findings, ExecutionFindings
  <2> HIDE DEF risk
  <2>3. CASE a.form = "zip"
    <3>1. t \in ReadableMembers(a)
      BY <2>1 DEF ReadableMembers
    <3>2. risk \in scan_python_archive_member(t, FALSE)
      BY <2>2 DEF scan_python_archive_member
    <3>3. risk \in scan_zip_archive(a)
      BY <2>1, <3>1, <3>2 DEF scan_zip_archive
    <3>4. FindingsOf(a) = scan_zip_archive(a)
      BY <2>3 DEF FindingsOf
    <3> QED
      BY <1>1, <3>3, <3>4
  <2>4. CASE a.form = "text"
    <3>1. risk \in scan_plain_text_artifact(a)
      BY <2>1, <2>2, ZenonT(30) DEF scan_plain_text_artifact
    <3>2. FindingsOf(a) = scan_plain_text_artifact(a)
      BY <2>4 DEF FindingsOf
    <3> QED
      BY <1>1, <3>1, <3>2
  <2> QED
    BY <1>3, <2>3, <2>4 DEF Obfuscated
<1> QED
  BY <1>2, <1>3

\* A rescan that clears the gate saw nothing that harms.
LEMMA ClearedIsHarmless ==
    ASSUME NEW fs, NEW phase1, phase1_5_satisfies_dynamic_gate(WithBypass(run_phase1_rescan(fs), phase1))
    PROVE  \A a \in fs : Harmless(a)
<1> DEFINE candidates == {a \in fs : should_scan_file(a)}
           findings == UNION {FindingsOf(a) : a \in candidates}
           seen == run_phase1_rescan(fs)
<1>1. seen = [status |-> RescanStatus(candidates, findings), performed |-> candidates # {}, findings |-> findings]
  BY DEF run_phase1_rescan
<1>2. SUFFICES ASSUME NEW a \in fs, a.readable, should_scan_file(a), InstallHook(a) \/ Obfuscated(a)
               PROVE  FALSE
  BY DEF Harmless
<1>3. a \in candidates
  BY <1>2
<1>4. \E f \in findings : f.severity = "block"
  BY <1>2, <1>3, HarmIsFound
<1> HIDE DEF candidates, findings
<1>5. RescanStatus(candidates, findings) = "blocked"
  BY <1>3, <1>4 DEF RescanStatus
<1>6. seen.status = "blocked" /\ seen.performed
  <2>1. candidates # {} /\ (candidates # {}) = TRUE
    BY <1>3
  <2>2. seen = [status |-> "blocked", performed |-> TRUE, findings |-> findings]
    BY <1>1, <1>5, <2>1, Zenon
  <2> HIDE DEF seen
  <2> QED
    BY <2>2
<1>7. WithBypass(seen, phase1) = seen
  BY <1>6 DEF WithBypass
<1> HIDE DEF seen
<1> QED
  BY <1>6, <1>7 DEF phase1_5_satisfies_dynamic_gate, seen

(***************************************************************************)
(* The inductive invariant                                                 *)
(***************************************************************************)
Stopped == {"unwinding", "raised"}
Before ==
    [preflight |-> {"plan", "materialize"},
     smoke |-> {"plan", "materialize", "preflight"},
     phase1 |-> {"plan", "materialize", "preflight", "smoke"},
     phase2 |-> {"plan", "materialize", "preflight", "smoke", "phase1", "rescan"},
     phase3 |-> {"plan", "materialize", "preflight", "smoke", "phase1", "rescan", "phase2"}]
NotYet(p) == IF p = "phase1" THEN {"not_requested", "not_required"} ELSE {"not_requested"}

Artifacts == Fetched \cup Written \cup inp.vendored
ResultStatus ==
    {"passed", "non_zero_exit", "timeout", "host_error", "probe_unavailable", "observer_blocked", "observer_warn",
     "observer_degraded"}
PhaseStatus ==
    {"not_requested", "not_required", "skipped", "failed", "passed", "blocked", "findings", "degraded"}
CommandResult ==
    [status : ResultStatus, observed : Nat, seen : SUBSET (Events \cup {"log"}), log : BOOLEAN, error : BOOLEAN,
     read_error : BOOLEAN, pass_possible : BOOLEAN]
PhaseReport == [status : PhaseStatus, performed : BOOLEAN, results : Seq(CommandResult)]
Container ==
    [phase : DockerPhases, command : Commands, live : BOOLEAN, acted : BOOLEAN, did : SUBSET Events,
     hooked : SUBSET Events, network : {"bridge", "none"}, image : ImageIds \cup {DigestImage}, traced : BOOLEAN,
     base : SUBSET Artifacts, beside : BOOLEAN, clean : BOOLEAN]

\* The types, of the parts as well.
Types ==
    /\ inp \in Inputs
    /\ TypeOK
    /\ queue = NULL \/ queue \in Seq(Commands)
    /\ phases \in [DockerPhases -> PhaseReport]
    /\ containers \in Seq(Container)
    /\ \A i \in DOMAIN containers : containers[i].network = "bridge" <=> containers[i].phase = "phase1"

\* Once there is a plan, the commands of its phases are the tool's own, and those of the repository approved.
PlanMade ==
    pc # "plan" =>
        /\ \A p \in DockerPhases : CommandsOf(p) \in Seq(Commands)
        /\ \A p \in RepoPhases : \A c \in Range(CommandsOf(p)) : ApprovedFor(c)
        /\ plan.approval.status \in {"pass", "warn", "block"}
        /\ plan.fetch.not_required => SelfContained(inp.repo)

\* A local image that was sanctioned is what the tag still means, as long as nobody moves it.
ImageKept ==
    /\ pc # "plan" /\ policy.local_sanctioned /\ retags = 0 =>
          /\ inp.image.kind = "tag" /\ tag = inp.image.expected
          /\ \A i \in DOMAIN containers : containers[i].image = inp.image.expected
    /\ pc \in {"plan", "materialize"} => containers = <<>>

GateOpen == phase1_satisfies_dynamic_gate(phases["phase1"]) /\ phase1_5_satisfies_dynamic_gate(rescan)

\* The program counter, the queue, the client and the reports of the phases belong together.
Staged ==
    /\ queue # NULL => pc \in DockerPhases \cup Stopped
    /\ queue # NULL /\ pc \in DockerPhases => Range(queue) \subseteq Range(CommandsOf(pc))
    /\ queue # NULL /\ pc \in RepoPhases => GateOpen
    /\ client # 0 =>
          /\ pc \in DockerPhases /\ queue # NULL /\ queue # <<>>
          /\ containers[client].phase = pc /\ containers[client].live
    /\ \A p \in DockerPhases :
          /\ pc \in Before[p] \cup {p} => phases[p].status \in NotYet(p)
          /\ pc \in Before[p] \/ (pc = p /\ queue = NULL) =>
                phases[p].results = <<>> /\ \A i \in DOMAIN containers : containers[i].phase # p
    /\ phases["phase1"].status = "not_required" => pc # "plan" /\ plan.fetch.not_required

\* What was true when a command of the repository started.
Prepared ==
    \A i \in DOMAIN containers : containers[i].phase \in RepoPhases =>
        /\ containers[i].command \in Range(CommandsOf(containers[i].phase))
        /\ ~ containers[i].beside
        /\ containers[i].base \subseteq scanned \cup written
        /\ GateOpen

\* A container that lives without a client was left by a timeout, which failed its phase, or by an exception.
LeftBehind ==
    \A i \in DOMAIN containers :
        containers[i].live /\ i # client /\ containers[i].phase # "preflight" =>
            phases[containers[i].phase].status = "failed" \/ pc \in Stopped

\* What the rescan saw, and what has come since.
Rescanned ==
    /\ pc \in RepoPhases /\ phases["phase1"].status # "failed" => files \subseteq scanned \cup written
    /\ phase1_5_satisfies_dynamic_gate(rescan) => \A a \in scanned : Harmless(a)

\* What the client's container did is in the observer's files.
Watched ==
    /\ observer.pass_possible => observer.syscall
    /\ \A i \in DOMAIN containers : ~ containers[i].acted => containers[i].did = {} /\ containers[i].hooked = {}
    /\ client # 0 =>
          /\ pc \in Dynamic /\ observer.syscall => containers[client].traced
          /\ \A e \in containers[client].hooked : [via |-> "hook", event |-> e] \in sink
          /\ containers[client].traced =>
                \A e \in containers[client].did \ {"env_sweep"} : [via |-> "strace", event |-> e] \in sink
          /\ containers[client].clean /\ ~ containers[client].acted =>
                sink = {} /\ \A j \in DOMAIN containers : containers[j].live => j = client

Shortfalls == {"observer_blocked", "non_zero_exit", "observer_warn", "observer_degraded"}
Told(results, statuses) == \E k \in DOMAIN results : results[k].status \in statuses
\* A violation that an observer recorded of container c is in what was read, or reading the record failed.
SeenOrLost(c, r) ==
    /\ c.hooked \cap BlockEvents = {} \/ r.read_error
    /\ c.traced => c.did \cap BlockEvents = {} \/ r.error
Unremarkable(c) == c.did \ {"env_sweep"} = {} /\ (c.clean => c.acted)

\* The results of a phase tell what its containers did, and its status is theirs.
Judged(p) ==
    /\ \A i \in DOMAIN containers : containers[i].phase = p /\ i # client =>
          \/ phases[p].status = "failed"
          \/ pc \in Stopped /\ phases[p].status = "not_requested"
          \/ /\ ~ containers[i].live
             /\ Unremarkable(containers[i]) \/ Told(phases[p].results, Shortfalls)
             /\ Quiet(i) \/ Told(phases[p].results, {"observer_blocked"})
    /\ \/ pc = p
       \/ pc \in Stopped /\ phases[p].status = "not_requested"
       \/ phases[p].status = "failed"
       \/ phases[p].status = DynamicOverall(phases[p].results)
       \/ phases[p].results = <<>>

\* The end.
Ended ==
    /\ pc \in {"report", "done"} => dir \in {"removed", "left"}
    /\ pc = "raised" => materialized = "not_started" \/ dir \in {"removed", "left"}
    /\ exit = 0 => pc = "done"
    /\ ExitZeroIsQuiet

IInv ==
    /\ Types
    /\ PlanMade
    /\ ImageKept
    /\ Staged
    /\ Prepared
    /\ LeftBehind
    /\ Rescanned
    /\ Watched
    /\ \A p \in RepoPhases : Judged(p)
    /\ Ended

(***************************************************************************)
(* What single steps do to the containers                                  *)
(***************************************************************************)
\* Container j has the fields it had, but for live, acted, did and hooked.
Stays(j) ==
    /\ containers'[j].phase = containers[j].phase
    /\ containers'[j].command = containers[j].command
    /\ containers'[j].network = containers[j].network
    /\ containers'[j].image = containers[j].image
    /\ containers'[j].traced = containers[j].traced
    /\ containers'[j].base = containers[j].base
    /\ containers'[j].beside = containers[j].beside
    /\ containers'[j].clean = containers[j].clean
\* It has done what it had done.
Rests(j) ==
    /\ containers'[j].acted = containers[j].acted
    /\ containers'[j].did = containers[j].did
    /\ containers'[j].hooked = containers[j].hooked

\* What is known of a container's record does not change while it and the results of its phase do not.
LEMMA QuietKept ==
    ASSUME NEW i, containers'[i].phase = containers[i].phase, containers'[i].hooked = containers[i].hooked,
           containers'[i].did = containers[i].did, containers'[i].traced = containers[i].traced,
           phases'[containers[i].phase].results = phases[containers[i].phase].results
    PROVE  Quiet(i)' <=> Quiet(i)
BY DEF Quiet, HooksLost, TraceLost

\* A container that ends keeps everything else.
LEMMA LeaveStep ==
    ASSUME containers \in Seq(Container), inp' = inp, NEW i \in DOMAIN containers, Leave(i)
    PROVE  /\ containers' \in Seq(Container)'
           /\ Len(containers') = Len(containers) /\ DOMAIN containers' = DOMAIN containers
           /\ \A j \in DOMAIN containers : Stays(j) /\ Rests(j)
           /\ \A j \in DOMAIN containers : containers'[j].live <=> containers[j].live /\ j # i
<1>1. Container' = Container
  BY DEF Container, Artifacts
<1>2. containers' = [containers EXCEPT ![i] = [containers[i] EXCEPT !.live = FALSE]]
  BY DEF Leave
<1>3. \A j \in DOMAIN containers : containers[j] \in Container
  OBVIOUS
<1>4. [containers[i] EXCEPT !.live = FALSE] \in Container
  BY <1>3 DEF Container
<1>5. /\ containers' \in Seq(Container)
      /\ Len(containers') = Len(containers) /\ DOMAIN containers' = DOMAIN containers
      /\ \A j \in DOMAIN containers : j # i => containers'[j] = containers[j]
      /\ containers'[i] = [containers[i] EXCEPT !.live = FALSE]
  BY <1>2, <1>4
<1>6. Stays(i) /\ Rests(i) /\ containers'[i].live = FALSE
  BY <1>3, <1>5 DEF Container, Stays, Rests
<1> QED
  BY <1>1, <1>5, <1>6 DEF Stays, Rests

\* docker run starts one more container, and leaves the others alone.
LEMMA LaunchStep ==
    ASSUME containers \in Seq(Container), inp' = inp, NEW c \in Container, containers' = Append(containers, c)
    PROVE  LET n == Len(containers) + 1
           IN /\ containers' \in Seq(Container)'
              /\ Len(containers') = n /\ n \in Nat /\ n # 0
              /\ DOMAIN containers' = DOMAIN containers \cup {n} /\ n \notin DOMAIN containers
              /\ \A j \in DOMAIN containers : containers'[j] = containers[j]
              /\ containers'[n] = c
<1>1. Container' = Container
  BY DEF Container, Artifacts
<1> QED
  BY <1>1

\* A container acts.
LEMMA ActStep ==
    ASSUME containers \in Seq(Container), inp' = inp, NEW i \in DOMAIN containers,
           NEW done \in SUBSET Events, NEW hooked \in SUBSET done,
           containers' = [containers EXCEPT ![i] = [@ EXCEPT !.acted = TRUE, !.did = done, !.hooked = hooked]]
    PROVE  /\ containers' \in Seq(Container)'
           /\ Len(containers') = Len(containers) /\ DOMAIN containers' = DOMAIN containers
           /\ \A j \in DOMAIN containers : Stays(j) /\ containers'[j].live = containers[j].live
           /\ \A j \in DOMAIN containers : j # i => Rests(j)
           /\ containers'[i].acted /\ containers'[i].did = done /\ containers'[i].hooked = hooked
<1>1. Container' = Container
  BY DEF Container, Artifacts
<1> DEFINE c1 == [containers[i] EXCEPT !.acted = TRUE]
           c2 == [c1 EXCEPT !.did = done]
           c3 == [c2 EXCEPT !.hooked = hooked]
<1>2. containers' = [containers EXCEPT ![i] = c3]
  <2>1. [containers[i] EXCEPT !.acted = TRUE, !.did = done, !.hooked = hooked] = c3
    OBVIOUS
  <2> QED
    BY <2>1
<1>3. \A j \in DOMAIN containers : containers[j] \in Container
  OBVIOUS
<1>4. /\ c3 \in Container
      /\ c3.acted /\ c3.did = done /\ c3.hooked = hooked
      /\ c3.phase = containers[i].phase
      /\ c3.command = containers[i].command
      /\ c3.network = containers[i].network
      /\ c3.image = containers[i].image
      /\ c3.traced = containers[i].traced
      /\ c3.base = containers[i].base
      /\ c3.beside = containers[i].beside
      /\ c3.clean = containers[i].clean
      /\ c3.live = containers[i].live
  BY <1>3 DEF Container
<1> HIDE DEF c3
<1>5. /\ containers' \in Seq(Container)
      /\ Len(containers') = Len(containers) /\ DOMAIN containers' = DOMAIN containers
      /\ \A j \in DOMAIN containers : j # i => containers'[j] = containers[j]
      /\ containers'[i] = c3
  BY <1>2, <1>4
<1> QED
  BY <1>1, <1>4, <1>5 DEF Stays, Rests

(***************************************************************************)
(* The plan                                                                *)
(***************************************************************************)
\* Neither plan nor call changes after planning.
LEMMA PlanKept ==
    ASSUME PlanMade, pc # "plan", UNCHANGED <<inp, plan>>
    PROVE  /\ PlanMade'
           /\ \A p \in DockerPhases : CommandsOf(p)' = CommandsOf(p)
           /\ (plan.fetch.not_required)' = plan.fetch.not_required
<1>1. \A p \in DockerPhases : CommandsOf(p)' = CommandsOf(p)
  BY DEF CommandsOf
<1>2. \A c : ApprovedFor(c)' <=> ApprovedFor(c)
  BY DEF ApprovedFor, Describes
<1>3. RepoPhases \subseteq DockerPhases
  BY DEF RepoPhases, DockerPhases
<1> QED
  BY <1>1, <1>2, <1>3 DEF PlanMade

\* The probes' own commands.
LEMMA ProbesTyped == PreflightCommands \in Seq(Commands) /\ SmokeCommands \in Seq(Commands)
<1>1. PreflightCommands \in Seq(Range(PreflightCommands))
  BY DEF PreflightCommands, Range
<1>2. SmokeCommands \in Seq(Range(SmokeCommands))
  BY DEF SmokeCommands, Range
<1>3. Range(PreflightCommands) \subseteq Commands /\ Range(SmokeCommands) \subseteq Commands
  BY DEF Commands
<1> HIDE DEF Commands
<1> QED
  BY <1>1, <1>2, <1>3

\* MakePlan establishes what PlanMade says.
LEMMA PlanIsMade ==
    ASSUME inp \in Inputs, MakePlan
    PROVE  PlanMade'
<1>1. PICK actual \in {tag, NULL} :
        LET decided == evaluate_image_policy(inp.image, actual)
            commands == detect_execution_plan(inp.repo)
        IN plan' = [commands |-> commands, fetch |-> build_fetch_plan(inp.repo),
                    approval |-> apply_approvals(commands, inp.approval, inp.image, decided)]
  BY DEF MakePlan
<1> DEFINE decided == evaluate_image_policy(inp.image, actual)
           commands == detect_execution_plan(inp.repo)
           fetch == build_fetch_plan(inp.repo)
           applied == apply_approvals(commands, inp.approval, inp.image, decided)
<1>2. /\ plan'.fetch = fetch /\ plan'.approval = applied
      /\ inp' = inp
  <2> HIDE DEF decided, commands, fetch, applied
  <2>1. plan' = [commands |-> commands, fetch |-> fetch, approval |-> applied]
    BY <1>1 DEF decided, commands, fetch, applied
  <2> QED
    BY <2>1 DEF MakePlan
<1>3. commands \in Seq(Generated)
  BY DetectTyped
<1>4. fetch.commands \in Seq(Generated) /\ (fetch.not_required => SelfContained(inp.repo))
  BY FetchTyped
<1>5. decided.expected = inp.image.expected
  BY DEF evaluate_image_policy
<1> HIDE DEF decided, commands, fetch
<1>6. /\ applied.status \in {"pass", "warn", "block"}
      /\ \E keys : applied.commands = Marked(commands, keys)
  BY DEF apply_approvals
<1>7. DOMAIN applied.commands = 1 .. Len(commands) /\ Len(commands) \in Nat
  BY <1>3, <1>6 DEF Marked
<1>8. \A i \in 1 .. Len(commands) :
        /\ applied.commands[i].command = commands[i]
        /\ applied.commands[i].approved => ApprovedFor(commands[i])
  BY <1>3, <1>5, <1>6, MarkedIsApproved DEF Marked
<1> HIDE DEF applied
<1>9. ASSUME NEW phase
      PROVE  LET approved == approved_commands_for_phase(applied.commands, phase)
                 run == [i \in DOMAIN approved |-> approved[i].command]
             IN run \in Seq(Generated) /\ \A c \in Range(run) : ApprovedFor(c)
  <2> DEFINE approved == approved_commands_for_phase(applied.commands, phase)
             run == [i \in DOMAIN approved |-> approved[i].command]
  <2>1. PICK m \in Nat :
          /\ approved = [k \in 1 .. m |-> approved[k]]
          /\ \A k \in 1 .. m : \E i \in 1 .. Len(commands) :
               approved[k] = applied.commands[i] /\ applied.commands[i].approved
    <3> DEFINE n == Len(commands)
               marked == applied.commands
    <3>1. n \in Nat /\ DOMAIN marked = 1 .. n
      BY <1>7
    <3> HIDE DEF n, marked
    <3>2. \E m \in Nat : LET picked == approved_commands_for_phase(marked, phase)
                         IN /\ picked = [k \in 1 .. m |-> picked[k]]
                            /\ \A k \in 1 .. m : \E i \in 1 .. n : picked[k] = marked[i] /\ marked[i].approved
      BY <3>1, ApprovedPicked
    <3> QED
      BY <3>2 DEF n, marked
  <2> HIDE DEF approved
  <2>2. run = [k \in 1 .. m |-> approved[k].command]
    BY <2>1
  <2>3. \A k \in 1 .. m : approved[k].command \in Generated /\ ApprovedFor(approved[k].command)
    BY <1>3, <1>8, <2>1
  <2> HIDE DEF run
  <2>4. run \in Seq(Generated) /\ DOMAIN run = 1 .. m /\ \A k \in 1 .. m : run[k] = approved[k].command
    BY <2>2, <2>3
  <2>5. \A c \in Range(run) : ApprovedFor(c)
    BY <2>3, <2>4 DEF Range
  <2> QED
    BY <2>4, <2>5 DEF run, approved
<1>10. Generated \subseteq Commands
  BY DEF Generated, Commands
<1>11. ASSUME NEW p \in RepoPhases
       PROVE  CommandsOf(p)' \in Seq(Generated) /\ \A c \in Range(CommandsOf(p)') : ApprovedFor(c)
  <2>1. PICK phase : LET approved == approved_commands_for_phase(applied.commands, phase)
                     IN CommandsOf(p)' = [i \in DOMAIN approved |-> approved[i].command]
    BY <1>2 DEF CommandsOf, RepoPhases
  <2> QED
    BY <1>9, <2>1
<1>12. ASSUME NEW p \in DockerPhases
       PROVE  CommandsOf(p)' \in Seq(Commands)
  <2>1. CASE p \in RepoPhases
    BY <1>10, <1>11, <2>1
  <2>2. CASE p = "preflight"
    BY <2>2, ProbesTyped DEF CommandsOf, RepoPhases
  <2>3. CASE p = "smoke"
    BY <2>3, ProbesTyped DEF CommandsOf, RepoPhases
  <2>4. CASE p = "phase1"
    BY <1>2, <1>4, <1>10, <2>4 DEF CommandsOf, RepoPhases
  <2> QED
    BY <2>1, <2>2, <2>3, <2>4 DEF DockerPhases, RepoPhases
<1>13. \A c : ApprovedFor(c)' <=> ApprovedFor(c)
  BY <1>2 DEF ApprovedFor, Describes
<1> QED
  BY <1>2, <1>4, <1>6, <1>11, <1>12, <1>13 DEF PlanMade

(***************************************************************************)
(* The invariant holds initially                                           *)
(***************************************************************************)
\* Nothing was planned, nothing runs.
LEMMA InitHolds == Init => IInv
<1> SUFFICES ASSUME Init PROVE IInv
  OBVIOUS
<1>1. containers = <<>> /\ DOMAIN containers = {} /\ Len(containers) = 0 /\ client = 0
  BY DEF Init
<1>2. Types
  <2>1. Result("not_requested") \in PhaseReport
    <3>1. "not_requested" \in PhaseStatus
      BY DEF PhaseStatus
    <3>2. <<>> \in Seq(CommandResult)
      OBVIOUS
    <3> QED
      BY <3>1, <3>2, Zenon DEF Result, PhaseReport
  <2>2. phases \in [DockerPhases -> PhaseReport]
    BY <2>1 DEF Init
  <2>3. \A p \in DockerPhases : phases[p].performed \in BOOLEAN
    BY <2>2 DEF PhaseReport
  <2>4. TypeOK
    BY <1>1, <2>3, SandboxCommandConstants DEF Init, TypeOK, DockerPhases
  <2> QED
    BY <1>1, <2>2, <2>4 DEF Init, Types
<1>3. PlanMade
  BY DEF Init, PlanMade
<1>4. ImageKept
  BY DEF Init, ImageKept
<1>5. Staged
  BY <1>1 DEF Init, Staged, NotYet, Result, DockerPhases, RepoPhases
<1>6. Prepared /\ LeftBehind
  BY <1>1 DEF Prepared, LeftBehind
<1>7. Rescanned
  BY DEF Init, Rescanned, RepoPhases, phase1_5_satisfies_dynamic_gate
<1>8. Watched
  BY <1>1 DEF Init, Watched
<1>9. \A p \in RepoPhases : Judged(p)
  BY <1>1 DEF Init, Judged, Result, RepoPhases, DockerPhases
<1>10. Ended
  BY SandboxCommandConstants DEF Init, Ended, ExitZeroIsQuiet
<1> QED
  BY <1>2, <1>3, <1>4, <1>5, <1>6, <1>7, <1>8, <1>9, <1>10 DEF IInv

(***************************************************************************)
(* Steps of others                                                         *)
(***************************************************************************)
\* Somebody moves the tag: only what is said about the image is touched.
LEMMA RetagKeeps == IInv /\ Retag => IInv'
<1> SUFFICES ASSUME IInv, Retag PROVE IInv'
  OBVIOUS
<1> USE DEF IInv
<1>1. /\ UNCHANGED <<inp, pc, plan, policy, materialized, dir, files, observer, phases, rescan, queue, client,
                     containers, sink, report, exit, scanned, written>>
      /\ retags < MaxRetags /\ retags' = retags + 1 /\ tag' \in ImageIds
  BY DEF Retag, history
<1>2. Types'
  <2>1. TypeOK'
    BY <1>1, SandboxCommandConstants DEF Types, TypeOK
  <2> QED
    BY <1>1, <2>1 DEF Types, Container, Artifacts
<1>3. PlanMade'
  <2>1. CASE pc = "plan"
    BY <1>1, <2>1 DEF PlanMade
  <2> QED
    BY <1>1, <2>1, PlanKept
<1>4. ImageKept'
  <2>1. retags' # 0
    BY <1>1 DEF Types, TypeOK
  <2> QED
    BY <1>1, <2>1 DEF ImageKept
<1>5. Staged'
  BY <1>1 DEF Staged, CommandsOf, GateOpen
<1>6. Prepared' /\ LeftBehind'
  BY <1>1 DEF Prepared, LeftBehind, CommandsOf, GateOpen
<1>7. Rescanned' /\ Watched'
  BY <1>1 DEF Rescanned, Watched
<1>8. \A i : Quiet(i)' <=> Quiet(i)
  BY <1>1, QuietKept
<1>9. Ended' /\ \A p \in RepoPhases : Judged(p)'
  BY <1>1, <1>8 DEF Ended, ExitZeroIsQuiet, Judged
<1> QED
  BY <1>2, <1>3, <1>4, <1>5, <1>6, <1>7, <1>8, <1>9

(***************************************************************************)
(* Planning and the workspace                                              *)
(***************************************************************************)
\* MakePlan: there is no container yet, and the fetch is dispensed with only where the plan says so.
LEMMA MakePlanKeeps == IInv /\ MakePlan => IInv'
<1> SUFFICES ASSUME IInv, MakePlan PROVE IInv'
  OBVIOUS
<1> USE DEF IInv
<1>1. /\ UNCHANGED <<inp, tag, retags, materialized, dir, files, observer, rescan, queue, client, containers, sink,
                     report, exit, scanned, written>>
      /\ pc = "plan" /\ pc' = "materialize"
  BY DEF MakePlan, history, world
<1>2. PICK actual \in {tag, NULL} :
        /\ policy' = evaluate_image_policy(inp.image, actual)
        /\ plan' = [commands |-> detect_execution_plan(inp.repo), fetch |-> build_fetch_plan(inp.repo),
                    approval |-> apply_approvals(detect_execution_plan(inp.repo), inp.approval, inp.image,
                                                 evaluate_image_policy(inp.image, actual))]
        /\ phases' = [phases EXCEPT !["phase1"] =
                          IF build_fetch_plan(inp.repo).not_required THEN Result("not_required") ELSE @]
  BY DEF MakePlan
<1>3. plan'.fetch = build_fetch_plan(inp.repo)
  BY <1>2
<1> DEFINE spared == build_fetch_plan(inp.repo).not_required
<1>4. phases' = [phases EXCEPT !["phase1"] = IF spared THEN Result("not_required") ELSE @]
  BY <1>2
<1> HIDE DEF spared
<1>5. /\ containers = <<>> /\ DOMAIN containers = {} /\ client = 0 /\ queue = NULL /\ exit # 0
      /\ \A p \in DockerPhases : phases[p].results = <<>>
      /\ \A p \in DockerPhases \ {"phase1"} : phases[p].status = "not_requested"
      /\ phases["phase1"].status \in {"not_requested"}
  <2>1. containers = <<>>
    BY <1>1 DEF ImageKept
  <2> QED
    BY <1>1, <2>1 DEF Staged, Ended, Before, NotYet, DockerPhases, Stopped
<1>6. Result("not_required") \in PhaseReport
  <2>1. "not_required" \in PhaseStatus
    BY DEF PhaseStatus
  <2>2. <<>> \in Seq(CommandResult)
    OBVIOUS
  <2> QED
    BY <2>1, <2>2, Zenon DEF Result, PhaseReport
<1>7. /\ phases' \in [DockerPhases -> PhaseReport]
      /\ \A p \in DockerPhases \ {"phase1"} : phases'[p] = phases[p]
      /\ phases'["phase1"] = IF spared THEN Result("not_required") ELSE phases["phase1"]
  BY <1>4, <1>6 DEF Types, DockerPhases
<1>8. /\ \A p \in DockerPhases : phases'[p].results = <<>> /\ phases'[p].performed \in BOOLEAN
      /\ \A p \in DockerPhases : phases'[p].status \in NotYet(p)
      /\ phases'["phase1"].status = "not_required" => spared
  BY <1>5, <1>7 DEF Result, PhaseReport, NotYet, DockerPhases
<1>9. Types'
  <2>1. TypeOK'
    BY <1>1, <1>8 DEF Types, TypeOK
  <2> QED
    BY <1>1, <1>5, <1>7, <2>1 DEF Types, Container, Artifacts
<1>10. PlanMade'
  BY PlanIsMade DEF Types
<1>11. ImageKept'
  <2>1. policy'.local_sanctioned => inp.image.kind = "tag" /\ actual = inp.image.expected /\ actual # NULL
    <3> DEFINE local == Inspected(inp.image) /\ actual # NULL /\ actual = inp.image.expected
               digest == inp.image.kind = "digest" \/ local
    <3>1. policy' = [allowed |-> digest, local_sanctioned |-> local, expected |-> inp.image.expected]
      BY <1>2 DEF evaluate_image_policy
    <3>2. local => inp.image.kind = "tag" /\ actual = inp.image.expected /\ actual # NULL
      BY DEF Inspected
    <3> HIDE DEF local, digest
    <3>3. policy'.local_sanctioned = local
      BY <3>1
    <3> QED
      BY <3>2, <3>3
  <2> QED
    BY <1>1, <1>5, <2>1 DEF ImageKept
<1>12. Staged'
  <2>1. phases'["phase1"].status = "not_required" => plan'.fetch.not_required
    BY <1>3, <1>8 DEF spared
  <2> QED
    BY <1>1, <1>5, <1>8, <2>1 DEF Staged, DockerPhases, RepoPhases
<1>13. Prepared' /\ LeftBehind'
  BY <1>1, <1>5 DEF Prepared, LeftBehind
<1>14. Rescanned' /\ Watched'
  BY <1>1, <1>5 DEF Rescanned, Watched, RepoPhases
<1>15. \A p \in RepoPhases : Judged(p)'
  BY <1>1, <1>5, <1>8 DEF Judged, RepoPhases, DockerPhases
<1>16. Ended'
  BY <1>1, <1>5 DEF Ended, ExitZeroIsQuiet
<1> QED
  BY <1>9, <1>10, <1>11, <1>12, <1>13, <1>14, <1>15, <1>16

\* materialize_disposable_workspace: a directory and the vendored artifacts.
LEMMA MaterializeKeeps == IInv /\ Materialize => IInv'
<1> SUFFICES ASSUME IInv, Materialize PROVE IInv'
  OBVIOUS
<1> USE DEF IInv
<1>1. /\ UNCHANGED <<inp, plan, policy, tag, retags, phases, rescan, queue, client, containers, sink, report, scanned,
                     written>>
      /\ pc = "materialize"
  BY DEF Materialize, history, world
<1>2. PICK outcome \in Materializations :
        /\ materialized' = IF outcome \in {"mkdtemp", "loop"} THEN "not_started" ELSE outcome
        /\ dir' = IF outcome = "mkdtemp" THEN "none" ELSE "present"
        /\ files' \in (IF outcome = "completed" THEN {inp.vendored} ELSE SUBSET inp.vendored)
        /\ observer' = [observer EXCEPT !.hooks = detected_languages(inp.repo) # {}]
        /\ pc' = IF outcome \in {"mkdtemp", "loop"} THEN "raised" ELSE "preflight"
        /\ exit' = IF outcome \in {"mkdtemp", "loop"} THEN 1 ELSE exit
  BY DEF Materialize
<1>3. /\ containers = <<>> /\ DOMAIN containers = {} /\ client = 0 /\ queue = NULL /\ exit # 0
      /\ \A p \in DockerPhases : phases[p].results = <<>> /\ phases[p].status \in NotYet(p)
  <2>1. containers = <<>>
    BY <1>1 DEF ImageKept
  <2> QED
    BY <1>1, <2>1 DEF Staged, Ended, Before, DockerPhases, Stopped
<1>4. /\ observer' \in [hooks : BOOLEAN, syscall : BOOLEAN, pass_possible : BOOLEAN]
      /\ observer'.syscall = observer.syscall /\ observer'.pass_possible = observer.pass_possible
  <2> DEFINE found == detected_languages(inp.repo) # {}
  <2>1. found \in BOOLEAN
    OBVIOUS
  <2>2. observer' = [observer EXCEPT !.hooks = found]
    BY <1>2
  <2> HIDE DEF found
  <2>3. observer \in [hooks : BOOLEAN, syscall : BOOLEAN, pass_possible : BOOLEAN]
    BY DEF Types, TypeOK
  <2> QED
    BY <2>1, <2>2, <2>3
<1>5. files' \subseteq inp.vendored
  BY <1>2
<1>6. /\ pc' \in {"raised", "preflight"}
      /\ pc' = "raised" => materialized' = "not_started"
      /\ materialized' \in {"not_started", "completed", "partial", "failed"}
      /\ dir' \in {"none", "present"}
      /\ exit' \in {NULL, 1} /\ exit' # 0
  BY <1>2, <1>3, SandboxCommandConstants DEF Outcomes, Types, TypeOK
<1>7. Types'
  <2>1. TypeOK'
    BY <1>1, <1>4, <1>5, <1>6 DEF Types, TypeOK, DockerPhases
  <2> QED
    BY <1>1, <1>3, <2>1 DEF Types, Container, Artifacts
<1>8. PlanMade'
  BY <1>1, PlanKept
<1>9. ImageKept'
  BY <1>1, <1>3, <1>6 DEF ImageKept
<1>10. Staged'
  BY <1>1, <1>3, <1>6 DEF Staged, DockerPhases, RepoPhases
<1>11. Prepared' /\ LeftBehind'
  BY <1>1, <1>3 DEF Prepared, LeftBehind
<1>12. Rescanned' /\ Watched'
  BY <1>1, <1>3, <1>4, <1>6 DEF Rescanned, Watched, RepoPhases
<1>13. \A p \in RepoPhases : Judged(p)'
  BY <1>1, <1>3 DEF Judged, RepoPhases, DockerPhases
<1>14. Ended'
  BY <1>3, <1>6 DEF Ended, ExitZeroIsQuiet
<1> QED
  BY <1>7, <1>8, <1>9, <1>10, <1>11, <1>12, <1>13, <1>14

(***************************************************************************)
(* The program goes through its phases                                     *)
(***************************************************************************)
\* A phase is left for a later one, and phases only come in their order.
LEMMA AfterStep ==
    ASSUME NEW q \in DockerPhases
    PROVE  /\ After[q] \in {"smoke", "phase1", "rescan", "phase3", "cleanup"}
           /\ After[q] \in RepoPhases => q = "phase2"
           /\ \A p \in DockerPhases : After[q] \in Before[p] \cup {p} => q \in Before[p] /\ p # q
           /\ \A p \in DockerPhases : After[q] \in Before[p] => q \in Before[p]
<1>1. \A p \in DockerPhases : p # q \/ After[q] \notin Before[p] \cup {p}
  BY DEF DockerPhases, After, Before
<1>2. CASE q = "preflight"
  BY <1>1, <1>2 DEF DockerPhases, RepoPhases, After, Before
<1>3. CASE q = "smoke"
  BY <1>1, <1>3 DEF DockerPhases, RepoPhases, After, Before
<1>4. CASE q = "phase1"
  BY <1>1, <1>4 DEF DockerPhases, RepoPhases, After, Before
<1>5. CASE q = "phase2"
  BY <1>1, <1>5 DEF DockerPhases, RepoPhases, After, Before
<1>6. CASE q = "phase3"
  BY <1>1, <1>6 DEF DockerPhases, RepoPhases, After, Before
<1> QED
  BY <1>2, <1>3, <1>4, <1>5, <1>6 DEF DockerPhases

\* No client runs any more, and of the reports only that of the current phase changed.
Advances ==
    /\ pc \in DockerPhases /\ client' = 0
    /\ UNCHANGED <<inp, plan, policy, tag, retags, materialized, dir, files, rescan, report, exit, scanned, written>>
    /\ phases' \in [DockerPhases -> PhaseReport]
    /\ \A p \in DockerPhases \ {pc} : phases'[p] = phases[p]
    /\ containers' \in Seq(Container)' /\ DOMAIN containers' = DOMAIN containers
    /\ \A j \in DOMAIN containers : Stays(j) /\ Rests(j) /\ (containers'[j].live => containers[j].live)
    /\ client # 0 /\ containers'[client].live =>
          pc = "preflight" \/ phases'[pc].status = "failed" \/ pc' = "unwinding"
    /\ observer' \in [hooks : BOOLEAN, syscall : BOOLEAN, pass_possible : BOOLEAN]
    /\ observer'.pass_possible => observer'.syscall
    /\ sink' \subseteq [via : {"hook", "strace"}, event : Events \cup {"log"}]
\* The phase ends, goes on, or is given up.
PhaseEnds ==
    /\ pc' = After[pc] /\ queue' = NULL
    /\ phases'[pc].status = "not_required" => phases[pc].status = "not_required"
PhaseGoesOn ==
    /\ pc' = pc /\ queue' \in Seq(Commands) /\ Range(queue') \subseteq Range(CommandsOf(pc))
    /\ phases'[pc].status = phases[pc].status
    /\ pc \in RepoPhases => GateOpen
PhaseUnwinds == pc' = "unwinding" /\ queue' = queue /\ phases' = phases

\* Whatever becomes of the phase, all that is left to show is that its own results tell what its containers did.
LEMMA PhaseSteps ==
    ASSUME IInv, Advances, PhaseEnds \/ PhaseGoesOn \/ PhaseUnwinds,
           \A p \in RepoPhases : p = pc => Judged(p)'
    PROVE  IInv'
<1> USE DEF IInv
<1>1. /\ pc \in DockerPhases /\ client' = 0 /\ pc # "plan"
      /\ UNCHANGED <<inp, plan, policy, tag, retags, materialized, dir, files, rescan, report, exit, scanned, written>>
  BY DEF Advances, DockerPhases
<1>2. /\ DOMAIN containers' = DOMAIN containers
      /\ \A j \in DOMAIN containers : Stays(j) /\ Rests(j) /\ (containers'[j].live => containers[j].live)
      /\ \A j \in DOMAIN containers : j # 0 /\ containers[j].phase \in DockerPhases
  <2>1. \A j \in DOMAIN containers : j # 0 /\ containers[j] \in Container
    BY DEF Types
  <2> QED
    BY <2>1 DEF Advances, Container
<1>3. /\ \A p \in DockerPhases \ {pc} : phases'[p] = phases[p]
      /\ phases' \in [DockerPhases -> PhaseReport]
  BY DEF Advances
<1>4. exit # 0 /\ pc \notin Stopped /\ phases[pc].status \in NotYet(pc) /\ phases[pc].status # "failed"
  BY <1>1 DEF Ended, DockerPhases, Stopped, Staged, NotYet
<1>5. pc' \notin {"plan", "materialize", "report", "done", "raised"} /\ (pc' \in RepoPhases => pc \in RepoPhases)
  <2>1. CASE PhaseEnds
    BY <1>1, <2>1, AfterStep DEF PhaseEnds, RepoPhases
  <2>2. CASE PhaseGoesOn
    BY <1>1, <2>2 DEF PhaseGoesOn, DockerPhases
  <2>3. CASE PhaseUnwinds
    BY <2>3 DEF PhaseUnwinds, RepoPhases
  <2> QED
    BY <2>1, <2>2, <2>3
<1>6. queue' = NULL \/ queue' \in Seq(Commands)
  BY DEF Types, PhaseEnds, PhaseGoesOn, PhaseUnwinds
<1>7. Types'
  <2>1. \A p \in DockerPhases : phases'[p].performed \in BOOLEAN
    BY <1>3 DEF PhaseReport
  <2>2. pc' \in DockerPhases \cup {"rescan", "cleanup", "unwinding"}
    BY <1>1, AfterStep DEF PhaseEnds, PhaseGoesOn, PhaseUnwinds, DockerPhases
  <2>3. Len(containers') \in Nat
    BY DEF Advances
  <2>4. TypeOK'
    BY <1>1, <2>1, <2>2, <2>3 DEF Types, TypeOK, Advances
  <2>5. \A i \in DOMAIN containers' : containers'[i].network = "bridge" <=> containers'[i].phase = "phase1"
    BY <1>2 DEF Types, Stays
  <2> QED
    BY <1>1, <1>3, <1>6, <2>4, <2>5 DEF Types, Advances
<1>8. PlanMade' /\ \A p \in DockerPhases : CommandsOf(p)' = CommandsOf(p)
  BY <1>1, PlanKept
<1>9. ImageKept'
  BY <1>1, <1>2, <1>5 DEF ImageKept, Stays
<1>10. ~ (\E p \in RepoPhases : pc \in Before[p]) => phases'["phase1"] = phases["phase1"]
  BY <1>1, <1>3 DEF DockerPhases, RepoPhases, Before
<1>11. \A i \in DOMAIN containers : containers[i].phase \in RepoPhases => pc \in RepoPhases
  BY <1>1 DEF Staged, DockerPhases, RepoPhases, Before
<1>12. pc \in RepoPhases => phases'["phase1"] = phases["phase1"] /\ (GateOpen' <=> GateOpen)
  <2>1. pc \in RepoPhases => phases'["phase1"] = phases["phase1"]
    BY <1>3 DEF DockerPhases, RepoPhases
  <2> QED
    BY <1>1, <2>1 DEF GateOpen
<1>13. Staged'
  <2>1. /\ queue' # NULL => pc' \in DockerPhases \cup Stopped
        /\ queue' # NULL /\ pc' \in DockerPhases => (Range(queue) \subseteq Range(CommandsOf(pc)))'
        /\ queue' # NULL /\ pc' \in RepoPhases => GateOpen'
    <3>1. CASE PhaseEnds
      BY <3>1 DEF PhaseEnds
    <3>2. CASE PhaseGoesOn
      <4>1. CommandsOf(pc)' = CommandsOf(pc)
        BY <1>1, <3>2 DEF PhaseGoesOn, CommandsOf
      <4> QED
        BY <1>1, <1>12, <3>2, <4>1 DEF PhaseGoesOn
    <3>3. CASE PhaseUnwinds
      BY <3>3 DEF PhaseUnwinds, DockerPhases, RepoPhases, Stopped
    <3> QED
      BY <3>1, <3>2, <3>3
  <2>2. ASSUME NEW p \in DockerPhases
        PROVE  /\ pc' \in Before[p] \cup {p} => phases'[p].status \in NotYet(p)
               /\ pc' \in Before[p] \/ (pc' = p /\ queue' = NULL) =>
                    phases'[p].results = <<>> /\ \A i \in DOMAIN containers' : containers'[i].phase # p
    <3>1. CASE PhaseEnds
      <4>1. pc' \in Before[p] \cup {p} => pc \in Before[p] /\ p # pc
        BY <1>1, <3>1, AfterStep DEF PhaseEnds
      <4> QED
        BY <1>2, <1>3, <4>1 DEF Staged, Stays
    <3>2. CASE PhaseGoesOn
      <4>1. pc' = pc /\ queue' # NULL
        BY <3>2, SandboxCommandConstants DEF PhaseGoesOn
      <4>2. pc \notin Before[pc]
        BY <1>1 DEF DockerPhases, Before
      <4>3. phases'[p].status = phases[p].status
        BY <1>3, <3>2 DEF PhaseGoesOn
      <4> QED
        BY <1>2, <1>3, <4>1, <4>2, <4>3 DEF Staged, Stays
    <3>3. CASE PhaseUnwinds
      BY <3>3 DEF PhaseUnwinds, Before, DockerPhases
    <3> QED
      BY <3>1, <3>2, <3>3
  <2>3. phases'["phase1"].status = "not_required" => pc' # "plan" /\ plan'.fetch.not_required
    <3>1. phases'["phase1"].status = "not_required" => phases["phase1"].status = "not_required"
      BY <1>3 DEF DockerPhases, PhaseEnds, PhaseGoesOn, PhaseUnwinds
    <3> QED
      BY <1>1, <1>5, <3>1 DEF Staged
  <2> QED
    BY <1>1, <2>1, <2>2, <2>3 DEF Staged
<1>14. Prepared'
  <2>1. RepoPhases \subseteq DockerPhases
    BY DEF RepoPhases, DockerPhases
  <2> QED
    BY <1>1, <1>2, <1>8, <1>11, <1>12, <2>1 DEF Prepared, Stays
<1>15. LeftBehind'
  <2> SUFFICES ASSUME NEW i \in DOMAIN containers, containers'[i].live, containers'[i].phase # "preflight"
               PROVE  phases'[containers'[i].phase].status = "failed" \/ pc' \in Stopped
    BY <1>2 DEF LeftBehind
  <2>1. CASE i = client
    BY <1>2, <2>1 DEF Staged, Advances, Stays, Stopped
  <2>2. CASE i # client
    <3>1. phases[containers[i].phase].status = "failed"
      BY <1>2, <1>4, <2>2 DEF LeftBehind, Stays
    <3> QED
      BY <1>2, <1>3, <1>4, <3>1 DEF Stays
  <2> QED
    BY <2>1, <2>2
<1>16. Rescanned'
  BY <1>1, <1>5, <1>12 DEF Rescanned
<1>17. Watched'
  BY <1>1, <1>2 DEF Watched, Advances, Rests
<1>18. ASSUME NEW p \in RepoPhases
       PROVE  Judged(p)'
  <2>1. CASE p # pc
    <3>1. phases'[p] = phases[p] /\ p \in DockerPhases
      BY <1>3, <2>1 DEF RepoPhases, DockerPhases
    <3>2. \A i \in DOMAIN containers : containers'[i].phase = p => containers[i].phase = p /\ i # client
      BY <1>2, <2>1 DEF Staged, Stays
    <3>3. /\ Told(phases[p].results, Shortfalls)' <=> Told(phases[p].results, Shortfalls)
          /\ Told(phases[p].results, {"observer_blocked"})' <=> Told(phases[p].results, {"observer_blocked"})
          /\ phases[p].status' = phases[p].status /\ phases[p].results' = phases[p].results
      BY <3>1 DEF Told
    <3>4. \A i \in DOMAIN containers :
            /\ Unremarkable(containers[i])' <=> Unremarkable(containers[i])
            /\ containers[i].phase = p => (Quiet(i)' <=> Quiet(i))
      BY <1>2, <3>1, QuietKept DEF Unremarkable, Stays, Rests
    <3>5. DynamicOverall(phases[p].results)' = DynamicOverall(phases[p].results)
      BY <3>1 DEF DynamicOverall
    <3> QED
      BY <1>2, <1>4, <2>1, <3>1, <3>2, <3>3, <3>4, <3>5 DEF Judged
  <2> QED
    BY <2>1
<1>19. Ended'
  BY <1>1, <1>4, <1>5 DEF Ended, ExitZeroIsQuiet
<1> QED
  BY <1>7, <1>8, <1>9, <1>13, <1>14, <1>15, <1>16, <1>17, <1>18, <1>19

\* Containers that no step touches.
LEMMA Untouched ==
    ASSUME Types, UNCHANGED <<inp, containers>>
    PROVE  /\ containers' \in Seq(Container)' /\ DOMAIN containers' = DOMAIN containers
           /\ \A j \in DOMAIN containers : Stays(j) /\ Rests(j) /\ (containers'[j].live => containers[j].live)
  BY DEF Types, Stays, Rests, Container, Artifacts

\* The results of commands are results.
LEMMA OutcomeTyped == ASSUME NEW s \in ResultStatus PROVE Outcome(s) \in CommandResult
<1>1. {} \in SUBSET (Events \cup {"log"}) /\ 0 \in Nat
  OBVIOUS
<1> QED
  BY <1>1, Zenon DEF Outcome, CommandResult

\* So is the result of an observed command, whatever is in the observer's files.
LEMMA DynamicResultTyped ==
    ASSUME Types, NEW s \in ResultStatus, NEW reading, NEW possible \in BOOLEAN
    PROVE  DynamicResult(s, combined_observer_summary(reading), possible) \in CommandResult
<1> DEFINE hooks == {r.event : r \in {x \in sink : x.via = "hook"}}
           strace == {r.event : r \in {x \in sink : x.via = "strace"}}
           seen == (IF reading \in {"no_hooks", "neither"} THEN {} ELSE hooks)
                    \cup (IF reading \in {"no_strace", "neither"} THEN {} ELSE strace \ {"log"})
           log == strace # {}
           error == reading \in {"no_strace", "neither"} /\ strace # {}
           read_error == reading \in {"no_hooks", "neither"} /\ hooks # {}
<1>1. hooks \subseteq Events \cup {"log"} /\ strace \subseteq Events \cup {"log"} /\ client \in Nat
  BY DEF Types, TypeOK
<1> HIDE DEF hooks, strace
<1>2. seen \subseteq Events \cup {"log"}
  BY <1>1
<1>3. log \in BOOLEAN /\ error \in BOOLEAN /\ read_error \in BOOLEAN
  OBVIOUS
<1> HIDE DEF seen, log, error, read_error
<1>4. combined_observer_summary(reading) = [seen |-> seen, log |-> log, error |-> error, read_error |-> read_error]
  BY Zenon DEF combined_observer_summary, hooks, strace, seen, log, error, read_error
<1>5. DynamicResult(s, combined_observer_summary(reading), possible) =
        [status |-> s, observed |-> client, seen |-> seen, log |-> log, error |-> error, read_error |-> read_error,
         pass_possible |-> possible]
  BY <1>4 DEF DynamicResult
<1> QED
  BY <1>1, <1>2, <1>3, <1>5 DEF CommandResult

\* End leaves the phase with the given status.
LEMMA EndStep ==
    ASSUME Types, Watched, pc \in DockerPhases, NEW status \in PhaseStatus \ {"not_required"},
           NEW performed \in BOOLEAN, NEW results \in Seq(CommandResult), End(status, performed, results)
    PROVE  /\ PhaseEnds
           /\ phases' \in [DockerPhases -> PhaseReport]
           /\ \A p \in DockerPhases \ {pc} : phases'[p] = phases[p]
           /\ phases'[pc].status = status /\ phases'[pc].results = results
           /\ observer' \in [hooks : BOOLEAN, syscall : BOOLEAN, pass_possible : BOOLEAN]
           /\ observer'.pass_possible => observer'.syscall
<1> DEFINE r == [status |-> status, performed |-> performed, results |-> results]
<1>1. phases' = [phases EXCEPT ![pc] = r] /\ queue' = NULL /\ pc' = After[pc]
  BY DEF End
<1>2. r \in PhaseReport /\ r.status = status /\ r.results = results
  BY DEF PhaseReport
<1> HIDE DEF r
<1>3. /\ phases' \in [DockerPhases -> PhaseReport]
      /\ \A p \in DockerPhases \ {pc} : phases'[p] = phases[p]
      /\ phases'[pc].status = status /\ phases'[pc].results = results
  BY <1>1, <1>2 DEF Types
<1>4. /\ observer' \in [hooks : BOOLEAN, syscall : BOOLEAN, pass_possible : BOOLEAN]
      /\ observer'.pass_possible => observer'.syscall
  <2>1. observer \in [hooks : BOOLEAN, syscall : BOOLEAN, pass_possible : BOOLEAN]
    BY DEF Types, TypeOK
  <2>2. CASE pc # "preflight"
    BY <2>1, <2>2 DEF End, Watched
  <2>3. CASE pc = "preflight"
    <3> DEFINE found == Len(results) = 3 /\ results[3].status = "passed"
               possible == found /\ observer.hooks
    <3>1. found \in BOOLEAN /\ possible \in BOOLEAN /\ (possible => found)
      BY <2>1
    <3>2. observer' = [observer EXCEPT !.syscall = found, !.pass_possible = possible]
      BY <2>3 DEF End, activate_observer_from_preflight
    <3> HIDE DEF found, possible
    <3>3. observer' = [[observer EXCEPT !.syscall = found] EXCEPT !.pass_possible = possible]
      BY <3>2
    <3>4. /\ observer' \in [hooks : BOOLEAN, syscall : BOOLEAN, pass_possible : BOOLEAN]
          /\ observer'.pass_possible = possible /\ observer'.syscall = found
      BY <2>1, <3>1, <3>3
    <3> QED
      BY <3>1, <3>4
  <2> QED
    BY <2>2, <2>3
<1> QED
  BY <1>1, <1>3, <1>4 DEF PhaseEnds

\* Continue appends a result and takes the next command.
LEMMA ContinueStep ==
    ASSUME IInv, pc \in DockerPhases, queue # NULL, queue # <<>>, NEW r \in CommandResult, Continue(r)
    PROVE  /\ PhaseGoesOn
           /\ phases' \in [DockerPhases -> PhaseReport]
           /\ \A p \in DockerPhases \ {pc} : phases'[p] = phases[p]
           /\ phases'[pc].results = Append(phases[pc].results, r)
           /\ observer' = observer
<1> USE DEF IInv
<1>1. /\ phases' = [phases EXCEPT ![pc] = [phases[pc] EXCEPT !.results = Append(phases[pc].results, r)]]
      /\ queue' = Tail(queue) /\ pc' = pc /\ observer' = observer
  BY DEF Continue
<1>2. phases \in [DockerPhases -> PhaseReport] /\ phases[pc] \in PhaseReport /\ phases[pc].results \in Seq(CommandResult)
  BY DEF Types, PhaseReport
<1> DEFINE longer == Append(phases[pc].results, r)
           new == [phases[pc] EXCEPT !.results = longer]
<1>3. longer \in Seq(CommandResult)
  BY <1>2
<1> HIDE DEF longer
<1>4. new \in PhaseReport /\ new.results = longer /\ new.status = phases[pc].status
  BY <1>2, <1>3 DEF PhaseReport
<1>5. phases' = [phases EXCEPT ![pc] = new]
  BY <1>1 DEF longer
<1> HIDE DEF new
<1>6. /\ phases' \in [DockerPhases -> PhaseReport]
      /\ \A p \in DockerPhases \ {pc} : phases'[p] = phases[p]
      /\ phases'[pc] = new
  BY <1>2, <1>4, <1>5
<1>7. queue' \in Seq(Commands) /\ Range(queue') \subseteq Range(queue)
  <2>1. queue \in Seq(Commands)
    BY DEF Types
  <2>2. /\ Tail(queue) \in Seq(Commands)
        /\ \A k \in DOMAIN Tail(queue) : k + 1 \in DOMAIN queue /\ Tail(queue)[k] = queue[k + 1]
    BY <2>1
  <2> QED
    BY <1>1, <2>2 DEF Range
<1> QED
  BY <1>1, <1>4, <1>6, <1>7 DEF PhaseGoesOn, Staged, longer

\* Unwind leaves the phase's report as it is.
LEMMA UnwindStep ==
    ASSUME Types, Watched, Unwind
    PROVE  /\ PhaseUnwinds
           /\ phases' \in [DockerPhases -> PhaseReport] /\ \A p \in DockerPhases : phases'[p] = phases[p]
           /\ observer' \in [hooks : BOOLEAN, syscall : BOOLEAN, pass_possible : BOOLEAN]
           /\ observer'.pass_possible => observer'.syscall
  BY DEF Unwind, PhaseUnwinds, Types, TypeOK, Watched

\* Begin: a phase that was asked for and whose gate is open gets its commands, another is passed over.
LEMMA BeginKeeps == IInv /\ Begin => IInv'
<1> SUFFICES ASSUME IInv, Begin PROVE IInv'
  OBVIOUS
<1> USE DEF IInv
<1>1. /\ UNCHANGED <<inp, plan, policy, tag, retags, materialized, dir, files, observer, rescan, client, containers,
                     sink, report, exit, scanned, written>>
      /\ pc \in DockerPhases /\ queue = NULL /\ client = 0
  BY DEF Begin, history, world, Staged
<1>2. /\ containers' \in Seq(Container)' /\ DOMAIN containers' = DOMAIN containers
      /\ \A j \in DOMAIN containers : Stays(j) /\ Rests(j) /\ (containers'[j].live => containers[j].live)
  BY <1>1, Untouched
<1>3. /\ observer' \in [hooks : BOOLEAN, syscall : BOOLEAN, pass_possible : BOOLEAN]
      /\ observer'.pass_possible => observer'.syscall
      /\ sink' \subseteq [via : {"hook", "strace"}, event : Events \cup {"log"}]
      /\ phases \in [DockerPhases -> PhaseReport]
  BY <1>1 DEF Types, TypeOK, Watched
<1>4. CASE inp[pc] /\ Gate(pc)
  <2>1. queue' = CommandsOf(pc) /\ pc' = pc /\ phases' = phases
    BY <1>4 DEF Begin
  <2>2. pc \in RepoPhases => GateOpen
    BY <1>4 DEF Gate, GateOpen
  <2>3. CommandsOf(pc) \in Seq(Commands)
    BY <1>1 DEF PlanMade, DockerPhases
  <2>4. PhaseGoesOn
    BY <2>1, <2>2, <2>3 DEF PhaseGoesOn
  <2>5. Advances
    BY <1>1, <1>2, <1>3, <2>1 DEF Advances
  <2>6. \A i : Quiet(i)' <=> Quiet(i)
    BY <1>1, <2>1, QuietKept
  <2>7. \A p \in RepoPhases : p = pc => Judged(p)'
    BY <1>1, <2>1, <2>6 DEF Judged, Unremarkable, Told
  <2> QED
    BY <2>4, <2>5, <2>7, PhaseSteps
<1>5. CASE ~ (inp[pc] /\ Gate(pc))
  <2>1. /\ pc' = After[pc] /\ queue' = NULL
        /\ phases' = IF inp[pc] /\ phases[pc].status # "not_required"
                     THEN [phases EXCEPT ![pc] = Result("skipped")] ELSE phases
    BY <1>1, <1>5 DEF Begin
  <2>2. Result("skipped") \in PhaseReport
    <3>1. "skipped" \in PhaseStatus
      BY DEF PhaseStatus
    <3>2. <<>> \in Seq(CommandResult)
      OBVIOUS
    <3> QED
      BY <3>1, <3>2, Zenon DEF Result, PhaseReport
  <2>3. Result("skipped").status = "skipped" /\ Result("skipped").results = <<>>
    BY DEF Result
  <2>4. /\ phases' \in [DockerPhases -> PhaseReport]
        /\ \A p \in DockerPhases \ {pc} : phases'[p] = phases[p]
        /\ phases'[pc] = phases[pc] \/ phases'[pc] = Result("skipped")
    BY <1>1, <1>3, <2>1, <2>2
  <2>5. PhaseEnds
    BY <2>1, <2>3, <2>4 DEF PhaseEnds
  <2>6. Advances
    BY <1>1, <1>2, <1>3, <2>4 DEF Advances
  <2>7. phases'[pc].results = <<>> /\ \A i \in DOMAIN containers' : containers'[i].phase # pc
    BY <1>1, <2>3, <2>4 DEF Staged
  <2>8. \A p \in RepoPhases : p = pc => Judged(p)'
    BY <2>7 DEF Judged
  <2> QED
    BY <2>5, <2>6, <2>8, PhaseSteps
<1> QED
  BY <1>4, <1>5

\* Without a docker binary the phase failed, and nothing was started.
LEMMA HostFailsKeeps == IInv /\ HostFails => IInv'
<1> SUFFICES ASSUME IInv, HostFails PROVE IInv'
  OBVIOUS
<1> USE DEF IInv
<1>1. /\ UNCHANGED <<inp, plan, policy, tag, retags, materialized, dir, files, rescan, client, containers, report, exit,
                     scanned, written>>
      /\ pc \in DockerPhases /\ client = 0 /\ sink' \in {{}, sink}
  BY DEF HostFails, history, world, Ready, Cleared
<1>2. phases[pc].results \in Seq(CommandResult) /\ Outcome("host_error") \in CommandResult
  BY <1>1, OutcomeTyped DEF Types, PhaseReport, ResultStatus
<1> DEFINE results == Append(phases[pc].results, Outcome("host_error"))
<1>3. results \in Seq(CommandResult)
  BY <1>2
<1>4. End("failed", FALSE, results)
  BY DEF HostFails, Results
<1> HIDE DEF results
<1>5. /\ PhaseEnds
      /\ phases' \in [DockerPhases -> PhaseReport]
      /\ \A p \in DockerPhases \ {pc} : phases'[p] = phases[p]
      /\ phases'[pc].status = "failed"
      /\ observer' \in [hooks : BOOLEAN, syscall : BOOLEAN, pass_possible : BOOLEAN]
      /\ observer'.pass_possible => observer'.syscall
  <2>1. "failed" \in PhaseStatus \ {"not_required"} /\ FALSE \in BOOLEAN
    BY DEF PhaseStatus
  <2> QED
    BY <1>1, <1>3, <1>4, <2>1, EndStep
<1>6. Advances
  <2>1. sink' \subseteq [via : {"hook", "strace"}, event : Events \cup {"log"}]
    BY <1>1 DEF Types, TypeOK
  <2> QED
    BY <1>1, <1>5, <2>1, Untouched DEF Advances
<1>7. \A p \in RepoPhases : p = pc => Judged(p)'
  BY <1>5 DEF Judged
<1> QED
  BY <1>5, <1>6, <1>7, PhaseSteps

\* A phase whose commands all ran has the status their results give it.
LEMMA FinishPhaseKeeps == IInv /\ FinishPhase => IInv'
<1> SUFFICES ASSUME IInv, FinishPhase PROVE IInv'
  OBVIOUS
<1> USE DEF IInv
<1>1. /\ UNCHANGED <<inp, plan, policy, tag, retags, materialized, dir, files, rescan, client, containers, sink, report,
                     exit, scanned, written>>
      /\ pc \in DockerPhases /\ client = 0 /\ queue = <<>>
  BY DEF FinishPhase, history, world, Staged
<1> DEFINE status == IF pc \in Dynamic THEN DynamicOverall(phases[pc].results) ELSE "passed"
<1>2. status \in PhaseStatus \ {"not_required"} /\ TRUE \in BOOLEAN
  BY DEF PhaseStatus, DynamicOverall
<1>3. phases[pc].results \in Seq(CommandResult)
  BY <1>1 DEF Types, PhaseReport
<1>4. End(status, TRUE, phases[pc].results)
  BY DEF FinishPhase, Results
<1>5. pc \in RepoPhases => status = DynamicOverall(phases[pc].results)
  BY DEF RepoPhases, Dynamic
<1> HIDE DEF status
<1>6. /\ PhaseEnds
      /\ phases' \in [DockerPhases -> PhaseReport]
      /\ \A p \in DockerPhases \ {pc} : phases'[p] = phases[p]
      /\ phases'[pc].status = status /\ phases'[pc].results = phases[pc].results
      /\ observer' \in [hooks : BOOLEAN, syscall : BOOLEAN, pass_possible : BOOLEAN]
      /\ observer'.pass_possible => observer'.syscall
  BY <1>1, <1>2, <1>3, <1>4, EndStep
<1>7. Advances
  <2>1. sink' \subseteq [via : {"hook", "strace"}, event : Events \cup {"log"}]
    BY <1>1 DEF Types, TypeOK
  <2> QED
    BY <1>1, <1>6, <2>1, Untouched DEF Advances
<1>8. ASSUME NEW p \in RepoPhases, p = pc
      PROVE  Judged(p)'
  <2>1. phases[p].status \in {"not_requested"} /\ pc \notin Stopped
    BY <1>1, <1>8 DEF Staged, NotYet, RepoPhases, Stopped, DockerPhases
  <2>2. DynamicOverall(phases[p].results)' = DynamicOverall(phases[p].results)
    BY <1>6, <1>8 DEF DynamicOverall
  <2>3. \A i \in DOMAIN containers : containers[i].phase = p => (Quiet(i)' <=> Quiet(i))
    BY <1>1, <1>6, <1>8, QuietKept
  <2> QED
    BY <1>1, <1>5, <1>6, <1>8, <2>1, <2>2, <2>3 DEF Judged, Unremarkable, Told
<1> QED
  BY <1>6, <1>7, <1>8, PhaseSteps

\* A client that is killed fails its phase or ends the program; only of a probe nothing more is heard.
LEMMA TimeoutKeeps == IInv /\ Timeout => IInv'
<1> SUFFICES ASSUME IInv, Timeout PROVE IInv'
  OBVIOUS
<1> USE DEF IInv
<1>1. /\ UNCHANGED <<inp, plan, policy, tag, retags, materialized, dir, files, rescan, containers, sink, report, exit,
                     scanned, written>>
      /\ client # 0 /\ client' = 0
  BY DEF Timeout, world
<1>2. pc \in DockerPhases /\ queue # NULL /\ queue # <<>>
  BY <1>1 DEF Staged
<1>3. sink' \subseteq [via : {"hook", "strace"}, event : Events \cup {"log"}]
  BY <1>1 DEF Types, TypeOK
<1>4. PICK empty \in TimeoutOutput, reading \in Logs : IF empty THEN TimedOut(reading) ELSE Unwind
  BY DEF Timeout
<1>5. phases[pc].results \in Seq(CommandResult)
  BY <1>2 DEF Types, PhaseReport
<1>6. CASE Unwind
  <2>1. /\ PhaseUnwinds
        /\ phases' \in [DockerPhases -> PhaseReport] /\ \A p \in DockerPhases : phases'[p] = phases[p]
        /\ observer' \in [hooks : BOOLEAN, syscall : BOOLEAN, pass_possible : BOOLEAN]
        /\ observer'.pass_possible => observer'.syscall
    BY <1>6, UnwindStep
  <2>2. Advances
    BY <1>1, <1>2, <1>3, <2>1, Untouched DEF Advances, PhaseUnwinds
  <2>3. \A p \in RepoPhases : p = pc => phases[p].status = "not_requested"
    BY <1>2 DEF Staged, NotYet, RepoPhases
  <2>4. \A p \in RepoPhases : p = pc => Judged(p)'
    BY <2>1, <2>3 DEF Judged, PhaseUnwinds, Stopped
  <2> QED
    BY <2>1, <2>2, <2>4, PhaseSteps
<1>7. ASSUME NEW results \in Seq(CommandResult), End("failed", TRUE, results)
      PROVE  IInv'
  <2>1. "failed" \in PhaseStatus \ {"not_required"} /\ TRUE \in BOOLEAN
    BY DEF PhaseStatus
  <2>2. /\ PhaseEnds
        /\ phases' \in [DockerPhases -> PhaseReport]
        /\ \A p \in DockerPhases \ {pc} : phases'[p] = phases[p]
        /\ phases'[pc].status = "failed"
        /\ observer' \in [hooks : BOOLEAN, syscall : BOOLEAN, pass_possible : BOOLEAN]
        /\ observer'.pass_possible => observer'.syscall
    BY <1>2, <1>7, <2>1, EndStep
  <2>3. Advances
    BY <1>1, <1>2, <1>3, <2>2, Untouched DEF Advances
  <2>4. \A p \in RepoPhases : p = pc => Judged(p)'
    BY <2>2 DEF Judged
  <2> QED
    BY <2>2, <2>3, <2>4, PhaseSteps
<1>8. CASE pc = "preflight" /\ Continue(Outcome("timeout"))
  <2>1. Outcome("timeout") \in CommandResult
    BY OutcomeTyped DEF ResultStatus
  <2>2. /\ PhaseGoesOn
        /\ phases' \in [DockerPhases -> PhaseReport]
        /\ \A p \in DockerPhases \ {pc} : phases'[p] = phases[p]
        /\ observer' = observer
    BY <1>2, <1>8, <2>1, ContinueStep
  <2>3. Advances
    BY <1>1, <1>2, <1>3, <1>8, <2>2, Untouched DEF Advances, Types, TypeOK, Watched
  <2>4. pc \notin RepoPhases
    BY <1>8 DEF RepoPhases
  <2> QED
    BY <2>2, <2>3, <2>4, PhaseSteps
<1>9. CASE empty /\ pc \in Dynamic /\ ~ Unwind
  <2> DEFINE result == DynamicResult("timeout", combined_observer_summary(reading), FALSE)
  <2>1. result \in CommandResult
    BY DynamicResultTyped DEF ResultStatus
  <2>2. End("failed", TRUE, Append(phases[pc].results, result))
    BY <1>4, <1>9 DEF TimedOut, Results
  <2> HIDE DEF result
  <2>3. Append(phases[pc].results, result) \in Seq(CommandResult)
    BY <1>5, <2>1
  <2> QED
    BY <1>7, <2>2, <2>3
<1>10. CASE empty /\ pc \notin Dynamic /\ ~ (pc = "preflight" /\ Head(queue).kind = "optional")
  <2>1. Outcome("timeout") \in CommandResult
    BY OutcomeTyped DEF ResultStatus
  <2>2. End("failed", TRUE, Append(phases[pc].results, Outcome("timeout")))
    BY <1>4, <1>10 DEF TimedOut, Results
  <2>3. Append(phases[pc].results, Outcome("timeout")) \in Seq(CommandResult)
    BY <1>5, <2>1
  <2> QED
    BY <1>7, <2>2, <2>3
<1>11. CASE empty /\ pc \notin Dynamic /\ pc = "preflight" /\ Head(queue).kind = "optional"
  BY <1>4, <1>8, <1>11 DEF TimedOut
<1> QED
  BY <1>4, <1>6, <1>9, <1>10, <1>11

\* A command that passed was traced, its trace was read, and nothing is in it; a violation that an observer recorded
\* blocks, if its file can be read.
LEMMA PassedIsSeen ==
    ASSUME IInv, client # 0, pc \in RepoPhases, NEW reading \in Logs, NEW code,
           ~ (reading = "garbled" /\ sink # {})
    PROVE  LET summary == combined_observer_summary(reading)
               s == DynamicStatus(summary, code)
           IN /\ s \in ResultStatus
              /\ Unremarkable(containers[client]) \/ s \in Shortfalls
              /\ SeenOrLost(containers[client], summary) \/ s = "observer_blocked"
<1> USE DEF IInv
<1> DEFINE summary == combined_observer_summary(reading)
           s == DynamicStatus(summary, code)
           c == containers[client]
           hooks == {r.event : r \in {x \in sink : x.via = "hook"}}
           strace == {r.event : r \in {x \in sink : x.via = "strace"}}
           seen == (IF reading \in {"no_hooks", "neither"} THEN {} ELSE hooks)
                    \cup (IF reading \in {"no_strace", "neither"} THEN {} ELSE strace \ {"log"})
           log == strace # {}
           error == reading \in {"no_strace", "neither"} /\ strace # {}
           read_error == reading \in {"no_hooks", "neither"} /\ hooks # {}
<1>1. c \in Container /\ c.did \subseteq Events /\ pc \in Dynamic
  <2>1. client \in DOMAIN containers
    BY DEF Types, TypeOK
  <2>2. c \in Container
    BY <2>1 DEF Types
  <2> HIDE DEF c
  <2> QED
    BY <2>2 DEF Container, RepoPhases, Dynamic
<1>2. /\ \A e \in c.hooked : [via |-> "hook", event |-> e] \in sink
      /\ c.traced => \A e \in c.did \ {"env_sweep"} : [via |-> "strace", event |-> e] \in sink
      /\ c.clean /\ ~ c.acted => sink = {}
      /\ observer.syscall => c.traced
      /\ observer.pass_possible => observer.syscall
  BY <1>1 DEF Watched
<1> HIDE DEF c
<1>3. c.hooked \subseteq hooks /\ (c.traced => c.did \ {"env_sweep"} \subseteq strace) /\ (log => sink # {})
  <2>1. ASSUME NEW via, NEW e, [via |-> via, event |-> e] \in sink
        PROVE  e \in {r.event : r \in {x \in sink : x.via = via}}
    <3>1. [via |-> via, event |-> e].event = e /\ [via |-> via, event |-> e].via = via
      OBVIOUS
    <3> QED
      BY <2>1, <3>1
  <2> QED
    BY <1>2, <2>1
<1> HIDE DEF hooks, strace
<1>4. summary = [seen |-> seen, log |-> log, error |-> error, read_error |-> read_error]
  BY Zenon DEF combined_observer_summary, hooks, strace, seen, log, error, read_error
<1>5. summary.seen = seen /\ summary.log = log /\ summary.error = error /\ summary.read_error = read_error
  <2> HIDE DEF seen, log, error, read_error
  <2> QED
    BY <1>4
<1> HIDE DEF summary
<1>6. s \in ResultStatus /\ (s \in Shortfalls \/ s = "passed")
  BY DEF DynamicStatus, ResultStatus, Shortfalls
<1>7. ASSUME s # "observer_blocked" PROVE SeenOrLost(c, summary)
  <2>1. seen \cap BlockEvents = {}
    BY <1>5, <1>7 DEF DynamicStatus
  <2>2. c.hooked \cap BlockEvents = {} \/ read_error
    BY <1>3, <2>1
  <2>3. ASSUME c.traced PROVE c.did \cap BlockEvents = {} \/ error
    <3>1. c.did \ {"env_sweep"} \subseteq strace /\ "log" \notin c.did
      BY <1>1, <1>3, <2>3, SandboxCommandConstants DEF BlockEvents, NoticeEvents
    <3>2. CASE reading \in {"no_strace", "neither"}
      BY <3>1, <3>2 DEF BlockEvents
    <3>3. CASE reading \notin {"no_strace", "neither"}
      <4>1. c.did \ {"env_sweep"} \subseteq seen
        BY <3>1, <3>3
      <4> QED
        BY <2>1, <4>1 DEF BlockEvents
    <3> QED
      BY <3>2, <3>3
  <2> QED
    BY <1>5, <2>2, <2>3 DEF SeenOrLost
<1>8. ASSUME s = "passed" PROVE Unremarkable(c)
  <2>1. /\ seen \cap BlockEvents = {} /\ seen \cap NoticeEvents = {}
        /\ observer.pass_possible /\ ~ (observer.syscall /\ (error \/ ~ log))
    BY <1>5, <1>8 DEF DynamicStatus
  <2>2. observer.syscall /\ log /\ ~ error /\ sink # {}
    BY <1>2, <1>3, <2>1
  <2>3. reading \notin {"no_strace", "neither"}
    BY <2>2
  <2>4. strace \ {"log"} \subseteq seen
    BY <2>3
  <2>5. "log" \notin Events
    BY SandboxCommandConstants DEF BlockEvents, NoticeEvents
  <2>6. c.did \ {"env_sweep"} \subseteq seen
    BY <1>1, <1>2, <1>3, <2>2, <2>4, <2>5
  <2>7. c.did \ {"env_sweep"} = {}
    BY <1>1, <2>1, <2>6, SandboxCommandConstants
  <2>8. c.clean => c.acted
    BY <1>2, <2>2
  <2> QED
    BY <2>7, <2>8 DEF Unremarkable
<1> QED
  BY <1>6, <1>7, <1>8 DEF summary, c

\* A client that answers: its container ended, and the result tells what it did.
LEMMA ReturnKeeps == ASSUME NEW code \in {0, 1} PROVE IInv /\ Return(code) => IInv'
<1> SUFFICES ASSUME IInv, Return(code) PROVE IInv'
  OBVIOUS
<1> USE DEF IInv
<1>1. /\ UNCHANGED <<inp, plan, policy, tag, retags, materialized, dir, files, rescan, sink, report, exit, scanned,
                     written>>
      /\ client # 0 /\ client' = 0 /\ Leave(client)
  BY DEF Return, history, world
<1>2. pc \in DockerPhases /\ queue # NULL /\ queue # <<>> /\ client \in DOMAIN containers
  BY <1>1 DEF Staged, Types, TypeOK
<1>3. /\ containers' \in Seq(Container)' /\ DOMAIN containers' = DOMAIN containers
      /\ \A j \in DOMAIN containers : Stays(j) /\ Rests(j)
      /\ \A j \in DOMAIN containers : containers'[j].live <=> containers[j].live /\ j # client
  BY <1>1, <1>2, LeaveStep DEF Types
<1>4. sink' \subseteq [via : {"hook", "strace"}, event : Events \cup {"log"}]
  BY <1>1 DEF Types, TypeOK
<1>5. phases[pc].results \in Seq(CommandResult)
  BY <1>2 DEF Types, PhaseReport
<1>6. CASE Unwind
  <2>1. /\ PhaseUnwinds
        /\ phases' \in [DockerPhases -> PhaseReport] /\ \A p \in DockerPhases : phases'[p] = phases[p]
        /\ observer' \in [hooks : BOOLEAN, syscall : BOOLEAN, pass_possible : BOOLEAN]
        /\ observer'.pass_possible => observer'.syscall
    BY <1>6, UnwindStep
  <2>2. Advances
    BY <1>1, <1>2, <1>3, <1>4, <2>1 DEF Advances, PhaseUnwinds
  <2>3. \A p \in RepoPhases : p = pc => phases[p].status = "not_requested"
    BY <1>2 DEF Staged, NotYet, RepoPhases
  <2>4. \A p \in RepoPhases : p = pc => Judged(p)'
    BY <2>1, <2>3 DEF Judged, PhaseUnwinds, Stopped
  <2> QED
    BY <2>1, <2>2, <2>4, PhaseSteps
<1>7. CASE End("failed", TRUE, Append(phases[pc].results, Outcome("non_zero_exit")))
  <2>1. "failed" \in PhaseStatus \ {"not_required"} /\ TRUE \in BOOLEAN
    BY DEF PhaseStatus
  <2>2. Append(phases[pc].results, Outcome("non_zero_exit")) \in Seq(CommandResult)
    BY <1>5, OutcomeTyped DEF ResultStatus
  <2>3. /\ PhaseEnds
        /\ phases' \in [DockerPhases -> PhaseReport]
        /\ \A p \in DockerPhases \ {pc} : phases'[p] = phases[p]
        /\ phases'[pc].status = "failed"
        /\ observer' \in [hooks : BOOLEAN, syscall : BOOLEAN, pass_possible : BOOLEAN]
        /\ observer'.pass_possible => observer'.syscall
    BY <1>2, <1>7, <2>1, <2>2, EndStep
  <2>4. Advances
    BY <1>1, <1>2, <1>3, <1>4, <2>3 DEF Advances
  <2>5. \A p \in RepoPhases : p = pc => Judged(p)'
    BY <2>3 DEF Judged
  <2> QED
    BY <2>3, <2>4, <2>5, PhaseSteps
<1>8. ASSUME NEW r \in CommandResult, Continue(r),
             pc \in RepoPhases =>
                /\ Unremarkable(containers[client]) \/ r.status \in Shortfalls
                /\ r.observed = client /\ (SeenOrLost(containers[client], r) \/ r.status = "observer_blocked")
      PROVE  IInv'
  <2>1. /\ PhaseGoesOn
        /\ phases' \in [DockerPhases -> PhaseReport]
        /\ \A p \in DockerPhases \ {pc} : phases'[p] = phases[p]
        /\ phases'[pc].results = Append(phases[pc].results, r)
        /\ observer' = observer
    BY <1>2, <1>8, ContinueStep
  <2>2. Advances
    BY <1>1, <1>2, <1>3, <1>4, <2>1 DEF Advances, Types, TypeOK, Watched
  <2>3. ASSUME NEW p \in RepoPhases, p = pc
        PROVE  Judged(p)'
    <3>1. pc' = p /\ phases[p].status = "not_requested" /\ pc \notin Stopped
      BY <1>2, <2>1, <2>3 DEF PhaseGoesOn, Staged, NotYet, RepoPhases, Stopped
    <3>2. /\ phases'[p].results = Append(phases[p].results, r)
          /\ phases[p].results \in Seq(CommandResult)
      BY <1>5, <2>1, <2>3
    <3>5. LET old == phases[p].results
              new == phases'[p].results
          IN /\ \A k \in DOMAIN old : k \in DOMAIN new /\ new[k] = old[k]
             /\ \E k \in DOMAIN new : new[k] = r
      <4> DEFINE old == phases[p].results
      <4>1. /\ \A k \in DOMAIN old : k \in DOMAIN Append(old, r) /\ Append(old, r)[k] = old[k]
            /\ Len(old) + 1 \in DOMAIN Append(old, r) /\ Append(old, r)[Len(old) + 1] = r
        BY <3>2
      <4> QED
        BY <3>2, <4>1
    <3>3. ASSUME NEW statuses
          PROVE  /\ Told(phases[p].results, statuses) => Told(phases'[p].results, statuses)
                 /\ r.status \in statuses => Told(phases'[p].results, statuses)
      BY <3>5 DEF Told
    <3>4. ASSUME NEW i \in DOMAIN containers, containers'[i].phase = p
          PROVE  /\ ~ containers'[i].live
                 /\ Unremarkable(containers'[i]) \/ Told(phases'[p].results, Shortfalls)
                 /\ Quiet(i)' \/ Told(phases'[p].results, {"observer_blocked"})
      <4>1. /\ containers[i].phase = p
            /\ Unremarkable(containers[i]) <=> Unremarkable(containers'[i])
            /\ containers'[i].hooked = containers[i].hooked /\ containers'[i].did = containers[i].did
            /\ containers'[i].traced = containers[i].traced
        BY <1>3, <3>4 DEF Stays, Rests, Unremarkable
      <4>2. CASE i = client
        <5>1. SeenOrLost(containers[i], r) => Quiet(i)'
          BY <1>8, <2>3, <3>4, <3>5, <4>1, <4>2 DEF SeenOrLost, Quiet, HooksLost, TraceLost
        <5> QED
          BY <1>3, <1>8, <2>3, <3>3, <4>1, <4>2, <5>1
      <4>3. CASE i # client
        <5>1. /\ ~ containers[i].live
              /\ Unremarkable(containers[i]) \/ Told(phases[p].results, Shortfalls)
              /\ Quiet(i) \/ Told(phases[p].results, {"observer_blocked"})
          BY <3>1, <4>1, <4>3 DEF Judged
        <5>2. Quiet(i) => Quiet(i)'
          BY <3>4, <3>5, <4>1 DEF Quiet, HooksLost, TraceLost
        <5> QED
          BY <1>3, <3>3, <4>1, <5>1, <5>2
      <4> QED
        BY <4>2, <4>3
    <3> QED
      BY <1>3, <3>1, <3>4 DEF Judged
  <2> QED
    BY <2>1, <2>2, <2>3, PhaseSteps
<1>9. CASE pc \in {"preflight", "phase1"}
  <2>1. pc \notin RepoPhases /\ pc \notin Dynamic
    BY <1>9 DEF RepoPhases, Dynamic
  <2>2. ASSUME NEW status \in {"passed", "probe_unavailable"}, Continue(Outcome(status))
        PROVE  IInv'
    BY <1>8, <2>1, <2>2, OutcomeTyped DEF ResultStatus
  <2> QED
    BY <1>7, <1>9, <2>1, <2>2 DEF Return, Results
<1>10. CASE pc \in Dynamic
  <2>1. PICK reading \in Logs :
          IF reading = "garbled" /\ sink # {} THEN Unwind
          ELSE Continue(DynamicResult(DynamicStatus(combined_observer_summary(reading), code),
                                      combined_observer_summary(reading), observer.pass_possible))
    BY <1>10 DEF Return, Dynamic
  <2> DEFINE s == DynamicStatus(combined_observer_summary(reading), code)
             r == DynamicResult(s, combined_observer_summary(reading), observer.pass_possible)
  <2>2. CASE reading = "garbled" /\ sink # {}
    BY <1>6, <2>1, <2>2
  <2>3. CASE ~ (reading = "garbled" /\ sink # {})
    <3>1. s \in ResultStatus /\ observer.pass_possible \in BOOLEAN
      BY DEF DynamicStatus, ResultStatus, Types, TypeOK
    <3>2. pc \in RepoPhases =>
            /\ Unremarkable(containers[client]) \/ s \in Shortfalls
            /\ SeenOrLost(containers[client], combined_observer_summary(reading)) \/ s = "observer_blocked"
      BY <1>1, <2>3, PassedIsSeen
    <3>3. Continue(r)
      BY <2>1, <2>3
    <3> HIDE DEF s
    <3> DEFINE summary == combined_observer_summary(reading)
    <3> HIDE DEF summary
    <3>4. /\ r \in CommandResult /\ r.status = s /\ r.observed = client
          /\ r.read_error = summary.read_error /\ r.error = summary.error
      BY <3>1, DynamicResultTyped DEF DynamicResult, summary
    <3> HIDE DEF r
    <3>5. SeenOrLost(containers[client], summary) => SeenOrLost(containers[client], r)
      BY <3>4 DEF SeenOrLost
    <3> QED
      BY <1>8, <3>2, <3>3, <3>4, <3>5 DEF summary
  <2> QED
    BY <2>2, <2>3
<1> QED
  BY <1>2, <1>9, <1>10 DEF DockerPhases, Dynamic

(***************************************************************************)
(* The containers                                                          *)
(***************************************************************************)
\* What is known of every container.
LEMMA ContainersTyped ==
    ASSUME Types
    PROVE  \A j \in DOMAIN containers :
              /\ j # 0 /\ containers[j].phase \in DockerPhases
              /\ containers[j].network \in {"bridge", "none"}
<1>1. \A j \in DOMAIN containers : j # 0 /\ containers[j] \in Container
  BY DEF Types
<1> QED
  BY <1>1 DEF Container

\* docker run: a command of the repository starts only behind both gates, and a live fetch would have closed them.
LEMMA LaunchKeeps == IInv /\ Launch => IInv'
<1> SUFFICES ASSUME IInv, Launch PROVE IInv'
  OBVIOUS
<1> USE DEF IInv
<1>1. /\ UNCHANGED <<inp, pc, plan, policy, tag, retags, materialized, dir, files, observer, phases, rescan, queue,
                     report, exit, scanned, written>>
      /\ pc \in DockerPhases /\ client = 0 /\ queue # NULL /\ queue # <<>> /\ sink' \in {{}, sink}
      /\ client' = Len(containers')
  BY DEF Launch, history, world, Ready, Cleared
<1> DEFINE n == Len(containers) + 1
           image == IF inp.image.kind = "digest" THEN DigestImage ELSE tag
           network == IF pc = "phase1" THEN "bridge" ELSE "none"
           traced == pc \in Dynamic /\ observer.syscall
           beside == Live({"bridge"}) # {}
           clean == sink' = {} /\ Live({"bridge", "none"}) = {}
           c == [phase |-> pc, command |-> Head(queue), live |-> TRUE, acted |-> FALSE, did |-> {}, hooked |-> {},
                 network |-> network, image |-> image, traced |-> traced, base |-> files, beside |-> beside,
                 clean |-> clean]
<1>2. containers' = Append(containers, c)
  BY DEF Launch
<1>3. /\ image \in ImageIds \cup {DigestImage} /\ network \in {"bridge", "none"}
      /\ traced \in BOOLEAN /\ beside \in BOOLEAN /\ clean \in BOOLEAN
      /\ files \subseteq Artifacts
      /\ network = "bridge" <=> pc = "phase1"
  BY DEF Types, TypeOK, Artifacts
<1>4. Head(queue) \in Commands /\ Head(queue) \in Range(CommandsOf(pc))
  <2>1. queue \in Seq(Commands)
    BY <1>1 DEF Types
  <2>2. Head(queue) \in Commands /\ Head(queue) \in Range(queue)
    <3>1. 1 \in DOMAIN queue /\ Head(queue) = queue[1] /\ queue[1] \in Commands
      BY <1>1, <2>1
    <3> QED
      BY <3>1 DEF Range
  <2> QED
    BY <1>1, <2>2 DEF Staged
<1>5. /\ inp.image.kind = "tag" => image = tag
      /\ traced <=> pc \in Dynamic /\ observer.syscall
      /\ clean => sink' = {} /\ \A j \in DOMAIN containers : ~ containers[j].live
      /\ beside => \E j \in DOMAIN containers : containers[j].live /\ containers[j].network = "bridge"
  <2>1. \A j \in DOMAIN containers : containers[j].network \in {"bridge", "none"}
    BY ContainersTyped
  <2> QED
    BY <2>1 DEF Live
<1> HIDE DEF image, network, traced, beside, clean
<1>6. /\ c \in Container
      /\ c.phase = pc /\ c.command = Head(queue) /\ c.live /\ ~ c.acted /\ c.did = {} /\ c.hooked = {}
      /\ c.network = network /\ c.image = image /\ c.traced = traced /\ c.base = files /\ c.beside = beside
      /\ c.clean = clean
  BY <1>1, <1>3, <1>4 DEF Container
<1> HIDE DEF c
<1>7. /\ containers' \in Seq(Container)'
      /\ Len(containers') = n /\ n \in Nat /\ n # 0
      /\ DOMAIN containers' = DOMAIN containers \cup {n} /\ n \notin DOMAIN containers
      /\ \A j \in DOMAIN containers : containers'[j] = containers[j]
      /\ containers'[n] = c
  BY <1>1, <1>2, <1>6, LaunchStep DEF Types
<1>8. \A j \in DOMAIN containers : j # 0 /\ containers[j].phase \in DockerPhases
  BY ContainersTyped
<1> HIDE DEF n
<1>9. client' = n
  BY <1>1, <1>7
<1>10. Types'
  <2>1. TypeOK'
    BY <1>1, <1>7, <1>9 DEF Types, TypeOK
  <2>2. \A i \in DOMAIN containers' : containers'[i].network = "bridge" <=> containers'[i].phase = "phase1"
    BY <1>3, <1>6, <1>7 DEF Types
  <2> QED
    BY <1>1, <1>7, <2>1, <2>2 DEF Types
<1>11. PlanMade' /\ \A p \in DockerPhases : CommandsOf(p)' = CommandsOf(p)
  BY <1>1, PlanKept DEF DockerPhases
<1>12. ImageKept'
  <2>1. pc \notin {"plan", "materialize"}
    BY <1>1 DEF DockerPhases
  <2> QED
    BY <1>1, <1>5, <1>6, <1>7, <2>1 DEF ImageKept
<1>13. Staged'
  <2>1. \A p \in DockerPhases : p \notin Before[p]
    BY DEF DockerPhases, Before
  <2>2. CommandsOf(pc)' = CommandsOf(pc) /\ (GateOpen' <=> GateOpen)
    BY <1>1 DEF CommandsOf, GateOpen
  <2>3. ASSUME NEW p \in DockerPhases
        PROVE  /\ pc' \in Before[p] \cup {p} => phases'[p].status \in NotYet(p)
               /\ pc' \in Before[p] \/ (pc' = p /\ queue' = NULL) =>
                    phases'[p].results = <<>> /\ \A i \in DOMAIN containers' : containers'[i].phase # p
    BY <1>1, <1>6, <1>7, <2>1 DEF Staged
  <2> QED
    BY <1>1, <1>6, <1>7, <1>9, <2>2, <2>3 DEF Staged
<1>14. pc \in RepoPhases => GateOpen /\ ~ beside /\ files \subseteq scanned \cup written
  <2> SUFFICES ASSUME pc \in RepoPhases PROVE GateOpen /\ ~ beside /\ files \subseteq scanned \cup written
    OBVIOUS
  <2>1. GateOpen
    BY <1>1 DEF Staged
  <2>2. phases["phase1"].status # "failed" /\ pc \notin Stopped
    BY <2>1 DEF GateOpen, phase1_satisfies_dynamic_gate, RepoPhases, Stopped
  <2>3. ~ beside
    <3> SUFFICES ASSUME NEW j \in DOMAIN containers, containers[j].live, containers[j].network = "bridge"
                 PROVE  FALSE
      BY <1>5
    <3>1. containers[j].phase = "phase1"
      BY DEF Types
    <3> QED
      BY <1>1, <1>8, <2>2, <3>1 DEF LeftBehind
  <2> QED
    BY <2>1, <2>2, <2>3 DEF Rescanned
<1>15. Prepared'
  <2>1. RepoPhases \subseteq DockerPhases
    BY DEF RepoPhases, DockerPhases
  <2>2. GateOpen' <=> GateOpen
    BY <1>1 DEF GateOpen
  <2> QED
    BY <1>1, <1>4, <1>6, <1>7, <1>11, <1>14, <2>1, <2>2 DEF Prepared
<1>16. LeftBehind'
  BY <1>1, <1>7, <1>8, <1>9 DEF LeftBehind
<1>17. Rescanned'
  BY <1>1 DEF Rescanned
<1>18. Watched'
  BY <1>1, <1>5, <1>6, <1>7, <1>9 DEF Watched
<1>19. ASSUME NEW p \in RepoPhases
       PROVE  Judged(p)'
  <2>1. \A j \in DOMAIN containers : Quiet(j)' <=> Quiet(j)
    BY <1>1, <1>7, QuietKept
  <2> QED
    BY <1>1, <1>7, <1>8, <1>9, <2>1 DEF Judged, Unremarkable, Told
<1>20. Ended'
  <2>1. exit # 0
    BY <1>1 DEF Ended, DockerPhases
  <2> QED
    BY <1>1, <2>1 DEF Ended, ExitZeroIsQuiet
<1> QED
  BY <1>10, <1>11, <1>12, <1>13, <1>15, <1>16, <1>17, <1>18, <1>19, <1>20

\* A container that its client left ends.
LEMMA ContainerExitsKeeps == ASSUME NEW i \in DOMAIN containers PROVE IInv /\ ContainerExits(i) => IInv'
<1> SUFFICES ASSUME IInv, ContainerExits(i) PROVE IInv'
  OBVIOUS
<1> USE DEF IInv
<1>1. /\ UNCHANGED <<inp, pc, plan, policy, tag, retags, materialized, dir, files, observer, phases, rescan, queue,
                     client, sink, report, exit, scanned, written>>
      /\ pc \notin {"done", "raised"} /\ i # client /\ Leave(i)
  BY DEF ContainerExits, history, world
<1>2. /\ containers' \in Seq(Container)'
      /\ Len(containers') = Len(containers) /\ DOMAIN containers' = DOMAIN containers
      /\ \A j \in DOMAIN containers : Stays(j) /\ Rests(j)
      /\ \A j \in DOMAIN containers : containers'[j].live <=> containers[j].live /\ j # i
      /\ client # 0 => client \in DOMAIN containers
  BY <1>1, LeaveStep DEF Types, TypeOK
<1>3. Types'
  <2>1. TypeOK'
    BY <1>1, <1>2 DEF Types, TypeOK
  <2>2. \A j \in DOMAIN containers' : containers'[j].network = "bridge" <=> containers'[j].phase = "phase1"
    BY <1>2 DEF Types, Stays
  <2> QED
    BY <1>1, <1>2, <2>1, <2>2 DEF Types
<1>4. PlanMade'
  <2>1. CASE pc = "plan"
    BY <1>1, <2>1 DEF PlanMade
  <2> QED
    BY <1>1, <2>1, PlanKept
<1>5. ImageKept'
  <2>1. pc \notin {"plan", "materialize"}
    BY DEF ImageKept
  <2> QED
    BY <1>1, <1>2, <2>1 DEF ImageKept, Stays
<1>6. Staged'
  <2>1. CommandsOf(pc)' = CommandsOf(pc) /\ (GateOpen' <=> GateOpen)
    BY <1>1 DEF CommandsOf, GateOpen
  <2>2. ASSUME NEW p \in DockerPhases
        PROVE  /\ pc' \in Before[p] \cup {p} => phases'[p].status \in NotYet(p)
               /\ pc' \in Before[p] \/ (pc' = p /\ queue' = NULL) =>
                    phases'[p].results = <<>> /\ \A j \in DOMAIN containers' : containers'[j].phase # p
    BY <1>1, <1>2 DEF Staged, Stays
  <2>3. client' # 0 =>
          /\ pc' \in DockerPhases /\ queue' # NULL /\ queue' # <<>>
          /\ containers'[client'].phase = pc' /\ containers'[client'].live
    BY <1>1, <1>2 DEF Staged, Stays
  <2> QED
    BY <1>1, <2>1, <2>2, <2>3 DEF Staged
<1>7. Prepared'
  BY <1>1, <1>2 DEF Prepared, CommandsOf, GateOpen, Stays
<1>8. LeftBehind'
  BY <1>1, <1>2 DEF LeftBehind, Stays
<1>9. Rescanned'
  BY <1>1 DEF Rescanned
<1>10. Watched'
  BY <1>1, <1>2 DEF Watched, Stays, Rests
<1>11. ASSUME NEW p \in RepoPhases
       PROVE  Judged(p)'
  <2>1. \A j \in DOMAIN containers : Quiet(j)' <=> Quiet(j)
    BY <1>1, <1>2, QuietKept DEF Stays, Rests
  <2> QED
    BY <1>1, <1>2, <2>1 DEF Judged, Unremarkable, Told, Stays, Rests
<1>12. Ended'
  BY <1>1 DEF Ended, ExitZeroIsQuiet
<1> QED
  BY <1>3, <1>4, <1>5, <1>6, <1>7, <1>8, <1>9, <1>10, <1>11, <1>12

\* A container acts: what it does is recorded, and a fetch that writes behind the rescan's back had failed its phase.
LEMMA ContainerActsKeeps == ASSUME NEW i \in DOMAIN containers PROVE IInv /\ ContainerActs(i) => IInv'
<1> SUFFICES ASSUME IInv, ContainerActs(i) PROVE IInv'
  OBVIOUS
<1> USE DEF IInv
<1> DEFINE repo == containers[i].phase \in RepoPhases
           writable == IF repo THEN Written ELSE IF containers[i].phase = "phase1" THEN Fetched ELSE {}
           doable == IF repo THEN Events ELSE {}
<1>1. /\ UNCHANGED <<inp, pc, plan, policy, tag, retags, materialized, dir, observer, phases, rescan, queue, client,
                     report, exit, scanned>>
      /\ pc \notin {"done", "raised"} /\ containers[i].live /\ ~ containers[i].acted
      /\ containers[i].phase # "preflight"
  BY DEF ContainerActs, world
<1>2. PICK wrote \in {{}} \cup {{a} : a \in writable}, done \in {{}} \cup {{e} : e \in doable} :
        \E hooked \in SUBSET done :
          /\ files' = files \cup wrote
          /\ written' = IF repo THEN written \cup wrote ELSE written
          /\ containers' = [containers EXCEPT ![i] = [@ EXCEPT !.acted = TRUE, !.did = done, !.hooked = hooked]]
          /\ sink' = sink \cup [via : {"hook"}, event : hooked]
                         \cup [via : {"strace"},
                               event : IF containers[i].traced THEN {"log"} \cup (done \ {"env_sweep"}) ELSE {}]
  BY DEF ContainerActs
<1>3. PICK hooked \in SUBSET done :
        /\ files' = files \cup wrote
        /\ written' = IF repo THEN written \cup wrote ELSE written
        /\ containers' = [containers EXCEPT ![i] = [@ EXCEPT !.acted = TRUE, !.did = done, !.hooked = hooked]]
        /\ sink' = sink \cup [via : {"hook"}, event : hooked]
                       \cup [via : {"strace"},
                             event : IF containers[i].traced THEN {"log"} \cup (done \ {"env_sweep"}) ELSE {}]
  BY <1>2
<1>4. /\ wrote \subseteq writable /\ writable \subseteq Fetched \cup Written /\ done \subseteq Events
      /\ wrote # {} /\ ~ repo => containers[i].phase = "phase1"
  <2>1. wrote \subseteq writable /\ done \subseteq doable
    BY <1>2
  <2> QED
    BY <2>1
<1> HIDE DEF writable, doable
<1>5. /\ containers' \in Seq(Container)'
      /\ Len(containers') = Len(containers) /\ DOMAIN containers' = DOMAIN containers
      /\ \A j \in DOMAIN containers : Stays(j) /\ containers'[j].live = containers[j].live
      /\ \A j \in DOMAIN containers : j # i => Rests(j)
      /\ containers'[i].acted /\ containers'[i].did = done /\ containers'[i].hooked = hooked
  <2>1. done \in SUBSET Events /\ hooked \in SUBSET done
    BY <1>4
  <2>2. containers \in Seq(Container) /\ inp' = inp
    BY <1>1 DEF Types
  <2>3. containers' = [containers EXCEPT ![i] = [@ EXCEPT !.acted = TRUE, !.did = done, !.hooked = hooked]]
    BY <1>3
  <2> QED
    BY <2>1, <2>2, <2>3, ActStep
<1>6. client # 0 => client \in DOMAIN containers
  BY DEF Types, TypeOK
<1>7. /\ sink \subseteq sink'
      /\ \A e \in hooked : [via |-> "hook", event |-> e] \in sink'
      /\ containers[i].traced => \A e \in done \ {"env_sweep"} : [via |-> "strace", event |-> e] \in sink'
      /\ sink' \subseteq [via : {"hook", "strace"}, event : Events \cup {"log"}]
  <2> DEFINE traces == IF containers[i].traced THEN {"log"} \cup (done \ {"env_sweep"}) ELSE {}
  <2>1. sink' = sink \cup [via : {"hook"}, event : hooked] \cup [via : {"strace"}, event : traces]
    BY <1>3
  <2>2. /\ traces \subseteq Events \cup {"log"} /\ hooked \subseteq Events
        /\ containers[i].traced => done \ {"env_sweep"} \subseteq traces
    BY <1>4
  <2> HIDE DEF traces
  <2>3. /\ [via : {"hook"}, event : hooked] \subseteq [via : {"hook", "strace"}, event : Events \cup {"log"}]
        /\ [via : {"strace"}, event : traces] \subseteq [via : {"hook", "strace"}, event : Events \cup {"log"}]
    BY <2>2
  <2>4. sink \subseteq [via : {"hook", "strace"}, event : Events \cup {"log"}]
    BY DEF Types, TypeOK
  <2>5. /\ \A e \in hooked : [via |-> "hook", event |-> e] \in [via : {"hook"}, event : hooked]
        /\ \A e \in traces : [via |-> "strace", event |-> e] \in [via : {"strace"}, event : traces]
    OBVIOUS
  <2> QED
    BY <2>1, <2>2, <2>3, <2>4, <2>5
<1>8. Types'
  <2>1. files' \subseteq Fetched \cup Written \cup inp.vendored
    BY <1>3, <1>4 DEF Types, TypeOK
  <2>2. TypeOK'
    BY <1>1, <1>5, <1>7, <2>1 DEF Types, TypeOK
  <2>3. \A j \in DOMAIN containers' : containers'[j].network = "bridge" <=> containers'[j].phase = "phase1"
    BY <1>5 DEF Types, Stays
  <2> QED
    BY <1>1, <1>5, <2>2, <2>3 DEF Types
<1>9. PlanMade'
  <2>1. CASE pc = "plan"
    BY <1>1, <2>1 DEF PlanMade
  <2> QED
    BY <1>1, <2>1, PlanKept
<1>10. ImageKept'
  <2>1. pc \notin {"plan", "materialize"}
    BY DEF ImageKept
  <2> QED
    BY <1>1, <1>5, <2>1 DEF ImageKept, Stays
<1>11. CommandsOf(pc)' = CommandsOf(pc) /\ (GateOpen' <=> GateOpen)
  BY <1>1 DEF CommandsOf, GateOpen
<1>12. Staged'
  <2>1. ASSUME NEW p \in DockerPhases
        PROVE  /\ pc' \in Before[p] \cup {p} => phases'[p].status \in NotYet(p)
               /\ pc' \in Before[p] \/ (pc' = p /\ queue' = NULL) =>
                    phases'[p].results = <<>> /\ \A j \in DOMAIN containers' : containers'[j].phase # p
    BY <1>1, <1>5 DEF Staged, Stays
  <2>2. client' # 0 =>
          /\ pc' \in DockerPhases /\ queue' # NULL /\ queue' # <<>>
          /\ containers'[client'].phase = pc' /\ containers'[client'].live
    BY <1>1, <1>5, <1>6 DEF Staged, Stays
  <2> QED
    BY <1>1, <1>11, <2>1, <2>2 DEF Staged
<1>13. Prepared'
  <2>1. written \subseteq written'
    BY <1>3
  <2> QED
    BY <1>1, <1>5, <1>11, <2>1 DEF Prepared, CommandsOf, Stays
<1>14. LeftBehind'
  BY <1>1, <1>5 DEF LeftBehind, Stays
<1>15. Rescanned'
  <2>1. ASSUME pc \in RepoPhases, phases["phase1"].status # "failed"
        PROVE  containers[i].phase # "phase1"
    <3>1. i # client => containers[i].phase # "phase1"
      BY <1>1, <2>1 DEF LeftBehind, Stopped, RepoPhases
    <3>2. i = client => containers[i].phase # "phase1"
      BY <2>1, ContainersTyped DEF Staged, RepoPhases
    <3> QED
      BY <3>1, <3>2
  <2>2. pc \in RepoPhases /\ phases["phase1"].status # "failed" => files' \subseteq scanned \cup written'
    BY <1>3, <1>4, <2>1 DEF Rescanned
  <2> QED
    BY <1>1, <2>2 DEF Rescanned
<1>16. Watched'
  <2>1. \A j \in DOMAIN containers' : ~ containers'[j].acted => containers'[j].did = {} /\ containers'[j].hooked = {}
    BY <1>5 DEF Watched, Rests
  <2>2. CASE client = i
    BY <1>1, <1>5, <1>7, <2>1, <2>2 DEF Watched, Stays
  <2>3. CASE client # 0 /\ client # i
    <3>1. ~ (containers[client].clean /\ ~ containers[client].acted)
      BY <1>1, <2>3 DEF Watched
    <3>2. Stays(client) /\ Rests(client)
      BY <1>5, <1>6, <2>3
    <3> QED
      BY <1>1, <1>7, <2>1, <2>3, <3>1, <3>2 DEF Watched, Stays, Rests
  <2>4. CASE client = 0
    BY <1>1, <2>1, <2>4 DEF Watched
  <2> QED
    BY <2>2, <2>3, <2>4
<1>17. ASSUME NEW p \in RepoPhases
       PROVE  Judged(p)'
  <2>1. ASSUME NEW j \in DOMAIN containers, containers'[j].phase = p, j # client
        PROVE  \/ phases[p].status = "failed"
               \/ pc \in Stopped /\ phases[p].status = "not_requested"
               \/ /\ ~ containers'[j].live
                  /\ Unremarkable(containers'[j]) \/ Told(phases[p].results, Shortfalls)
                  /\ Quiet(j)' \/ Told(phases[p].results, {"observer_blocked"})
    <3>1. containers[j].phase = p
      BY <1>5, <2>1 DEF Stays
    <3>2. CASE j = i
      BY <1>1, <2>1, <3>1, <3>2 DEF Judged
    <3>3. CASE j # i
      <4>1. /\ Unremarkable(containers[j]) <=> Unremarkable(containers'[j])
            /\ containers'[j].live = containers[j].live /\ (Quiet(j)' <=> Quiet(j))
        BY <1>1, <1>5, <3>3, QuietKept DEF Unremarkable, Stays, Rests
      <4> QED
        BY <2>1, <3>1, <4>1 DEF Judged
    <3> QED
      BY <3>2, <3>3
  <2>2. /\ Told(phases[p].results, Shortfalls)' <=> Told(phases[p].results, Shortfalls)
        /\ Told(phases[p].results, {"observer_blocked"})' <=> Told(phases[p].results, {"observer_blocked"})
        /\ DynamicOverall(phases[p].results)' = DynamicOverall(phases[p].results)
    BY <1>1 DEF Told, DynamicOverall
  <2> QED
    BY <1>1, <1>5, <2>1, <2>2 DEF Judged
<1>18. Ended'
  BY <1>1 DEF Ended, ExitZeroIsQuiet
<1> QED
  BY <1>8, <1>9, <1>10, <1>12, <1>13, <1>14, <1>15, <1>16, <1>17, <1>18

(***************************************************************************)
(* The rescan, the cleanup and the report                                  *)
(***************************************************************************)
\* The rescan sees the artifacts that are there.
LEMMA RescanKeeps == IInv /\ Rescan => IInv'
<1> SUFFICES ASSUME IInv, Rescan PROVE IInv'
  OBVIOUS
<1> USE DEF IInv
<1>1. /\ UNCHANGED <<inp, plan, policy, tag, retags, materialized, dir, files, observer, phases, queue, client,
                     containers, sink, report, exit, written>>
      /\ pc = "rescan"
  BY DEF Rescan, world
<1>2. \/ pc' = "unwinding" /\ rescan' = rescan /\ scanned' = scanned
      \/ pc' = "phase2" /\ rescan' = WithBypass(run_phase1_rescan(files), phases["phase1"]) /\ scanned' = files
  BY DEF Rescan
<1>3. /\ queue = NULL /\ client = 0 /\ exit # 0
      /\ \A p \in RepoPhases : phases[p].results = <<>> /\ phases[p].status = "not_requested"
      /\ \A i \in DOMAIN containers : containers[i].phase \notin RepoPhases
  BY <1>1 DEF Staged, Ended, DockerPhases, RepoPhases, Before, NotYet, Stopped
<1>4. rescan'.status \in {"skipped", "blocked", "warn", "passed", "not_required"}
  <2>1. rescan.status \in {"skipped", "blocked", "warn", "passed", "not_required"}
    BY DEF Types, TypeOK
  <2>2. run_phase1_rescan(files).status \in {"skipped", "blocked", "warn", "passed"}
    <3> DEFINE candidates == {a \in files : should_scan_file(a)}
               findings == UNION {FindingsOf(a) : a \in candidates}
               some == candidates # {}
    <3>1. run_phase1_rescan(files) =
            [status |-> RescanStatus(candidates, findings), performed |-> some, findings |-> findings]
      BY DEF run_phase1_rescan
    <3> HIDE DEF candidates, findings, some
    <3> QED
      BY <3>1 DEF RescanStatus
  <2>3. WithBypass(run_phase1_rescan(files), phases["phase1"]).status \in
          {"skipped", "blocked", "warn", "passed", "not_required"}
    <3> DEFINE seen == run_phase1_rescan(files)
    <3>1. "status" \in DOMAIN seen
      BY DEF run_phase1_rescan
    <3> HIDE DEF seen
    <3> QED
      BY <2>2, <3>1 DEF WithBypass, seen
  <2> QED
    BY <1>2, <2>1, <2>3
<1>5. Types'
  <2>1. TypeOK'
    BY <1>1, <1>2, <1>4 DEF Types, TypeOK, DockerPhases
  <2> QED
    BY <1>1, <2>1 DEF Types, Container, Artifacts
<1>6. PlanMade'
  BY <1>1, PlanKept
<1>7. ImageKept'
  BY <1>1, <1>2 DEF ImageKept
<1>8. Staged'
  <2>1. \A p \in DockerPhases : pc' \in Before[p] \cup {p} => pc \in Before[p]
    BY <1>1, <1>2 DEF DockerPhases, Before
  <2> QED
    BY <1>1, <1>2, <1>3, <2>1 DEF Staged
<1>9. Prepared'
  BY <1>1, <1>3 DEF Prepared
<1>10. LeftBehind'
  BY <1>1, <1>2 DEF LeftBehind, Stopped
<1>11. Rescanned'
  <2>1. CASE pc' = "unwinding"
    BY <1>1, <1>2, <2>1 DEF Rescanned, RepoPhases
  <2>2. CASE pc' = "phase2"
    BY <1>1, <1>2, <2>2, ClearedIsHarmless DEF Rescanned
  <2> QED
    BY <1>2, <2>1, <2>2
<1>12. Watched'
  BY <1>1, <1>3 DEF Watched
<1>13. \A p \in RepoPhases : Judged(p)'
  BY <1>1, <1>3 DEF Judged
<1>14. Ended'
  BY <1>1, <1>2, <1>3 DEF Ended, ExitZeroIsQuiet
<1> QED
  BY <1>5, <1>6, <1>7, <1>8, <1>9, <1>10, <1>11, <1>12, <1>13, <1>14

\* The directory is removed, or rmtree failed on it.
LEMMA CleanupKeeps == IInv /\ Cleanup => IInv'
<1> SUFFICES ASSUME IInv, Cleanup PROVE IInv'
  OBVIOUS
<1> USE DEF IInv
<1>1. /\ UNCHANGED <<inp, plan, policy, tag, retags, materialized, files, observer, phases, rescan, queue, client,
                     containers, sink, report, scanned, written>>
      /\ dir' \in {"removed", "left"}
      /\ \/ pc = "cleanup" /\ pc' = "report" /\ exit' = exit
         \/ pc = "unwinding" /\ pc' = "raised" /\ exit' = 1
  BY DEF Cleanup, history, world
<1>2. client = 0 /\ exit' # 0 /\ (pc \in Stopped <=> pc' \in Stopped) /\ (queue # NULL => pc \in Stopped)
  BY <1>1 DEF Staged, Ended, DockerPhases, Stopped
<1>3. Types'
  <2>1. TypeOK'
    BY <1>1 DEF Types, TypeOK
  <2> QED
    BY <1>1, <2>1 DEF Types, Container, Artifacts
<1>4. PlanMade'
  BY <1>1, PlanKept
<1>5. ImageKept'
  BY <1>1 DEF ImageKept
<1>6. Staged'
  <2>1. \A p \in DockerPhases : pc' \notin Before[p] \cup {p}
    BY <1>1 DEF DockerPhases, Before
  <2> QED
    BY <1>1, <1>2, <2>1 DEF Staged, DockerPhases, RepoPhases
<1>7. Prepared'
  BY <1>1 DEF Prepared, CommandsOf, GateOpen
<1>8. LeftBehind'
  BY <1>1, <1>2 DEF LeftBehind
<1>9. Rescanned'
  BY <1>1 DEF Rescanned, RepoPhases
<1>10. Watched'
  BY <1>1, <1>2 DEF Watched
<1>11. ASSUME NEW p \in RepoPhases
       PROVE  Judged(p)'
  <2>1. pc # p
    BY <1>1 DEF RepoPhases
  <2>2. \A i : Quiet(i)' <=> Quiet(i)
    BY <1>1, QuietKept
  <2> QED
    BY <1>1, <1>2, <2>1, <2>2 DEF Judged
<1>12. Ended'
  BY <1>1, <1>2 DEF Ended, ExitZeroIsQuiet
<1> QED
  BY <1>3, <1>4, <1>5, <1>6, <1>7, <1>8, <1>9, <1>10, <1>11, <1>12

\* The report: a phase that failed, or whose results tell of a violation, blocks, and so does a directory left behind.
LEMMA MakeReportKeeps == IInv /\ MakeReport => IInv'
<1> SUFFICES ASSUME IInv, MakeReport PROVE IInv'
  OBVIOUS
<1> USE DEF IInv
<1>1. /\ UNCHANGED <<inp, plan, policy, tag, retags, materialized, dir, files, observer, phases, rescan, queue, client,
                     containers, sink, scanned, written>>
      /\ pc = "report" /\ pc' = "done" /\ exit' = IF "block" \in report' THEN 1 ELSE 0
  BY DEF MakeReport, history, world
<1>2. queue = NULL /\ client = 0 /\ pc \notin Stopped
  BY <1>1 DEF Staged, DockerPhases, Stopped
<1> DEFINE verdicts == {"pass", "warn", "block"}
<1>3. report' \subseteq verdicts
  <2>1. /\ fetch_checks \subseteq verdicts /\ probe_checks \subseteq verdicts /\ execution_checks \subseteq verdicts
        /\ behaviour_checks \subseteq verdicts
    BY DEF fetch_checks, probe_checks, execution_checks, behaviour_checks, PhaseCheck, ObservationCheck
  <2>2. /\ rescan_check \in verdicts /\ dynamic_external_communication \in verdicts
        /\ dynamic_secret_access \in verdicts /\ disposable_workspace \in verdicts /\ image_policy \in verdicts
    BY DEF rescan_check, dynamic_external_communication, dynamic_secret_access, disposable_workspace, image_policy,
           ObservationCheck
  <2>3. plan.approval.status \in verdicts
    BY <1>1 DEF PlanMade
  <2> DEFINE checks == fetch_checks \cup probe_checks \cup execution_checks \cup behaviour_checks
             results == {rescan_check, dynamic_external_communication, dynamic_secret_access, disposable_workspace,
                         image_policy, plan.approval.status, "warn"}
  <2>4. report' = checks \cup results
    BY DEF MakeReport
  <2>5. checks \subseteq verdicts /\ results \subseteq verdicts
    BY <2>1, <2>2, <2>3
  <2> HIDE DEF checks, results, verdicts
  <2> QED
    BY <2>4, <2>5
<1>4. Types'
  <2>1. TypeOK'
    BY <1>1, <1>3 DEF Types, TypeOK
  <2> QED
    BY <1>1, <2>1 DEF Types, Container, Artifacts
<1>5. PlanMade'
  BY <1>1, PlanKept
<1>6. ImageKept'
  BY <1>1 DEF ImageKept
<1>7. Staged'
  <2>1. \A p \in DockerPhases : pc' \notin Before[p] \cup {p}
    BY <1>1 DEF DockerPhases, Before
  <2> QED
    BY <1>1, <1>2, <2>1 DEF Staged
<1>8. Prepared'
  BY <1>1 DEF Prepared, CommandsOf, GateOpen
<1>9. LeftBehind'
  BY <1>1, <1>2 DEF LeftBehind
<1>10. Rescanned'
  BY <1>1 DEF Rescanned, RepoPhases
<1>11. Watched'
  BY <1>1, <1>2 DEF Watched
<1>12. ASSUME NEW p \in RepoPhases
       PROVE  Judged(p)'
  <2>1. pc # p
    BY <1>1 DEF RepoPhases
  <2>2. \A i : Quiet(i)' <=> Quiet(i)
    BY <1>1, QuietKept
  <2> QED
    BY <1>1, <1>2, <2>1, <2>2 DEF Judged
<1>13. ExitZeroIsQuiet'
  <2> SUFFICES ASSUME "block" \notin report' PROVE ExitZeroIsQuiet'
    BY <1>1 DEF ExitZeroIsQuiet
  <2>1. /\ disposable_workspace # "block"
        /\ "block" \notin fetch_checks /\ "block" \notin probe_checks /\ "block" \notin execution_checks
    BY DEF MakeReport
  <2>2. dir' = "removed"
    BY <1>1, <2>1 DEF Ended, disposable_workspace
  <2>3. \A p \in RepoPhases : phases[p].status \notin {"blocked", "failed"}
    <3>1. \A p \in RepoPhases : PhaseCheck(p, {"passed"}, {"blocked", "failed"}) # "block"
      BY <2>1 DEF execution_checks
    <3> QED
      BY <3>1 DEF PhaseCheck
  <2>4. phases["phase1"].status # "failed" /\ phases["smoke"].status # "failed"
    <3>1. /\ PhaseCheck("phase1", {"passed", "not_required"}, {"failed"}) # "block"
          /\ PhaseCheck("smoke", {"passed"}, {"blocked", "failed"}) # "block"
      BY <2>1 DEF fetch_checks, probe_checks
    <3> QED
      BY <3>1 DEF PhaseCheck
  <2>5. ASSUME NEW i \in DOMAIN containers, containers[i].phase # "preflight"
        PROVE  ~ containers[i].live
    <3>1. containers[i].phase \in DockerPhases /\ i # client
      BY <1>2, ContainersTyped
    <3>2. phases[containers[i].phase].status # "failed"
      BY <2>3, <2>4, <2>5, <3>1 DEF DockerPhases, RepoPhases
    <3> QED
      BY <1>2, <2>5, <3>1, <3>2 DEF LeftBehind
  <2>6. ASSUME NEW i \in DOMAIN containers, containers[i].phase \in RepoPhases
        PROVE  Quiet(i)
    <3> DEFINE p == containers[i].phase
    <3>1. i # client /\ p # pc
      BY <1>1, <1>2, <2>6, ContainersTyped DEF RepoPhases
    <3>2. CASE Told(phases[p].results, {"observer_blocked"})
      <4>1. phases[p].results # <<>> /\ DynamicOverall(phases[p].results) = "blocked"
        BY <3>2 DEF Told, DynamicOverall
      <4> QED
        BY <1>2, <2>3, <2>6, <3>1, <4>1 DEF Judged
    <3> QED
      BY <1>2, <2>3, <2>6, <3>1, <3>2 DEF Judged
  <2>7. \A i : Quiet(i)' <=> Quiet(i)
    BY <1>1 DEF Quiet, HooksLost, TraceLost
  <2> QED
    BY <1>1, <2>2, <2>5, <2>6, <2>7 DEF ExitZeroIsQuiet
<1>14. Ended'
  BY <1>1, <1>13 DEF Ended
<1> QED
  BY <1>4, <1>5, <1>6, <1>7, <1>8, <1>9, <1>10, <1>11, <1>12, <1>14

(***************************************************************************)
(* The theorems                                                            *)
(***************************************************************************)
\* A step that changes nothing.
LEMMA StutterKeeps == IInv /\ UNCHANGED vars => IInv'
<1> SUFFICES ASSUME IInv, UNCHANGED vars PROVE IInv'
  OBVIOUS
<1> USE DEF IInv
<1>1. UNCHANGED <<inp, pc, plan, policy, tag, retags, materialized, dir, files, observer, phases, rescan, queue, client,
                  containers, sink, report, exit, scanned, written>>
  BY DEF vars
<1>2. Types'
  <2>1. TypeOK'
    BY <1>1 DEF Types, TypeOK
  <2> QED
    BY <1>1, <2>1 DEF Types, Container, Artifacts
<1>3. PlanMade'
  <2>1. CASE pc = "plan"
    BY <1>1, <2>1 DEF PlanMade
  <2> QED
    BY <1>1, <2>1, PlanKept
<1>4. ImageKept'
  BY <1>1 DEF ImageKept
<1>5. Staged'
  BY <1>1 DEF Staged, CommandsOf, GateOpen
<1>6. Prepared' /\ LeftBehind'
  BY <1>1 DEF Prepared, LeftBehind, CommandsOf, GateOpen
<1>7. Rescanned' /\ Watched'
  BY <1>1 DEF Rescanned, Watched
<1>8. \A i : Quiet(i)' <=> Quiet(i)
  BY <1>1, QuietKept
<1>9. Ended' /\ \A p \in RepoPhases : Judged(p)'
  BY <1>1, <1>8 DEF Ended, ExitZeroIsQuiet, Judged
<1> QED
  BY <1>2, <1>3, <1>4, <1>5, <1>6, <1>7, <1>8, <1>9

\* IInv is an invariant of run_sandbox and its containers.
THEOREM Invariance == Spec => []IInv
<1>1. IInv /\ [Next]_vars => IInv'
  <2> SUFFICES ASSUME IInv, [Next]_vars PROVE IInv'
    OBVIOUS
  <2>1. CASE Steps
    BY <2>1, MakePlanKeeps, MaterializeKeeps, BeginKeeps, LaunchKeeps, HostFailsKeeps, TimeoutKeeps, FinishPhaseKeeps,
       RescanKeeps, CleanupKeeps, MakeReportKeeps DEF Steps
  <2>2. CASE \E code \in {0, 1} : Return(code)
    BY <2>2, ReturnKeeps
  <2>3. CASE \E i \in DOMAIN containers : ContainerActs(i) \/ ContainerExits(i)
    BY <2>3, ContainerActsKeeps, ContainerExitsKeeps
  <2>4. CASE Retag
    BY <2>4, RetagKeeps
  <2>5. CASE UNCHANGED vars
    BY <2>5, StutterKeeps
  <2> QED
    BY <2>1, <2>2, <2>3, <2>4, <2>5 DEF Next
<1> QED
  BY <1>1, InitHolds, PTL DEF Spec

\* What runs is what was approved: an approval file names each command of the repository that runs and describes this
\* invocation, and a sanctioned local image is the one that runs until somebody moves its tag (apply_approvals,
\* evaluate_image_policy, the gates of phases 2 and 3).
THEOREM RunsAsApprovedHolds == Spec => []RunsAsApproved
<1>1. IInv => RunsAsApproved
  <2> SUFFICES ASSUME IInv PROVE RunsAsApproved
    OBVIOUS
  <2> USE DEF IInv
  <2>1. RepoCodeApproved
    <3> SUFFICES ASSUME NEW i \in DOMAIN containers, containers[i].phase \in RepoPhases
                 PROVE  ApprovedFor(containers[i].command)
      BY DEF RepoCodeApproved, RepoContainers, ApprovedFor
    <3>1. pc # "plan"
      BY DEF ImageKept
    <3> QED
      BY <3>1 DEF Prepared, PlanMade
  <2>2. ExpectedImageRuns
    <3>1. CASE pc = "plan"
      BY <3>1 DEF ImageKept, ExpectedImageRuns
    <3>2. CASE pc # "plan"
      BY <3>2 DEF ImageKept, ExpectedImageRuns
    <3> QED
      BY <3>1, <3>2
  <2> QED
    BY <2>1, <2>2 DEF RunsAsApproved
<1> QED
  BY <1>1, Invariance, PTL

\* Before code of the repository runs, its dependencies were fetched or it needs none, everything fetched was rescanned
\* and found harmless, and no container with network access runs beside it, a fetch abandoned at its timeout included.
THEOREM RepoCodeIsPreparedHolds == Spec => []RepoCodeIsPrepared
<1>1. IInv => RepoCodeIsPrepared
  <2> SUFFICES ASSUME IInv PROVE RepoCodeIsPrepared
    OBVIOUS
  <2> USE DEF IInv
  <2>1. \A c \in RepoContainers : ~ c.beside /\ c.base \subseteq scanned \cup written /\ GateOpen
    BY DEF Prepared, RepoContainers
  <2>2. UnfetchedIsSelfContained
    <3> SUFFICES ASSUME phases["phase1"].status # "passed", RepoContainers # {}
                 PROVE  SelfContained(inp.repo)
      BY DEF UnfetchedIsSelfContained, SelfContained
    <3>1. phases["phase1"].status = "not_required"
      BY <2>1 DEF GateOpen, phase1_satisfies_dynamic_gate
    <3> QED
      BY <3>1 DEF Staged, PlanMade
  <2>3. RescannedBeforeRun
    BY <2>1 DEF RescannedBeforeRun, Rescanned, GateOpen, Harmless
  <2>4. RepoCodeIsolated
    BY <2>1 DEF RepoCodeIsolated
  <2> QED
    BY <2>2, <2>3, <2>4 DEF RepoCodeIsPrepared
<1> QED
  BY <1>1, Invariance, PTL

\* In a phase of repository commands that passed, no command did anything the trace records, and one that began with
\* empty observer files did run to where the trace begins (run_dynamic_phase).
THEOREM PassedIsObservedHolds == Spec => []PassedIsObserved
<1>1. IInv => PassedIsObserved
  <2> SUFFICES ASSUME IInv, NEW p \in RepoPhases, phases[p].status = "passed",
                      NEW i \in DOMAIN containers, containers[i].phase = p
               PROVE  Unremarkable(containers[i])
    BY DEF PassedIsObserved, RepoContainers, Unremarkable
  <2> USE DEF IInv
  <2>1. pc # p
    BY DEF Staged, NotYet, RepoPhases, DockerPhases
  <2>2. i # client
    BY <2>1, ContainersTyped DEF Staged
  <2>3. Unremarkable(containers[i]) \/ Told(phases[p].results, Shortfalls)
    BY <2>2 DEF Judged
  <2>4. CASE Told(phases[p].results, Shortfalls)
    <3>1. phases[p].results # <<>> /\ DynamicOverall(phases[p].results) # "passed"
      BY <2>4 DEF Told, DynamicOverall, Shortfalls
    <3> QED
      BY <2>1, <3>1 DEF Judged
  <2> QED
    BY <2>3, <2>4
<1> QED
  BY <1>1, Invariance, PTL

\* run_sandbox leaves no directory behind unless rmtree failed, and exits with 0 only if no observer recorded a
\* violation in a file that could be read after the command, no container of a fetch or of the repository still runs
\* and the directory is gone.  An event file of the hooks or a trace that could not be read is the exception: the
\* command's own result says so (read_error, syscall_read_error_count), the exit code does not.
THEOREM EndIsCleanHolds == Spec => []EndIsClean
<1>1. IInv => EndIsClean
  <2> SUFFICES ASSUME IInv PROVE EndIsClean
    OBVIOUS
  <2> USE DEF IInv
  <2>1. TypeOK /\ ExitZeroIsQuiet
    BY DEF Types, Ended
  <2>2. AlwaysCleaned
    BY DEF AlwaysCleaned, Ended
  <2> QED
    BY <2>1, <2>2 DEF EndIsClean
<1> QED
  BY <1>1, Invariance, PTL
=============================================================================
