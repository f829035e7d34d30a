----------------------------- MODULE MCGateCheck -----------------------------
EXTENDS GateCheck

Clean == {[name |-> "ci", status |-> "pass", findings |-> {}]}
Blocking == {[name |-> "secrets_scan", status |-> "block",
    findings |-> {[severity |-> "block", allowed |-> FALSE, words |-> {}]}]}

Target(n, checks) ==
    [repo |-> "f_repo", commit |-> n, kind |-> "git_commit", tree |-> n, id |-> "f_id_" \o n,
     manifest |-> "f_m_" \o n, checks |-> checks, hooks |-> FALSE, build_hook |-> FALSE,
     texts |-> {}, workflow |-> {}, demo |-> FALSE, tracks_authorization |-> FALSE]

\* One supply-chain shape warns, two quarantine
Shaped == [Target("c3", Clean) EXCEPT !.hooks = TRUE, !.texts = {{"network_request"}}]
Tracking == [Target("c4", Clean) EXCEPT !.tracks_authorization = TRUE]
Plain == [Target("c5", Clean) EXCEPT !.kind = "local_path", !.commit = NULL, !.tree = NULL]

MCFingerprint == {"f_repo", "f_gate", "f_r1", "f_r2"}
    \cup UNION {{"f_id_" \o n, "f_m_" \o n} : n \in {"c1", "c2", "c3", "c4", "c5"}}

Result == [shape |-> TRUE, outcome |-> NoFindings, completed |-> TRUE,
    mode |-> "local_static_no_network", network |-> FALSE, executed |-> FALSE, retained |-> FALSE,
    unsupported |-> FALSE, authorized |-> FALSE, limits |-> "listed", low_trust |-> FALSE,
    safe_mapping |-> TRUE, redaction |-> {}, primary |-> {}, secondary |-> {}, tokens |-> {},
    relations |-> {}, unknown_names |-> FALSE, binary |-> "verified"]
Entry(status) == [valid |-> TRUE, status |-> status, finding_count |-> 0, truncated |-> FALSE,
                  result |-> Result]

SuiteFile(p, n, status) ==
    [path |-> p, size |-> 1,
     report |-> [shape |-> TRUE, fp |-> "f_s_" \o n \o status, honest |-> TRUE, born |-> 0,
                 subject |-> [repo_commit |-> n, dirty_state |-> "clean"],
                 truncated |-> FALSE, entries |-> {Entry(status)}]]

MCSuiteFiles == {SuiteFile("p1", "c1", "completed"), SuiteFile("p1", "c2", "completed"),
    SuiteFile("p1", "c1", "unknown"), [path |-> "p1", size |-> 1, report |-> NULL]}
MCTwoSuites == {SuiteFile("p1", "c1", "completed"), SuiteFile("p2", "c1", "completed"),
    [SuiteFile("p2", "c1", "completed") EXCEPT !.report.fp = "f_s_other"]}

SandboxFile(p, fp) ==
    [path |-> p, size |-> 2,
     report |-> [shape |-> TRUE, fp |-> fp, honest |-> TRUE, born |-> 0, truncated |-> FALSE,
                 subject |-> SnapshotGateSubject(Snapshot(Target("c1", Clean))),
                 policy |-> "0.1", gate |-> "f_gate", blocked |-> FALSE, timed_out |-> FALSE,
                 cleanup_failed |-> FALSE, observer |-> "ok", bound |-> "matched", real |-> TRUE]]

MCSandboxFiles == {SandboxFile("q1", "f_r1"), [SandboxFile("q1", "f_r1") EXCEPT !.report = NULL],
    SandboxFile("q2", "f_r1"), SandboxFile("q2", "f_r2"),
    [SandboxFile("q2", "f_r2") EXCEPT !.report.cleanup_failed = TRUE],
    [SandboxFile("q2", "f_r2") EXCEPT !.size = 3]}

MCTrees == {Target("c1", Clean), Target("c2", Blocking), Shaped, Tracking, Plain}
MCFiles == MCSuiteFiles \cup MCTwoSuites \cup MCSandboxFiles

(***************************************************************************)
(* Command lines: one suite with every command and threshold; two suites   *)
(* and two sandbox reports; a check without a command.                     *)
(***************************************************************************)
Command(argv, fail_on, explicit) ==
    [argv |-> argv, explicit |-> explicit, no_discover |-> FALSE, fail_on |-> fail_on,
     external |-> <<"p1">>, sandbox |-> <<>>]
NoDiscovery(a) == [a EXCEPT !.no_discover = TRUE]
OneSuiteArgs ==
    {Command("a", "quarantine", TRUE), Command("a", "quarantine", FALSE), Command("b", "quarantine", TRUE),
     Command("a", "unknown", TRUE), NoDiscovery(Command("a", "quarantine", FALSE))}
Plenty == [Command("a", "quarantine", FALSE) EXCEPT !.external = <<"p1", "p2">>, !.sandbox = <<"q1", "q2">>]
Uncommanded == Command(NULL, "quarantine", FALSE)
MCArgs == OneSuiteArgs \cup {Plenty, Uncommanded}

MCImages == {NULL, [ref |-> "img", id |-> "id"]}

Paths == {"p1", "p2", "q1", "q2"}
At(p) == {f \in MCFiles : f.path = p} \cup {NULL}
OneFile == {[p \in Paths |-> IF p = "p1" THEN f ELSE NULL] : f \in At("p1")}
FourFiles == {[p \in Paths |-> CASE p = "p1" -> SuiteFile("p1", "c1", "completed") [] p = "p2" -> f
                                  [] p = "q1" -> g [] OTHER -> h] : f \in At("p2"), g \in At("q1"), h \in At("q2")}
MCFirstFiles == OneFile \cup FourFiles

\* One suite at a time, over every target; or all four files over one clean target
OneOrFour ==
    \/ files \in OneFile /\ args # Plenty
    \/ tree.commit = "c1" /\ files \notin OneFile /\ args \in {NULL, Plenty}
=============================================================================
