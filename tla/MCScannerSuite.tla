--------------------------- MODULE MCScannerSuite ---------------------------
EXTENDS ScannerSuite

Args(scanners, per, suite, bytes) ==
    [scanners |-> scanners, offline |-> FALSE, per_scanner |-> per, suite |-> suite, bytes |-> bytes,
     fail_on_degraded |-> TRUE, direct |-> FALSE]

All == <<"gitleaks", "osv-scanner", "trivy">>
Wide == 1000

SuiteArgs == {
    Args(All, 2, 3, Wide),
    [Args(<<"trivy", "gitleaks">>, 2, 3, Wide) EXCEPT !.offline = TRUE],
    [Args(<<"osv-scanner", "gitleaks">>, 1, 3, Wide) EXCEPT !.fail_on_degraded = FALSE],
    Args(<<"gitleaks", "other">>, 2, 3, Wide),
    Args(<<"gitleaks">>, 0, 3, Wide),
    [Args(<<"gitleaks">>, 1, 1, 1) EXCEPT !.direct = TRUE],
    [Args(<<"trivy">>, 1, 1, 1) EXCEPT !.direct = TRUE]}

\* Budgets around the size of a report of two scanners with up to three findings
ByteArgs == {Args(<<"gitleaks", "trivy">>, 2, 3, bytes) : bytes \in {75, 100, 125, 132, 150, 175, 200}}

Exits(code) == [kind |-> "exit", code |-> code, version |-> "unparseable"]
MCPreflights == {[kind |-> "timeout"], [kind |-> "raises"], Exits(1)}
    \cup {[Exits(0) EXCEPT !.version = v] : v \in {"tested", "compatible_family_unverified", "denylisted"}}
NoFile == [file |-> FALSE]
Gitleaks(findings) == [file |-> TRUE, json |-> TRUE, findings |-> findings]
Osv(results) == [file |-> TRUE, json |-> TRUE, results |-> results]
Trivy(results) == [file |-> TRUE, json |-> TRUE, results |-> results]

\* Texts: harmless, below a home, another absolute path, an address, a URL, a text with a URL inside
Plain == {}
Home == {"host_path", "home_path"}
Absolute == {"host_path"}
Address == {"local_ip"}
Url == {"url", "url_start"}
Linking == {"url"}

Leak(id) == [minimal |-> TRUE, id |-> id, path |-> Home]
Vulnerability(id, database, severity) ==
    [minimal |-> TRUE, id |-> id, path |-> Plain, database |-> database, severity |-> severity]
Score(n) == [form |-> "number", score |-> n]
Package(vulnerabilities) == [minimal |-> TRUE, vulnerabilities |-> vulnerabilities]
Issue(kind, severity) == [minimal |-> TRUE, id |-> Address, path |-> Linking, kind |-> kind, severity |-> severity]
TrivyResult(v, m, s) == [vulnerabilities |-> v, misconfigurations |-> m, secrets |-> s, licenses |-> <<>>]

Exit(code, report) == [kind |-> "exit", code |-> code, report |-> report]
Answers(exits) == exits \cup {[kind |-> kind] : kind \in {"absent", "timeout", "raises"}}

GitleaksExits == {
    Exit(0, Gitleaks(<<>>)), Exit(0, Gitleaks(<<Leak(Plain)>>)), Exit(0, NoFile), Exit(126, NoFile),
    Exit(2, Gitleaks(<<Leak(Absolute)>>)), Exit(2, Gitleaks(<<Leak(Plain), Leak(Home)>>)),
    Exit(2, Gitleaks(<<[Leak(Plain) EXCEPT !.minimal = FALSE]>>))}
OsvExits == {
    Exit(0, Osv(<< <<>> >>)), Exit(0, [Osv(<<>>) EXCEPT !.json = FALSE]), Exit(1, Osv(<<>>)), Exit(128, NoFile),
    Exit(1, Osv(<< <<Package(<<Vulnerability(Url, "LOW", <<Score(21), Score(98)>>)>>)>>,
                   <<Package(<<>>), Package(<<Vulnerability({"secret"}, NULL, <<Score(90)>>)>>)>> >>))}
TrivyExits == {
    Exit(0, Trivy(<<TrivyResult(<<>>, <<>>, <<>>)>>)), Exit(127, NoFile),
    Exit(1, Trivy(<<TrivyResult(<<Issue("vulnerability", "HIGH"), [Issue("vulnerability", "CRITICAL") EXCEPT !.path = Url]>>,
                                <<>>, <<Issue("secret", "HIGH")>>)>>)),
    Exit(1, Trivy(<<TrivyResult(<<>>, <<[Issue("misconfiguration", "LOW") EXCEPT !.minimal = FALSE]>>, <<>>)>>))}

MCScans == [s \in RealScanners |->
    Answers(CASE s = "gitleaks" -> GitleaksExits [] s = "osv-scanner" -> OsvExits [] s = "trivy" -> TrivyExits)]

MCArgs == SuiteArgs \cup ByteArgs
MCStamps == {25, 32}
=============================================================================
